--------------------------- MODULE VmCalls_proofs ---------------------------
(***************************************************************************)
(* The machine and its calls, for every program and every size of the      *)
(* stack. First its type invariant: whatever program runs, right or wrong, *)
(* every cell of the array holds a byte and the array keeps its extent.    *)
(* Then, while a program keeps the rules, the bytes its calls leave on the *)
(* heap spell its callers' registers, and so the machine implements        *)
(* CallStack.                                                              *)
(***************************************************************************)
EXTENDS VmCalls, FiniteSetTheorems, SequenceTheorems, TLAPS

(* A memory: a function, on whatever cells, that holds bytes.               *)
IsMem(m) == m \in [DOMAIN m -> Byte]

(* A cell, and a byte of the constant block, holds a byte (vm_exe.c:98).    *)
LEMMA GetByte ==
  ASSUME NEW m, IsMem(m), junk \in Byte, NEW a
  PROVE  Get(m, a) \in Byte
BY DEF Get, IsMem

(* So is a byte of the constant block.                                     *)
LEMMA ConstIsByte ==
  ASSUME IsProgram(prog), junk \in Byte, NEW a
  PROVE  ConstByte(a) \in Byte
<1>1. \A i \in DOMAIN prog.const : prog.const[i] \in Byte
  BY DEF IsProgram
<1>2. CASE a \in DOMAIN prog.const
  BY <1>1, <1>2 DEF ConstByte
<1>3. CASE a \notin DOMAIN prog.const
  BY <1>3 DEF ConstByte
<1>4. QED
  BY <1>2, <1>3

(* Reading n cells gives a sequence of n bytes (vm_exe.c:98-160).           *)
LEMMA BytesAreSeq ==
  ASSUME NEW n \in Nat, NEW f \in [1..n -> Byte]
  PROVE  f \in Seq(Byte) /\ Len(f) = n
OBVIOUS

(* What is read is a sequence of bytes.                                    *)
LEMMA ReadBytes ==
  ASSUME NEW m, IsMem(m), junk \in Byte, NEW a \in Int, NEW n \in Nat
  PROVE  Read(m, a, n) \in Seq(Byte) /\ Len(Read(m, a, n)) = n
<1>1. Read(m, a, n) \in [1..n -> Byte]
  BY GetByte DEF Read
<1>2. QED
  BY <1>1, BytesAreSeq

(* Writing bytes keeps a memory a memory (vm_exe.c:107-115).                *)
LEMMA WriteMem ==
  ASSUME NEW m, IsMem(m), NEW a \in Int, NEW bs \in Seq(Byte)
  PROVE  IsMem(Write(m, a, bs))
<1> DEFINE cells == a .. (a + Len(bs) - 1)
<1>1. \A x \in cells : bs[x - a + 1] \in Byte
  OBVIOUS
<1>2. \A x \in (DOMAIN m \cup cells) \ cells : m[x] \in Byte
  BY DEF IsMem
<1>3. QED
  BY <1>1, <1>2 DEF Write, IsMem

(* A number is spelled in bytes, whatever its size.                        *)
LEMMA NumBytesType ==
  ASSUME NEW v \in Int
  PROVE  Flip(NumBytes(v)) \in Seq(Byte)
<1>1. \A i \in 1..4 : (v \div Weight[i]) % 256 \in Byte
  BY DEF Weight, Byte
<1>2. Flip(NumBytes(v)) \in [1..4 -> Byte]
  BY <1>1 DEF Flip, NumBytes, FptBytes
<1>3. QED
  BY <1>2, BytesAreSeq

(* So is an address.                                                       *)
LEMMA AddrBytesType ==
  ASSUME NEW v \in Int
  PROVE  AddrBytes(v) \in Seq(Byte)
BY DEF AddrBytes, Byte

(* Bytes spell a number.                                                   *)
LEMMA BytesNumType ==
  ASSUME NEW b, \A i \in 1..4 : b[i] \in Byte
  PROVE  BytesNum(b) \in Int
<1> DEFINE high == IF b[4] < 128 THEN b[4] ELSE b[4] - 256
<1>1. b[1] \in Int /\ b[2] \in Int /\ b[3] \in Int /\ high \in Int
  BY DEF Byte
<1> HIDE DEF high
<1>2. b[1] + 256 * b[2] + 65536 * b[3] + 16777216 * high \in Int
  BY <1>1, SMT
<1>3. QED
  BY <1>2 DEF BytesNum, high

(* There is a number wherever sp points.                                   *)
LEMMA StackTopType ==
  ASSUME NEW m, IsMem(m), junk \in Byte, NEW s \in Int
  PROVE  StackTop(m, s) \in Int
<1> DEFINE b == Flip(Read(m, s + 1, FptBytes))
<1>1. \A i \in 1..4 : Read(m, s + 1, FptBytes)[i] \in Byte
  BY GetByte DEF Read, FptBytes
<1>2. \A i \in 1..4 : b[i] \in Byte
  BY <1>1 DEF Flip, FptBytes
<1> HIDE DEF b
<1>3. BytesNum(b) \in Int
  BY <1>2, BytesNumType
<1>4. QED
  BY <1>3 DEF StackTop, b

-----------------------------------------------------------------------------
(* The pushes, the pops and the pointers keep a memory a memory.            *)
LEMMA PushNumMem ==
  ASSUME NEW m, IsMem(m), NEW s \in Int, NEW v \in Int
  PROVE  IsMem(PushNum(m, s, v))
BY WriteMem, NumBytesType DEF PushNum, FptBytes

(* Turning a number round leaves it bytes.                                 *)
LEMMA FlippedRead ==
  ASSUME NEW m, IsMem(m), junk \in Byte, NEW a \in Int
  PROVE  Flip(Read(m, a, FptBytes)) \in Seq(Byte)
<1>1. \A i \in 1..4 : Read(m, a, FptBytes)[i] \in Byte
  BY GetByte DEF Read, FptBytes
<1>2. Flip(Read(m, a, FptBytes)) \in [1..4 -> Byte]
  BY <1>1 DEF Flip, FptBytes
<1>3. QED
  BY <1>2, BytesAreSeq

(* Moving a number between variables and stack.                            *)
LEMMA PushVarMem ==
  ASSUME NEW m, IsMem(m), junk \in Byte, NEW s \in Int, NEW a \in Int
  PROVE  IsMem(PushVar(m, s, a)) /\ IsMem(PopVarTo(m, s, a))
BY WriteMem, FlippedRead DEF PushVar, PopVarTo, FptBytes

(* Popping a pointer.                                                      *)
LEMMA PntMemMem ==
  ASSUME NEW m, IsMem(m), junk \in Byte, NEW s \in Int
  PROVE  IsMem(PntMem(m, s))
<1>1. Get(m, s + 1) % 16 \in Byte /\ Get(m, s + 2) \in Byte /\ Get(m, s + 3) \in Byte
  BY GetByte DEF Byte
<1>2. /\ <<Get(m, s + 1) % 16>> \in Seq(Byte)
      /\ <<Get(m, s + 1) % 16, Get(m, s + 3), Get(m, s + 2)>> \in Seq(Byte)
  BY <1>1
<1>3. /\ IsMem(Write(m, s + 1, <<Get(m, s + 1) % 16>>))
      /\ IsMem(Write(m, s + 1, <<Get(m, s + 1) % 16, Get(m, s + 3), Get(m, s + 2)>>))
  <2>1. s + 1 \in Int
    OBVIOUS
  <2>2. QED
    BY <1>2, <2>1, WriteMem
<1>4. QED
  BY <1>3 DEF PntMem

(* The size, the bytes and the width of what a pointer points to.          *)
LEMMA PntTypes ==
  ASSUME TypeOK, NEW m, IsMem(m), NEW s \in Int, NEW i
  PROVE  PntSize(m, s) \in Byte /\ PntByte(m, s, i) \in Byte /\ PntWidth(m, s) \in Int
<1>1. IsMem(PntMem(m, s)) /\ junk \in Byte
  BY PntMemMem DEF TypeOK
<1>2. PntSize(m, s) \in Byte
  BY <1>1, GetByte, ConstIsByte DEF PntSize, TypeOK, Byte
<1>3. PntByte(m, s, i) \in Byte
  BY <1>1, GetByte, ConstIsByte DEF PntByte, TypeOK
<1>4. QED
  BY <1>2, <1>3 DEF PntWidth

-----------------------------------------------------------------------------
(* A 16 bit word of a program's header is a natural (shared/vm_config.h:14). *)
LEMMA WordIsInt == \A w \in Word : w \in Nat
BY SMTT(90) DEF Word

(* What every cycle has at hand, and what it leaves (vm_exe.c:519-541,      *)
(* 1006-1028).                                                              *)
LEMMA OperandTypes ==
  ASSUME TypeOK, NEW ops, Decode(ops)
  PROVE  /\ I.op \in Op /\ I.arg \in Int /\ I.byte \in Byte
         /\ VarOffs \in Int /\ CmdSize(I.op) \in Nat
         /\ IsMem(mem) /\ junk \in Byte /\ sp \in Int /\ hp \in Int /\ ip \in Int
<1>1. Code \in [DOMAIN Code -> Instr] /\ ip \in DOMAIN Code
  BY DEF TypeOK, IsProgram, Decode, Code
<1>2. I \in Instr
  BY <1>1 DEF I
<1>3. I.op \in Op /\ I.arg \in Int /\ I.byte \in Byte
  BY <1>2 DEF Instr
<1>4. VarOffs \in Int
  BY <1>3 DEF VarOffs, TypeOK
<1>5. CmdSize(I.op) \in Nat
  BY DEF CmdSize
<1>6. IsMem(mem)
  BY DEF TypeOK, IsMem
<1>7. QED
  BY <1>3, <1>4, <1>5, <1>6 DEF TypeOK

(* The end of the cycle: outside writes leave the array as it was.         *)
LEMMA CycleTypes ==
  ASSUME TypeOK, NEW ops, Decode(ops),
         NEW m, IsMem(m), NEW s \in Int, NEW h \in Int, NEW i \in Int, NEW len \in Int,
         NEW r \in ErrCodes, EndOfCycle(m, s, h, i, len, r),
         vars_base' \in Int, recurs_cnt' \in Nat, line_num' \in Int
  PROVE  TypeOK'
<1>1. /\ prog' = prog /\ print_stat' = print_stat /\ junk' = junk /\ by_step' \in BOOLEAN
  BY DEF Decode, TypeOK
<1>2. StackSize \in Int /\ MemAddr' = MemAddr
  <2>1. prog.heap_min_size \in Int
    BY WordIsInt DEF TypeOK, IsProgram
  <2>2. StackSizeMin \in Int
    BY VmAssumption
  <2>3. QED
    BY <1>1, <2>1, <2>2 DEF MemAddr, StackSize
<1>3. mem' \in [MemAddr -> Byte]
  BY DEF EndOfCycle, TypeOK, IsMem
<1>4. ret' \in ErrCodes \cup Wild /\ running' \in BOOLEAN /\ (running' => ret' = "ec_ok")
  BY DEF EndOfCycle, ErrCodes, Wild
<1>5. sp' \in Int /\ hp' \in Int /\ ip' \in Int
  BY <1>2 DEF EndOfCycle
<1>6. QED
  BY <1>1, <1>2, <1>3, <1>4, <1>5 DEF TypeOK

(* The same for a handler that leaves hp and ip to the cycle.              *)
LEMMA HandledTypes ==
  ASSUME TypeOK, NEW ops, Decode(ops),
         NEW m, IsMem(m), NEW s \in Int, NEW r \in ErrCodes, Handled(m, s, r)
  PROVE  TypeOK'
<1>1. vars_base' \in Int /\ recurs_cnt' \in Nat /\ line_num' \in Int
  BY DEF Handled, TypeOK
<1>2. EndOfCycle(m, s, hp, ip, CmdSize(I.op), r)
  BY DEF Handled
<1>3. hp \in Int /\ ip \in Int /\ CmdSize(I.op) \in Int
  BY OperandTypes
<1>4. QED
  BY <1>1, <1>2, <1>3, CycleTypes

(* A byte stored alone.                                                     *)
LEMMA StoreByteMem ==
  ASSUME NEW m, IsMem(m), NEW a \in Int, NEW b \in Byte
  PROVE  IsMem(Write(m, a, <<b>>))
<1>1. <<b>> \in Seq(Byte)
  OBVIOUS
<1>2. QED
  BY <1>1, WriteMem

-----------------------------------------------------------------------------
(* One lemma for each kind of instruction: it keeps the types.              *)
LEMMA InitVarTypes ==
  ASSUME TypeOK, InitVar
  PROVE  TypeOK'
<1> DEFINE cell  == IF I.op = "INIT_gVAR" THEN FptBytes ELSE 1
           bytes == IF I.byte > 0 THEN 1 + I.byte * cell ELSE cell
           m     == IF I.byte > 0 THEN Write(mem, VarOffs, <<I.byte>>) ELSE mem
<1>1. Decode({"INIT_gVAR", "INIT_bVAR"})
  BY DEF InitVar
<1>2. IsMem(m) /\ VarOffs + bytes \in Int /\ CmdSize(I.op) \in Int
  <2>1. IsMem(m)
    BY <1>1, OperandTypes, StoreByteMem
  <2>2. cell \in Int /\ I.byte \in Int /\ VarOffs \in Int /\ CmdSize(I.op) \in Int
    BY <1>1, OperandTypes DEF FptBytes, Byte
  <2> HIDE DEF cell
  <2>3. bytes \in Int
    BY <2>2
  <2>4. QED
    BY <2>1, <2>2, <2>3
<1>3. /\ EndOfCycle(m, sp, VarOffs + bytes, ip, CmdSize(I.op), "ec_ok")
      /\ vars_base' \in Int /\ recurs_cnt' \in Nat /\ line_num' \in Int
      /\ sp \in Int /\ ip \in Int
  BY DEF InitVar, TypeOK
<1>4. "ec_ok" \in ErrCodes
  BY DEF ErrCodes
<1> HIDE DEF m, bytes
<1>5. QED
  BY <1>1, <1>2, <1>3, <1>4, CycleTypes

(* Stores into variables (vm_exe.c:559-653).                               *)
LEMMA StoreTypes ==
  ASSUME TypeOK, LoadByte \/ PopToNowhere \/ PopByte \/ PopVar \/ PopPnt \/ PopByteArrayByIdx
  PROVE  TypeOK'
<1>0. "ec_ok" \in ErrCodes /\ sp \in Int /\ junk \in Byte /\ IsMem(mem)
  BY DEF ErrCodes, TypeOK, IsMem
<1>1. CASE LoadByte
  <2>1. Decode({"LOAD_BYTE"}) /\ Handled(Write(mem, VarOffs, <<I.byte>>), sp, "ec_ok")
    BY <1>1 DEF LoadByte
  <2>2. IsMem(Write(mem, VarOffs, <<I.byte>>))
    BY <2>1, OperandTypes, StoreByteMem
  <2>3. QED
    BY <1>0, <2>1, <2>2, HandledTypes
<1>2. CASE PopToNowhere
  <2>1. Decode({"POP_TO_NOWHERE"}) /\ Handled(mem, sp + FptBytes, "ec_ok")
    BY <1>2 DEF PopToNowhere
  <2>2. sp + FptBytes \in Int
    BY <1>0 DEF FptBytes
  <2>3. QED
    BY <1>0, <2>1, <2>2, HandledTypes
<1>3. CASE PopByte
  <2> DEFINE m == Write(mem, VarOffs, <<StackByte(mem, sp)>>)
  <2>1. Decode({"POP_BYTE"}) /\ Handled(m, sp + FptBytes, "ec_ok")
    BY <1>3 DEF PopByte
  <2>2. IsMem(m) /\ sp + FptBytes \in Int
    BY <1>0, <2>1, OperandTypes, StoreByteMem, GetByte DEF StackByte, FptBytes
  <2> HIDE DEF m
  <2>3. QED
    BY <1>0, <2>1, <2>2, HandledTypes
<1>4. CASE PopVar
  <2>1. Decode({"POP_VAR"}) /\ Handled(PopVarTo(mem, sp, VarOffs), sp + FptBytes, "ec_ok")
    BY <1>4 DEF PopVar
  <2>2. IsMem(PopVarTo(mem, sp, VarOffs)) /\ sp + FptBytes \in Int
    BY <1>0, <2>1, OperandTypes, PushVarMem DEF FptBytes
  <2>3. QED
    BY <1>0, <2>1, <2>2, HandledTypes
<1>5. CASE PopPnt
  <2> DEFINE m == Write(mem, VarOffs, Read(mem, sp + 1, 3))
  <2>1. Decode({"POP_PNT"}) /\ Handled(m, sp + 3, "ec_ok")
    BY <1>5 DEF PopPnt
  <2>2. sp + 1 \in Int /\ sp + 3 \in Int
    BY <1>0
  <2>3. Read(mem, sp + 1, 3) \in Seq(Byte)
    BY <1>0, <2>2, ReadBytes
  <2>4. IsMem(m)
    BY <2>1, <2>3, OperandTypes, WriteMem
  <2> HIDE DEF m
  <2>5. QED
    BY <1>0, <2>1, <2>2, <2>4, HandledTypes
<1>6. CASE PopByteArrayByIdx
  <2> DEFINE arr_idx == StackByte(mem, sp + FptBytes)
             m == Write(mem, VarOffs + arr_idx + 1, <<StackByte(mem, sp)>>)
  <2>1. Decode({"POP_bARRAY_BY_IDX"}) /\ Handled(m, sp + 2 * FptBytes, "ec_ok")
    BY <1>6 DEF PopByteArrayByIdx
  <2>2. arr_idx \in Byte /\ StackByte(mem, sp) \in Byte
    BY <1>0, GetByte DEF StackByte
  <2> HIDE DEF arr_idx
  <2>3. VarOffs + arr_idx + 1 \in Int /\ sp + 2 * FptBytes \in Int
    BY <1>0, <2>1, <2>2, OperandTypes DEF FptBytes, Byte
  <2>4. IsMem(m)
    BY <1>0, <2>2, <2>3, StoreByteMem
  <2> HIDE DEF m
  <2>5. QED
    BY <1>0, <2>1, <2>3, <2>4, HandledTypes
<1>7. QED
  BY <1>1, <1>2, <1>3, <1>4, <1>5, <1>6

(* Pushes of operands (vm_exe.c:654-721).                                  *)
LEMMA PushTypes ==
  ASSUME TypeOK,
         PushNumber \/ PushPnt \/ PushObjPnt \/ PushVariable \/ PushByte \/ PushByteArrayByIdx
  PROVE  TypeOK'
<1>0. /\ "ec_ok" \in ErrCodes /\ sp \in Int /\ junk \in Byte /\ IsMem(mem)
      /\ sp - FptBytes \in Int /\ sp - 3 \in Int /\ sp - 2 \in Int /\ sp + FptBytes \in Int
  BY DEF ErrCodes, TypeOK, IsMem, FptBytes
<1>1. CASE PushNumber
  <2>1. Decode({"PUSH_NUM"}) /\ Handled(PushNum(mem, sp, I.arg), sp - FptBytes, "ec_ok")
    BY <1>1 DEF PushNumber
  <2>2. IsMem(PushNum(mem, sp, I.arg))
    BY <1>0, <2>1, OperandTypes, PushNumMem
  <2>3. QED
    BY <1>0, <2>1, <2>2, HandledTypes
<1>2. CASE PushPnt
  <2> DEFINE m == Write(mem, sp - 2, Read(mem, VarOffs, 3))
  <2>1. Decode({"PUSH_PNT"}) /\ Handled(m, sp - 3, "ec_ok")
    BY <1>2 DEF PushPnt
  <2>2. Read(mem, VarOffs, 3) \in Seq(Byte)
    BY <1>0, <2>1, OperandTypes, ReadBytes
  <2>3. IsMem(m)
    BY <1>0, <2>2, WriteMem
  <2> HIDE DEF m
  <2>4. QED
    BY <1>0, <2>1, <2>3, HandledTypes
<1>3. CASE PushObjPnt
  <2> DEFINE bs == <<I.byte>> \o AddrBytes(VarOffs)
             m  == Write(mem, sp - 2, bs)
  <2>1. Decode({"PUSH_OBJ_PNT"}) /\ Handled(m, sp - 3, "ec_ok")
    BY <1>3 DEF PushObjPnt
  <2>2. <<I.byte>> \in Seq(Byte) /\ AddrBytes(VarOffs) \in Seq(Byte)
    BY <2>1, OperandTypes, AddrBytesType
  <2>3. bs \in Seq(Byte)
    BY <2>2
  <2> HIDE DEF bs
  <2>4. IsMem(m)
    BY <1>0, <2>3, WriteMem
  <2> HIDE DEF m
  <2>5. QED
    BY <1>0, <2>1, <2>4, HandledTypes
<1>4. CASE PushVariable
  <2>1. Decode({"PUSH_VAR"}) /\ Handled(PushVar(mem, sp, VarOffs), sp - FptBytes, "ec_ok")
    BY <1>4 DEF PushVariable
  <2>2. IsMem(PushVar(mem, sp, VarOffs))
    BY <1>0, <2>1, OperandTypes, PushVarMem
  <2>3. QED
    BY <1>0, <2>1, <2>2, HandledTypes
<1>5. CASE PushByte
  <2> DEFINE v == i2fpt(Get(mem, VarOffs))
  <2>1. Decode({"PUSH_BYTE"}) /\ Handled(PushNum(mem, sp, v), sp - FptBytes, "ec_ok")
    BY <1>5 DEF PushByte
  <2>2. v \in Int
    BY <1>0, GetByte DEF i2fpt, FptOne, Byte
  <2> HIDE DEF v
  <2>3. IsMem(PushNum(mem, sp, v))
    BY <1>0, <2>2, PushNumMem
  <2>4. QED
    BY <1>0, <2>1, <2>3, HandledTypes
<1>6. CASE PushByteArrayByIdx
  <2> DEFINE v == i2fpt(Get(mem, VarOffs + StackByte(mem, sp) + 1))
  <2>1. Decode({"PUSH_bARRAY_BY_IDX"}) /\ Handled(PushNum(mem, sp + FptBytes, v), sp, "ec_ok")
    BY <1>6 DEF PushByteArrayByIdx
  <2>2. v \in Int
    BY <1>0, GetByte DEF i2fpt, FptOne, Byte
  <2> HIDE DEF v
  <2>3. IsMem(PushNum(mem, sp + FptBytes, v))
    BY <1>0, <2>2, PushNumMem
  <2>4. QED
    BY <1>0, <2>1, <2>3, HandledTypes
<1>7. QED
  BY <1>1, <1>2, <1>3, <1>4, <1>5, <1>6

(* The sequences a copy writes: n bytes, each read from the object.         *)
LEMMA CopyTypes ==
  ASSUME TypeOK, CopyToByteArray \/ CopyToGenArray
  PROVE  TypeOK'
<1> DEFINE m == PntMem(mem, sp)
<1>0. /\ "ec_ok" \in ErrCodes /\ sp \in Int /\ junk \in Byte /\ IsMem(mem) /\ IsMem(m)
      /\ PntSize(mem, sp) \in Byte /\ PntWidth(mem, sp) \in Int
      /\ \A i : PntByte(mem, sp, i) \in Byte
      /\ 0 \in Byte
  <2>1. "ec_ok" \in ErrCodes /\ sp \in Int /\ junk \in Byte /\ IsMem(mem) /\ 0 \in Byte
    BY DEF ErrCodes, TypeOK, IsMem, Byte
  <2>2. QED
    BY <2>1, PntMemMem, PntTypes
<1> HIDE DEF m
<1>1. CASE CopyToByteArray
  <2> DEFINE n  == Min2(Get(m, VarOffs), PntSize(mem, sp))
             Src(i) == IF PntType(mem, sp) \in GenericPntTypes
                       THEN PntByte(mem, sp, FptWBytes - 2 + FptBytes * i)
                       ELSE PntByte(mem, sp, i)
             bs == [k \in 1..n |-> Src(k - 1)]
  <2>1. /\ Decode({"COPY_TO_bARRAY"})
        /\ Handled(Write(m, VarOffs + 1, bs), sp + PntWidth(mem, sp), "ec_ok")
    BY <1>1 DEF CopyToByteArray, m
  <2>2. n \in Nat
    BY <1>0, GetByte DEF Min2, Byte
  <2>3. \A i : Src(i) \in Byte
    BY <1>0
  <2> HIDE DEF n, Src
  <2>4. bs \in Seq(Byte)
    BY <2>2, <2>3, BytesAreSeq
  <2> HIDE DEF bs
  <2>5. VarOffs + 1 \in Int /\ sp + PntWidth(mem, sp) \in Int
    BY <1>0, <2>1, OperandTypes
  <2>6. IsMem(Write(m, VarOffs + 1, bs))
    BY <1>0, <2>4, <2>5, WriteMem
  <2>7. QED
    BY <1>0, <2>1, <2>5, <2>6, HandledTypes
<1>2. CASE CopyToGenArray
  <2> DEFINE dest == FptBytes * Get(m, VarOffs)
             generic == PntType(mem, sp) \in GenericPntTypes
             n == IF generic THEN Min2(dest, FptBytes * PntSize(mem, sp))
                  ELSE GenBytesOfBytes(dest, PntSize(mem, sp))
             Src(i) == IF generic THEN PntByte(mem, sp, i)
                       ELSE IF i % FptBytes = FptWBytes - 2 THEN PntByte(mem, sp, i \div FptBytes)
                       ELSE 0
             bs == [k \in 1..n |-> Src(k - 1)]
  <2>1. /\ Decode({"COPY_TO_gARRAY"})
        /\ Handled(Write(m, VarOffs + 1, bs), sp + PntWidth(mem, sp), "ec_ok")
    BY <1>2 DEF CopyToGenArray, m
  <2>2. n \in Nat
    <3>1. dest \in Nat /\ PntSize(mem, sp) \in Nat
      BY <1>0, GetByte DEF FptBytes, Byte
    <3> HIDE DEF dest, generic
    <3>2. GenBytesOfBytes(dest, PntSize(mem, sp)) \in Nat
      BY <3>1 DEF GenBytesOfBytes, Min2, FptBytes
    <3>3. Min2(dest, FptBytes * PntSize(mem, sp)) \in Nat
      BY <3>1 DEF Min2, FptBytes
    <3>4. QED
      BY <3>2, <3>3
  <2>3. \A i : Src(i) \in Byte
    BY <1>0
  <2> HIDE DEF n, Src
  <2>4. bs \in Seq(Byte)
    BY <2>2, <2>3, BytesAreSeq
  <2> HIDE DEF bs
  <2>5. VarOffs + 1 \in Int /\ sp + PntWidth(mem, sp) \in Int
    BY <1>0, <2>1, OperandTypes
  <2>6. IsMem(Write(m, VarOffs + 1, bs))
    BY <1>0, <2>4, <2>5, WriteMem
  <2>7. QED
    BY <1>0, <2>1, <2>5, <2>6, HandledTypes
<1>3. QED
  BY <1>1, <1>2

(* Two bytes read as an address.                                            *)
LEMMA BytesAddrType ==
  ASSUME NEW m, IsMem(m), junk \in Byte, NEW a \in Int
  PROVE  BytesAddr(Read(m, a, 2)) \in Int
<1> DEFINE b == Read(m, a, 2)
<1>1. b[1] \in Byte /\ b[2] \in Byte
  BY GetByte DEF Read
<1> HIDE DEF b
<1>2. b[1] \in Int /\ b[2] \in Int
  BY <1>1 DEF Byte
<1>3. BytesAddr(b) \in Int
  BY <1>2 DEF BytesAddr
<1>4. QED
  BY <1>3 DEF b

(* Offsets and addresses of jumps and calls are integers.                  *)
LEMMA Signed16Type == \A a \in Int : Signed16(a) \in Int
BY DEF Signed16

(* Jumps, calls and returns (vm_exe.c:791-903).                            *)
LEMMA ControlTypes ==
  ASSUME TypeOK, Jmp \/ JmpPopCmpz \/ CallPrgFunc \/ Return
  PROVE  TypeOK'
<1>0. /\ "ec_ok" \in ErrCodes /\ "ec_exit" \in ErrCodes /\ junk \in Byte /\ IsMem(mem)
      /\ sp \in Int /\ hp \in Int /\ ip \in Int /\ vars_base \in Int /\ recurs_cnt \in Nat
      /\ line_num \in Int
  BY DEF ErrCodes, TypeOK, IsMem
<1>1. CASE Jmp
  <2> DEFINE i == ip + Signed16(I.arg)
  <2>1. /\ Decode({"JMP"}) /\ EndOfCycle(mem, sp, hp, i, CmdSize(I.op), "ec_ok")
        /\ vars_base' = vars_base /\ recurs_cnt' = recurs_cnt /\ line_num' = line_num
    BY <1>1 DEF Jmp
  <2>2. i \in Int /\ CmdSize(I.op) \in Int
    BY <1>0, <2>1, OperandTypes, Signed16Type
  <2> HIDE DEF i
  <2>3. QED
    BY <1>0, <2>1, <2>2, CycleTypes
<1>2. CASE JmpPopCmpz
  <2> DEFINE i == IF StackTop(mem, sp) = 0 THEN ip + Signed16(I.arg) ELSE ip
  <2>1. /\ Decode({"JMP_POP_CMPZ"})
        /\ EndOfCycle(mem, sp + FptBytes, hp, i, CmdSize(I.op), "ec_ok")
        /\ vars_base' = vars_base /\ recurs_cnt' = recurs_cnt /\ line_num' = line_num
    BY <1>2 DEF JmpPopCmpz
  <2>2. i \in Int /\ CmdSize(I.op) \in Int /\ sp + FptBytes \in Int
    BY <1>0, <2>1, OperandTypes, Signed16Type DEF FptBytes
  <2> HIDE DEF i
  <2>3. QED
    BY <1>0, <2>1, <2>2, CycleTypes
<1>3. CASE CallPrgFunc
  <2> DEFINE link == AddrBytes(vars_base) \o AddrBytes(ip + CmdSize(I.op))
  <2>1. /\ Decode({"CALL_PRG_FUNC"})
        /\ EndOfCycle(Write(mem, hp, link), sp, hp + FrameHead, Signed16(I.arg), 0, "ec_ok")
        /\ vars_base' = hp + FrameHead /\ recurs_cnt' = recurs_cnt + 1 /\ line_num' = line_num
    BY <1>3 DEF CallPrgFunc
  <2>2. Signed16(I.arg) \in Int /\ ip + CmdSize(I.op) \in Int /\ hp + FrameHead \in Int
    BY <1>0, <2>1, OperandTypes, Signed16Type DEF FrameHead, Linkage, FptBytes
  <2>3. AddrBytes(vars_base) \in Seq(Byte) /\ AddrBytes(ip + CmdSize(I.op)) \in Seq(Byte)
    BY <1>0, <2>2, AddrBytesType
  <2>4. link \in Seq(Byte)
    BY <2>3
  <2> HIDE DEF link
  <2>5. IsMem(Write(mem, hp, link)) /\ recurs_cnt + 1 \in Nat
    BY <1>0, <2>4, WriteMem
  <2>6. QED
    BY <1>0, <2>1, <2>2, <2>5, CycleTypes
<1>4. CASE Return
  <2> DEFINE slot == vars_base - FptBytes
             m    == IF I.op = "RETVAL" THEN PopVarTo(mem, sp, slot) ELSE mem
             s    == IF I.op = "RETVAL" THEN sp + FptBytes ELSE sp
             m2   == PushVar(m, s, slot)
  <2>1. slot \in Int /\ s \in Int /\ s - FptBytes \in Int /\ slot - Linkage \in Int
        /\ slot - 2 \in Int
    BY <1>0 DEF FptBytes, Linkage
  <2>2. IsMem(m)
    BY <1>0, <2>1, PushVarMem
  <2>3. Decode({"RET", "RETVAL"}) /\ line_num' = line_num
    BY <1>4 DEF Return
  <2>4. CmdSize(I.op) \in Int
    BY <2>3, OperandTypes
  <2>5. CASE recurs_cnt > 0
    <3>1. /\ EndOfCycle(m2, s - FptBytes, slot - Linkage,
                        BytesAddr(Read(m2, slot - 2, 2)), 0, "ec_ok")
          /\ vars_base' = BytesAddr(Read(m2, slot - Linkage, 2))
          /\ recurs_cnt' = recurs_cnt - 1
      BY <1>4, <2>5 DEF Return
    <3> HIDE DEF m, s, slot
    <3>2. IsMem(m2)
      BY <1>0, <2>1, <2>2, PushVarMem
    <3> HIDE DEF m2
    <3>3. /\ BytesAddr(Read(m2, slot - 2, 2)) \in Int
          /\ BytesAddr(Read(m2, slot - Linkage, 2)) \in Int
      BY <1>0, <2>1, <3>2, BytesAddrType
    <3>4. recurs_cnt - 1 \in Nat
      BY <1>0, <2>5
    <3>5. QED
      BY <1>0, <2>1, <2>3, <3>1, <3>2, <3>3, <3>4, CycleTypes
  <2>6. CASE ~(recurs_cnt > 0)
    <3>1. /\ EndOfCycle(m, s, hp, ip, CmdSize(I.op), "ec_exit")
          /\ vars_base' = vars_base /\ recurs_cnt' = recurs_cnt
      BY <1>4, <2>6 DEF Return
    <3> HIDE DEF m, s, slot
    <3>2. QED
      BY <1>0, <2>1, <2>2, <2>3, <2>4, <3>1, CycleTypes
  <2>7. QED
    BY <2>5, <2>6
<1>5. QED
  BY <1>1, <1>2, <1>3, <1>4

-----------------------------------------------------------------------------
(* Built-in functions: every result is an integer, whatever the device.     *)
LEMMA FuncResultsType ==
  ASSUME TypeOK, NEW id, NEW top \in Int, NEW v \in FuncResults(id, top)
  PROVE  v \in Int
<1>1. PntSize(mem, sp) \in Int
  <2>1. IsMem(mem) /\ sp \in Int
    BY DEF TypeOK, IsMem
  <2>2. PntSize(mem, sp) \in Byte
    BY <2>1, PntTypes
  <2>3. QED
    BY <2>2 DEF Byte
<1>2. QED
  BY <1>1, VmAssumption DEF FuncResults

(* Functions pop their parameters and push their result.                   *)
LEMMA CallIntFuncTypes ==
  ASSUME TypeOK, CallIntFunc
  PROVE  TypeOK'
<1> DEFINE m == IF PopsPointer(I.arg) THEN PntMem(mem, sp) ELSE mem
           s == IF PopsPointer(I.arg) THEN sp + PntWidth(mem, sp)
                ELSE sp + FptBytes * NumbersPopped(I.arg)
           top == fpt2i(StackTop(mem, sp))
<1>1. /\ "ec_ok" \in ErrCodes /\ junk \in Byte /\ IsMem(mem)
      /\ sp \in Int /\ hp \in Int /\ ip \in Int
      /\ vars_base \in Int /\ recurs_cnt \in Nat /\ line_num \in Int
  BY DEF ErrCodes, TypeOK, IsMem
<1>2. Decode({"CALL_INT_FUNC"})
  BY DEF CallIntFunc
<1>3. IsMem(m)
  BY <1>1, PntMemMem
<1>4. s \in Int /\ s - FptBytes \in Int /\ CmdSize(I.op) \in Int
  <2>1. PntWidth(mem, sp) \in Int /\ CmdSize(I.op) \in Int
    BY <1>1, <1>2, PntTypes, OperandTypes
  <2>2. NumbersPopped(I.arg) \in Int
    BY DEF NumbersPopped
  <2>3. QED
    BY <1>1, <2>1, <2>2 DEF FptBytes
<1>5. top \in Int
  BY <1>1, StackTopType DEF fpt2i, FptOne
<1>6. /\ \/ \E v \in FuncResults(I.arg, top) :
              EndOfCycle(PushNum(m, s, i2fpt(v)), s - FptBytes, hp, ip, CmdSize(I.op), "ec_ok")
         \/ EndOfCycle(m, s, hp, ip, CmdSize(I.op), "ec_ok")
      /\ vars_base' = vars_base /\ recurs_cnt' = recurs_cnt /\ line_num' = line_num
  BY DEF CallIntFunc
<1> HIDE DEF m, s, top
<1>7. CASE EndOfCycle(m, s, hp, ip, CmdSize(I.op), "ec_ok")
  BY <1>1, <1>2, <1>3, <1>4, <1>6, <1>7, CycleTypes
<1>8. ASSUME NEW v \in FuncResults(I.arg, top),
             EndOfCycle(PushNum(m, s, i2fpt(v)), s - FptBytes, hp, ip, CmdSize(I.op), "ec_ok")
      PROVE  TypeOK'
  <2>1. i2fpt(v) \in Int
    BY <1>5, FuncResultsType DEF i2fpt, FptOne
  <2>2. IsMem(PushNum(m, s, i2fpt(v)))
    BY <1>3, <1>4, <2>1, PushNumMem
  <2>3. QED
    BY <1>1, <1>2, <1>4, <1>6, <1>8, <2>2, CycleTypes
<1>9. QED
  BY <1>6, <1>7, <1>8

(* A function that does not exist ends the program.                        *)
LEMMA CallUnknownTypes ==
  ASSUME TypeOK, CallUnknown
  PROVE  TypeOK'
<1> DEFINE unset == <<junk, junk, junk, junk>>
           ops   == {"CALL_INT_FUNC", "CALL_LIB_FUNC", "CALL_INT_PROC"}
<1>1. /\ "ec_call_unknown_func" \in ErrCodes /\ IsMem(mem) /\ sp \in Int /\ junk \in Byte
      /\ sp - FptBytes \in Int /\ sp - FptBytes + 1 \in Int
  BY DEF ErrCodes, TypeOK, IsMem, FptBytes
<1>2. unset \in Seq(Byte)
  BY <1>1
<1> HIDE DEF unset
<1>3. IsMem(Write(mem, sp - FptBytes + 1, unset))
  BY <1>1, <1>2, WriteMem
<1>4. Decode(ops)
  BY DEF CallUnknown
<1>5. \/ Handled(Write(mem, sp - FptBytes + 1, unset), sp - FptBytes, "ec_call_unknown_func")
      \/ Handled(mem, sp, "ec_call_unknown_func")
  BY DEF CallUnknown, unset
<1>6. QED
  BY <1>1, <1>3, <1>4, <1>5, HandledTypes

(* PRINT: the arguments lie at whole numbers of bytes above the list.       *)
LEMMA CallIntProcTypes ==
  ASSUME TypeOK, CallIntProc
  PROVE  TypeOK'
<1> DEFINE parts   == 0 .. (2 * PntSize(mem, sp) - 1)
           Part(i) == IF i % 2 = 1 THEN PntByte(mem, sp, i \div 2) % 16
                      ELSE PntByte(mem, sp, i \div 2) \div 16
           base    == sp + PntWidth(mem, sp)
           Wide(w, i) == Cardinality({j \in parts : j > i /\ PartWidth(Part(j)) = w})
           At(i)   == base + FptBytes * Wide(FptBytes, i) + 3 * Wide(3, i)
           m       == PntMem(mem, sp)
           tags    == {At(i) + 1 : i \in {j \in parts : Part(j) = print_ss_pointer}}
           swaps   == {x \in tags : Get(m, x) < 16}
           cells   == tags \cup {x + 1 : x \in swaps} \cup {x + 2 : x \in swaps}
           m2      == [x \in DOMAIN m \cup cells |->
                         IF x \in tags THEN Get(m, x) % 16
                         ELSE IF x - 1 \in swaps THEN Get(m, x + 1)
                         ELSE IF x - 2 \in swaps THEN Get(m, x - 1)
                         ELSE m[x]]
<1>1. /\ "ec_ok" \in ErrCodes /\ junk \in Byte /\ IsMem(mem)
      /\ sp \in Int /\ hp \in Int /\ ip \in Int
      /\ vars_base \in Int /\ recurs_cnt \in Nat /\ line_num \in Int
  BY DEF ErrCodes, TypeOK, IsMem
<1>2. /\ Decode({"CALL_INT_PROC"}) /\ EndOfCycle(m2, At(-1), hp, ip, CmdSize(I.op), "ec_ok")
      /\ vars_base' = vars_base /\ recurs_cnt' = recurs_cnt /\ line_num' = line_num
  BY DEF CallIntProc
<1>3. PntWidth(mem, sp) \in Int /\ CmdSize(I.op) \in Int
  BY <1>1, <1>2, PntTypes, OperandTypes
<1>4. base \in Int
  BY <1>1, <1>3
<1>5. ASSUME NEW i \in Int PROVE At(i) \in Int
  <2>1. ASSUME NEW w PROVE Wide(w, i) \in Nat
    <3>1. PntSize(mem, sp) \in Byte
      BY <1>1, PntTypes
    <3>2. 2 * PntSize(mem, sp) - 1 \in Int
      BY <3>1 DEF Byte
    <3>3. IsFiniteSet(parts)
      BY <3>2, FS_Interval
    <3> HIDE DEF parts, Part
    <3>4. IsFiniteSet({j \in parts : j > i /\ PartWidth(Part(j)) = w})
      BY <3>3, FS_Subset
    <3>5. QED
      BY <3>4, FS_CardinalityType
  <2> HIDE DEF Wide, base
  <2>2. QED
    BY <1>4, <2>1 DEF FptBytes
<1>6. IsMem(m2)
  <2>1. IsMem(m)
    BY <1>1, PntMemMem
  <2>2. \A x \in tags : x \in Int
    <3>1. ASSUME NEW i \in parts PROVE At(i) + 1 \in Int
      <4>1. i \in Int
        OBVIOUS
      <4> HIDE DEF At
      <4>2. QED
        BY <4>1, <1>5
    <3> HIDE DEF At, parts, Part
    <3>2. QED
      BY <3>1
  <2> HIDE DEF m, tags
  <2>3. \A x : Get(m, x) \in Byte
    BY <1>1, <2>1, GetByte
  <2>4. \A x \in tags : Get(m, x) % 16 \in Byte
    BY <2>3 DEF Byte
  <2>5. \A x \in swaps : x \in Int
    BY <2>2
  <2>6. \A x \in (DOMAIN m \cup cells) \ DOMAIN m :
           x \in tags \/ x - 1 \in swaps \/ x - 2 \in swaps
    BY <2>5
  <2>7. \A x \in DOMAIN m : m[x] \in Byte
    BY <2>1 DEF IsMem
  <2> HIDE DEF swaps, cells
  <2>8. QED
    BY <2>3, <2>4, <2>6, <2>7 DEF IsMem
<1> HIDE DEF m2, At
<1>7. QED
  BY <1>1, <1>2, <1>3, <1>5, <1>6, CycleTypes

-----------------------------------------------------------------------------
(* Arithmetic: only a division needs a divisor.                             *)
LEMMA TruncDivType ==
  ASSUME NEW a \in Int, NEW b \in Int, b # 0
  PROVE  TruncDiv(a, b) \in Int
<1> DEFINE A == IF a < 0 THEN -a ELSE a
           B == IF b < 0 THEN -b ELSE b
           q == A \div B
<1>1. A \in Nat /\ B \in Nat /\ B > 0
  OBVIOUS
<1> HIDE DEF A, B
<1>2. q \in Int
  BY <1>1
<1> HIDE DEF q
<1>3. (IF (a < 0) = (b < 0) THEN q ELSE -q) \in Int
  BY <1>2
<1>4. QED
  BY <1>3 DEF TruncDiv, q, A, B

(* Every operation on two numbers gives a number.                          *)
LEMMA MathValueType ==
  ASSUME NEW op, NEW a \in Int, NEW b \in Int, op = "DIV" => b # 0
  PROVE  MathValue(op, a, b) \in Int
<1>1. a - b \in Int /\ a + b \in Int
  OBVIOUS
<1>2. (a * b) \div FptOne \in Int
  BY DEF FptOne
<1>3. op = "DIV" => TruncDiv(a * FptOne, b) \in Int
  BY TruncDivType DEF FptOne
<1>4. \A c : Flag(c) \in Int
  BY DEF Flag
<1>5. QED
  BY <1>1, <1>2, <1>3, <1>4 DEF MathValue

(* Arithmetic and logic (vm_exe.c:920-1000).                               *)
LEMMA MathTypes ==
  ASSUME TypeOK, MathOp \/ UnaryOp
  PROVE  TypeOK'
<1>1. /\ "ec_ok" \in ErrCodes /\ "ec_div_except" \in ErrCodes /\ junk \in Byte /\ IsMem(mem)
      /\ sp \in Int /\ sp + FptBytes \in Int /\ sp + 2 * FptBytes \in Int
  BY DEF ErrCodes, TypeOK, IsMem, FptBytes
<1>2. CASE MathOp
  <2> DEFINE value2 == StackTop(mem, sp)
             value1 == StackTop(mem, sp + FptBytes)
             v      == MathValue(I.op, value1, value2)
  <2>1. value1 \in Int /\ value2 \in Int
    BY <1>1, StackTopType
  <2>2. Decode(MathOps)
    BY <1>2 DEF MathOp
  <2>3. CASE I.op = "DIV" /\ value2 = 0
    <3>1. Handled(mem, sp + 2 * FptBytes, "ec_div_except")
      BY <1>2, <2>3 DEF MathOp
    <3>2. QED
      BY <1>1, <2>2, <3>1, HandledTypes
  <2>4. CASE ~(I.op = "DIV" /\ value2 = 0)
    <3>1. Handled(PushNum(mem, sp + 2 * FptBytes, v), sp + FptBytes, "ec_ok")
      BY <1>2, <2>4 DEF MathOp
    <3> HIDE DEF value1, value2
    <3>2. v \in Int
      BY <2>1, <2>4, MathValueType
    <3> HIDE DEF v
    <3>3. IsMem(PushNum(mem, sp + 2 * FptBytes, v))
      BY <1>1, <3>2, PushNumMem
    <3>4. QED
      BY <1>1, <2>2, <3>1, <3>3, HandledTypes
  <2>5. QED
    BY <2>3, <2>4
<1>3. CASE UnaryOp
  <2> DEFINE value == StackTop(mem, sp)
             v     == IF I.op = "NOT" THEN Flag(value = 0) ELSE -value
  <2>1. Decode({"NOT", "INV"}) /\ Handled(PushNum(mem, sp + FptBytes, v), sp, "ec_ok")
    BY <1>3 DEF UnaryOp
  <2>2. value \in Int
    BY <1>1, StackTopType
  <2> HIDE DEF value
  <2>3. v \in Int
    BY <2>2 DEF Flag
  <2> HIDE DEF v
  <2>4. IsMem(PushNum(mem, sp + FptBytes, v))
    BY <1>1, <2>3, PushNumMem
  <2>5. QED
    BY <1>1, <2>1, <2>4, HandledTypes
<1>4. QED
  BY <1>2, <1>3

(* Ends, markers and what is not an instruction.                           *)
LEMMA OtherTypes ==
  ASSUME TypeOK,
         End \/ Marker \/ NoneInstr \/ UnknownInstr \/ WildFetch \/ LeaveLoop \/ Stopped
  PROVE  TypeOK'
<1>1. /\ {"ec_ok", "ec_end", "ec_inval_code"} \subseteq ErrCodes /\ IsMem(mem)
      /\ "wild_fetch" \in Wild /\ sp \in Int /\ hp \in Int /\ ip \in Int
      /\ vars_base \in Int /\ recurs_cnt \in Nat
  BY DEF ErrCodes, Wild, TypeOK, IsMem
<1>2. CASE End
  BY <1>1, <1>2, HandledTypes DEF End
<1>3. CASE Marker
  <2>1. /\ Decode({"DBG", "BREAK"}) /\ EndOfCycle(mem, sp, hp, ip, CmdSize(I.op), "ec_ok")
        /\ line_num' = I.arg % 65536 /\ vars_base' = vars_base /\ recurs_cnt' = recurs_cnt
    BY <1>3 DEF Marker
  <2>2. line_num' \in Int /\ CmdSize(I.op) \in Int
    BY <2>1, OperandTypes
  <2>3. QED
    BY <1>1, <2>1, <2>2, CycleTypes
<1>4. CASE UnknownInstr
  BY <1>1, <1>4, HandledTypes DEF UnknownInstr
<1>5. CASE NoneInstr
  <2>1. by_step' \in BOOLEAN /\ UNCHANGED <<prog, print_stat, junk>>
    BY <1>5 DEF NoneInstr, Decode, TypeOK
  <2>2. /\ UNCHANGED <<mem, sp, hp, ip, vars_base, recurs_cnt, line_num>>
        /\ ret' = "ec_inval_code" /\ running' = FALSE
    BY <1>5 DEF NoneInstr
  <2>3. QED
    BY <1>1, <2>1, <2>2 DEF TypeOK, MemAddr, StackSize
<1>6. CASE WildFetch
  BY <1>1, <1>6 DEF WildFetch, TypeOK, MemAddr, StackSize
<1>7. CASE LeaveLoop
  BY <1>1, <1>7 DEF LeaveLoop, TypeOK, MemAddr, StackSize
<1>8. CASE Stopped
  BY <1>8 DEF Stopped, vars, TypeOK, MemAddr, StackSize
<1>9. QED
  BY <1>2, <1>3, <1>4, <1>5, <1>6, <1>7, <1>8

-----------------------------------------------------------------------------
(* The machine begins in form.                                               *)
LEMMA InitTypes == Init => TypeOK
<1> SUFFICES ASSUME Init PROVE TypeOK
  OBVIOUS
<1>1. IsProgram(prog) /\ junk \in Byte /\ StackSizeMin \in Int
  BY VmAssumption DEF Init
<1>2. prog.heap_min_size \in Int /\ prog.entry \in Int
  BY <1>1, WordIsInt DEF IsProgram
<1>3. StackSize \in Int
  BY <1>1, <1>2 DEF StackSize
<1>4. mem \in [MemAddr -> Byte]
  BY <1>1, <1>3 DEF Init, Byte
<1>5. QED
  BY <1>1, <1>2, <1>3, <1>4 DEF Init, TypeOK, ErrCodes

(* Types are kept by every step.                                           *)
LEMMA NextTypes == TypeOK /\ [Next]_vars => TypeOK'
<1> SUFFICES ASSUME TypeOK, [Next]_vars PROVE TypeOK'
  OBVIOUS
<1>1. CASE Step
  BY <1>1, InitVarTypes, StoreTypes, PushTypes, CopyTypes, ControlTypes, CallIntFuncTypes,
     CallUnknownTypes, CallIntProcTypes, MathTypes, OtherTypes DEF Step
<1>2. CASE Stopped
  BY <1>2, OtherTypes
<1>3. CASE UNCHANGED vars
  BY <1>3 DEF vars, TypeOK, MemAddr, StackSize
<1>4. QED
  BY <1>1, <1>2, <1>3 DEF Next

(* Whatever the program, the array of the machine keeps its extent and its  *)
(* cells hold bytes, and a machine whose loop goes on has met no error      *)
(* (vm_exe.c:500-1034).                                                     *)
THEOREM TypeCorrect == Spec => []TypeOK
BY InitTypes, NextTypes, PTL DEF Spec

-----------------------------------------------------------------------------
(* The inductive invariant: what a linkage spells can only be kept together *)
(* with where the linkages lie.                                            *)
Frame == [pc : Int, base : Int, top : Int]

IInv ==
  /\ TypeOK
  /\ frames \in Seq(Frame)
  /\ sound \in BOOLEAN
  /\ LinkInv

-----------------------------------------------------------------------------
(* Where a frame is.                                                         *)
LEMMA FrameAt ==
  ASSUME NEW fs \in Seq(Frame), NEW k \in DOMAIN fs
  PROVE  fs[k] \in Frame
BY ElementOfSeq, LenProperties

(* A cycle after which the loop goes on: the stack check has passed, so    *)
(* nothing was clamped (vm_exe.c:1006-1028).                               *)
LEMMA EndFacts ==
  ASSUME TypeOK, NEW m, NEW s \in Int, NEW h \in Int, NEW i, NEW len, NEW r,
         EndOfCycle(m, s, h, i, len, r), running'
  PROVE  /\ mem' = m /\ DOMAIN m = MemAddr /\ r = "ec_ok"
         /\ hp' = h /\ h < s /\ s < StackSize /\ ip' = i + len
         /\ 0 <= h \/ 0 <= s => sp' = s
<1>1. StackSize \in Int
  <2>1. prog.heap_min_size \in Int
    BY WordIsInt DEF TypeOK, IsProgram
  <2>2. QED
    BY <2>1, VmAssumption DEF StackSize
<1>2. /\ DOMAIN m = MemAddr /\ ~(h >= s \/ s >= StackSize) /\ r = "ec_ok"
  BY DEF EndOfCycle
<1>3. mem' = m /\ hp' = h /\ ip' = i + len
  BY <1>1, <1>2 DEF EndOfCycle
<1>4. 0 <= h \/ 0 <= s => sp' = s
  BY <1>1, <1>2 DEF EndOfCycle
<1>5. QED
  BY <1>1, <1>2, <1>3, <1>4

(* A memory that agrees with mem on the cells up to hp: the variables and  *)
(* the linkage of every activation.                                        *)
Keeps(m) ==
  /\ DOMAIN mem \subseteq DOMAIN m
  /\ \A x \in DOMAIN mem : x <= hp => m[x] = mem[x]

(* A write leaves the cells below it alone.                                *)
LEMMA WriteBelow ==
  ASSUME NEW m, NEW a \in Int, NEW bs \in Seq(Byte), NEW x \in DOMAIN m, x \in Int, x < a
  PROVE  x \in DOMAIN Write(m, a, bs) /\ Write(m, a, bs)[x] = m[x]
<1> DEFINE cells == a .. (a + Len(bs) - 1)
<1>1. x \notin cells
  OBVIOUS
<1> HIDE DEF cells
<1>2. QED
  BY <1>1 DEF Write, cells

(* So a write above hp keeps what lies up to it.                           *)
LEMMA WriteKeeps ==
  ASSUME TypeOK, NEW m, Keeps(m), NEW a \in Int, hp < a, NEW bs \in Seq(Byte)
  PROVE  Keeps(Write(m, a, bs))
<1>1. \A x \in DOMAIN mem : x \in Int
  BY DEF TypeOK, MemAddr
<1>2. DOMAIN mem \subseteq DOMAIN m
  BY DEF Keeps
<1>3. ASSUME NEW x \in DOMAIN mem, x <= hp
      PROVE  Write(m, a, bs)[x] = mem[x]
  <2>1. x \in Int /\ x < a /\ x \in DOMAIN m /\ m[x] = mem[x]
    BY <1>1, <1>2, <1>3 DEF Keeps, TypeOK
  <2>2. QED
    BY <2>1, WriteBelow
<1>4. DOMAIN m \subseteq DOMAIN Write(m, a, bs)
  BY DEF Write
<1>5. QED
  BY <1>2, <1>3, <1>4 DEF Keeps

(* The memory agrees with itself.                                          *)
LEMMA MemKeeps == Keeps(mem)
BY DEF Keeps

(* A push that ends above hp keeps what lies up to it.                     *)
LEMMA PushNumKeeps ==
  ASSUME TypeOK, NEW m, Keeps(m), NEW s \in Int, hp < s - FptBytes, NEW v \in Int
  PROVE  Keeps(PushNum(m, s, v))
<1>1. s - FptBytes + 1 \in Int /\ hp < s - FptBytes + 1
  BY DEF FptBytes, TypeOK
<1>2. QED
  BY <1>1, WriteKeeps, NumBytesType DEF PushNum

(* The same for a push over something that was popped.                     *)
LEMMA PushOverKeeps ==
  ASSUME TypeOK, NEW m, Keeps(m), NEW s \in Int, NEW k \in Int, hp < s + k - 4, NEW v \in Int
  PROVE  Keeps(PushNum(m, s + k, v))
<1> DEFINE t == s + k
<1>1. t \in Int /\ hp < t - FptBytes
  BY DEF FptBytes
<1> HIDE DEF t
<1>2. Keeps(PushNum(m, t, v))
  BY <1>1, PushNumKeeps
<1>3. QED
  BY <1>2 DEF t

(* Popping a pointer only changes the stack (vm_exe.c:323-364).            *)
LEMMA PntMemKeeps ==
  ASSUME TypeOK, hp < sp
  PROVE  Keeps(PntMem(mem, sp))
<1>1. sp + 1 \in Int /\ hp < sp + 1 /\ IsMem(mem) /\ junk \in Byte /\ sp \in Int
  BY DEF TypeOK, IsMem
<1>2. Get(mem, sp + 1) % 16 \in Byte /\ Get(mem, sp + 2) \in Byte /\ Get(mem, sp + 3) \in Byte
  BY <1>1, GetByte DEF Byte
<1>3. /\ <<Get(mem, sp + 1) % 16>> \in Seq(Byte)
      /\ <<Get(mem, sp + 1) % 16, Get(mem, sp + 3), Get(mem, sp + 2)>> \in Seq(Byte)
  BY <1>2
<1>4. /\ Keeps(Write(mem, sp + 1, <<Get(mem, sp + 1) % 16>>))
      /\ Keeps(Write(mem, sp + 1, <<Get(mem, sp + 1) % 16, Get(mem, sp + 3), Get(mem, sp + 2)>>))
  BY <1>1, <1>3, MemKeeps, WriteKeeps
<1>5. QED
  BY <1>4 DEF PntMem

-----------------------------------------------------------------------------
(* The linkage: four bytes that spell two addresses (vm_exe.c:117-135),    *)
(* and how they are read back.                                             *)
LEMMA AddrRoundTrip ==
  ASSUME NEW a \in Word
  PROVE  BytesAddr(AddrBytes(a)) = a
<1> DEFINE hi == a \div 256
<1>1. a \in Int /\ a >= 0 /\ a <= 65535
  BY SMTT(90) DEF Word
<1>2. hi \in Int /\ hi >= 0 /\ hi <= 255 /\ a = (256 * hi) + (a % 256) /\ a % 256 \in Int
  BY <1>1
<1>3. BytesAddr(AddrBytes(a)) = (a % 256) + (256 * (hi % 256))
  BY DEF BytesAddr, AddrBytes
<1> HIDE DEF hi
<1>4. hi % 256 = hi
  BY <1>2
<1>5. QED
  BY <1>2, <1>3, <1>4

(* The four bytes of a linkage.                                            *)
LEMMA LinkSeq ==
  ASSUME NEW f, f.base \in Int, f.pc \in Int
  PROVE  /\ LinkOf(f) \in Seq(Byte) /\ Len(LinkOf(f)) = Linkage
         /\ LinkOf(f)[1] = AddrBytes(f.base)[1] /\ LinkOf(f)[2] = AddrBytes(f.base)[2]
         /\ LinkOf(f)[3] = AddrBytes(f.pc)[1] /\ LinkOf(f)[4] = AddrBytes(f.pc)[2]
<1>1. /\ AddrBytes(f.base) \in Seq(Byte) /\ Len(AddrBytes(f.base)) = 2
      /\ AddrBytes(f.pc) \in Seq(Byte) /\ Len(AddrBytes(f.pc)) = 2
  BY AddrBytesType DEF AddrBytes
<1> DEFINE b == AddrBytes(f.base)
           c == AddrBytes(f.pc)
<1> HIDE DEF b, c
<1>2. /\ b \o c \in Seq(Byte) /\ Len(b \o c) = 4
      /\ (b \o c)[1] = b[1] /\ (b \o c)[2] = b[2] /\ (b \o c)[3] = c[1] /\ (b \o c)[4] = c[2]
  <2>1. b \in Seq(Byte) /\ Len(b) = 2 /\ c \in Seq(Byte) /\ Len(c) = 2
    BY <1>1 DEF b, c
  <2>2. QED
    BY <2>1, ConcatProperties, SMTT(30)
<1>3. QED
  BY <1>2 DEF LinkOf, Linkage, b, c

(* What is read are the cells one after the other.                         *)
LEMMA ReadLink ==
  ASSUME NEW m, NEW a \in Int, NEW bs \in Seq(Byte), Len(bs) = Linkage
  PROVE  Read(m, a, Linkage) = bs <=>
           /\ Get(m, a) = bs[1] /\ Get(m, a + 1) = bs[2]
           /\ Get(m, a + 2) = bs[3] /\ Get(m, a + 3) = bs[4]
<1> DEFINE r == Read(m, a, Linkage)
<1>1. r = [i \in 1..4 |-> Get(m, a + i - 1)]
  BY DEF Read, Linkage
<1>2. r[1] = Get(m, a) /\ r[2] = Get(m, a + 1) /\ r[3] = Get(m, a + 2) /\ r[4] = Get(m, a + 3)
  <2>1. a + 1 - 1 = a /\ a + 2 - 1 = a + 1 /\ a + 3 - 1 = a + 2 /\ a + 4 - 1 = a + 3
    OBVIOUS
  <2>2. \A i \in 1..4 : r[i] = Get(m, a + i - 1)
    BY <1>1
  <2>3. QED
    BY <2>1, <2>2
<1>3. DOMAIN r = 1..4
  BY <1>1
<1> HIDE DEF r
<1>4. bs = [i \in 1..4 |-> bs[i]]
  BY DEF Linkage
<1>5. (\A i \in 1..4 : r[i] = bs[i]) => r = bs
  BY <1>1, <1>3, <1>4
<1>6. QED
  BY <1>2, <1>5 DEF r

(* An address is its low byte and 256 times its high byte.                 *)
LEMMA ReadAddr ==
  ASSUME NEW m, NEW a \in Int
  PROVE  BytesAddr(Read(m, a, 2)) = Get(m, a) + 256 * Get(m, a + 1)
<1>1. a + 1 - 1 = a /\ a + 2 - 1 = a + 1
  OBVIOUS
<1>2. QED
  BY <1>1 DEF Read, BytesAddr

(* A write changes the cells it covers, to the bytes written, and no other. *)
LEMMA WriteCells ==
  ASSUME NEW m, NEW a \in Int, NEW bs \in Seq(Byte), NEW x \in Int
  PROVE  /\ x \in a .. (a + Len(bs) - 1) => Get(Write(m, a, bs), x) = bs[x - a + 1]
         /\ x < a \/ x >= a + Len(bs) => Get(Write(m, a, bs), x) = Get(m, x)
<1> DEFINE cells == a .. (a + Len(bs) - 1)
<1>1. x < a \/ x >= a + Len(bs) => x \notin cells
  OBVIOUS
<1> HIDE DEF cells
<1>2. x \in cells => Get(Write(m, a, bs), x) = bs[x - a + 1]
  BY DEF Get, Write, cells
<1>3. x \notin cells => Get(Write(m, a, bs), x) = Get(m, x)
  BY DEF Get, Write, cells
<1>4. QED
  BY <1>1, <1>2, <1>3 DEF cells

-----------------------------------------------------------------------------
(* Work: every instruction but calls and returns leaves the activation     *)
(* alone; what is not a store changes nothing up to hp, what is not a      *)
(* declaration leaves hp where it is.                                      *)
Worked ==
  /\ prog' = prog /\ junk' = junk
  /\ vars_base' = vars_base /\ recurs_cnt' = recurs_cnt
  /\ hp' < sp' /\ sp' < StackSize
  /\ Declares \/ hp' = hp
  /\ Stores \/ Keeps(mem')

(* The cycle of such an instruction (vm_exe.c:1006-1028).                  *)
LEMMA CycleWork ==
  ASSUME TypeOK, running', NEW ops, Decode(ops),
         NEW m, NEW s \in Int, NEW h \in Int, NEW i, NEW len, NEW r,
         EndOfCycle(m, s, h, i, len, r), vars_base' = vars_base, recurs_cnt' = recurs_cnt,
         0 <= h \/ 0 <= s, Declares \/ h = hp, Stores \/ (h = hp /\ (hp < s => Keeps(m)))
  PROVE  Worked
<1>1. mem' = m /\ hp' = h /\ h < s /\ s < StackSize /\ sp' = s
  BY EndFacts
<1>2. prog' = prog /\ junk' = junk
  BY DEF Decode
<1>3. Stores \/ Keeps(mem')
  BY <1>1
<1> HIDE DEF Declares, Stores
<1>4. QED
  BY <1>1, <1>2, <1>3 DEF Worked

(* The same for a handler that leaves hp and ip to the cycle.              *)
LEMMA HandledWork ==
  ASSUME TypeOK, running', 0 <= hp, NEW ops, Decode(ops),
         NEW m, NEW s \in Int, NEW r, Handled(m, s, r), Stores \/ (hp < s => Keeps(m))
  PROVE  Worked
<1>1. /\ EndOfCycle(m, s, hp, ip, CmdSize(I.op), r) /\ hp \in Int
      /\ vars_base' = vars_base /\ recurs_cnt' = recurs_cnt
  BY DEF Handled, TypeOK
<1>2. QED
  BY <1>1, CycleWork

(* The stores (vm_exe.c:559-653, 722-790).                                 *)
LEMMA StoreWork ==
  ASSUME TypeOK, running', 0 <= hp,
         \/ LoadByte \/ PopByte \/ PopVar \/ PopPnt \/ PopByteArrayByIdx
         \/ CopyToByteArray \/ CopyToGenArray
  PROVE  Worked
<1>1. \E m : \E ops \in SUBSET StoreOps, s \in Int : Decode(ops) /\ Handled(m, s, "ec_ok")
  <2>1. sp \in Int /\ sp + FptBytes \in Int /\ sp + 3 \in Int /\ sp + 2 * FptBytes \in Int
    BY DEF TypeOK, FptBytes
  <2>2. CASE LoadByte
    BY <2>1, <2>2 DEF LoadByte, StoreOps
  <2>3. CASE PopByte
    BY <2>1, <2>3 DEF PopByte, StoreOps
  <2>4. CASE PopVar
    BY <2>1, <2>4 DEF PopVar, StoreOps
  <2>5. CASE PopPnt
    BY <2>1, <2>5 DEF PopPnt, StoreOps
  <2>6. CASE PopByteArrayByIdx
    BY <2>1, <2>6 DEF PopByteArrayByIdx, StoreOps
  <2>7. sp + PntWidth(mem, sp) \in Int
    BY <2>1 DEF PntWidth
  <2>8. CASE CopyToByteArray
    BY <2>7, <2>8 DEF CopyToByteArray, StoreOps
  <2>9. CASE CopyToGenArray
    BY <2>7, <2>9 DEF CopyToGenArray, StoreOps
  <2>10. QED
    BY <2>2, <2>3, <2>4, <2>5, <2>6, <2>8, <2>9
<1>2. PICK m : \E ops \in SUBSET StoreOps, s \in Int : Decode(ops) /\ Handled(m, s, "ec_ok")
  BY <1>1
<1>3. PICK ops \in SUBSET StoreOps, s \in Int : Decode(ops) /\ Handled(m, s, "ec_ok")
  BY <1>2
<1>4. Stores
  BY <1>3 DEF Stores, Fetches, Decode
<1>5. QED
  BY <1>3, <1>4, HandledWork

(* Pushes write below the new sp, which is still above hp                  *)
(* (vm_exe.c:654-721).                                                     *)
LEMMA PushWork ==
  ASSUME TypeOK, running', 0 <= hp, hp < sp,
         \/ PushNumber \/ PushPnt \/ PushObjPnt \/ PushVariable \/ PushByte
         \/ PushByteArrayByIdx
  PROVE  Worked
<1>1. /\ IsMem(mem) /\ junk \in Byte /\ sp \in Int /\ hp \in Int
      /\ sp - FptBytes \in Int /\ sp + FptBytes \in Int /\ sp - 3 \in Int /\ sp - 2 \in Int
      /\ sp - FptBytes + 1 \in Int
  BY DEF TypeOK, IsMem, FptBytes
<1>2. ASSUME NEW v \in Int PROVE hp < sp - FptBytes => Keeps(PushNum(mem, sp, v))
  BY <1>1, MemKeeps, PushNumKeeps
<1>3. ASSUME NEW bs \in Seq(Byte) PROVE hp < sp - 3 => Keeps(Write(mem, sp - 2, bs))
  <2>1. hp < sp - 3 => hp < sp - 2
    BY <1>1
  <2>2. QED
    BY <1>1, <2>1, MemKeeps, WriteKeeps
<1>4. CASE PushNumber
  <2>1. Decode({"PUSH_NUM"}) /\ Handled(PushNum(mem, sp, I.arg), sp - FptBytes, "ec_ok")
    BY <1>4 DEF PushNumber
  <2>2. I.arg \in Int
    BY <2>1, OperandTypes
  <2>3. QED
    BY <1>1, <1>2, <2>1, <2>2, HandledWork
<1>5. CASE PushPnt
  <2>1. /\ Decode({"PUSH_PNT"})
        /\ Handled(Write(mem, sp - 2, Read(mem, VarOffs, 3)), sp - 3, "ec_ok")
    BY <1>5 DEF PushPnt
  <2>2. Read(mem, VarOffs, 3) \in Seq(Byte)
    BY <1>1, <2>1, OperandTypes, ReadBytes
  <2>3. QED
    BY <1>1, <1>3, <2>1, <2>2, HandledWork
<1>6. CASE PushObjPnt
  <2>1. /\ Decode({"PUSH_OBJ_PNT"})
        /\ Handled(Write(mem, sp - 2, <<I.byte>> \o AddrBytes(VarOffs)), sp - 3, "ec_ok")
    BY <1>6 DEF PushObjPnt
  <2>2. VarOffs \in Int /\ I.byte \in Byte
    BY <2>1, OperandTypes
  <2>3. <<I.byte>> \in Seq(Byte) /\ AddrBytes(VarOffs) \in Seq(Byte)
    BY <2>2, AddrBytesType
  <2>4. <<I.byte>> \o AddrBytes(VarOffs) \in Seq(Byte)
    BY <2>3, ConcatProperties
  <2>5. QED
    BY <1>1, <1>3, <2>1, <2>4, HandledWork
<1>7. CASE PushVariable
  <2>1. Decode({"PUSH_VAR"}) /\ Handled(PushVar(mem, sp, VarOffs), sp - FptBytes, "ec_ok")
    BY <1>7 DEF PushVariable
  <2>2. Flip(Read(mem, VarOffs, FptBytes)) \in Seq(Byte)
    BY <1>1, <2>1, OperandTypes, FlippedRead
  <2>3. hp < sp - FptBytes => hp < sp - FptBytes + 1
    BY <1>1 DEF FptBytes
  <2>4. hp < sp - FptBytes => Keeps(PushVar(mem, sp, VarOffs))
    BY <1>1, <2>2, <2>3, MemKeeps, WriteKeeps DEF PushVar
  <2>5. QED
    BY <1>1, <2>1, <2>4, HandledWork
<1>8. CASE PushByte
  <2>1. /\ Decode({"PUSH_BYTE"})
        /\ Handled(PushNum(mem, sp, i2fpt(Get(mem, VarOffs))), sp - FptBytes, "ec_ok")
    BY <1>8 DEF PushByte
  <2>2. i2fpt(Get(mem, VarOffs)) \in Int
    BY <1>1, GetByte DEF Byte, i2fpt, FptOne
  <2>3. QED
    BY <1>1, <1>2, <2>1, <2>2, HandledWork
<1>9. CASE PushByteArrayByIdx
  <2> DEFINE val == Get(mem, VarOffs + StackByte(mem, sp) + 1)
  <2>1. /\ Decode({"PUSH_bARRAY_BY_IDX"})
        /\ Handled(PushNum(mem, sp + FptBytes, i2fpt(val)), sp, "ec_ok")
    BY <1>9 DEF PushByteArrayByIdx
  <2>2. val \in Int
    BY <1>1, GetByte DEF Byte
  <2> HIDE DEF val
  <2>3. i2fpt(val) \in Int
    BY <2>2 DEF i2fpt, FptOne
  <2>4. hp < sp + FptBytes - 4 /\ FptBytes \in Int
    BY <1>1 DEF FptBytes
  <2>5. Keeps(PushNum(mem, sp + FptBytes, i2fpt(val)))
    BY <1>1, <2>3, <2>4, MemKeeps, PushOverKeeps
  <2>6. QED
    BY <1>1, <2>1, <2>5, HandledWork
<1>10. QED
  BY <1>4, <1>5, <1>6, <1>7, <1>8, <1>9

(* Arithmetic pops what it pushes over (vm_exe.c:920-1000).                *)
LEMMA MathWork ==
  ASSUME TypeOK, running', 0 <= hp, hp < sp, MathOp \/ UnaryOp
  PROVE  Worked
<1>1. /\ junk \in Byte /\ IsMem(mem) /\ sp \in Int /\ hp \in Int
      /\ sp + FptBytes \in Int /\ sp + 2 * FptBytes \in Int
      /\ FptBytes \in Int /\ 2 * FptBytes \in Int
      /\ hp < sp + FptBytes - 4 /\ hp < sp + 2 * FptBytes - 4
  BY DEF TypeOK, IsMem, FptBytes
<1>2. CASE MathOp
  <2> DEFINE value2 == StackTop(mem, sp)
             value1 == StackTop(mem, sp + FptBytes)
             v      == MathValue(I.op, value1, value2)
  <2>1. value1 \in Int /\ value2 \in Int
    BY <1>1, StackTopType
  <2>2. Decode(MathOps)
    BY <1>2 DEF MathOp
  <2>3. CASE I.op = "DIV" /\ value2 = 0
    <3>1. Handled(mem, sp + 2 * FptBytes, "ec_div_except")
      BY <1>2, <2>3 DEF MathOp
    <3>2. QED
      BY <1>1, <2>2, <3>1, MemKeeps, HandledWork
  <2>4. CASE ~(I.op = "DIV" /\ value2 = 0)
    <3>1. Handled(PushNum(mem, sp + 2 * FptBytes, v), sp + FptBytes, "ec_ok")
      BY <1>2, <2>4 DEF MathOp
    <3> HIDE DEF value1, value2
    <3>2. v \in Int
      BY <2>1, <2>4, MathValueType
    <3> HIDE DEF v
    <3>3. Keeps(PushNum(mem, sp + 2 * FptBytes, v))
      BY <1>1, <3>2, MemKeeps, PushOverKeeps
    <3>4. QED
      BY <1>1, <2>2, <3>1, <3>3, HandledWork
  <2>5. QED
    BY <2>3, <2>4
<1>3. CASE UnaryOp
  <2> DEFINE value == StackTop(mem, sp)
             v     == IF I.op = "NOT" THEN Flag(value = 0) ELSE -value
  <2>1. Decode({"NOT", "INV"}) /\ Handled(PushNum(mem, sp + FptBytes, v), sp, "ec_ok")
    BY <1>3 DEF UnaryOp
  <2>2. value \in Int
    BY <1>1, StackTopType
  <2> HIDE DEF value
  <2>3. v \in Int
    BY <2>2 DEF Flag
  <2> HIDE DEF v
  <2>4. Keeps(PushNum(mem, sp + FptBytes, v))
    BY <1>1, <2>3, MemKeeps, PushOverKeeps
  <2>5. QED
    BY <1>1, <2>1, <2>4, HandledWork
<1>4. QED
  BY <1>2, <1>3

(* A function replaces what it pops by its result (vm_exe.c:366-473).      *)
LEMMA CallIntFuncWork ==
  ASSUME TypeOK, running', 0 <= hp, hp < sp, CallIntFunc
  PROVE  Worked
<1> DEFINE m == IF PopsPointer(I.arg) THEN PntMem(mem, sp) ELSE mem
           s == IF PopsPointer(I.arg) THEN sp + PntWidth(mem, sp)
                ELSE sp + FptBytes * NumbersPopped(I.arg)
           top == fpt2i(StackTop(mem, sp))
<1>1. /\ junk \in Byte /\ IsMem(mem) /\ sp \in Int /\ hp \in Int
  BY DEF TypeOK, IsMem
<1>2. Decode({"CALL_INT_FUNC"})
  BY DEF CallIntFunc
<1>3. Keeps(m)
  BY MemKeeps, PntMemKeeps
<1>4. s \in Int /\ s - FptBytes \in Int
  <2>1. PntWidth(mem, sp) \in Int
    BY <1>1, PntTypes
  <2>2. NumbersPopped(I.arg) \in Int
    BY DEF NumbersPopped
  <2>3. QED
    BY <1>1, <2>1, <2>2 DEF FptBytes
<1>5. top \in Int
  BY <1>1, StackTopType DEF fpt2i, FptOne
<1>6. /\ \/ \E v \in FuncResults(I.arg, top) :
              EndOfCycle(PushNum(m, s, i2fpt(v)), s - FptBytes, hp, ip, CmdSize(I.op), "ec_ok")
         \/ EndOfCycle(m, s, hp, ip, CmdSize(I.op), "ec_ok")
      /\ vars_base' = vars_base /\ recurs_cnt' = recurs_cnt
  BY DEF CallIntFunc
<1> HIDE DEF m, s, top
<1>7. CASE EndOfCycle(m, s, hp, ip, CmdSize(I.op), "ec_ok")
  BY <1>1, <1>2, <1>3, <1>4, <1>6, <1>7, CycleWork
<1>8. ASSUME NEW v \in FuncResults(I.arg, top),
             EndOfCycle(PushNum(m, s, i2fpt(v)), s - FptBytes, hp, ip, CmdSize(I.op), "ec_ok")
      PROVE  Worked
  <2>1. i2fpt(v) \in Int
    BY <1>5, FuncResultsType DEF i2fpt, FptOne
  <2>2. hp < s - FptBytes => Keeps(PushNum(m, s, i2fpt(v)))
    BY <1>3, <1>4, <2>1, PushNumKeeps
  <2>3. QED
    BY <1>1, <1>2, <1>4, <1>6, <1>8, <2>2, CycleWork
<1>9. QED
  BY <1>6, <1>7, <1>8

(* PRINT changes no more than the pointers it pops (vm_exe.c:813-872).     *)
LEMMA CallIntProcWork ==
  ASSUME TypeOK, running', 0 <= hp, hp < sp, CallIntProc
  PROVE  Worked
<1> DEFINE parts   == 0 .. (2 * PntSize(mem, sp) - 1)
           Part(i) == IF i % 2 = 1 THEN PntByte(mem, sp, i \div 2) % 16
                      ELSE PntByte(mem, sp, i \div 2) \div 16
           base    == sp + PntWidth(mem, sp)
           Wide(w, i) == Cardinality({j \in parts : j > i /\ PartWidth(Part(j)) = w})
           At(i)   == base + FptBytes * Wide(FptBytes, i) + 3 * Wide(3, i)
           m       == PntMem(mem, sp)
           tags    == {At(i) + 1 : i \in {j \in parts : Part(j) = print_ss_pointer}}
           swaps   == {x \in tags : Get(m, x) < 16}
           cells   == tags \cup {x + 1 : x \in swaps} \cup {x + 2 : x \in swaps}
           m2      == [x \in DOMAIN m \cup cells |->
                         IF x \in tags THEN Get(m, x) % 16
                         ELSE IF x - 1 \in swaps THEN Get(m, x + 1)
                         ELSE IF x - 2 \in swaps THEN Get(m, x - 1)
                         ELSE m[x]]
<1>1. /\ junk \in Byte /\ IsMem(mem) /\ sp \in Int /\ hp \in Int
  BY DEF TypeOK, IsMem
<1>2. /\ Decode({"CALL_INT_PROC"}) /\ EndOfCycle(m2, At(-1), hp, ip, CmdSize(I.op), "ec_ok")
      /\ vars_base' = vars_base /\ recurs_cnt' = recurs_cnt
  BY DEF CallIntProc
<1>3. base \in Int /\ hp < base
  BY <1>1 DEF PntWidth
<1>4. ASSUME NEW i \in Int PROVE At(i) \in Int /\ hp < At(i)
  <2>1. ASSUME NEW w PROVE Wide(w, i) \in Nat
    <3>1. PntSize(mem, sp) \in Byte
      BY <1>1, PntTypes
    <3>2. 2 * PntSize(mem, sp) - 1 \in Int
      BY <3>1 DEF Byte
    <3>3. IsFiniteSet(parts)
      BY <3>2, FS_Interval
    <3> HIDE DEF parts, Part
    <3>4. IsFiniteSet({j \in parts : j > i /\ PartWidth(Part(j)) = w})
      BY <3>3, FS_Subset
    <3>5. QED
      BY <3>4, FS_CardinalityType
  <2>2. Wide(FptBytes, i) \in Nat /\ Wide(3, i) \in Nat
    BY <2>1
  <2> HIDE DEF Wide, base
  <2>3. QED
    BY <1>1, <1>3, <2>2 DEF FptBytes
<1>5. \A x \in tags : x \in Int /\ hp < x
  <2>1. ASSUME NEW i \in parts PROVE At(i) + 1 \in Int /\ hp < At(i) + 1
    <3>1. i \in Int
      OBVIOUS
    <3> HIDE DEF At
    <3>2. QED
      BY <1>1, <3>1, <1>4
  <2> HIDE DEF At, parts, Part
  <2>2. QED
    BY <2>1
<1>6. Keeps(m)
  BY PntMemKeeps
<1>7. Keeps(m2)
  <2> HIDE DEF m, tags
  <2>1. \A x \in swaps : x \in Int /\ hp < x
    BY <1>5
  <2>2. \A x \in DOMAIN mem : x \in Int
    BY DEF TypeOK, MemAddr
  <2>3. ASSUME NEW x \in DOMAIN mem, x <= hp
        PROVE  x \in DOMAIN m /\ x \notin tags /\ x - 1 \notin swaps /\ x - 2 \notin swaps /\ m[x] = mem[x]
    <3> HIDE DEF swaps
    <3>1. x \in Int /\ ~(hp < x) /\ ~(hp < x - 1) /\ ~(hp < x - 2)
      BY <1>1, <2>2, <2>3
    <3>2. QED
      BY <1>5, <1>6, <2>1, <2>3, <3>1 DEF Keeps
  <2> HIDE DEF swaps, cells
  <2>4. QED
    BY <1>6, <2>3 DEF Keeps
<1>8. At(-1) \in Int
  <2> HIDE DEF At
  <2>1. QED
    BY <1>4
<1> HIDE DEF m2, At
<1>9. QED
  BY <1>1, <1>2, <1>7, <1>8, CycleWork

(* Declarations, jumps and markers (vm_exe.c:545-586, 598-603, 791-812).   *)
LEMMA OtherWork ==
  ASSUME TypeOK, running', 0 <= hp, hp < sp,
         InitVar \/ PopToNowhere \/ Jmp \/ JmpPopCmpz \/ Marker
  PROVE  Worked
<1>1. /\ sp \in Int /\ hp \in Int /\ 0 <= sp /\ sp + FptBytes \in Int
  BY DEF TypeOK, FptBytes
<1>2. CASE InitVar
  <2> DEFINE cell  == IF I.op = "INIT_gVAR" THEN FptBytes ELSE 1
             bytes == IF I.byte > 0 THEN 1 + I.byte * cell ELSE cell
             m     == IF I.byte > 0 THEN Write(mem, VarOffs, <<I.byte>>) ELSE mem
  <2>1. /\ Decode({"INIT_gVAR", "INIT_bVAR"}) /\ vars_base' = vars_base
        /\ recurs_cnt' = recurs_cnt
        /\ EndOfCycle(m, sp, VarOffs + bytes, ip, CmdSize(I.op), "ec_ok")
    BY <1>2 DEF InitVar
  <2>2. I.byte \in Int /\ VarOffs \in Int
    BY <2>1, OperandTypes DEF Byte
  <2>3. VarOffs + bytes \in Int
    BY <2>2 DEF FptBytes
  <2>4. Declares /\ Stores
    BY <2>1 DEF Decode, Declares, Stores, Fetches, StoreOps
  <2> HIDE DEF m, bytes
  <2>5. QED
    BY <1>1, <2>1, <2>3, <2>4, CycleWork
<1>3. CASE PopToNowhere
  <2>1. Decode({"POP_TO_NOWHERE"}) /\ Handled(mem, sp + FptBytes, "ec_ok")
    BY <1>3 DEF PopToNowhere
  <2>2. QED
    BY <1>1, <2>1, MemKeeps, HandledWork
<1>4. CASE Jmp
  <2>1. /\ Decode({"JMP"}) /\ vars_base' = vars_base /\ recurs_cnt' = recurs_cnt
        /\ EndOfCycle(mem, sp, hp, ip + Signed16(I.arg), CmdSize(I.op), "ec_ok")
    BY <1>4 DEF Jmp
  <2>2. QED
    BY <1>1, <2>1, MemKeeps, CycleWork
<1>5. CASE JmpPopCmpz
  <2> DEFINE i == IF StackTop(mem, sp) = 0 THEN ip + Signed16(I.arg) ELSE ip
  <2>1. /\ Decode({"JMP_POP_CMPZ"}) /\ vars_base' = vars_base /\ recurs_cnt' = recurs_cnt
        /\ EndOfCycle(mem, sp + FptBytes, hp, i, CmdSize(I.op), "ec_ok")
    BY <1>5 DEF JmpPopCmpz
  <2> HIDE DEF i
  <2>2. QED
    BY <1>1, <2>1, MemKeeps, CycleWork
<1>6. CASE Marker
  <2>1. /\ Decode({"DBG", "BREAK"}) /\ vars_base' = vars_base /\ recurs_cnt' = recurs_cnt
        /\ EndOfCycle(mem, sp, hp, ip, CmdSize(I.op), "ec_ok")
    BY <1>6 DEF Marker
  <2>2. QED
    BY <1>1, <2>1, MemKeeps, CycleWork
<1>7. QED
  BY <1>2, <1>3, <1>4, <1>5, <1>6

(* What the loop does not survive (vm_exe.c:519, 542-558, 873-887, 1001-1028). *)
LEMMA DeadEnds ==
  ASSUME TypeOK,
         \/ End \/ NoneInstr \/ UnknownInstr \/ CallUnknown \/ WildFetch \/ LeaveLoop
         \/ Return /\ recurs_cnt = 0
  PROVE  ~running'
<1>1. ASSUME NEW m, NEW s, NEW h, NEW i, NEW len, NEW r, r # "ec_ok",
             EndOfCycle(m, s, h, i, len, r)
      PROVE  ~running'
  BY <1>1 DEF EndOfCycle
<1>2. ASSUME NEW m, NEW s, NEW r, r # "ec_ok", Handled(m, s, r) PROVE ~running'
  BY <1>1, <1>2 DEF Handled
<1>3. CASE End
  BY <1>2, <1>3 DEF End
<1>4. CASE NoneInstr \/ WildFetch \/ LeaveLoop
  BY <1>4 DEF NoneInstr, WildFetch, LeaveLoop
<1>5. CASE UnknownInstr
  BY <1>2, <1>5 DEF UnknownInstr
<1>6. CASE CallUnknown
  BY <1>2, <1>6 DEF CallUnknown
<1>7. CASE Return /\ recurs_cnt = 0
  <2>1. \E m, s : EndOfCycle(m, s, hp, ip, CmdSize(I.op), "ec_exit")
    BY <1>7 DEF Return
  <2>2. QED
    BY <1>1, <2>1
<1>8. QED
  BY <1>3, <1>4, <1>5, <1>6, <1>7

(* Which instruction a step executes.                                      *)
LEMMA StepKinds ==
  ASSUME TypeOK, Step, running'
  PROVE  /\ Calls => CallPrgFunc
         /\ Returns => Return
         /\ ~Calls /\ ~Returns => ~CallPrgFunc /\ ~Return
         /\ Fetches
<1>1. CASE InitVar \/ LoadByte \/ PopToNowhere \/ PopByte \/ PopVar \/ PopPnt \/ PopByteArrayByIdx
  BY <1>1 DEF Calls, Returns, Fetches, Decode, InitVar, LoadByte, PopToNowhere, PopByte,
              PopVar, PopPnt, PopByteArrayByIdx, CallPrgFunc, Return
<1>2. CASE \/ PushNumber \/ PushPnt \/ PushObjPnt \/ PushVariable \/ PushByte
           \/ PushByteArrayByIdx \/ CopyToByteArray \/ CopyToGenArray
  BY <1>2 DEF Calls, Returns, Fetches, Decode, PushNumber, PushPnt, PushObjPnt, PushVariable,
              PushByte, PushByteArrayByIdx, CopyToByteArray, CopyToGenArray, CallPrgFunc, Return
<1>3. CASE Jmp \/ JmpPopCmpz \/ CallIntFunc \/ CallIntProc \/ MathOp \/ UnaryOp \/ Marker
  <2>1. \E ops : Decode(ops) /\ "CALL_PRG_FUNC" \notin ops /\ "RET" \notin ops /\ "RETVAL" \notin ops
    BY <1>3, SMTT(30) DEF Jmp, JmpPopCmpz, CallIntFunc, CallIntProc, MathOp, UnaryOp, Marker,
                       MathOps
  <2>2. QED
    BY <2>1 DEF Calls, Returns, Fetches, Decode, CallPrgFunc, Return
<1>4. CASE CallPrgFunc
  BY <1>4 DEF Calls, Returns, Fetches, Decode, CallPrgFunc
<1>5. CASE Return
  <2>1. recurs_cnt > 0
    BY <1>5, DeadEnds DEF TypeOK
  <2>2. QED
    BY <1>5, <2>1 DEF Calls, Returns, Fetches, Decode, Return
<1>6. CASE End \/ NoneInstr \/ UnknownInstr \/ CallUnknown \/ WildFetch \/ LeaveLoop
  BY <1>6, DeadEnds
<1>7. QED
  BY <1>1, <1>2, <1>3, <1>4, <1>5, <1>6 DEF Step

(* Every step that goes on is work, a call or a return.                    *)
LEMMA StepWork ==
  ASSUME TypeOK, running', 0 <= hp, hp < sp, Step, ~Calls, ~Returns
  PROVE  Worked
BY StepKinds, DeadEnds, StoreWork, PushWork, CallIntFuncWork, CallIntProcWork, MathWork,
   OtherWork DEF Step

-----------------------------------------------------------------------------
(* A call writes the caller's registers at hp (vm_exe.c:888-903).          *)
Caller == [pc |-> ip + CmdSize("CALL_PRG_FUNC"), base |-> vars_base, top |-> hp]

(* Where a call leaves the registers and the memory.                       *)
LEMMA CallFacts ==
  ASSUME TypeOK, running', Step, Calls, 0 <= hp
  PROVE  /\ mem' = Write(mem, hp, LinkOf(Caller)) /\ DOMAIN mem' = MemAddr
         /\ hp' = hp + FrameHead /\ vars_base' = hp + FrameHead
         /\ recurs_cnt' = recurs_cnt + 1 /\ hp' < sp' /\ sp' < StackSize
         /\ prog' = prog /\ junk' = junk
<1>1. CallPrgFunc /\ I.op = "CALL_PRG_FUNC"
  BY StepKinds DEF Calls
<1>2. /\ EndOfCycle(Write(mem, hp, LinkOf(Caller)), sp, hp + FrameHead, Signed16(I.arg), 0, "ec_ok")
      /\ vars_base' = hp + FrameHead /\ recurs_cnt' = recurs_cnt + 1
      /\ prog' = prog /\ junk' = junk
  BY <1>1 DEF CallPrgFunc, LinkOf, Caller, Decode
<1>3. sp \in Int /\ hp \in Int /\ hp + FrameHead \in Int /\ 0 <= hp + FrameHead
  BY DEF TypeOK, FrameHead, Linkage, FptBytes
<1> DEFINE m == Write(mem, hp, LinkOf(Caller))
           h == hp + FrameHead
<1> HIDE DEF m, h
<1>4. EndOfCycle(m, sp, h, Signed16(I.arg), 0, "ec_ok") /\ h \in Int /\ 0 <= h
  BY <1>2, <1>3 DEF m, h
<1>5. mem' = m /\ DOMAIN m = MemAddr /\ hp' = h /\ h < sp /\ sp < StackSize /\ sp' = sp
  BY <1>3, <1>4, EndFacts
<1>6. QED
  BY <1>2, <1>5 DEF m, h

(* A return reads them back: the result's slot and the stack lie above     *)
(* them (vm_exe.c:873-887).                                                *)
LEMMA ReturnFacts ==
  ASSUME IInv, running', running, sound, Step, Returns
  PROVE  LET f == frames[Len(frames)]
         IN  /\ f \in Frame /\ 0 <= f.top
             /\ vars_base = f.top + FrameHead /\ recurs_cnt = Len(frames) /\ Len(frames) > 0
             /\ ip' = f.pc /\ vars_base' = f.base /\ hp' = f.top
             /\ recurs_cnt' = recurs_cnt - 1 /\ hp' < sp' /\ sp' < StackSize
             /\ DOMAIN mem' = MemAddr
             /\ \A x \in Int : x < f.top + Linkage => Get(mem', x) = Get(mem, x)
             /\ prog' = prog /\ junk' = junk
<1> DEFINE f == frames[Len(frames)]
<1>1. TypeOK /\ Registers /\ Nesting /\ LinkBytes /\ frames \in Seq(Frame)
  BY DEF IInv, LinkInv
<1>2. recurs_cnt = Len(frames) /\ Len(frames) > 0 /\ Len(frames) \in DOMAIN frames
  BY <1>1 DEF Registers, Returns
<1>3. f \in Frame
  BY <1>1, <1>2, FrameAt
<1>4. /\ vars_base = f.top + FrameHead /\ 0 <= f.base /\ f.base <= f.top
      /\ f.pc \in Word /\ f.base \in Word /\ Read(mem, f.top, Linkage) = LinkOf(f)
  BY <1>1, <1>2 DEF Registers, Nesting, LinkBytes, BaseOver
<1>5. vars_base <= hp /\ hp < sp /\ sp \in Int /\ hp \in Int /\ IsMem(mem) /\ junk \in Byte
  BY <1>1 DEF Registers, TypeOK, IsMem
<1> HIDE DEF f
<1>6. f.top \in Int /\ f.base \in Int /\ f.pc \in Int /\ 0 <= f.top
  BY <1>3, <1>4 DEF Frame
<1> DEFINE slot == vars_base - FptBytes
           m    == IF I.op = "RETVAL" THEN PopVarTo(mem, sp, slot) ELSE mem
           s    == IF I.op = "RETVAL" THEN sp + FptBytes ELSE sp
           m2   == PushVar(m, s, slot)
<1>7. /\ EndOfCycle(m2, s - FptBytes, slot - Linkage, BytesAddr(Read(m2, slot - 2, 2)), 0, "ec_ok")
      /\ vars_base' = BytesAddr(Read(m2, slot - Linkage, 2))
      /\ recurs_cnt' = recurs_cnt - 1 /\ prog' = prog /\ junk' = junk
  BY StepKinds, <1>1, <1>2 DEF Return, Returns, Decode
<1>8. slot = f.top + 4 /\ slot - Linkage = f.top /\ slot - 2 = f.top + 2 /\ slot \in Int
  BY <1>4, <1>6 DEF FptBytes, FrameHead, Linkage
<1> HIDE DEF slot
<1>9. s \in Int /\ sp <= s
  BY <1>5 DEF FptBytes
<1>10. IsMem(m) /\ \A x \in Int : x < f.top + 4 => Get(m, x) = Get(mem, x)
  <2> DEFINE bs == Flip(Read(mem, sp + 1, FptBytes))
  <2>1. bs \in Seq(Byte)
    BY <1>5, FlippedRead
  <2> HIDE DEF bs
  <2>2. \A x \in Int : x < f.top + 4 => Get(Write(mem, slot, bs), x) = Get(mem, x)
    BY <1>8, <2>1, WriteCells
  <2>3. IsMem(Write(mem, slot, bs))
    BY <1>5, <1>8, <2>1, WriteMem
  <2>4. QED
    BY <1>5, <2>2, <2>3 DEF PopVarTo, bs
<1> HIDE DEF m, s
<1>11. \A x \in Int : x < f.top + 4 => Get(m2, x) = Get(mem, x)
  <2> DEFINE bs == Flip(Read(m, slot, FptBytes))
             a  == s - FptBytes + 1
  <2>1. bs \in Seq(Byte)
    BY <1>5, <1>8, <1>10, FlippedRead
  <2>2. a \in Int /\ f.top + 4 <= a
    BY <1>4, <1>5, <1>6, <1>9 DEF FptBytes, FrameHead, Linkage
  <2> HIDE DEF bs, a
  <2>3. \A x \in Int : x < f.top + 4 => Get(Write(m, a, bs), x) = Get(m, x)
    BY <1>6, <2>1, <2>2, WriteCells
  <2>4. QED
    BY <1>10, <2>3 DEF PushVar, bs, a
<1> HIDE DEF m2
<1>12. mem' = m2 /\ DOMAIN m2 = MemAddr /\ hp' = f.top /\ ip' = BytesAddr(Read(m2, f.top + 2, 2)) + 0
       /\ hp' < sp' /\ sp' < StackSize
  <2> DEFINE t == s - FptBytes
             i == BytesAddr(Read(m2, f.top + 2, 2))
  <2>1. t \in Int
    BY <1>9 DEF FptBytes
  <2> HIDE DEF t, i
  <2>2. EndOfCycle(m2, t, f.top, i, 0, "ec_ok")
    BY <1>7, <1>8 DEF t, i
  <2>3. mem' = m2 /\ DOMAIN m2 = MemAddr /\ hp' = f.top /\ f.top < t /\ t < StackSize
        /\ ip' = i + 0 /\ sp' = t
    BY <1>1, <1>6, <2>1, <2>2, EndFacts
  <2>4. QED
    BY <2>3 DEF i
<1>13. /\ Get(m2, f.top) = AddrBytes(f.base)[1] /\ Get(m2, f.top + 1) = AddrBytes(f.base)[2]
       /\ Get(m2, f.top + 2) = AddrBytes(f.pc)[1] /\ Get(m2, f.top + 3) = AddrBytes(f.pc)[2]
  <2>1. /\ Get(m2, f.top) = Get(mem, f.top) /\ Get(m2, f.top + 1) = Get(mem, f.top + 1)
        /\ Get(m2, f.top + 2) = Get(mem, f.top + 2) /\ Get(m2, f.top + 3) = Get(mem, f.top + 3)
    BY <1>6, <1>11
  <2>2. QED
    BY <1>4, <1>6, <2>1, LinkSeq, ReadLink
<1>14. vars_base' = f.base /\ ip' = f.pc
  <2>1. BytesAddr(Read(m2, f.top, 2)) = BytesAddr(AddrBytes(f.base))
    BY <1>6, <1>13, ReadAddr DEF BytesAddr
  <2>2. BytesAddr(Read(m2, f.top + 2, 2)) = BytesAddr(AddrBytes(f.pc))
    <3>1. f.top + 2 \in Int /\ f.top + 2 + 1 = f.top + 3
      BY <1>6
    <3>2. QED
      BY <1>13, <3>1, ReadAddr DEF BytesAddr
  <2>3. BytesAddr(AddrBytes(f.base)) = f.base /\ BytesAddr(AddrBytes(f.pc)) = f.pc
    BY <1>4, AddrRoundTrip
  <2>4. QED
    BY <1>6, <1>7, <1>8, <1>12, <2>1, <2>2, <2>3
<1>15. QED
  BY <1>2, <1>3, <1>4, <1>6, <1>7, <1>11, <1>12, <1>14 DEF f, Linkage

-----------------------------------------------------------------------------
(* The linkages after a step: what a running sound machine knows of its    *)
(* callers, and how it carries over.                                       *)
LEMMA LinkFacts ==
  ASSUME IInv, running, sound
  PROVE  /\ TypeOK /\ Registers /\ Nesting /\ LinkBytes
         /\ sp \in Int /\ hp \in Int /\ vars_base \in Int /\ DOMAIN mem = MemAddr
         /\ Len(frames) \in Nat /\ DOMAIN frames = 1 .. Len(frames)
         /\ \A k \in DOMAIN frames :
              frames[k].pc \in Int /\ frames[k].base \in Int /\ frames[k].top \in Int
<1>1. TypeOK /\ frames \in Seq(Frame) /\ Registers /\ Nesting /\ LinkBytes
  BY DEF IInv, LinkInv
<1>2. Len(frames) \in Nat /\ DOMAIN frames = 1 .. Len(frames)
  BY <1>1, LenProperties
<1>3. ASSUME NEW k \in DOMAIN frames
      PROVE  frames[k].pc \in Int /\ frames[k].base \in Int /\ frames[k].top \in Int
  <2>1. frames[k] \in Frame
    BY <1>1, FrameAt
  <2>2. QED
    BY <2>1 DEF Frame
<1>4. QED
  BY <1>1, <1>2, <1>3 DEF TypeOK

(* Cells that stay read the same.                                          *)
LEMMA ReadStays ==
  ASSUME NEW m, NEW n, NEW a \in Int, \A x \in a .. (a + Linkage - 1) : Get(n, x) = Get(m, x)
  PROVE  Read(n, a, Linkage) = Read(m, a, Linkage)
<1>1. \A i \in 1 .. Linkage : a + i - 1 \in a .. (a + Linkage - 1)
  BY DEF Linkage
<1>2. QED
  BY <1>1 DEF Read

(* The linkage of a caller is in memory as long as its bytes stay.         *)
LEMMA LinkBytesStay ==
  ASSUME NEW f \in Frame, Read(mem, f.top, Linkage) = LinkOf(f),
         \A x \in LinkCells(f) : Get(mem', x) = Get(mem, x)
  PROVE  Read(mem', f.top, Linkage) = LinkOf(f)
<1>1. f.top \in Int
  BY DEF Frame
<1>2. \A x \in f.top .. (f.top + Linkage - 1) : Get(mem', x) = Get(mem, x)
  BY DEF LinkCells
<1>3. QED
  BY <1>1, <1>2, ReadStays

(* The linkages lie in the array, up to the base of the activation.        *)
LEMMA LinkCellsIn ==
  ASSUME IInv, running, sound, NEW k \in DOMAIN frames, NEW x \in LinkCells(frames[k])
  PROVE  x \in DOMAIN mem /\ x \in Int /\ x < vars_base /\ x < hp
<1>1. /\ 0 <= frames[k].top /\ frames[k].top + FrameHead <= vars_base
      /\ vars_base <= hp /\ hp < sp /\ sp < StackSize
      /\ frames[k].top \in Int /\ frames[k].base \in Int
      /\ sp \in Int /\ hp \in Int /\ vars_base \in Int /\ DOMAIN mem = MemAddr
  BY LinkFacts DEF Registers, Nesting
<1>2. StackSize \in Int
  <2>1. prog.heap_min_size \in Int
    BY LinkFacts, WordIsInt DEF TypeOK, IsProgram
  <2>2. QED
    BY <2>1, VmAssumption DEF StackSize
<1>3. x \in Int /\ frames[k].top <= x /\ x < frames[k].top + Linkage
  BY <1>1 DEF LinkCells, Linkage
<1>4. QED
  BY <1>1, <1>2, <1>3 DEF MemAddr, FrameHead, Linkage, FptBytes

(* What the three parts of LinkInv say of the state after a step.          *)
LEMMA LinkAfter ==
  ASSUME prog' = prog, junk' = junk,
         Len(frames') = recurs_cnt',
         vars_base' = IF Len(frames') = 0 THEN 0 ELSE frames'[Len(frames')].top + FrameHead,
         0 <= vars_base', vars_base' <= hp', hp' < sp', sp' < StackSize,
         \A k \in DOMAIN frames' :
           /\ frames'[k].base = IF k - 1 = 0 THEN 0 ELSE frames'[k - 1].top + FrameHead
           /\ 0 <= frames'[k].base /\ frames'[k].base <= frames'[k].top
           /\ frames'[k].top + FrameHead <= vars_base',
         \A j, k \in DOMAIN frames' : j < k => frames'[j].top + FrameHead <= frames'[k].base,
         \A k \in DOMAIN frames' :
           /\ frames'[k].pc \in Word /\ frames'[k].base \in Word
           /\ Read(mem', frames'[k].top, Linkage) = LinkOf(frames'[k])
  PROVE  LinkInv'
<1>1. Registers'
  BY DEF Registers, BaseOver, StackSize, FrameHead, Linkage
<1>2. Nesting'
  BY DEF Nesting, BaseOver, FrameHead, Linkage
<1>3. LinkBytes'
  <2>1. ASSUME NEW k \in DOMAIN frames'
        PROVE  /\ Read(mem, frames[k].top, Linkage)' = Read(mem', frames'[k].top, Linkage)
               /\ LinkOf(frames[k])' = LinkOf(frames'[k])
    BY DEF Read, Get, Linkage, LinkOf, AddrBytes
  <2>2. QED
    BY <2>1 DEF LinkBytes
<1>4. QED
  BY <1>1, <1>2, <1>3 DEF LinkInv

(* Work keeps the linkages: by the rules, or because it writes above hp.   *)
LEMMA WorkLink ==
  ASSUME IInv, running, sound, KeepsRules, Worked, TypeOK', frames' = frames
  PROVE  LinkInv'
<1>1. /\ prog' = prog /\ junk' = junk /\ vars_base' = vars_base /\ recurs_cnt' = recurs_cnt
      /\ hp' < sp' /\ sp' < StackSize
      /\ Declares \/ hp' = hp
      /\ Stores \/ Keeps(mem')
  BY DEF Worked
<1>2. vars_base <= hp'
  <2>1. CASE Declares
    BY <2>1 DEF KeepsRules
  <2>2. CASE hp' = hp
    BY <2>2, LinkFacts DEF Registers
  <2>3. QED
    BY <1>1, <2>1, <2>2
<1>3. DOMAIN mem' = DOMAIN mem
  BY <1>1, LinkFacts DEF TypeOK, MemAddr, StackSize
<1>4. ASSUME NEW k \in DOMAIN frames
      PROVE  /\ frames[k].pc \in Word /\ frames[k].base \in Word
             /\ Read(mem', frames[k].top, Linkage) = LinkOf(frames[k])
  <2>1. /\ frames[k].pc \in Word /\ frames[k].base \in Word
        /\ Read(mem, frames[k].top, Linkage) = LinkOf(frames[k])
    BY LinkFacts DEF LinkBytes
  <2>2. ASSUME NEW x \in LinkCells(frames[k]) PROVE Get(mem', x) = Get(mem, x)
    <3>1. x \in DOMAIN mem /\ x <= hp
      BY LinkFacts, LinkCellsIn
    <3>2. mem'[x] = mem[x]
      BY <1>1, <3>1 DEF KeepsRules, Keeps
    <3>3. QED
      BY <1>3, <3>1, <3>2 DEF Get
  <2>3. frames[k] \in Frame
    BY FrameAt DEF IInv
  <2>4. QED
    BY <2>1, <2>2, <2>3, LinkBytesStay
<1>5. /\ Len(frames) = recurs_cnt /\ 0 <= vars_base
      /\ vars_base = IF Len(frames) = 0 THEN 0 ELSE frames[Len(frames)].top + FrameHead
  BY LinkFacts DEF Registers, BaseOver
<1>6. /\ \A k \in DOMAIN frames :
           /\ frames[k].base = IF k - 1 = 0 THEN 0 ELSE frames[k - 1].top + FrameHead
           /\ 0 <= frames[k].base /\ frames[k].base <= frames[k].top
           /\ frames[k].top + FrameHead <= vars_base
      /\ \A j, k \in DOMAIN frames : j < k => frames[j].top + FrameHead <= frames[k].base
  BY LinkFacts DEF Nesting, BaseOver
<1>7. /\ Len(frames') = recurs_cnt' /\ 0 <= vars_base' /\ vars_base' <= hp'
      /\ vars_base' = IF Len(frames') = 0 THEN 0 ELSE frames'[Len(frames')].top + FrameHead
  BY <1>1, <1>2, <1>5
<1>8. /\ \A k \in DOMAIN frames' :
           /\ frames'[k].base = IF k - 1 = 0 THEN 0 ELSE frames'[k - 1].top + FrameHead
           /\ 0 <= frames'[k].base /\ frames'[k].base <= frames'[k].top
           /\ frames'[k].top + FrameHead <= vars_base'
      /\ \A j, k \in DOMAIN frames' : j < k => frames'[j].top + FrameHead <= frames'[k].base
  BY <1>1, <1>6
<1>9. \A k \in DOMAIN frames' :
        /\ frames'[k].pc \in Word /\ frames'[k].base \in Word
        /\ Read(mem', frames'[k].top, Linkage) = LinkOf(frames'[k])
  BY <1>4
<1>10. QED
  BY <1>1, <1>7, <1>8, <1>9, LinkAfter

(* A call adds a linkage above the others.                                 *)
LEMMA CallLink ==
  ASSUME IInv, running, sound, KeepsRules, running', Step, Calls,
         frames' = Append(frames, Caller)
  PROVE  LinkInv'
<1> DEFINE n == Len(frames)
<1>1. /\ TypeOK /\ 0 <= vars_base /\ vars_base <= hp /\ recurs_cnt = n /\ n \in Nat
      /\ sp \in Int /\ hp \in Int /\ vars_base \in Int /\ DOMAIN frames = 1 .. n
      /\ vars_base = IF n = 0 THEN 0 ELSE frames[n].top + FrameHead
  BY LinkFacts DEF Registers, BaseOver
<1>2. 0 <= hp
  BY <1>1
<1>3. /\ mem' = Write(mem, hp, LinkOf(Caller)) /\ DOMAIN mem' = MemAddr
      /\ hp' = hp + FrameHead /\ vars_base' = hp + FrameHead
      /\ recurs_cnt' = recurs_cnt + 1 /\ hp' < sp' /\ sp' < StackSize
      /\ prog' = prog /\ junk' = junk
  BY <1>1, <1>2, CallFacts
<1>4. /\ Caller \in Frame /\ Caller.top = hp /\ Caller.base = vars_base
      /\ Caller.pc \in Word /\ Caller.base \in Word
  <2>1. Caller.pc \in Word /\ Caller.base \in Word
    BY DEF KeepsRules, Caller
  <2>2. QED
    BY <1>1, <2>1, WordIsInt DEF Caller, Frame
<1>5. /\ Len(frames') = n + 1 /\ DOMAIN frames' = 1 .. (n + 1)
      /\ \A k \in 1 .. n : frames'[k] = frames[k]
      /\ frames'[n + 1] = Caller
  <2>1. frames \in Seq(Frame)
    BY DEF IInv
  <2>2. QED
    BY <1>4, <2>1, AppendProperties, LenProperties
<1>6. /\ LinkOf(Caller) \in Seq(Byte) /\ Len(LinkOf(Caller)) = Linkage
  BY <1>4, WordIsInt, LinkSeq
<1>7. ASSUME NEW k \in 1 .. n
      PROVE  /\ frames[k].pc \in Word /\ frames[k].base \in Word
             /\ Read(mem', frames[k].top, Linkage) = LinkOf(frames[k])
  <2>1. /\ frames[k].pc \in Word /\ frames[k].base \in Word
        /\ Read(mem, frames[k].top, Linkage) = LinkOf(frames[k])
    BY <1>1, LinkFacts DEF LinkBytes
  <2>2. ASSUME NEW x \in LinkCells(frames[k]) PROVE Get(mem', x) = Get(mem, x)
    <3>1. x \in Int /\ x < hp
      BY <1>1, LinkCellsIn
    <3>2. QED
      BY <1>1, <1>3, <1>6, <3>1, WriteCells, SMTT(30)
  <2>3. frames[k] \in Frame
    BY <1>1, FrameAt DEF IInv
  <2>4. QED
    BY <2>1, <2>2, <2>3, LinkBytesStay
<1>8. Read(mem', hp, Linkage) = LinkOf(Caller)
  <2> DEFINE bs == LinkOf(Caller)
  <2>1. bs \in Seq(Byte) /\ Len(bs) = Linkage
    BY <1>6
  <2> HIDE DEF bs
  <2>2. \A x \in hp .. (hp + Len(bs) - 1) : Get(Write(mem, hp, bs), x) = bs[x - hp + 1]
    BY <1>1, <2>1, WriteCells
  <2>3. ASSUME NEW i \in 1 .. 4 PROVE Get(mem', hp + i - 1) = bs[i]
    <3> DEFINE x == hp + i - 1
    <3>1. x \in hp .. (hp + Len(bs) - 1) /\ x - hp + 1 = i
      BY <1>1, <2>1 DEF Linkage
    <3> HIDE DEF x
    <3>2. QED
      BY <1>3, <2>2, <3>1 DEF x, bs
  <2>4. /\ Get(mem', hp) = bs[1] /\ Get(mem', hp + 1) = bs[2]
        /\ Get(mem', hp + 2) = bs[3] /\ Get(mem', hp + 3) = bs[4]
    <3>1. hp + 1 - 1 = hp /\ hp + 2 - 1 = hp + 1 /\ hp + 3 - 1 = hp + 2 /\ hp + 4 - 1 = hp + 3
      BY <1>1
    <3>2. 1 \in 1 .. 4 /\ 2 \in 1 .. 4 /\ 3 \in 1 .. 4 /\ 4 \in 1 .. 4
      OBVIOUS
    <3>3. QED
      BY <2>3, <3>1, <3>2
  <2>5. Read(mem', hp, Linkage) = bs
    BY <1>1, <2>1, <2>4, ReadLink, SMTT(30)
  <2>6. QED
    BY <2>5 DEF bs
<1>9. ASSUME NEW k \in 1 .. n
      PROVE  /\ frames[k].base = IF k - 1 = 0 THEN 0 ELSE frames[k - 1].top + FrameHead
             /\ 0 <= frames[k].base /\ frames[k].base <= frames[k].top
             /\ frames[k].top + FrameHead <= vars_base
             /\ frames[k].top + FrameHead \in Int
             /\ \A j \in 1 .. n : j < k => frames[j].top + FrameHead <= frames[k].base
  <2>1. /\ k \in DOMAIN frames /\ frames[k].top \in Int
        /\ \A j \in 1 .. n : j \in DOMAIN frames
    BY <1>1, LinkFacts
  <2>2. /\ frames[k].base = BaseOver(k - 1)
        /\ 0 <= frames[k].base /\ frames[k].base <= frames[k].top
        /\ frames[k].top + FrameHead <= vars_base
    BY <2>1, LinkFacts DEF Nesting
  <2>3. \A j \in 1 .. n : j < k => frames[j].top + FrameHead <= frames[k].base
    BY <2>1, LinkFacts DEF Nesting
  <2>4. frames[k].top + FrameHead \in Int
    BY <2>1 DEF FrameHead, Linkage, FptBytes
  <2>5. QED
    BY <2>2, <2>3, <2>4 DEF BaseOver
<1>10. \A k \in DOMAIN frames' :
         /\ frames'[k].pc \in Word /\ frames'[k].base \in Word
         /\ Read(mem', frames'[k].top, Linkage) = LinkOf(frames'[k])
  <2>1. \A k \in DOMAIN frames' : k \in 1 .. n \/ k = n + 1
    BY <1>1, <1>5
  <2>2. QED
    BY <1>4, <1>5, <1>7, <1>8, <2>1
<1>11. vars_base <= vars_base' /\ 0 <= vars_base' /\ vars_base' <= hp' /\ vars_base' \in Int
  BY <1>1, <1>3 DEF FrameHead, Linkage, FptBytes
<1>12. \A k \in DOMAIN frames' :
         /\ frames'[k].base = IF k - 1 = 0 THEN 0 ELSE frames'[k - 1].top + FrameHead
         /\ 0 <= frames'[k].base /\ frames'[k].base <= frames'[k].top
         /\ frames'[k].top + FrameHead <= vars_base'
  <2>1. ASSUME NEW k \in 1 .. n
        PROVE  /\ frames'[k].base = IF k - 1 = 0 THEN 0 ELSE frames'[k - 1].top + FrameHead
               /\ 0 <= frames'[k].base /\ frames'[k].base <= frames'[k].top
               /\ frames'[k].top + FrameHead <= vars_base'
    <3>1. k - 1 = 0 \/ k - 1 \in 1 .. n
      BY <1>1
    <3>2. QED
      BY <1>1, <1>5, <1>9, <1>11, <3>1
  <2>2. /\ Caller.base = IF n + 1 - 1 = 0 THEN 0 ELSE frames'[n + 1 - 1].top + FrameHead
        /\ 0 <= Caller.base /\ Caller.base <= Caller.top
        /\ Caller.top + FrameHead <= vars_base'
    BY <1>1, <1>3, <1>4, <1>5, <1>11
  <2>3. \A k \in DOMAIN frames' : k \in 1 .. n \/ k = n + 1
    BY <1>1, <1>5
  <2>4. QED
    BY <1>5, <2>1, <2>2, <2>3
<1>13. \A j, k \in DOMAIN frames' : j < k => frames'[j].top + FrameHead <= frames'[k].base
  <2>1. ASSUME NEW j \in 1 .. (n + 1), NEW k \in 1 .. (n + 1), j < k
        PROVE  frames'[j].top + FrameHead <= frames'[k].base
    <3>1. j \in 1 .. n /\ (k \in 1 .. n \/ k = n + 1)
      BY <1>1, <2>1
    <3>2. QED
      BY <1>4, <1>5, <1>9, <2>1, <3>1
  <2>2. QED
    BY <1>5, <2>1
<1>14. /\ Len(frames') = recurs_cnt'
       /\ vars_base' = IF Len(frames') = 0 THEN 0 ELSE frames'[Len(frames')].top + FrameHead
  BY <1>1, <1>3, <1>4, <1>5
<1>15. QED
  BY <1>3, <1>10, <1>11, <1>12, <1>13, <1>14, LinkAfter

(* The callers that remain are those there were.                           *)
LEMMA OuterFrames ==
  ASSUME NEW fs \in Seq(Frame), Len(fs) > 0
  PROVE  /\ Outer(fs) \in Seq(Frame) /\ Len(Outer(fs)) = Len(fs) - 1
         /\ DOMAIN Outer(fs) = 1 .. (Len(fs) - 1)
         /\ \A k \in 1 .. (Len(fs) - 1) : Outer(fs)[k] = fs[k]
<1> DEFINE n == Len(fs) - 1
<1>1. n \in Nat /\ \A i \in 1 .. n : i \in DOMAIN fs
  BY LenProperties
<1>2. \A i \in 1 .. n : fs[i] \in Frame
  BY <1>1, FrameAt
<1> HIDE DEF n
<1>3. /\ SubSeq(fs, 1, n) \in Seq(Frame)
      /\ Len(SubSeq(fs, 1, n)) = IF 1 <= n THEN n - 1 + 1 ELSE 0
      /\ \A i \in 1 .. (n - 1 + 1) : SubSeq(fs, 1, n)[i] = fs[1 + i - 1]
  BY <1>1, <1>2, SubSeqProperties
<1>4. Len(SubSeq(fs, 1, n)) = n
  BY <1>1, <1>3
<1>5. \A i \in 1 .. n : SubSeq(fs, 1, n)[i] = fs[i]
  <2>1. ASSUME NEW i \in 1 .. n PROVE SubSeq(fs, 1, n)[i] = fs[i]
    <3>1. i \in 1 .. (n - 1 + 1) /\ 1 + i - 1 = i
      BY <1>1
    <3>2. QED
      BY <1>3, <3>1
  <2>2. QED
    BY <2>1
<1>6. DOMAIN SubSeq(fs, 1, n) = 1 .. n
  BY <1>3, <1>4, LenProperties
<1>7. QED
  BY <1>3, <1>4, <1>5, <1>6 DEF Outer, n

(* A return drops the innermost linkage and keeps the others.              *)
LEMMA ReturnLink ==
  ASSUME IInv, running, sound, running', Step, Returns, frames' = Outer(frames)
  PROVE  LinkInv'
<1> DEFINE n == Len(frames)
           f == frames[n]
<1>1. /\ n \in Nat /\ n > 0 /\ f \in Frame /\ 0 <= f.top
      /\ vars_base' = f.base /\ hp' = f.top /\ recurs_cnt = n
      /\ recurs_cnt' = recurs_cnt - 1 /\ hp' < sp' /\ sp' < StackSize
      /\ DOMAIN mem' = MemAddr
      /\ \A x \in Int : x < f.top + Linkage => Get(mem', x) = Get(mem, x)
      /\ prog' = prog /\ junk' = junk
  BY ReturnFacts, LinkFacts
<1>2. /\ Len(frames') = n - 1 /\ DOMAIN frames' = 1 .. (n - 1)
      /\ \A k \in 1 .. (n - 1) : frames'[k] = frames[k] /\ k \in DOMAIN frames
  <2>1. frames \in Seq(Frame) /\ DOMAIN frames = 1 .. n
    BY LinkFacts DEF IInv
  <2>2. QED
    BY <1>1, <2>1, OuterFrames
<1>3. n \in DOMAIN frames /\ f.top \in Int /\ f.base \in Int
  BY <1>1, LinkFacts
<1>4. f.base = BaseOver(n - 1) /\ 0 <= f.base /\ f.base <= f.top
  BY <1>3, LinkFacts DEF Nesting
<1>5. ASSUME NEW k \in 1 .. (n - 1)
      PROVE  /\ frames[k].base = BaseOver(k - 1)
             /\ 0 <= frames[k].base /\ frames[k].base <= frames[k].top
             /\ frames[k].top + FrameHead <= f.base
             /\ \A j \in 1 .. (n - 1) : j < k => frames[j].top + FrameHead <= frames[k].base
  <2>1. k \in DOMAIN frames /\ k < n /\ \A j \in 1 .. (n - 1) : j \in DOMAIN frames
    BY <1>1, <1>2
  <2>2. /\ frames[k].base = BaseOver(k - 1)
        /\ 0 <= frames[k].base /\ frames[k].base <= frames[k].top
    BY <2>1, LinkFacts DEF Nesting
  <2>3. frames[k].top + FrameHead <= f.base
    BY <1>3, <2>1, LinkFacts DEF Nesting
  <2>4. \A j \in 1 .. (n - 1) : j < k => frames[j].top + FrameHead <= frames[k].base
    BY <2>1, LinkFacts DEF Nesting
  <2>5. QED
    BY <2>2, <2>3, <2>4
<1>6. ASSUME NEW k \in 1 .. (n - 1)
      PROVE  /\ frames[k].pc \in Word /\ frames[k].base \in Word
             /\ Read(mem', frames[k].top, Linkage) = LinkOf(frames[k])
  <2>1. /\ frames[k].pc \in Word /\ frames[k].base \in Word
        /\ Read(mem, frames[k].top, Linkage) = LinkOf(frames[k])
        /\ frames[k].top \in Int
    BY <1>2, LinkFacts DEF LinkBytes
  <2>2. ASSUME NEW x \in LinkCells(frames[k]) PROVE Get(mem', x) = Get(mem, x)
    <3>1. x \in Int /\ x < frames[k].top + FrameHead
      BY <2>1 DEF LinkCells, FrameHead, Linkage, FptBytes
    <3>2. frames[k].top + FrameHead \in Int /\ f.top + Linkage \in Int
          /\ f.top < f.top + Linkage /\ frames[k].top + FrameHead <= f.base
      BY <1>3, <1>5, <2>1 DEF FrameHead, Linkage, FptBytes
    <3>3. x < f.top + Linkage
      BY <1>3, <1>4, <3>1, <3>2
    <3>4. QED
      BY <1>1, <3>1, <3>3
  <2>3. frames[k] \in Frame
    BY <1>2, FrameAt DEF IInv
  <2>4. QED
    BY <2>1, <2>2, <2>3, LinkBytesStay
<1> HIDE DEF f
<1>7. /\ Len(frames') = recurs_cnt' /\ 0 <= vars_base' /\ vars_base' <= hp'
      /\ vars_base' = IF Len(frames') = 0 THEN 0 ELSE frames'[Len(frames')].top + FrameHead
  <2>1. Len(frames') = recurs_cnt' /\ 0 <= vars_base' /\ vars_base' <= hp'
    BY <1>1, <1>2, <1>4
  <2>2. vars_base' = IF n - 1 = 0 THEN 0 ELSE frames[n - 1].top + FrameHead
    BY <1>1, <1>4 DEF BaseOver
  <2>3. n - 1 = 0 \/ n - 1 \in 1 .. (n - 1)
    BY <1>1
  <2>4. QED
    BY <1>2, <2>1, <2>2, <2>3
<1>8. \A k \in DOMAIN frames' :
        /\ frames'[k].base = IF k - 1 = 0 THEN 0 ELSE frames'[k - 1].top + FrameHead
        /\ 0 <= frames'[k].base /\ frames'[k].base <= frames'[k].top
        /\ frames'[k].top + FrameHead <= vars_base'
  <2>1. ASSUME NEW k \in 1 .. (n - 1)
        PROVE  frames'[k].base = IF k - 1 = 0 THEN 0 ELSE frames'[k - 1].top + FrameHead
    <3>1. k - 1 = 0 \/ k - 1 \in 1 .. (n - 1)
      BY <1>1
    <3>2. frames[k].base = IF k - 1 = 0 THEN 0 ELSE frames[k - 1].top + FrameHead
      BY <1>5 DEF BaseOver
    <3>3. QED
      BY <1>2, <3>1, <3>2
  <2>2. QED
    BY <1>1, <1>2, <1>5, <2>1
<1>9. \A j, k \in DOMAIN frames' : j < k => frames'[j].top + FrameHead <= frames'[k].base
  BY <1>2, <1>5, ZenonT(30)
<1>10. \A k \in DOMAIN frames' :
         /\ frames'[k].pc \in Word /\ frames'[k].base \in Word
         /\ Read(mem', frames'[k].top, Linkage) = LinkOf(frames'[k])
  BY <1>2, <1>6
<1>11. QED
  BY <1>1, <1>7, <1>8, <1>9, <1>10, LinkAfter

-----------------------------------------------------------------------------
(* The invariant is inductive, and what each step does to the activations. *)
LEMMA FramesStep ==
  ASSUME CNext
  PROVE  /\ Calls => frames' = Append(frames, Caller)
         /\ Returns /\ frames # <<>> => frames' = Outer(frames)
         /\ ~Calls /\ ~Returns => frames' = frames
         /\ Returns /\ frames = <<>> => frames' = frames
         /\ sound' = (sound /\ KeepsRules)
<1>1. Returns => ~Calls
  BY DEF Returns, Calls
<1>2. QED
  BY <1>1 DEF CNext, Caller

(* A machine that still runs after a step ran before it.                   *)
LEMMA RunsStep ==
  ASSUME Next, running'
  PROVE  running /\ Step
<1>1. ~Stopped
  BY DEF Stopped, vars
<1>2. Step
  BY <1>1 DEF Next
<1>3. running
  <2>1. CASE InitVar \/ LoadByte \/ PopToNowhere \/ PopByte \/ PopVar \/ PopPnt \/ PopByteArrayByIdx
    BY <2>1 DEF Decode, InitVar, LoadByte, PopToNowhere, PopByte, PopVar, PopPnt,
                PopByteArrayByIdx
  <2>2. CASE \/ PushNumber \/ PushPnt \/ PushObjPnt \/ PushVariable \/ PushByte
             \/ PushByteArrayByIdx \/ CopyToByteArray \/ CopyToGenArray
    BY <2>2 DEF Decode, PushNumber, PushPnt, PushObjPnt, PushVariable, PushByte,
                PushByteArrayByIdx, CopyToByteArray, CopyToGenArray
  <2>3. CASE Jmp \/ JmpPopCmpz \/ CallPrgFunc \/ Return \/ CallIntFunc \/ CallUnknown \/ CallIntProc
    <3>1. \E ops : Decode(ops)
      BY <2>3 DEF Jmp, JmpPopCmpz, CallPrgFunc, Return, CallIntFunc, CallUnknown, CallIntProc
    <3>2. QED
      BY <3>1 DEF Decode
  <2>4. CASE \/ MathOp \/ UnaryOp \/ End \/ Marker \/ NoneInstr \/ UnknownInstr \/ WildFetch
             \/ LeaveLoop
    <3>1. (\E ops : Decode(ops)) \/ WildFetch \/ LeaveLoop
      BY <2>4 DEF MathOp, UnaryOp, End, Marker, NoneInstr, UnknownInstr
    <3>2. QED
      BY <3>1 DEF Decode, WildFetch, LeaveLoop
  <2>5. QED
    BY <1>2, <2>1, <2>2, <2>3, <2>4 DEF Step
<1>4. QED
  BY <1>2, <1>3

(* The history has its type.                                               *)
LEMMA FramesType ==
  ASSUME IInv, CNext
  PROVE  frames' \in Seq(Frame)
<1>1. frames \in Seq(Frame) /\ TypeOK
  BY DEF IInv
<1>2. CASE Calls
  <2>1. Caller \in Frame
    <3>1. ip + CmdSize("CALL_PRG_FUNC") \in Int
      BY <1>1 DEF TypeOK, CmdSize, PlainOps, IdOps, WordOps, WordByteOps
    <3>2. QED
      BY <1>1, <3>1 DEF Caller, Frame, TypeOK
  <2>2. QED
    BY <1>1, <1>2, <2>1, FramesStep, AppendProperties
<1>3. CASE Returns /\ frames # <<>>
  <2>1. Len(frames) > 0
    BY <1>1, <1>3, EmptySeq, LenProperties
  <2>2. QED
    BY <1>1, <1>3, <2>1, FramesStep, OuterFrames
<1>4. CASE ~Calls /\ ~(Returns /\ frames # <<>>)
  BY <1>1, <1>4, FramesStep
<1>5. QED
  BY <1>2, <1>3, <1>4

(* LinkInv after any step of a machine that is then running and sound.     *)
LEMMA NextLink ==
  ASSUME IInv, CNext, TypeOK'
  PROVE  LinkInv'
<1> SUFFICES ASSUME running', sound' PROVE LinkInv'
  BY DEF LinkInv
<1>1. running /\ Step
  BY RunsStep DEF CNext
<1>2. sound /\ KeepsRules
  BY FramesStep
<1>3. CASE Calls
  BY <1>1, <1>2, <1>3, FramesStep, CallLink
<1>4. CASE Returns
  <2>1. frames # <<>>
    BY <1>1, <1>2, <1>4, ReturnFacts
  <2>2. QED
    BY <1>1, <1>2, <1>4, <2>1, FramesStep, ReturnLink
<1>5. CASE ~Calls /\ ~Returns
  <2>1. 0 <= hp /\ hp < sp
    BY <1>1, <1>2, LinkFacts DEF Registers
  <2>2. Worked
    BY <1>1, <1>5, <2>1, StepWork DEF IInv
  <2>3. QED
    BY <1>1, <1>2, <1>5, <2>2, FramesStep, WorkLink
<1>6. QED
  BY <1>3, <1>4, <1>5

(* IInv is inductive.                                                      *)
LEMMA NextIInv == IInv /\ [CNext]_cvars => IInv'
<1> SUFFICES ASSUME IInv, [CNext]_cvars PROVE IInv'
  OBVIOUS
<1>1. TypeOK'
  BY NextTypes DEF IInv, CNext, cvars
<1>2. CASE CNext
  <2>1. frames' \in Seq(Frame) /\ LinkInv'
    BY <1>1, <1>2, FramesType, NextLink
  <2>2. sound' \in BOOLEAN
    BY <1>2, FramesStep
  <2>3. QED
    BY <1>1, <2>1, <2>2 DEF IInv, Frame
<1>3. CASE UNCHANGED cvars
  <2>1. LinkInv'
    BY <1>3, SMTT(30) DEF IInv, cvars, vars, hist, LinkInv, Registers, Nesting, LinkBytes, BaseOver,
                StackSize, LinkOf, AddrBytes, Read, Get
  <2>2. QED
    BY <1>1, <1>3, <2>1 DEF IInv, Frame, cvars, hist
<1>4. QED
  BY <1>2, <1>3

(* IInv holds at first: the stack has room for one byte at least.          *)
LEMMA InitIInv == CInit => IInv
<1> SUFFICES ASSUME CInit PROVE IInv
  OBVIOUS
<1>1. TypeOK
  BY InitTypes DEF CInit
<1>2. frames = <<>> /\ sound = TRUE /\ vars_base = 0 /\ hp = 0 /\ recurs_cnt = 0 /\ sp = StackSize - 1
  BY DEF CInit, Init
<1>3. StackSize \in Int /\ 1 < StackSize
  <2>1. prog.heap_min_size \in Nat /\ StackSizeMin \in Nat /\ 1 < StackSizeMin
    BY <1>1, WordIsInt, VmAssumption DEF TypeOK, IsProgram
  <2>2. QED
    BY <2>1 DEF StackSize
<1>4. LinkInv
  BY <1>2, <1>3 DEF LinkInv, Registers, Nesting, LinkBytes, BaseOver
<1>5. QED
  BY <1>1, <1>2, <1>4 DEF IInv

(* Whatever the program and however deep its calls: while it has kept the  *)
(* rules, the bytes of every linkage spell the registers of its caller     *)
(* (vm_exe.c:873-903).                                                     *)
THEOREM LinksHold == CSpec => []LinkInv
<1>1. IInv => LinkInv
  BY DEF IInv
<1>2. QED
  BY <1>1, InitIInv, NextIInv, PTL DEF CSpec

(* The machine starts where CallStack does.                                *)
LEMMA RefinesInit == CInit => CallsAndReturns!Init
BY InitTypes, WordIsInt DEF CInit, Init, CallsAndReturns!Init, TypeOK, IsProgram

(* Each step of the machine is a step of CallStack, or none.               *)
LEMMA RefinesNext ==
  ASSUME IInv, IInv', [CNext]_cvars
  PROVE  [CallsAndReturns!Next]_(CallsAndReturns!vars)
<1>1. CASE UNCHANGED cvars
  BY <1>1 DEF cvars, vars, hist, CallsAndReturns!vars
<1>2. CASE CNext /\ ~(sound /\ running)
  <2>1. ~sound => ~sound'
    BY <1>2, FramesStep
  <2>2. ~running => ~running'
    BY <1>2, RunsStep DEF CNext
  <2>3. QED
    BY <1>2, <2>1, <2>2 DEF CallsAndReturns!Next
<1>3. CASE CNext /\ sound /\ running
  <2>1. CASE ~sound'
    <3>1. sound' = FALSE
      BY <2>1 DEF IInv
    <3>2. QED
      BY <1>3, <3>1 DEF CallsAndReturns!Next, CallsAndReturns!Break
  <2>2. CASE ~running'
    <3>1. running' = FALSE
      BY <2>2 DEF IInv, TypeOK
    <3>2. QED
      BY <1>3, <3>1 DEF CallsAndReturns!Next, CallsAndReturns!Stop
  <2>3. CASE sound' /\ running'
    <3>1. /\ Step /\ KeepsRules /\ TypeOK /\ 0 <= hp /\ hp < sp
          /\ sound' = sound /\ running' = running
          /\ ip' \in Int /\ hp' \in Int /\ vars_base' <= hp'
      <4>1. Step
        BY <1>3, <2>3, RunsStep DEF CNext
      <4>2. KeepsRules
        BY <1>3, <2>3, FramesStep
      <4>3. sound' = sound /\ running' = running /\ TypeOK /\ ip' \in Int /\ hp' \in Int
        BY <1>3, <2>3 DEF IInv, TypeOK
      <4>4. 0 <= hp /\ hp < sp
        BY <1>3, LinkFacts DEF Registers
      <4>5. vars_base' <= hp'
        BY <2>3 DEF IInv, LinkInv, Registers
      <4>6. QED
        BY <4>1, <4>2, <4>3, <4>4, <4>5
    <3>2. CASE Calls
      <4>1. hp' = hp + FrameHead /\ vars_base' = hp + FrameHead
        BY <2>3, <3>1, <3>2, CallFacts
      <4>2. frames' = Append(frames, Caller)
        BY <1>3, <3>2, FramesStep
      <4>3. CallsAndReturns!Call
        BY <3>1, <4>1, <4>2 DEF CallsAndReturns!Call, Caller
      <4>4. QED
        BY <1>3, <4>3 DEF CallsAndReturns!Next
    <3>3. CASE Returns
      <4>1. /\ ip' = frames[Len(frames)].pc /\ vars_base' = frames[Len(frames)].base
            /\ hp' = frames[Len(frames)].top /\ frames # <<>>
        BY <1>3, <2>3, <3>1, <3>3, ReturnFacts
      <4>2. frames' = SubSeq(frames, 1, Len(frames) - 1)
        BY <1>3, <3>3, <4>1, FramesStep DEF Outer
      <4>3. CallsAndReturns!Return
        BY <3>1, <4>1, <4>2 DEF CallsAndReturns!Return
      <4>4. QED
        BY <1>3, <4>3 DEF CallsAndReturns!Next
    <3>4. CASE ~Calls /\ ~Returns
      <4>1. vars_base' = vars_base
        BY <2>3, <3>1, <3>4, StepWork DEF Worked
      <4>2. frames' = frames
        BY <1>3, <3>4, FramesStep
      <4>3. CallsAndReturns!Work
        BY <3>1, <4>1, <4>2 DEF CallsAndReturns!Work
      <4>4. QED
        BY <1>3, <4>3 DEF CallsAndReturns!Next
    <3>5. QED
      BY <3>2, <3>3, <3>4
  <2>4. QED
    BY <2>1, <2>2, <2>3
<1>4. QED
  BY <1>1, <1>2, <1>3

(* The machine keeps the promise of CallStack: every return of a sound     *)
(* program finds its caller's place in the code, variable base and heap top *)
(* in the bytes the call left among the variables (vm_exe.c:873-903).      *)
THEOREM MachineImplementsCallStack == CSpec => ImplementsCallStack
<1>1. CInit => CallsAndReturns!Init
  BY RefinesInit
<1>2. IInv /\ IInv' /\ [CNext]_cvars => [CallsAndReturns!Next]_(CallsAndReturns!vars)
  BY RefinesNext
<1>3. QED
  BY <1>1, <1>2, InitIInv, NextIInv, PTL DEF CSpec, ImplementsCallStack, CallsAndReturns!Spec

-----------------------------------------------------------------------------
(* The pads: which writes stay in the array.                                *)
LEMMA Inside ==
  ASSUME NEW m, DOMAIN m = MemAddr, NEW a \in Int, NEW bs \in Seq(Byte), StackSize \in Int,
         -8 <= a, a + Len(bs) <= StackSize + 4
  PROVE  DOMAIN Write(m, a, bs) = MemAddr
<1> DEFINE cells == a .. (a + Len(bs) - 1)
<1>1. cells \subseteq MemAddr
  BY DEF MemAddr, FptBytes
<1> HIDE DEF cells
<1>2. QED
  BY <1>1 DEF Write, cells

(* Numbers reach three bytes down from where they are pushed.               *)
LEMMA PushInside ==
  ASSUME NEW m, DOMAIN m = MemAddr, IsMem(m), junk \in Byte, StackSize \in Int,
         NEW s \in Int, -5 <= s, s <= StackSize + 3
  PROVE  /\ \A v \in Int : DOMAIN PushNum(m, s, v) = MemAddr
         /\ \A a \in Int : DOMAIN PushVar(m, s, a) = MemAddr
<1> DEFINE low == s - FptBytes + 1
<1>1. low \in Int /\ -8 <= low /\ low + 4 <= StackSize + 4
  BY DEF FptBytes
<1> HIDE DEF low
<1>2. ASSUME NEW bs \in Seq(Byte), Len(bs) = 4 PROVE DOMAIN Write(m, low, bs) = MemAddr
  BY <1>1, <1>2, Inside
<1>3. ASSUME NEW b, Flip(b) \in Seq(Byte) PROVE Len(Flip(b)) = 4
  BY <1>3 DEF Flip, FptBytes
<1>4. ASSUME NEW v \in Int PROVE DOMAIN PushNum(m, s, v) = MemAddr
  BY <1>2, <1>3, NumBytesType DEF PushNum, low
<1>5. ASSUME NEW a \in Int PROVE DOMAIN PushVar(m, s, a) = MemAddr
  BY <1>2, <1>3, FlippedRead DEF PushVar, low
<1>6. QED
  BY <1>4, <1>5

(* A cycle whose handler stayed in the array does not end wild.             *)
LEMMA CycleInside ==
  ASSUME NEW m, NEW s, NEW h, NEW i, NEW len, NEW r, DOMAIN m = MemAddr, r # "wild_write",
         EndOfCycle(m, s, h, i, len, r)
  PROVE  ret' # "wild_write"
BY DEF EndOfCycle

(* No handler that ends its cycle wrote outside the array.                   *)
LEMMA HandledInside ==
  ASSUME NEW m, NEW s, NEW r, DOMAIN m = MemAddr, r # "wild_write", Handled(m, s, r)
  PROVE  ret' # "wild_write"
BY CycleInside DEF Handled

(* Where a running sound machine's stack lies in the array.                 *)
LEMMA StackFacts ==
  ASSUME IInv, running, sound
  PROVE  /\ TypeOK /\ DOMAIN mem = MemAddr /\ IsMem(mem) /\ junk \in Byte
         /\ StackSize \in Int /\ sp \in Int /\ hp \in Int /\ vars_base \in Int
         /\ 0 <= hp /\ hp < sp /\ sp < StackSize
<1>1. TypeOK /\ IsMem(mem) /\ junk \in Byte
  BY DEF IInv, TypeOK, IsMem
<1>2. StackSize \in Int
  <2>1. prog.heap_min_size \in Int
    BY <1>1, WordIsInt DEF TypeOK, IsProgram
  <2>2. QED
    BY <2>1, VmAssumption DEF StackSize
<1>3. QED
  BY <1>1, <1>2, LinkFacts DEF Registers

(* Nor do the pushes.                                                        *)
LEMMA PushesInside ==
  ASSUME IInv, running, sound,
         \/ PushNumber \/ PushPnt \/ PushObjPnt \/ PushVariable \/ PushByte
         \/ PushByteArrayByIdx \/ UnaryOp
  PROVE  ret' # "wild_write"
<1>1. /\ DOMAIN mem = MemAddr /\ IsMem(mem) /\ junk \in Byte /\ StackSize \in Int /\ sp \in Int
      /\ 1 <= sp /\ sp < StackSize /\ sp - 2 \in Int /\ sp + FptBytes \in Int
      /\ sp + FptBytes <= StackSize + 3 /\ TypeOK
  BY StackFacts DEF FptBytes
<1>2. ASSUME NEW bs \in Seq(Byte), Len(bs) = 3 PROVE DOMAIN Write(mem, sp - 2, bs) = MemAddr
  <2> DEFINE low == sp - 2
  <2>1. low \in Int /\ -8 <= low /\ low + Len(bs) <= StackSize + 4
    BY <1>1, <1>2
  <2> HIDE DEF low
  <2>2. DOMAIN Write(mem, low, bs) = MemAddr
    BY <1>1, <2>1, Inside
  <2>3. QED
    BY <2>2 DEF low
<1>3. \A v \in Int : DOMAIN PushNum(mem, sp, v) = MemAddr
  BY <1>1, PushInside
<1>4. \A a \in Int : DOMAIN PushVar(mem, sp, a) = MemAddr
  BY <1>1, PushInside
<1>5. \A v \in Int : DOMAIN PushNum(mem, sp + FptBytes, v) = MemAddr
  <2> DEFINE t == sp + FptBytes
  <2>1. t \in Int /\ -5 <= t /\ t <= StackSize + 3
    BY <1>1 DEF FptBytes
  <2> HIDE DEF t
  <2>2. \A v \in Int : DOMAIN PushNum(mem, t, v) = MemAddr
    BY <1>1, <2>1, PushInside
  <2>3. QED
    BY <2>2 DEF t
<1>6. ASSUME NEW ops, Decode(ops)
      PROVE  I.arg \in Int /\ I.byte \in Byte /\ VarOffs \in Int
  BY <1>1, <1>6, OperandTypes
<1>7. CASE PushNumber
  BY <1>3, <1>6, <1>7, HandledInside DEF PushNumber
<1>8. CASE PushPnt
  <2>1. Read(mem, VarOffs, 3) \in Seq(Byte) /\ Len(Read(mem, VarOffs, 3)) = 3
    BY <1>1, <1>6, <1>8, ReadBytes DEF PushPnt
  <2>2. QED
    BY <1>2, <1>8, <2>1, HandledInside DEF PushPnt
<1>9. CASE PushObjPnt
  <2> DEFINE bs == <<I.byte>> \o AddrBytes(VarOffs)
  <2>1. /\ <<I.byte>> \in Seq(Byte) /\ Len(<<I.byte>>) = 1
        /\ AddrBytes(VarOffs) \in Seq(Byte) /\ Len(AddrBytes(VarOffs)) = 2
    <3>1. I.byte \in Byte /\ VarOffs \in Int
      BY <1>6, <1>9 DEF PushObjPnt
    <3>2. QED
      BY <3>1, AddrBytesType DEF AddrBytes
  <2>2. bs \in Seq(Byte) /\ Len(bs) = 3
    BY <2>1, ConcatProperties, SMTT(30)
  <2>3. Handled(Write(mem, sp - 2, bs), sp - 3, "ec_ok")
    BY <1>9 DEF PushObjPnt
  <2> HIDE DEF bs
  <2>4. QED
    BY <1>2, <2>2, <2>3, HandledInside
<1>10. CASE PushVariable
  BY <1>4, <1>6, <1>10, HandledInside DEF PushVariable
<1>11. CASE PushByte
  <2>1. i2fpt(Get(mem, VarOffs)) \in Int
    BY <1>1, GetByte DEF Byte, i2fpt, FptOne
  <2>2. QED
    BY <1>3, <1>11, <2>1, HandledInside DEF PushByte
<1>12. CASE PushByteArrayByIdx
  <2> DEFINE val == Get(mem, VarOffs + StackByte(mem, sp) + 1)
  <2>1. val \in Byte
    BY <1>1, GetByte
  <2>2. Handled(PushNum(mem, sp + FptBytes, i2fpt(val)), sp, "ec_ok")
    BY <1>12 DEF PushByteArrayByIdx
  <2> HIDE DEF val
  <2>3. i2fpt(val) \in Int
    BY <2>1 DEF Byte, i2fpt, FptOne
  <2>4. QED
    BY <1>5, <2>2, <2>3, HandledInside
<1>13. CASE UnaryOp
  <2> DEFINE value == StackTop(mem, sp)
             v     == IF I.op = "NOT" THEN Flag(value = 0) ELSE -value
  <2>1. Handled(PushNum(mem, sp + FptBytes, v), sp, "ec_ok")
    BY <1>13 DEF UnaryOp
  <2>2. value \in Int
    BY <1>1, StackTopType
  <2> HIDE DEF value
  <2>3. v \in Int
    BY <2>2 DEF Flag
  <2> HIDE DEF v
  <2>4. QED
    BY <1>5, <2>1, <2>3, HandledInside
<1>14. QED
  BY <1>7, <1>8, <1>9, <1>10, <1>11, <1>12, <1>13

(* Nor do calls and returns.                                                 *)
LEMMA CallsInside ==
  ASSUME IInv, running, sound, CallPrgFunc \/ Return \/ CallUnknown
  PROVE  ret' # "wild_write"
<1>1. /\ DOMAIN mem = MemAddr /\ IsMem(mem) /\ junk \in Byte /\ StackSize \in Int
      /\ sp \in Int /\ hp \in Int /\ vars_base \in Int /\ TypeOK
      /\ 0 <= hp /\ hp < sp /\ sp < StackSize
  BY StackFacts
<1>2. CASE CallPrgFunc
  <2> DEFINE link == AddrBytes(vars_base) \o AddrBytes(ip + CmdSize(I.op))
             m    == Write(mem, hp, link)
  <2>1. /\ EndOfCycle(m, sp, hp + FrameHead, Signed16(I.arg), 0, "ec_ok")
        /\ ip + CmdSize(I.op) \in Int
    BY <1>1, <1>2, OperandTypes DEF CallPrgFunc
  <2>2. link \in Seq(Byte) /\ Len(link) = 4
    <3> DEFINE b == AddrBytes(vars_base)
               c == AddrBytes(ip + CmdSize(I.op))
    <3>1. b \in Seq(Byte) /\ Len(b) = 2 /\ c \in Seq(Byte) /\ Len(c) = 2
      BY <1>1, <2>1, AddrBytesType DEF AddrBytes
    <3> HIDE DEF b, c
    <3>2. b \o c \in Seq(Byte) /\ Len(b \o c) = 4
      BY <3>1, ConcatProperties
    <3>3. QED
      BY <3>2 DEF b, c
  <2> HIDE DEF link
  <2>3. DOMAIN m = MemAddr
    <3>1. -8 <= hp /\ hp + Len(link) <= StackSize + 4
      BY <1>1, <2>2
    <3>2. QED
      BY <1>1, <2>2, <3>1, Inside
  <2> HIDE DEF m
  <2>4. QED
    BY <2>1, <2>3, CycleInside
<1>3. CASE Return
  <2> DEFINE slot == vars_base - FptBytes
             m    == IF I.op = "RETVAL" THEN PopVarTo(mem, sp, slot) ELSE mem
             s    == IF I.op = "RETVAL" THEN sp + FptBytes ELSE sp
             m2   == PushVar(m, s, slot)
  <2>1. \/ EndOfCycle(m2, s - FptBytes, slot - Linkage, BytesAddr(Read(m2, slot - 2, 2)), 0, "ec_ok")
        \/ EndOfCycle(m, s, hp, ip, CmdSize(I.op), "ec_exit")
    BY <1>3 DEF Return
  <2>2. 0 <= vars_base /\ vars_base <= hp /\ slot \in Int /\ -4 <= slot /\ slot + 4 <= hp
    BY <1>1, LinkFacts DEF Registers, FptBytes
  <2> HIDE DEF slot
  <2>3. s \in Int /\ -5 <= s /\ s <= StackSize + 3
    BY <1>1 DEF FptBytes
  <2>4. DOMAIN m = MemAddr /\ IsMem(m)
    <3> DEFINE bs == Flip(Read(mem, sp + 1, FptBytes))
    <3>1. bs \in Seq(Byte) /\ Len(bs) = 4
      BY <1>1, FlippedRead DEF Flip, FptBytes
    <3> HIDE DEF bs
    <3>2. -8 <= slot /\ slot + Len(bs) <= StackSize + 4
      BY <1>1, <2>2, <3>1
    <3>3. DOMAIN Write(mem, slot, bs) = MemAddr /\ IsMem(Write(mem, slot, bs))
      BY <1>1, <2>2, <3>1, <3>2, Inside, WriteMem
    <3>4. QED
      BY <1>1, <3>3 DEF PopVarTo, bs
  <2> HIDE DEF m, s
  <2>5. DOMAIN m2 = MemAddr
    BY <1>1, <2>2, <2>3, <2>4, PushInside
  <2> HIDE DEF m2
  <2>6. QED
    BY <2>1, <2>4, <2>5, CycleInside
<1>4. CASE CallUnknown
  <2> DEFINE unset == <<junk, junk, junk, junk>>
             low   == sp - FptBytes + 1
  <2>1. unset \in Seq(Byte) /\ Len(unset) = 4
    BY <1>1
  <2>2. low \in Int /\ -8 <= low /\ low + 4 <= StackSize + 4
    BY <1>1 DEF FptBytes
  <2>3. \/ Handled(Write(mem, low, unset), sp - FptBytes, "ec_call_unknown_func")
        \/ Handled(mem, sp, "ec_call_unknown_func")
    BY <1>4 DEF CallUnknown
  <2> HIDE DEF unset, low
  <2>4. DOMAIN Write(mem, low, unset) = MemAddr
    BY <1>1, <2>1, <2>2, Inside
  <2>5. QED
    BY <1>1, <2>3, <2>4, HandledInside
<1>5. QED
  BY <1>2, <1>3, <1>4

(* Two numbers are popped before one is pushed: a second one below the pad   *)
(* is all there must be.                                                    *)
LEMMA TwoNumbersInside ==
  ASSUME IInv, running, sound, MathOp \/ CallIntFunc, sp + FptBytes < StackSize
  PROVE  ret' # "wild_write"
<1>1. /\ DOMAIN mem = MemAddr /\ IsMem(mem) /\ junk \in Byte /\ StackSize \in Int
      /\ sp \in Int /\ 0 < sp /\ TypeOK /\ sp + 4 < StackSize
  BY StackFacts DEF FptBytes
<1>2. ASSUME NEW m, DOMAIN m = MemAddr, IsMem(m), NEW k \in 0 .. 8, NEW v \in Int
      PROVE  DOMAIN PushNum(m, sp + k, v) = MemAddr
  <2> DEFINE t == sp + k
  <2>1. t \in Int /\ -5 <= t /\ t <= StackSize + 3
    BY <1>1
  <2> HIDE DEF t
  <2>2. DOMAIN PushNum(m, t, v) = MemAddr
    BY <1>1, <1>2, <2>1, PushInside
  <2>3. QED
    BY <2>2 DEF t
<1>3. CASE MathOp
  <2> DEFINE value2 == StackTop(mem, sp)
             value1 == StackTop(mem, sp + FptBytes)
             v      == MathValue(I.op, value1, value2)
  <2>1. value1 \in Int /\ value2 \in Int
    BY <1>1, StackTopType DEF FptBytes
  <2>2. \/ Handled(mem, sp + 2 * FptBytes, "ec_div_except")
        \/ /\ ~(I.op = "DIV" /\ value2 = 0)
           /\ Handled(PushNum(mem, sp + 2 * FptBytes, v), sp + FptBytes, "ec_ok")
    BY <1>3 DEF MathOp
  <2> HIDE DEF value1, value2
  <2>3. ~(I.op = "DIV" /\ value2 = 0) => v \in Int
    BY <2>1, MathValueType
  <2> HIDE DEF v
  <2>4. 2 * FptBytes \in 0 .. 8
    BY DEF FptBytes
  <2>5. v \in Int => DOMAIN PushNum(mem, sp + 2 * FptBytes, v) = MemAddr
    BY <1>1, <1>2, <2>4
  <2>6. QED
    BY <1>1, <2>2, <2>3, <2>5, HandledInside
<1>4. CASE CallIntFunc
  <2> DEFINE m == IF PopsPointer(I.arg) THEN PntMem(mem, sp) ELSE mem
             s == IF PopsPointer(I.arg) THEN sp + PntWidth(mem, sp)
                  ELSE sp + FptBytes * NumbersPopped(I.arg)
             top == fpt2i(StackTop(mem, sp))
  <2>1. s \in sp .. (sp + 8)
    BY <1>1 DEF PntWidth, NumbersPopped, FptBytes
  <2>2. top \in Int
    BY <1>1, StackTopType DEF fpt2i, FptOne
  <2>3. \/ \E v \in FuncResults(I.arg, top) :
             EndOfCycle(PushNum(m, s, i2fpt(v)), s - FptBytes, hp, ip, CmdSize(I.op), "ec_ok")
        \/ EndOfCycle(m, s, hp, ip, CmdSize(I.op), "ec_ok")
    BY <1>4 DEF CallIntFunc
  <2>4. DOMAIN m = MemAddr /\ IsMem(m)
    <3>1. Get(mem, sp + 1) % 16 \in Byte /\ Get(mem, sp + 2) \in Byte /\ Get(mem, sp + 3) \in Byte
      BY <1>1, GetByte DEF Byte
    <3> DEFINE one   == <<Get(mem, sp + 1) % 16>>
               three == <<Get(mem, sp + 1) % 16, Get(mem, sp + 3), Get(mem, sp + 2)>>
    <3>2. one \in Seq(Byte) /\ Len(one) = 1 /\ three \in Seq(Byte) /\ Len(three) = 3
      BY <3>1
    <3> HIDE DEF one, three
    <3>3. DOMAIN Write(mem, sp + 1, one) = MemAddr /\ DOMAIN Write(mem, sp + 1, three) = MemAddr
      <4> DEFINE low == sp + 1
      <4>1. /\ low \in Int /\ -8 <= low
            /\ low + Len(one) <= StackSize + 4 /\ low + Len(three) <= StackSize + 4
        BY <1>1, <3>2
      <4> HIDE DEF low
      <4>2. DOMAIN Write(mem, low, one) = MemAddr /\ DOMAIN Write(mem, low, three) = MemAddr
        BY <1>1, <3>2, <4>1, Inside
      <4>3. QED
        BY <4>2 DEF low
    <3>4. DOMAIN PntMem(mem, sp) = MemAddr
      BY <3>3 DEF PntMem, one, three
    <3>5. QED
      BY <1>1, <3>4, PntMemMem
  <2> HIDE DEF m, s, top
  <2>5. ASSUME NEW v \in FuncResults(I.arg, top)
        PROVE  DOMAIN PushNum(m, s, i2fpt(v)) = MemAddr
    <3>1. i2fpt(v) \in Int
      BY <1>1, <2>2, FuncResultsType DEF i2fpt, FptOne
    <3>2. s \in Int /\ -5 <= s /\ s <= StackSize + 3
      BY <1>1, <2>1
    <3>3. QED
      BY <1>1, <2>4, <3>1, <3>2, PushInside
  <2>6. QED
    BY <2>3, <2>4, <2>5, CycleInside
<1>5. QED
  BY <1>3, <1>4

(* Only stores and results may, and where the stack has no room left.        *)
LEMMA PadsStep ==
  ASSUME IInv, [CNext]_cvars, running, sound, ret' = "wild_write"
  PROVE  \/ I.op \in StoreOps \cup {"CALL_INT_PROC"}
         \/ /\ I.op \in MathOps \cup {"CALL_INT_FUNC"}
            /\ sp + FptBytes >= StackSize
<1>0. TypeOK /\ sp + FptBytes \in Int /\ StackSize \in Int /\ DOMAIN mem = MemAddr
  BY StackFacts DEF FptBytes
<1>1. ret = "ec_ok" /\ ret' # ret
  BY <1>0 DEF TypeOK
<1>2. Step
  BY <1>1 DEF CNext, Next, Stopped, cvars, vars
<1>3. CASE \/ InitVar \/ LoadByte \/ PopByte \/ PopVar \/ PopPnt \/ PopByteArrayByIdx
           \/ CopyToByteArray \/ CopyToGenArray
  BY <1>3 DEF Decode, InitVar, LoadByte, PopByte, PopVar, PopPnt, PopByteArrayByIdx,
              CopyToByteArray, CopyToGenArray, StoreOps
<1>4. CASE CallIntProc
  BY <1>4 DEF CallIntProc, Decode
<1>5. CASE MathOp \/ CallIntFunc
  <2>1. I.op \in MathOps \cup {"CALL_INT_FUNC"}
    BY <1>5 DEF MathOp, CallIntFunc, Decode
  <2>2. ~(sp + FptBytes < StackSize)
    BY <1>5, TwoNumbersInside
  <2>3. QED
    BY <1>0, <2>1, <2>2
<1>6. CASE \/ PushNumber \/ PushPnt \/ PushObjPnt \/ PushVariable \/ PushByte
           \/ PushByteArrayByIdx \/ UnaryOp
  BY <1>6, PushesInside
<1>7. CASE CallPrgFunc \/ Return \/ CallUnknown
  BY <1>7, CallsInside
<1>8. CASE PopToNowhere \/ End \/ UnknownInstr
  BY <1>0, <1>8, HandledInside DEF PopToNowhere, End, UnknownInstr
<1>9. CASE Jmp \/ JmpPopCmpz \/ Marker
  <2>1. \E s, h, i, len : EndOfCycle(mem, s, h, i, len, "ec_ok")
    BY <1>9 DEF Jmp, JmpPopCmpz, Marker
  <2>2. QED
    BY <1>0, <2>1, CycleInside
<1>10. CASE NoneInstr \/ WildFetch \/ LeaveLoop
  BY <1>1, <1>10 DEF NoneInstr, WildFetch, LeaveLoop
<1>11. QED
  BY <1>2, <1>3, <1>4, <1>5, <1>6, <1>7, <1>8, <1>9, <1>10 DEF Step

(* On a stack of any size, although it is checked only after the            *)
(* instruction: while the program keeps the rules, nothing but a store,     *)
(* PRINT, or an instruction that pops two numbers and finds less, writes     *)
(* outside the array and its pads (vm_exe.c:508, 1006).                     *)
THEOREM PadsHold == CSpec => PadsSuffice
<1>1. IInv /\ [CNext]_cvars =>
        [ running /\ sound /\ ret' = "wild_write" =>
            \/ I.op \in StoreOps \cup {"CALL_INT_PROC"}
            \/ /\ I.op \in MathOps \cup {"CALL_INT_FUNC"}
               /\ sp + FptBytes >= StackSize ]_vars
  BY PadsStep
<1>2. QED
  BY <1>1, InitIInv, NextIInv, PTL DEF CSpec, PadsSuffice
=============================================================================
