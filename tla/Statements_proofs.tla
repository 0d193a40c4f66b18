-------------------------- MODULE Statements_proofs -------------------------
(***************************************************************************)
(* What the functions of the statement machine do to the compiler's        *)
(* record: expressions and calls, blocks and their labels, routines and    *)
(* their parameters (parser_gen.c, parser_priv.c).                         *)
(***************************************************************************)
EXTENDS Blocks_proofs

(* What a routine's fields are.                                              *)
LEMMA FuncIs ==
  ASSUME NEW r, Sound(r), NEW f \in 1..Len(r.funcs_vect)
  PROVE  /\ r.funcs_vect[f] \in FuncType
         /\ r.funcs_vect[f].vm_code_offset \in Nat /\ r.funcs_vect[f].params \in Seq(Nat)
<1>1. r.funcs_vect \in Seq(FuncType) BY DEF Sound, Result
<1>2. r.funcs_vect[f] \in FuncType BY <1>1
<1> QED BY <1>2 DEF FuncType

(* A call of a known routine puts code.                                      *)
LEMMA CallPrgSound ==
  ASSUME NEW r, Sound(r), NEW f \in 1..Len(r.funcs_vect), NEW given
  PROVE  Emits(r, CallPrg(r, f, given))
<1> DEFINE at == r.funcs_vect[f].vm_code_offset
           wrong == given # Len(r.funcs_vect[f].params)
           q == CallPrg(r, f, given)
<1>1. at \in Int BY FuncIs
<1>2. q = IF ~Ok(r) THEN r ELSE IF wrong THEN Error(r, "parameters_mismatch")
          ELSE code_op(r, "CALL_PRG_FUNC", FALSE, at, 0)
  BY DEF CallPrg
<1> SUFFICES Emits(r, q)
  OBVIOUS
<1> HIDE DEF q, at, wrong
<1>3. CASE ~Ok(r) BY <1>2, <1>3, EmitsNothing
<1>4. CASE Ok(r) /\ wrong
  <2>1. "parameters_mismatch" \in ParseError BY DEF ParseError
  <2> QED BY <2>1, <1>2, <1>4, ErrorSound DEF Marks
<1>5. CASE Ok(r) /\ ~wrong
  <2>1. "CALL_PRG_FUNC" \in Op /\ FALSE \in BOOLEAN /\ 0 \in Int BY DEF Op, WordOps
  <2>2. Appends(r, code_op(r, "CALL_PRG_FUNC", FALSE, at, 0)) BY <1>1, <2>1, CodeOpSound, Zenon
  <2> QED BY <2>2, <1>2, <1>5 DEF Appends
<1> QED BY <1>3, <1>4, <1>5

(* A call by name puts code, or finds the routine unknown.                   *)
LEMMA CallSubSound ==
  ASSUME NEW r, Sound(r), NEW name, NEW S, NEW args \in Seq(S)
  PROVE  Emits(r, CallSub(r, name, args))
<1> DEFINE f      == Named(r.funcs_vect, name)
           wanted == Len(r.funcs_vect[f].params)
           read   == IF Len(args) > wanted THEN SubSeq(args, 1, wanted) ELSE args
           q      == CallSub(r, name, args)
<1>1. r.funcs_vect \in Seq(FuncType) BY DEF Sound, Result
<1>2. f \in 0..Len(r.funcs_vect) BY <1>1, NamedIs
<1>3. q = IF f = NULL THEN Error(r, "object_unknown") ELSE CallPrg(Pushed(r, read), f, Len(args))
  BY DEF CallSub
<1> SUFFICES Emits(r, q)
  OBVIOUS
<1> HIDE DEF q, f
<1>4. CASE f = NULL
  <2>1. "object_unknown" \in ParseError BY DEF ParseError
  <2> QED BY <2>1, <1>3, <1>4, ErrorSound DEF Marks
<1>5. CASE f # NULL
  <2>1. f \in 1..Len(r.funcs_vect) BY <1>1, <1>2, <1>5 DEF NULL
  <2>2. r.funcs_vect[f].params \in Seq(Nat) BY <2>1, FuncIs
  <2>3. Len(args) \in Nat /\ wanted \in Nat BY <2>2
  <2>4. Len(args) > wanted => Len(SubSeq(args, 1, wanted)) = wanted BY <2>3
  <2>5. Len(read) \in Nat BY <2>3, <2>4
  <2> HIDE DEF read
  <2> DEFINE p == Pushed(r, read)
  <2>6. Emits(r, p) BY <2>5, PushedSound
  <2> HIDE DEF p
  <2>7. Sound(p) /\ f \in 1..Len(p.funcs_vect) BY <2>1, <2>6 DEF Emits, Kept, SameRoutine
  <2>8. Emits(p, CallPrg(p, f, Len(args))) BY <2>7, CallPrgSound
  <2> QED BY <2>6, <2>8, <1>3, <1>5, EmitsTrans DEF p
<1> QED BY <1>4, <1>5

(* Reading the keyboard is one call.                                         *)
LEMMA KeySound ==
  ASSUME NEW r, Sound(r)
  PROVE  Appends(r, code_op(code_op(r, "PUSH_NUM", FALSE, 0, 0), "CALL_INT_FUNC", FALSE, func_INKEY, 0))
<1> DEFINE p == code_op(r, "PUSH_NUM", FALSE, 0, 0)
           q == code_op(p, "CALL_INT_FUNC", FALSE, func_INKEY, 0)
<1>1. /\ {"PUSH_NUM", "CALL_INT_FUNC"} \subseteq Op /\ FALSE \in BOOLEAN /\ func_INKEY \in Int
      /\ 0 \in Int
  BY DEF Op, IdOps, func_INKEY
<1>2. "PUSH_NUM" \in Op /\ "CALL_INT_FUNC" \in Op BY <1>1
<1>3. Appends(r, p) BY <1>1, <1>2, CodeOpSound, Zenon
<1>4. Sound(p) BY <1>3 DEF Appends, Emits
<1> HIDE DEF p
<1>5. Appends(p, q) BY <1>1, <1>2, <1>4, CodeOpSound, Zenon
<1> HIDE DEF q
<1>6. Emits(r, q) BY <1>3, <1>5, EmitsTrans DEF Appends
<1>7. /\ p.subs_body = r.subs_body
      /\ r.obj[r.subs_body].size \in Nat /\ p.obj[r.subs_body].size \in Nat
      /\ q.obj[r.subs_body].size \in Nat
  <2>1. r \in Result /\ p \in Result /\ q \in Result BY <1>4, <1>6 DEF Emits, Sound
  <2>2. p.subs_body = r.subs_body BY <1>3 DEF Appends, Emits, Kept, SameRoutine
  <2>3. r.subs_body \in BOOLEAN BY <2>1, ResultFields
  <2>4. /\ r.obj[r.subs_body] \in PartType /\ p.obj[r.subs_body] \in PartType
        /\ q.obj[r.subs_body] \in PartType
    BY <2>1, <2>3, ResultFields
  <2> QED BY <2>2, <2>4 DEF PartType
<1>8. Appends(r, q) BY <1>3, <1>5, <1>6, <1>7 DEF Appends
<1> QED BY <1>8 DEF p, q

(* What an expression emits; a number or a key is in no error.               *)
LEMMA EvaluateSound ==
  ASSUME NEW r, Sound(r), NEW e \in Expressions
  PROVE  /\ Emits(r, Evaluate(r, e))
         /\ e \in Values => Evaluate(r, e).pe = r.pe
<1> DEFINE key  == code_op(code_op(r, "PUSH_NUM", FALSE, 0, 0), "CALL_INT_FUNC", FALSE, func_INKEY, 0)
           var  == PushVar(r, e)
           call == CallSub(r, e, <<>>)
           err  == Error(r, "expression_invalid")
           q    == Evaluate(r, e)
<1>1. q = CASE e = "number" -> r [] e = "key" -> key [] e \in VarNames -> var
            [] e \in FuncNames -> call [] e \in Arrays -> err
  BY DEF Evaluate
<1>2. e \in Arrays \cup Values \cup VarNames \cup FuncNames BY BlocksAssumption
<1>3. Emits(r, r) BY EmitsNothing
<1>4. Emits(r, key) /\ key.pe = r.pe BY KeySound DEF Appends
<1>5. Emits(r, var) BY PushVarSound
<1>6. Emits(r, call)
  <2>1. <<>> \in Seq({}) OBVIOUS
  <2> QED BY <2>1, CallSubSound
<1>7. Emits(r, err)
  <2>1. "expression_invalid" \in ParseError BY DEF ParseError
  <2> QED BY <2>1, ErrorSound DEF Marks
<1> SUFFICES Emits(r, q) /\ (e \in Values => q.pe = r.pe)
  OBVIOUS
<1> HIDE DEF q, key, var, call, err
<1>8. q = r \/ q = key \/ q = var \/ q = call \/ q = err
  BY <1>1, <1>2 DEF Values
<1>9. e \in Values => q = r \/ q = key
  BY <1>1, BlocksAssumption DEF Values, Arrays
<1>10. Emits(r, q)
  BY <1>3, <1>4, <1>5, <1>6, <1>7, <1>8
<1> QED BY <1>4, <1>9, <1>10

(* An expression's value is put on the stack.                                *)
LEMMA EvaluatedSound ==
  ASSUME NEW r, Sound(r), NEW e \in Expressions
  PROVE  /\ Emits(r, Evaluated(r, e))
         /\ e \in Values => Evaluated(r, e).pe = r.pe
<1>1. CASE e = "number"
  BY <1>1, NumberSound DEF Evaluated, Appends
<1>2. CASE e # "number"
  BY <1>2, EvaluateSound DEF Evaluated
<1> QED BY <1>1, <1>2

(* A value is assigned.                                                      *)
LEMMA PoppedSound ==
  ASSUME NEW r, Sound(r), NEW i \in 1..Len(r.vars_vect), NEW is_object \in BOOLEAN
  PROVE  Emits(r, Popped(r, i, is_object)) /\ Popped(r, i, is_object).pe = r.pe
<1>1. CASE Ok(r)
  BY <1>1, PopVarSound DEF Popped, Appends
<1>2. CASE ~Ok(r)
  BY <1>2, EmitsNothing DEF Popped
<1> QED BY <1>1, <1>2

(* An array is pushed.                                                       *)
LEMMA PushArraySound ==
  ASSUME NEW r, Sound(r), NEW e, e \in Arrays \/ IsArrayVar(r, e)
  PROVE  Emits(r, PushArray(r, e)) /\ PushArray(r, e).pe = r.pe
<1> DEFINE q == PushArray(r, e)
<1> SUFFICES Emits(r, q) /\ q.pe = r.pe
  OBVIOUS
<1>0. "PUSH_OBJ_PNT" \in Op /\ FALSE \in BOOLEAN BY DEF Op, WordByteOps
<1>1. r \in Result /\ r.const_memory \in Nat /\ r.vars_vect \in Seq(VarType)
  BY DEF Sound, Result
<1>2. CASE e \in Arrays
  <2> DEFINE const == r.const_memory + MemSize(ArrayType(e), ArrayLen)
             p     == [r EXCEPT !.const_memory = const]
             tag   == IF e = "bytes" THEN vvt_const_byte_array_pnt ELSE vvt_const_generic_array_pnt
  <2>1. const \in Nat
    <3>1. ArrayLen \in Nat BY BlocksAssumption
    <3>2. MemSize(ArrayType(e), ArrayLen) \in Nat
      BY <3>1 DEF MemSize, ArrayType, FptBytes
    <3> QED BY <1>1, <3>2
  <2>2. tag \in Int BY DEF vvt_const_byte_array_pnt, vvt_const_generic_array_pnt
  <2>3. q = code_op(p, "PUSH_OBJ_PNT", FALSE, r.const_memory, tag)
    BY <1>2 DEF PushArray
  <2> HIDE DEF const, tag, q
  <2>4. p \in Result BY <1>1, <2>1 DEF Result
  <2>5. /\ Kept(r, p) /\ p.labels_vect = r.labels_vect /\ p.obj = r.obj /\ p.pe = r.pe
        /\ p.lost = r.lost
    BY <1>1 DEF Kept, SameVars, SameRoutine, SameBlocks, SameLabels, Result
  <2> HIDE DEF p
  <2>6. Sound(p)
    <3>1. CodeRefs(p) BY <2>5 DEF Sound, CodeRefs
    <3>2. \A b \in BOOLEAN : p.obj[b].size >= r.obj[b].size
      <4>1. \A b \in BOOLEAN : r.obj[b].size \in Nat BY <1>1 DEF Result, PartType
      <4> QED BY <4>1, <2>5
    <3> QED BY <2>4, <2>5, <3>1, <3>2, RefsGrow
  <2>7. r.const_memory \in Int BY <1>1
  <2>8. Appends(p, q) BY <1>0, <2>2, <2>3, <2>6, <2>7, CodeOpSound, Zenon
  <2>9. Emits(r, p) BY <2>5, <2>6 DEF Emits
  <2> QED BY <2>5, <2>8, <2>9, EmitsTrans DEF Appends
<1>3. CASE e \notin Arrays
  <2> DEFINE i   == Named(r.vars_vect, e)
             v   == r.vars_vect[i]
             tag == IF v.type = "vt_array_of_byte" THEN vvt_var_byte_array_pnt
                    ELSE vvt_var_generic_array_pnt
  <2>1. i \in 0..Len(r.vars_vect) BY <1>1, NamedIs
  <2>2. i # NULL BY <1>3 DEF IsArrayVar
  <2>3. q = code_op(r, "PUSH_OBJ_PNT", v.subs_body, v.mem_offs, tag)
    BY <1>3 DEF PushArray
  <2>4. tag \in Int BY DEF vvt_var_byte_array_pnt, vvt_var_generic_array_pnt
  <2> HIDE DEF i, tag, q
  <2>5. i \in 1..Len(r.vars_vect) BY <1>1, <2>1, <2>2 DEF NULL
  <2>6. v.subs_body \in BOOLEAN /\ v.mem_offs \in Int BY <2>5, VarIs
  <2> HIDE DEF v
  <2>7. Appends(r, q) BY <1>0, <2>3, <2>4, <2>6, CodeOpSound, Zenon
  <2> QED BY <2>7 DEF Appends
<1> QED BY <1>2, <1>3

(* The last variable gets its size and its place, and its value.             *)
Fixes(r, q, size) ==
  LET n == Len(r.vars_vect)
  IN  /\ Sound(q) /\ SameRoutine(r, q) /\ SameBlocks(r, q) /\ SameLabels(r, q) /\ q.lost = r.lost
      /\ q.pe = r.pe
      /\ Len(q.vars_vect) = n
      /\ \A k \in 1..(n - 1) : q.vars_vect[k] = r.vars_vect[k]
      /\ q.vars_vect[n].type = r.vars_vect[n].type
      /\ q.vars_vect[n].mem_size = size
      /\ q.vars_vect[n].in_block = r.vars_vect[n].in_block
      /\ q.vars_vect[n].subs_body = r.vars_vect[n].subs_body
      /\ q.vars_vect[n].mem_offs = r.heap_pnt
      /\ q.heap_pnt = r.heap_pnt + size
      /\ q.heap_memory_max = Greatest(r.heap_memory_max, q.heap_pnt)

(* A syntax error only marks the line.                                       *)
LEMMA SyntaxError ==
  ASSUME NEW r, Sound(r)
  PROVE  Emits(r, Error(r, "syntax_invalid")) /\ Error(r, "syntax_invalid").pe = "syntax_invalid"
<1>1. "syntax_invalid" \in ParseError BY DEF ParseError
<1> QED BY <1>1, ErrorSound DEF Marks

(* What counts as an array is one.                                           *)
LEMMA ObjectIs ==
  ASSUME NEW r, NEW e, NEW flags, IsObject(r, e, flags)
  PROVE  e \in Arrays \/ IsArrayVar(r, e)
BY DEF IsObject

(* An assignment puts code.                                                  *)
LEMMA AssignedSound ==
  ASSUME NEW r, Sound(r), NEW i \in 1..Len(r.vars_vect), NEW e \in Expressions,
         NEW is_object \in BOOLEAN, NEW flags
  PROVE  Emits(r, Assigned(r, i, e, FALSE, is_object, flags))
<1> DEFINE pushed == PushArray(r, e)
           object == IsObject(r, e, flags)
           q      == Assigned(r, i, e, FALSE, is_object, flags)
<1> SUFFICES Emits(r, q)
  OBVIOUS
<1>1. CASE object
  <2>1. q = IF is_object THEN VmOp_PopVar(pushed, i, TRUE) ELSE Error(pushed, "syntax_invalid")
    BY <1>1 DEF Assigned
  <2>2. e \in Arrays \/ IsArrayVar(r, e) BY <1>1, ObjectIs
  <2>3. Emits(r, pushed) BY <2>2, PushArraySound
  <2> HIDE DEF pushed, q
  <2>4. Sound(pushed) /\ i \in 1..Len(pushed.vars_vect) BY <2>3 DEF Emits, Kept, SameVars
  <2>5. Emits(pushed, VmOp_PopVar(pushed, i, TRUE)) BY <2>4, PopVarSound DEF Appends
  <2>6. Emits(pushed, Error(pushed, "syntax_invalid")) BY <2>4, SyntaxError
  <2> QED BY <2>1, <2>3, <2>5, <2>6, EmitsTrans
<1>2. CASE ~object /\ "value" \in flags
  <2> DEFINE p == Evaluated(r, e)
  <2>1. q = Popped(p, i, is_object)
    BY <1>2 DEF Assigned
  <2>2. Emits(r, p) BY EvaluatedSound
  <2> HIDE DEF p, q
  <2>3. Sound(p) /\ i \in 1..Len(p.vars_vect) BY <2>2 DEF Emits, Kept, SameVars
  <2>4. Emits(p, Popped(p, i, is_object)) BY <2>3, PoppedSound
  <2> QED BY <2>1, <2>2, <2>4, EmitsTrans
<1>3. CASE ~object /\ "value" \notin flags
  <2>1. q = Error(r, "expression_invalid") BY <1>3 DEF Assigned
  <2>2. "expression_invalid" \in ParseError BY DEF ParseError
  <2> QED BY <2>1, <2>2, ErrorSound DEF Marks
<1> QED BY <1>1, <1>2, <1>3

(* The right side of an array without a size gives it its size, unless it is *)
(* an error.                                                                 *)
LEMMA AssignedAuto ==
  ASSUME NEW r, Sound(r), Len(r.vars_vect) > 0, NEW e \in Expressions, NEW flags
  PROVE  LET n == Len(r.vars_vect)
             q == Assigned(r, n, e, TRUE, TRUE, flags)
         IN  \/ Emits(r, q) /\ (e \in Arrays /\ "inline_array" \in flags => ~Ok(q))
             \/ Fixes(r, q, MemSize(r.vars_vect[n].type, ArrayLen))
<1> DEFINE n      == Len(r.vars_vect)
           v      == r.vars_vect[n]
           size   == MemSize(v.type, ArrayLen)
           wrong  == v.type # ArrayType(e)
           pushed == PushArray(r, e)
           fixed  == FixArraySize(pushed, n, ArrayLen)
           object == IsObject(r, e, flags)
           q      == Assigned(r, n, e, TRUE, TRUE, flags)
<1>0. n \in Nat /\ n \in 1..n
  <2>1. r.vars_vect \in Seq(VarType) BY DEF Sound, Result
  <2> QED BY <2>1
<1> SUFFICES \/ Emits(r, q) /\ (e \in Arrays /\ "inline_array" \in flags => ~Ok(q))
             \/ Fixes(r, q, size)
  OBVIOUS
<1>1. CASE object
  <2>1. q = IF wrong THEN Error(pushed, "syntax_invalid") ELSE Popped(fixed, n, TRUE)
    BY <1>1 DEF Assigned
  <2>2. e \in Arrays \/ IsArrayVar(r, e) BY <1>1, ObjectIs
  <2>3. Emits(r, pushed) /\ pushed.pe = r.pe BY <2>2, PushArraySound
  <2> HIDE DEF pushed, q, wrong, size
  <2>4. Sound(pushed) /\ Len(pushed.vars_vect) = n /\ pushed.vars_vect = r.vars_vect
    BY <2>3 DEF Emits, Kept, SameVars
  <2>5. CASE wrong
    <3>1. Emits(pushed, q) /\ q.pe = "syntax_invalid" BY <2>1, <2>4, <2>5, SyntaxError
    <3> QED BY <2>3, <3>1, EmitsTrans DEF Ok
  <2>6. CASE ~wrong /\ Marks(pushed, fixed, "syntax_invalid")
    <3>1. Emits(pushed, fixed) /\ ~Ok(fixed) BY <2>6 DEF Marks, Ok
    <3>2. q = fixed BY <2>1, <2>6, <3>1 DEF Popped
    <3> QED BY <2>3, <3>1, <3>2, EmitsTrans
  <2>7. CASE ~wrong /\ Resizes(pushed, fixed, size)
    <3>1. q = Popped(fixed, n, TRUE) BY <2>1, <2>7
    <3> HIDE DEF fixed
    <3>2. Sound(fixed) /\ n \in 1..Len(fixed.vars_vect) BY <1>0, <2>4, <2>7 DEF Resizes
    <3>3. Emits(fixed, q) /\ q.pe = fixed.pe BY <3>1, <3>2, PoppedSound
    <3>4. q.pe = r.pe /\ q.lost = r.lost /\ Sound(q)
      BY <2>3, <2>7, <3>3 DEF Resizes, Emits, OnlyVars
    <3>5. SameRoutine(r, q) /\ SameBlocks(r, q)
      BY <2>3, <2>7, <3>3 DEF Resizes, Emits, OnlyVars, Kept, SameRoutine, SameBlocks
    <3>6. SameLabels(r, q)
      BY <2>3, <2>7, <3>3 DEF Resizes, Emits, OnlyVars, Kept, SameLabels
    <3>7. /\ q.vars_vect = fixed.vars_vect /\ q.heap_pnt = fixed.heap_pnt
          /\ q.heap_memory_max = fixed.heap_memory_max
          /\ pushed.heap_pnt = r.heap_pnt /\ pushed.heap_memory_max = r.heap_memory_max
      BY <2>3, <3>3 DEF Emits, Kept, SameVars
    <3>8. Fixes(r, q, size)
      BY <2>4, <2>7, <3>4, <3>5, <3>6, <3>7 DEF Resizes, Fixes
    <3> QED BY <3>8
  <2>8. \/ Marks(pushed, fixed, "syntax_invalid")
        \/ Resizes(pushed, fixed, size)
    <3>1. Len(pushed.vars_vect) > 0 /\ ArrayLen \in Int BY <2>4, BlocksAssumption
    <3> QED BY <2>4, <3>1, FixArraySizeSound DEF size
  <2> QED BY <2>5, <2>6, <2>7, <2>8
<1>2. CASE ~object /\ "value" \in flags
  <2> DEFINE p == Evaluated(r, e)
  <2>1. q = Popped(p, n, TRUE)
    BY <1>2 DEF Assigned
  <2>2. Emits(r, p) BY EvaluatedSound
  <2> HIDE DEF p, q
  <2>3. Sound(p) /\ n \in 1..Len(p.vars_vect) BY <1>0, <2>2 DEF Emits, Kept, SameVars
  <2>4. Emits(p, Popped(p, n, TRUE)) BY <2>3, PoppedSound
  <2>5. ~(e \in Arrays /\ "inline_array" \in flags) BY <1>2 DEF IsObject
  <2> QED BY <2>1, <2>2, <2>4, <2>5, EmitsTrans
<1>3. CASE ~object /\ "value" \notin flags
  <2>1. q = Error(r, "expression_invalid") BY <1>3 DEF Assigned
  <2>2. "expression_invalid" \in ParseError BY DEF ParseError
  <2>3. ~(e \in Arrays /\ "inline_array" \in flags) BY <1>3 DEF IsObject
  <2> QED BY <2>1, <2>2, <2>3, ErrorSound DEF Marks
<1> QED BY <1>1, <1>2, <1>3

-----------------------------------------------------------------------------
(* PRINT. *)

(* PRINT on its way: the code so far, and the parameters counted.            *)
PartOf(r) == [r: {q \in Result : Emits(r, q)}, params_cnt: Nat, value: Nat]

(* One part of PRINT.                                                        *)
LEMMA PartSound ==
  ASSUME NEW r, NEW p \in PartOf(r), NEW e \in Expressions
  PROVE  Part(p, e) \in PartOf(r)
<1> DEFINE object == IsObject(p.r, e, ALL)
           room   == p.params_cnt < FUNC_MAX_PARAMS
           type   == IF object THEN print_ss_pointer ELSE print_ss_number
           next   == IF object THEN PushArray(p.r, e) ELSE Evaluated(p.r, e)
           count  == IF room THEN p.params_cnt + 1 ELSE p.params_cnt
           value  == IF room THEN 16 * p.value + type ELSE p.value
<1>1. Emits(r, p.r) /\ Sound(p.r) /\ p.params_cnt \in Nat /\ p.value \in Nat
  BY DEF PartOf, Emits
<1>2. CASE ~Ok(p.r)
  BY <1>2 DEF Part
<1>3. CASE Ok(p.r)
  <2>1. Part(p, e) = [r |-> next, params_cnt |-> count, value |-> value]
    BY <1>3 DEF Part
  <2>2. count \in Nat /\ value \in Nat BY <1>1 DEF print_ss_pointer, print_ss_number
  <2>3. Emits(p.r, next)
    <3>1. CASE object
      <4>1. e \in Arrays \/ IsArrayVar(p.r, e) BY <3>1, ObjectIs
      <4> QED BY <3>1, <4>1, <1>1, PushArraySound
    <3>2. CASE ~object BY <3>2, <1>1, EvaluatedSound
    <3> QED BY <3>1, <3>2
  <2> HIDE DEF next, count, value
  <2>4. Emits(r, next) /\ next \in Result BY <1>1, <2>3, EmitsTrans DEF Emits, Sound
  <2> QED BY <2>1, <2>2, <2>4 DEF PartOf
<1> QED BY <1>2, <1>3

(* All parts of PRINT, one after the other.                                  *)
Prints(g, r, p, parts) ==
  LET n == Len(parts)
  IN  /\ g[0] = p /\ g[n] = Parts(p, parts)
      /\ \A k \in 1..n : g[k] = Part(g[k - 1], parts[k])
      /\ \A k \in 0..n : g[k] \in PartOf(r)

(* There is such a row: what Parts folds, step by step.                      *)
LEMMA PartsAre ==
  ASSUME NEW r, NEW p \in PartOf(r), NEW parts \in Seq(Expressions)
  PROVE  \E g : Prints(g, r, p, parts)
<1> DEFINE S == PartOf(r)
           n == Len(parts)
           F == [x \in S \X (1..n) |-> Part(x[1], parts[x[2]])]
           after == CHOOSE g : g = [k \in 0..n |-> IF k = 0 THEN p ELSE Part(g[k - 1], parts[k])]
<1>0. n \in Nat /\ \A k \in 1..n : parts[k] \in Expressions OBVIOUS
<1>2. \A q \in S, k \in 1..n : Part(q, parts[k]) \in S
  BY <1>0, PartSound
<1> HIDE DEF S
<1>3. F \in [S \X (1..n) -> S] BY <1>2
<1>4. PICK g \in [0..n -> S] : Follows(g, p, n, F)
  <2>1. p \in S /\ n \in Nat BY <1>0 DEF S
  <2> HIDE DEF F, n
  <2> QED BY <2>1, <1>3, RecursionExists, Zenon
<1>5. g = [k \in 0..n |-> IF k = 0 THEN p ELSE Part(g[k - 1], parts[k])]
  <2> SUFFICES ASSUME NEW k \in 0..n
               PROVE  g[k] = IF k = 0 THEN p ELSE Part(g[k - 1], parts[k])
    OBVIOUS
  <2>1. CASE k = 0 BY <2>1, <1>4 DEF Follows
  <2>2. CASE k # 0
    <3>1. k \in 1..n /\ k - 1 \in 0..n BY <2>2
    <3>2. g[k] = F[<<g[k - 1], k>>] BY <3>1, <1>4 DEF Follows
    <3>3. <<g[k - 1], k>> \in S \X (1..n) BY <3>1
    <3> QED BY <2>2, <3>2, <3>3
  <2> QED BY <2>1, <2>2
<1>6. after = [k \in 0..n |-> IF k = 0 THEN p ELSE Part(after[k - 1], parts[k])]
  <2> HIDE DEF n
  <2> QED BY <1>5
<1>7. Parts(p, parts) = after[n] BY Zenon DEF Parts
<1> HIDE DEF after
<1>8. after[0] \in S BY <1>6 DEF S
<1>9. \A k \in 1..n : after[k - 1] \in S => after[k] \in S
  <2> SUFFICES ASSUME NEW k \in 1..n, after[k - 1] \in S PROVE after[k] \in S
    OBVIOUS
  <2>1. k \in 0..n /\ k # 0 OBVIOUS
  <2>2. after[k] = Part(after[k - 1], parts[k]) BY <2>1, <1>6
  <2> QED BY <2>2, <1>2
<1>10. \A k \in 0..n : after[k] \in S
  <2>1. n \in Nat BY <1>0
  <2> HIDE DEF n
  <2> QED BY <2>1, <1>8, <1>9, UpTo
<1>11. after[0] = p /\ \A k \in 1..n : after[k] = Part(after[k - 1], parts[k])
  <2> HIDE DEF n
  <2>1. n \in Nat BY <1>0 DEF n
  <2> QED BY <2>1, <1>6
<1> QED BY <1>7, <1>10, <1>11 DEF S, Prints

(* So all parts of PRINT are printed as one is.                              *)
LEMMA PartsSound ==
  ASSUME NEW r, NEW p \in PartOf(r), NEW parts \in Seq(Expressions)
  PROVE  Parts(p, parts) \in PartOf(r)
<1>1. PICK g : Prints(g, r, p, parts) BY PartsAre
<1> QED BY <1>1 DEF Prints

(* PRINT ends with its call.                                                 *)
LEMMA PrintSound ==
  ASSUME NEW r, NEW p \in PartOf(r)
  PROVE  Emits(r, VmOp_Spc_Cmds(p))
<1> DEFINE low == p.value % 65536
           top == p.value \div 65536
           s   == code_op(p.r, "PUSH_OBJ_PNT", FALSE, low, top)
           q   == code_op(s, "CALL_INT_PROC", FALSE, cmd_id_PRINT, 0)
<1>1. Emits(r, p.r) /\ Sound(p.r) /\ p.value \in Nat
  BY DEF PartOf, Emits
<1>2. VmOp_Spc_Cmds(p) = IF ~Ok(p.r) THEN p.r ELSE q
  BY DEF VmOp_Spc_Cmds
<1>3. low \in Int /\ top \in Int BY <1>1
<1>4. "PUSH_OBJ_PNT" \in Op /\ "CALL_INT_PROC" \in Op /\ FALSE \in BOOLEAN
      /\ cmd_id_PRINT \in Int /\ 0 \in Int
  BY DEF Op, WordByteOps, IdOps, cmd_id_PRINT
<1> HIDE DEF low, top
<1>5. Appends(p.r, s) BY <1>1, <1>3, <1>4, CodeOpSound, Zenon
<1> HIDE DEF s
<1>6. Emits(p.r, s) /\ Sound(s) BY <1>5 DEF Appends, Emits
<1>7. Appends(s, q) BY <1>4, <1>6, CodeOpSound, Zenon
<1> HIDE DEF q
<1>8. Emits(s, q) BY <1>7 DEF Appends
<1>9. Emits(r, q) BY <1>1, <1>6, <1>8, EmitsTrans
<1> QED BY <1>1, <1>2, <1>9

-----------------------------------------------------------------------------
(* Blocks. *)

(* What a block's fields are.                                                *)
LEMMA BlockIs ==
  ASSUME NEW r, Sound(r), NEW i \in 1..Len(r.block_vect)
  PROVE  /\ r.block_vect[i] \in BlockType /\ r.block_vect[i].block_type \in BlockKind
         /\ r.block_vect[i].label_begin \in Pointer /\ r.block_vect[i].label_end \in Pointer
<1>1. r.block_vect \in Seq(BlockType) BY DEF Sound, Result
<1>2. r.block_vect[i] \in BlockType BY <1>1
<1> QED BY <1>2 DEF BlockType

(* A reference to the last label is one.                                     *)
LEMMA StepsIs ==
  ASSUME NEW r \in Result
  PROVE  Steps(r) \in Int /\ LastLabel(r) \in Pointer /\ LastLabel(r).label = Len(r.labels_vect)
<1>1. Len(r.labels_vect) \in Nat BY DEF Result
<1>2. VECTOR_STEP_SIZE \in Nat \ {0} BY BlocksAssumption
<1>3. Steps(r) \in Int BY <1>1, <1>2 DEF Steps
<1> QED BY <1>1, <1>3 DEF LastLabel, Pnt, Pointer

(* What neither declares nor forgets, and leaves the routine.                *)
Moves(r, q) ==
  /\ Sound(q) /\ SameVars(r, q) /\ SameRoutine(r, q)
  /\ Len(q.block_vect) = Len(r.block_vect) /\ q.line_num = r.line_num /\ q.block_id = r.block_id

(* What each of two steps leaves alone, both do.                             *)
LEMMA MovesTrans ==
  ASSUME NEW r, NEW p, NEW q, Moves(r, p), Moves(p, q) PROVE Moves(r, q)
BY DEF Moves, SameVars, SameRoutine

(* Putting code moves nothing.                                               *)
LEMMA EmitsMoves == ASSUME NEW r, NEW q, Emits(r, q) PROVE Moves(r, q)
BY DEF Emits, Moves, Kept, SameBlocks

(* Label at the beginning or the end of block n.                             *)
Ended(b, begin, p) == IF begin THEN [b EXCEPT !.label_begin = p] ELSE [b EXCEPT !.label_end = p]
(* A block has a label more, the last one.                                   *)
Labelled(r, q, n, begin) ==
  /\ Moves(r, q) /\ q.lost = r.lost /\ q.pe = "no_error" /\ q.obj = r.obj
  /\ \A k \in 1..Len(r.block_vect) :
       q.block_vect[k] = IF k = n THEN Ended(r.block_vect[k], begin, LastLabel(q))
                         ELSE r.block_vect[k]
  /\ Len(q.labels_vect) = Len(r.labels_vect) + 1
  /\ \A i \in 1..Len(r.labels_vect) : q.labels_vect[i] = r.labels_vect[i]
  /\ q.labels_vect[Len(q.labels_vect)].name = AutoName
  /\ q.labels_vect[Len(q.labels_vect)].func_info = r.func_info
  /\ ~begin => q.labels_vect[Len(q.labels_vect)].code_offs = -1

(* LabelBlock makes a label and refers to it from its block.                 *)
LEMMA LabelBlockSound ==
  ASSUME NEW r, Sound(r), NEW n \in Nat, NEW begin \in BOOLEAN
  PROVE  Labelled(r, LabelBlock(r, n, begin), n, begin)
<1> DEFINE p      == NewLabel(r, AutoName, begin)
           pnt    == LastLabel(p)
           old    == p.block_vect
           m      == Len(old)
           e      == Ended(old[n], begin, pnt)
           blocks == [old EXCEPT ![n] = e]
           q      == LabelBlock(r, n, begin)
<1>1. Labels(r, p, AutoName, begin)
  <2>1. AutoName \in LabelNames \cup {AutoName} OBVIOUS
  <2> QED BY <2>1, NewLabelSound
<1>2. Sound(p) /\ p \in Result BY <1>1 DEF Labels, Sound
<1>3. pnt \in Pointer /\ pnt.label = Len(p.labels_vect) BY <1>2, StepsIs
<1>4. q = [p EXCEPT !.block_vect = blocks]
  <2> HIDE DEF p, pnt
  <2>1. CASE begin
    <3>1. LabelBlock(r, n, begin) = [p EXCEPT !.block_vect[n].label_begin = pnt]
      BY <2>1 DEF LabelBlock, p, pnt
    <3>2. e = [old[n] EXCEPT !.label_begin = pnt] BY <2>1 DEF Ended
    <3> HIDE DEF q, e
    <3>3. blocks = [old EXCEPT ![n].label_begin = pnt] BY <3>2
    <3> QED BY <3>1, <3>3 DEF q
  <2>2. CASE ~begin
    <3>1. LabelBlock(r, n, begin) = [p EXCEPT !.block_vect[n].label_end = pnt]
      BY <2>2 DEF LabelBlock, p, pnt
    <3>2. e = [old[n] EXCEPT !.label_end = pnt] BY <2>2 DEF Ended
    <3> HIDE DEF q, e
    <3>3. blocks = [old EXCEPT ![n].label_end = pnt] BY <3>2
    <3> QED BY <3>1, <3>3 DEF q
  <2> QED BY <2>1, <2>2
<1> SUFFICES Labelled(r, q, n, begin)
  OBVIOUS
<1> HIDE DEF q, p, pnt
<1>5. old \in Seq(BlockType) /\ m \in Nat /\ old \in [1..m -> BlockType]
  BY <1>2 DEF Result
<1>6. n \in 1..m => /\ e \in BlockType
                    /\ e.label_begin \in {old[n].label_begin, pnt}
                    /\ e.label_end \in {old[n].label_end, pnt}
  <2>1. n \in 1..m => old[n] \in BlockType BY <1>5
  <2> QED BY <1>3, <2>1 DEF BlockType, Ended
<1> HIDE DEF e
<1>7. blocks \in [1..m -> BlockType] /\ \A k \in 1..m : blocks[k] = IF k = n THEN e ELSE old[k]
  BY <1>5, <1>6
<1> HIDE DEF blocks
<1>8. blocks \in Seq(BlockType) /\ Len(blocks) = m
  <2> HIDE DEF m
  <2> QED BY <1>5, <1>7, SeqFrom
<1>9. q \in Result BY <1>2, <1>4, <1>8 DEF Result
<1>10. q.block_vect = blocks BY <1>2, <1>4 DEF Result
<1>11. /\ q.labels_vect = p.labels_vect /\ q.obj = p.obj /\ q.lost = p.lost /\ q.pe = p.pe
       /\ q.line_num = p.line_num /\ q.block_id = p.block_id
  BY <1>2, <1>4 DEF Result
<1>12. SameVars(p, q) /\ SameRoutine(p, q)
  BY <1>2, <1>4 DEF Result, SameVars, SameRoutine
<1>13. LabelRefs(q) /\ CodeRefs(q) /\ RoutineRefs(q)
  BY <1>2, <1>11, <1>12 DEF LabelRefs, CodeRefs, RoutineRefs, Sound, SameRoutine
<1>14. BlockRefs(q)
  <2> SUFFICES ASSUME NEW k \in 1..m
               PROVE  /\ blocks[k].label_begin.label <= Len(p.labels_vect)
                      /\ blocks[k].label_end.label <= Len(p.labels_vect)
    BY <1>8, <1>10, <1>11 DEF BlockRefs
  <2>1. /\ old[k].label_begin.label <= Len(p.labels_vect)
        /\ old[k].label_end.label <= Len(p.labels_vect)
    BY <1>2 DEF Sound, BlockRefs
  <2>2. pnt.label <= Len(p.labels_vect)
    <3>1. Len(p.labels_vect) \in Nat BY <1>2 DEF Result
    <3> QED BY <1>3, <3>1
  <2>3. CASE k = n
    <3>1. blocks[k] = e /\ n \in 1..m BY <2>3, <1>7
    <3> QED BY <1>6, <2>1, <2>2, <2>3, <3>1
  <2>4. CASE k # n
    BY <2>1, <2>4, <1>7
  <2> QED BY <2>3, <2>4
<1>15. Sound(q) BY <1>9, <1>13, <1>14 DEF Sound
<1>16. SameVars(r, q) /\ SameRoutine(r, q)
  BY <1>1, <1>12 DEF Labels, SameVars, SameRoutine
<1>17. /\ old = r.block_vect /\ p.line_num = r.line_num /\ p.block_id = r.block_id
       /\ p.lost = r.lost /\ p.pe = "no_error" /\ p.obj = r.obj
  BY <1>1 DEF Labels, SameBlocks
<1>18. Moves(r, q) BY <1>8, <1>10, <1>11, <1>15, <1>16, <1>17 DEF Moves
<1>19. LastLabel(q) = pnt BY <1>11 DEF LastLabel, Steps, pnt
<1>20. \A k \in 1..Len(r.block_vect) :
         q.block_vect[k] = IF k = n THEN Ended(r.block_vect[k], begin, LastLabel(q))
                           ELSE r.block_vect[k]
  BY <1>7, <1>10, <1>17, <1>19 DEF e
<1> QED BY <1>1, <1>11, <1>17, <1>18, <1>20 DEF Labelled, Labels

(* A jump to the label p points to.                                          *)
Leaps(r, q, p) ==
  /\ Sound(q) /\ Kept(r, q) /\ q.pe \in {"no_error", "label_invalid"}
  /\ q.lost = (r.lost \/ Dangling(r, p))

(* A jump to a block's label, or a lost reference.                           *)
LEMMA JmpToSound ==
  ASSUME NEW r, Sound(r), NEW p \in Pointer, NEW use_condition \in BOOLEAN
  PROVE  Leaps(r, JmpTo(r, p, use_condition), p)
<1> DEFINE s == VmOp_Jmp(r, p.label, use_condition)
           q == JmpTo(r, p, use_condition)
<1>1. Jumped(r, s)
  <2>1. p.label \in Nat BY DEF Pointer
  <2> QED BY <2>1, JmpSound
<1>2. q = Through(r, p, s) BY DEF JmpTo
<1> HIDE DEF s, q
<1>3. Sound(s) /\ Kept(r, s) /\ s.lost = r.lost /\ s.pe \in {"no_error", "label_invalid"}
  BY <1>1 DEF Jumped, Emits
<1>4. Reaches(r, p, s, q) BY <1>2, <1>3, ThroughSound
<1>5. Kept(r, q) BY <1>3, <1>4, KeptTrans DEF Reaches
<1>6. Leaps(r, q, p) BY <1>3, <1>4, <1>5 DEF Reaches, Leaps
<1> QED BY <1>6 DEF q

(* A jump moves nothing but labels' jumps.                                   *)
LEMMA LeapsMoves == ASSUME NEW r, NEW q, NEW p, Leaps(r, q, p) PROVE Moves(r, q)
BY DEF Leaps, Moves, Kept, SameBlocks

(* The label p points to gets its place, or it is refused.                   *)
Lands(r, q, p) ==
  /\ Sound(q) /\ SameVars(r, q) /\ SameRoutine(r, q) /\ SameBlocks(r, q)
  /\ q.lost = (r.lost \/ Dangling(r, p))
  /\ q.pe \in {"no_error", "object_exist"}
  /\ \/ q.pe = "no_error"
     \/ ~(r.labels_vect[p.label].code_offs = -1 /\ r.labels_vect[p.label].func_info = r.func_info)
  /\ Len(q.labels_vect) = Len(r.labels_vect)
  /\ \A k \in 1..Len(r.labels_vect) :
       /\ q.labels_vect[k].name = r.labels_vect[k].name
       /\ q.labels_vect[k].func_info = r.labels_vect[k].func_info
       /\ k # p.label => q.labels_vect[k] = r.labels_vect[k]

(* The end of a block is where its label is placed.                          *)
LEMMA PlaceEndSound ==
  ASSUME NEW r, Sound(r), NEW p
  PROVE  Lands(r, PlaceEnd(r, p), p)
<1> DEFINE s == PlaceLabel(r, p.label)
           q == PlaceEnd(r, p)
<1>1. PlacesLabel(r, s, p.label) BY PlaceLabelSound
<1>2. q = Through(r, p, s) BY DEF PlaceEnd
<1> HIDE DEF s, q
<1>3. Sound(s) BY <1>1 DEF PlacesLabel
<1>4. Reaches(r, p, s, q) BY <1>2, <1>3, ThroughSound
<1>5. SameVars(r, q) /\ SameRoutine(r, q) /\ SameBlocks(r, q)
  BY <1>1, <1>4 DEF PlacesLabel, Reaches, Kept, SameVars, SameRoutine, SameBlocks
<1>6. Lands(r, q, p)
  <2>1. Sound(q) /\ q.pe = s.pe /\ q.labels_vect = s.labels_vect
        /\ q.lost = (s.lost \/ Dangling(r, p)) /\ s.lost = r.lost
    BY <1>1, <1>4 DEF PlacesLabel, Reaches
  <2> QED BY <1>1, <1>5, <2>1 DEF PlacesLabel, Lands
<1> QED BY <1>6 DEF q

(* Placing a label moves nothing else.                                       *)
LEMMA LandsMoves == ASSUME NEW r, NEW q, NEW p, Lands(r, q, p) PROVE Moves(r, q)
BY DEF Lands, Moves, SameBlocks

(* One block more; an IF or a loop gets the label of its end.                *)
Labelling(type) == type \in {"bt_if", "bt_loop"}
(* A block of that kind is behind the others.                                *)
Opens(r, q, type) ==
  /\ Sound(q) /\ SameVars(r, q) /\ SameRoutine(r, q)
  /\ q.lost = r.lost /\ q.line_num = r.line_num /\ q.block_id = r.block_id + 1 /\ q.obj = r.obj
  /\ Len(q.block_vect) = Len(r.block_vect) + 1
  /\ \A k \in 1..Len(r.block_vect) : q.block_vect[k] = r.block_vect[k]
  /\ Last(q.block_vect).block_type = type
  /\ Last(q.block_vect).label_begin = NoLabel
  /\ ~Labelling(type) =>
       q.labels_vect = r.labels_vect /\ q.pe = r.pe /\ Last(q.block_vect).label_end = NoLabel
  /\ Labelling(type) =>
       /\ q.pe = "no_error"
       /\ Last(q.block_vect).label_end = LastLabel(q)
       /\ Len(q.labels_vect) = Len(r.labels_vect) + 1
       /\ \A i \in 1..Len(r.labels_vect) : q.labels_vect[i] = r.labels_vect[i]
       /\ q.labels_vect[Len(q.labels_vect)].name = AutoName
       /\ q.labels_vect[Len(q.labels_vect)].func_info = r.func_info
       /\ q.labels_vect[Len(q.labels_vect)].code_offs = -1

(* No label is a reference too.                                              *)
LEMMA NoLabelIs == NoLabel \in Pointer /\ NoLabel.label = 0
BY DEF NoLabel, Pnt, Pointer, NULL

(* open_block opens one block.                                               *)
LEMMA OpenSound ==
  ASSUME NEW r, Sound(r), NEW type \in BlockKind
  PROVE  Opens(r, open_block(r, type), type)
<1> DEFINE b      == [block_type |-> type, label_begin |-> NoLabel, label_end |-> NoLabel]
           n      == Len(r.block_vect)
           blocks == Append(r.block_vect, b)
           id     == r.block_id + 1
           p      == [r EXCEPT !.block_id = id, !.block_vect = blocks]
           q      == open_block(r, type)
<1>1. /\ r \in Result /\ r.block_vect \in Seq(BlockType) /\ n \in Nat /\ r.block_id \in Nat
      /\ Len(r.labels_vect) \in Nat
  BY DEF Sound, Result
<1>2. b \in BlockType BY NoLabelIs DEF BlockType
<1>3. b.block_type = type /\ b.label_begin = NoLabel /\ b.label_end = NoLabel OBVIOUS
<1>4. q = IF Labelling(type) THEN LabelBlock(p, Len(p.block_vect), FALSE) ELSE p
  BY DEF open_block, Labelling
<1> SUFFICES Opens(r, q, type)
  OBVIOUS
<1> HIDE DEF b, q
<1>5. /\ blocks \in Seq(BlockType) /\ Len(blocks) = n + 1 /\ blocks[n + 1] = b
      /\ \A k \in 1..n : blocks[k] = r.block_vect[k]
  BY <1>1, <1>2
<1>5a. id \in Nat BY <1>1
<1> HIDE DEF blocks, id
<1>6. p \in Result BY <1>1, <1>5, <1>5a DEF Result
<1>7. /\ p.block_vect = blocks /\ p.block_id = r.block_id + 1 /\ p.line_num = r.line_num
      /\ p.lost = r.lost /\ p.obj = r.obj /\ p.labels_vect = r.labels_vect /\ p.pe = r.pe
  BY <1>1 DEF Result, id
<1>8. SameVars(r, p) /\ SameRoutine(r, p)
  BY <1>1 DEF Result, SameVars, SameRoutine
<1> HIDE DEF p
<1>9. LabelRefs(p) /\ CodeRefs(p) /\ RoutineRefs(p)
  BY <1>7, <1>8 DEF LabelRefs, CodeRefs, RoutineRefs, Sound, SameRoutine
<1>10. BlockRefs(p)
  <2> SUFFICES ASSUME NEW k \in 1..(n + 1)
               PROVE  /\ blocks[k].label_begin.label <= Len(r.labels_vect)
                      /\ blocks[k].label_end.label <= Len(r.labels_vect)
    BY <1>5, <1>7 DEF BlockRefs
  <2>1. CASE k = n + 1
    BY <2>1, <1>1, <1>3, <1>5, NoLabelIs
  <2>2. CASE k # n + 1
    <3>1. k \in 1..n BY <1>1, <2>2
    <3> QED BY <3>1, <1>5 DEF Sound, BlockRefs
  <2> QED BY <2>1, <2>2
<1>11. Sound(p) BY <1>6, <1>9, <1>10 DEF Sound
<1>12. CASE ~Labelling(type)
  <2>1. q = p BY <1>4, <1>12
  <2>2. Last(blocks) = b BY <1>5 DEF Last
  <2> QED BY <2>1, <2>2, <1>3, <1>5, <1>7, <1>8, <1>11, <1>12 DEF Opens
<1>13. CASE Labelling(type)
  <2>1. q = LabelBlock(p, n + 1, FALSE) BY <1>4, <1>5, <1>7, <1>13
  <2>2. n + 1 \in Nat BY <1>1
  <2>3. Labelled(p, q, n + 1, FALSE) BY <2>1, <2>2, <1>11, LabelBlockSound
  <2>4. Sound(q) /\ SameVars(r, q) /\ SameRoutine(r, q)
    BY <2>3, <1>8 DEF Labelled, Moves, SameVars, SameRoutine
  <2>5. \A k \in 1..(n + 1) :
          q.block_vect[k] = IF k = n + 1 THEN Ended(blocks[k], FALSE, LastLabel(q)) ELSE blocks[k]
    BY <2>3, <1>5, <1>7 DEF Labelled
  <2>6. /\ Len(q.block_vect) = n + 1
        /\ q.line_num = r.line_num /\ q.block_id = r.block_id + 1
    BY <2>3, <1>5, <1>7 DEF Labelled, Moves
  <2>7. q.block_vect[n + 1] = [b EXCEPT !.label_end = LastLabel(q)]
    BY <2>5, <1>1, <1>5 DEF Ended
  <2>8. \A k \in 1..n : q.block_vect[k] = r.block_vect[k]
    <3> SUFFICES ASSUME NEW k \in 1..n PROVE q.block_vect[k] = r.block_vect[k]
      OBVIOUS
    <3>1. k \in 1..(n + 1) /\ k # n + 1 BY <1>1
    <3> QED BY <3>1, <2>5, <1>5
  <2>9. /\ Last(q.block_vect).block_type = type
        /\ Last(q.block_vect).label_begin = NoLabel
        /\ Last(q.block_vect).label_end = LastLabel(q)
    BY <2>6, <2>7, <1>2, <1>3 DEF Last, BlockType
  <2>10. /\ q.lost = r.lost /\ q.obj = r.obj /\ q.pe = "no_error"
         /\ Len(q.labels_vect) = Len(r.labels_vect) + 1
         /\ \A i \in 1..Len(r.labels_vect) : q.labels_vect[i] = r.labels_vect[i]
         /\ q.labels_vect[Len(q.labels_vect)].name = AutoName
         /\ q.labels_vect[Len(q.labels_vect)].func_info = r.func_info
         /\ q.labels_vect[Len(q.labels_vect)].code_offs = -1
    BY <2>3, <1>7, <1>8 DEF Labelled, SameRoutine
  <2> QED BY <2>4, <2>6, <2>8, <2>9, <2>10, <1>13 DEF Opens
<1> QED BY <1>12, <1>13

(* The condition just read is tested, and what the jump answers is dropped.  *)
Tests(r, q) ==
  /\ Sound(q) /\ Kept(r, q) /\ q.pe = "no_error"
  /\ q.lost = (r.lost \/ Dangling(r, Block(r).label_end))

(* The condition's jump leads to the end of the block.                       *)
LEMMA TestSound ==
  ASSUME NEW r, Sound(r), Len(r.block_vect) > 0
  PROVE  Tests(r, TestCondition(r))
<1> DEFINE p == Block(r).label_end
           s == JmpTo(r, p, TRUE)
           q == TestCondition(r)
<1>1. p \in Pointer
  <2>1. Len(r.block_vect) \in Nat BY DEF Sound, Result
  <2>2. Len(r.block_vect) \in 1..Len(r.block_vect) BY <2>1
  <2>3. r.block_vect[Len(r.block_vect)].label_end \in Pointer BY <2>2, BlockIs
  <2> QED BY <2>3 DEF Block, Last
<1>2. Leaps(r, s, p) BY <1>1, JmpToSound
<1>3. q = Error(s, "no_error") BY DEF TestCondition
<1> HIDE DEF s, q, p
<1>4. Marks(s, q, "no_error")
  <2>1. "no_error" \in ParseError BY DEF ParseError
  <2> QED BY <1>2, <1>3, <2>1, ErrorSound DEF Leaps
<1>5. Sound(q) /\ Kept(r, q) BY <1>2, <1>4, KeptTrans DEF Leaps, Marks, Emits
<1>6. Tests(r, q) BY <1>2, <1>4, <1>5 DEF Leaps, Marks, Emits, Tests, p
<1> QED BY <1>6 DEF q

(* What neither declares, forgets nor leaves the routine, blocks opened or not. *)
Keeps(r, q) == Sound(q) /\ SameVars(r, q) /\ SameRoutine(r, q)

(* Variables and routine stay in two steps if they do in each.               *)
LEMMA KeepsTrans ==
  ASSUME NEW r, NEW p, NEW q, Keeps(r, p), Keeps(p, q) PROVE Keeps(r, q)
BY DEF Keeps, SameVars, SameRoutine

(* Moving labels keeps variables and routine.                                *)
LEMMA MovesKeeps == ASSUME NEW r, NEW q, Moves(r, q) PROVE Keeps(r, q)
BY DEF Moves, Keeps

(* Doing nothing keeps all.                                                  *)
LEMMA KeepsNothing == ASSUME NEW r, Sound(r) PROVE Keeps(r, r)
BY DEF Keeps, SameVars, SameRoutine

(* The brace of a branch or a loop: `tested` when the condition is not a     *)
(* number.                                                                   *)
BlockFor(past_cmd) ==
  CASE past_cmd = "IF"    -> "bt_if"
    [] past_cmd = "ELSE"  -> "bt_else"
    [] past_cmd = "WHILE" -> "bt_loop"
    [] OTHER              -> "bt_none"

(* A block begins: it is opened, unless it was, and its condition is tested, *)
(* unless it is a number.                                                    *)
Begins(r, q, past_cmd, early_opened, e) ==
  \E s : /\ IF early_opened THEN s = r ELSE Opens(r, s, BlockFor(past_cmd))
         /\ IF past_cmd \in {"IF", "WHILE"} /\ e # "number" THEN Tests(s, q) ELSE q = s

(* begin_block begins a block.                                               *)
LEMMA BeginSound ==
  ASSUME NEW r, Sound(r), NEW past_cmd, NEW early_opened \in BOOLEAN, NEW e,
         early_opened => Len(r.block_vect) > 0 \/ past_cmd \notin {"IF", "WHILE"}
  PROVE  /\ Begins(r, begin_block(r, past_cmd, early_opened, e), past_cmd, early_opened, e)
         /\ Keeps(r, begin_block(r, past_cmd, early_opened, e))
<1> DEFINE s == IF early_opened THEN r ELSE open_block(r, BlockFor(past_cmd))
           tests == past_cmd \in {"IF", "WHILE"} /\ e # "number"
           q == begin_block(r, past_cmd, early_opened, e)
<1>1. q = IF tests THEN TestCondition(s) ELSE s
  BY DEF begin_block, BlockFor
<1>2. BlockFor(past_cmd) \in BlockKind BY DEF BlockFor, BlockKind
<1>3. IF early_opened THEN s = r ELSE Opens(r, s, BlockFor(past_cmd))
  BY <1>2, OpenSound
<1> SUFFICES Begins(r, q, past_cmd, early_opened, e) /\ Keeps(r, q)
  OBVIOUS
<1> HIDE DEF s, q
<1>4. Keeps(r, s) BY <1>3, KeepsNothing DEF Opens, Keeps
<1>5. CASE ~tests
  BY <1>1, <1>3, <1>4, <1>5 DEF Begins
<1>6. CASE tests
  <2>1. Len(r.block_vect) \in Nat BY DEF Sound, Result
  <2>2. Len(s.block_vect) > 0 BY <1>3, <1>6, <2>1 DEF Opens
  <2>3. Tests(s, q) BY <1>1, <1>4, <1>6, <2>2, TestSound DEF Keeps
  <2>4. Keeps(s, q) BY <2>3 DEF Tests, Kept, Keeps
  <2> QED BY <1>3, <1>4, <1>6, <2>3, <2>4, KeepsTrans DEF Begins
<1> QED BY <1>5, <1>6

(* IF: a condition is opened, unless one is open.                            *)
OpensCondition(r, q, junk) ==
  \/ r.block_vect = <<>> /\ r.block_id = 0 /\ Marks(r, q, "SIGSEGV")
  \/ r.block_vect = <<>> /\ r.block_id # 0 /\ junk /\ q = r
  \/ r.block_vect = <<>> /\ r.block_id # 0 /\ ~junk /\ Opens(r, q, "bt_condition")
  \/ r.block_vect # <<>> /\ Block(r).block_type = "bt_condition" /\ q = r
  \/ r.block_vect # <<>> /\ Block(r).block_type # "bt_condition" /\ Opens(r, q, "bt_condition")

(* IF opens its condition's block (parser_gen.c).                            *)
LEMMA IfSound ==
  ASSUME NEW r, Sound(r), NEW junk \in BOOLEAN
  PROVE  OpensCondition(r, IF_command(r, junk), junk) /\ Keeps(r, IF_command(r, junk))
<1> DEFINE q == IF_command(r, junk)
           o == open_block(r, "bt_condition")
<1>1. Opens(r, o, "bt_condition") /\ Keeps(r, o)
  <2>1. "bt_condition" \in BlockKind BY DEF BlockKind
  <2>2. Opens(r, o, "bt_condition") BY <2>1, OpenSound
  <2> QED BY <2>2 DEF Opens, Keeps
<1>2. Marks(r, Error(r, "SIGSEGV"), "SIGSEGV")
  <2>1. "SIGSEGV" \in ParseError BY DEF ParseError
  <2> QED BY <2>1, ErrorSound
<1>3. Keeps(r, Error(r, "SIGSEGV")) BY <1>2 DEF Marks, Emits, Kept, Keeps
<1>4. Keeps(r, r) BY KeepsNothing
<1>5. q = IF r.block_vect = <<>>
          THEN IF r.block_id = 0 THEN Error(r, "SIGSEGV") ELSE IF junk THEN r ELSE o
          ELSE IF Block(r).block_type = "bt_condition" THEN r ELSE o
  BY DEF IF_command
<1> HIDE DEF q, o
<1>6. OpensCondition(r, q, junk) /\ Keeps(r, q)
  BY <1>1, <1>2, <1>3, <1>4, <1>5 DEF OpensCondition
<1> QED BY <1>6 DEF q

(* A conditioned block keeps variables and routine.                          *)
LEMMA ConditionedSound ==
  ASSUME NEW r, Sound(r), NEW past_cmd, NEW early_opened \in BOOLEAN, NEW e,
         early_opened => Len(r.block_vect) > 0
  PROVE  Keeps(r, Conditioned(r, past_cmd, early_opened, e))
<1>1. CASE Ok(r) BY <1>1, BeginSound DEF Conditioned
<1>2. CASE ~Ok(r) BY <1>2, KeepsNothing DEF Conditioned
<1> QED BY <1>1, <1>2

(* Putting code keeps variables and routine.                                 *)
LEMMA EmitsKeeps == ASSUME NEW r, NEW q, Emits(r, q) PROVE Keeps(r, q)
BY DEF Emits, Kept, Keeps

(* The rest of IF keeps them.                                                *)
LEMMA IfRestSound ==
  ASSUME NEW r, Sound(r), NEW e \in Expressions
  PROVE  Keeps(r, IF_rest(r, e))
<1> DEFINE s == Evaluate(r, e)
           q == Conditioned(s, "IF", FALSE, e)
<1>1. Emits(r, s) BY EvaluateSound
<1>2. Keeps(r, s) /\ Sound(s) BY <1>1, EmitsKeeps DEF Keeps
<1>3. Keeps(s, q)
  <2> HIDE DEF s
  <2> QED BY <1>2, ConditionedSound
<1>4. Keeps(r, Error(r, "syntax_invalid")) BY SyntaxError, EmitsKeeps
<1>5. IF_rest(r, e) = IF ~Ok(r) THEN r ELSE IF e = "number" THEN Error(r, "syntax_invalid") ELSE q
  BY DEF IF_rest
<1> HIDE DEF s, q
<1> QED BY <1>2, <1>3, <1>4, <1>5, KeepsTrans, KeepsNothing

-----------------------------------------------------------------------------
(* The end of a block. *)

(* An error moves nothing.                                                   *)
LEMMA ErrorMoves ==
  ASSUME NEW r, Sound(r), NEW pe \in ParseError
  PROVE  Moves(r, Error(r, pe)) /\ Error(r, pe).pe = pe
BY ErrorSound, EmitsMoves DEF Marks

(* Nor does doing nothing.                                                   *)
LEMMA MovesNothing == ASSUME NEW r, Sound(r) PROVE Moves(r, r)
BY EmitsNothing, EmitsMoves

(* Leaving a branch moves labels and jumps only.                             *)
LEMMA CloseBranchSound ==
  ASSUME NEW r, Sound(r), Len(r.block_vect) > 0, NEW behind
  PROVE  Moves(r, CloseBranch(r, behind))
<1> DEFINE c     == Len(r.block_vect) - 1
           cond  == r.block_vect[c]
           ended == IF cond.label_end # NoLabel THEN r ELSE LabelBlock(r, c, FALSE)
           pnt   == ended.block_vect[c].label_end
           jump  == JmpTo(ended, pnt, FALSE)
           place == PlaceEnd(r, cond.label_end)
           q     == CloseBranch(r, behind)
<1>1. q = IF c = 0 THEN Error(r, "SIGSEGV")
          ELSE IF behind THEN jump
          ELSE IF cond.block_type # "bt_condition" THEN Error(r, "syntax_invalid")
          ELSE IF cond.label_end # NoLabel THEN place
          ELSE r
  BY DEF CloseBranch
<1> SUFFICES Moves(r, q)
  OBVIOUS
<1>2. {"SIGSEGV", "syntax_invalid"} \subseteq ParseError BY DEF ParseError
<1>3. Moves(r, Error(r, "SIGSEGV")) /\ Moves(r, Error(r, "syntax_invalid"))
  <2>1. "SIGSEGV" \in ParseError /\ "syntax_invalid" \in ParseError BY <1>2
  <2> QED BY <2>1, ErrorMoves
<1>4. Len(r.block_vect) \in Nat BY DEF Sound, Result
<1>5. Moves(r, place) BY PlaceEndSound, LandsMoves
<1>6. Moves(r, r) BY MovesNothing
<1>7. c # 0 => Moves(r, jump)
  <2> SUFFICES ASSUME c # 0 PROVE Moves(r, jump)
    OBVIOUS
  <2>1. c \in Nat /\ c \in 1..Len(r.block_vect)
    <3>1. c # 0 /\ Len(r.block_vect) > 0 /\ Len(r.block_vect) \in Nat BY <1>4
    <3>2. \A m \in Nat : m > 0 /\ m - 1 # 0 => m - 1 \in Nat /\ m - 1 \in 1..m OBVIOUS
    <3> QED BY <3>1, <3>2, Zenon
  <2>2. Moves(r, ended)
    <3>1. Moves(r, LabelBlock(r, c, FALSE))
      <4>1. FALSE \in BOOLEAN OBVIOUS
      <4> HIDE DEF c
      <4>2. Labelled(r, LabelBlock(r, c, FALSE), c, FALSE) BY <2>1, <4>1, LabelBlockSound, Zenon
      <4> QED BY <4>2 DEF Labelled
    <3> QED BY <3>1, <1>6
  <2> HIDE DEF ended, c
  <2>3. Sound(ended) /\ c \in 1..Len(ended.block_vect) BY <2>1, <2>2 DEF Moves
  <2>4. pnt \in Pointer BY <2>3, BlockIs
  <2>5. FALSE \in BOOLEAN OBVIOUS
  <2> HIDE DEF pnt
  <2>6. Leaps(ended, jump, pnt) BY <2>3, <2>4, <2>5, JmpToSound, Zenon
  <2> QED BY <2>2, <2>6, LeapsMoves, MovesTrans
<1> HIDE DEF q, c, cond, jump, place
<1> QED BY <1>1, <1>3, <1>5, <1>6, <1>7

(* So does leaving any block.                                                *)
LEMMA LeaveSound ==
  ASSUME NEW r, Sound(r), Len(r.block_vect) > 0, NEW b \in BlockType, NEW behind
  PROVE  Moves(r, LeaveBlock(r, b, behind))
<1> DEFINE loops == b.block_type = "bt_loop"
           branches == IsBranch(b)
           jump  == JmpTo(r, b.label_begin, FALSE)
           close == CloseBranch(r, behind)
           q     == LeaveBlock(r, b, behind)
<1>1. q = CASE loops -> jump [] branches -> close [] OTHER -> r
  BY DEF LeaveBlock
<1>2. b.label_begin \in Pointer /\ FALSE \in BOOLEAN BY DEF BlockType
<1>3. Leaps(r, jump, b.label_begin) BY <1>2, JmpToSound, Zenon
<1>4. Moves(r, jump) BY <1>3, LeapsMoves
<1>5. Moves(r, close) BY CloseBranchSound
<1>6. Moves(r, r) BY MovesNothing
<1>7. ~(loops /\ branches) BY DEF IsBranch
<1> SUFFICES Moves(r, q)
  OBVIOUS
<1> HIDE DEF q, loops, branches, jump, close
<1> QED BY <1>1, <1>4, <1>5, <1>6, <1>7

(* And placing its end.                                                      *)
LEMMA LabelEndSound ==
  ASSUME NEW r, Sound(r), NEW b
  PROVE  Moves(r, LabelEnd(r, b))
<1>1. Moves(r, PlaceEnd(r, b.label_end)) BY PlaceEndSound, LandsMoves
<1> QED BY <1>1, MovesNothing DEF LabelEnd

(* The last block goes, or a routine ends with it.                           *)
LEMMA PopSound ==
  ASSUME NEW r, Sound(r), Len(r.block_vect) > 0
  PROVE  /\ Keeps(r, Pop(r)) /\ Pop(r).pe = r.pe /\ Pop(r).lost = r.lost
         /\ Pop(r).labels_vect = r.labels_vect /\ Pop(r).line_num = r.line_num
         /\ Pop(r).block_id = r.block_id
         /\ Len(Pop(r).block_vect) = Len(r.block_vect) - 1
         /\ \A k \in 1..(Len(r.block_vect) - 1) : Pop(r).block_vect[k] = r.block_vect[k]
<1> DEFINE n      == Len(r.block_vect)
           blocks == Front(r.block_vect)
           q      == Pop(r)
<1>1. r \in Result /\ r.block_vect \in Seq(BlockType) /\ n \in Nat /\ n > 0
  BY DEF Sound, Result
<1>2. /\ blocks \in Seq(BlockType) /\ Len(blocks) = n - 1
      /\ \A k \in 1..(n - 1) : blocks[k] = r.block_vect[k]
  BY <1>1 DEF Front
<1>3. q = [r EXCEPT !.block_vect = blocks] BY DEF Pop
<1> SUFFICES /\ Keeps(r, q) /\ q.pe = r.pe /\ q.lost = r.lost
             /\ q.labels_vect = r.labels_vect /\ q.line_num = r.line_num
             /\ q.block_id = r.block_id
             /\ Len(q.block_vect) = n - 1
             /\ \A k \in 1..(n - 1) : q.block_vect[k] = r.block_vect[k]
  OBVIOUS
<1> HIDE DEF q, blocks
<1>4. q \in Result BY <1>1, <1>2, <1>3 DEF Result
<1>5. /\ q.pe = r.pe /\ q.lost = r.lost /\ q.labels_vect = r.labels_vect /\ q.line_num = r.line_num
      /\ q.block_id = r.block_id /\ q.block_vect = blocks /\ q.obj = r.obj
  BY <1>1, <1>3 DEF Result
<1>6. SameVars(r, q) /\ SameRoutine(r, q)
  BY <1>1, <1>3 DEF Result, SameVars, SameRoutine
<1>7. LabelRefs(q) /\ CodeRefs(q) /\ RoutineRefs(q)
  BY <1>5, <1>6 DEF LabelRefs, CodeRefs, RoutineRefs, Sound, SameRoutine
<1>8. BlockRefs(q)
  <2> SUFFICES ASSUME NEW k \in 1..(n - 1)
               PROVE  /\ blocks[k].label_begin.label <= Len(r.labels_vect)
                      /\ blocks[k].label_end.label <= Len(r.labels_vect)
    BY <1>2, <1>5 DEF BlockRefs
  <2>1. k \in 1..n BY <1>1
  <2> QED BY <2>1, <1>2 DEF Sound, BlockRefs
<1> QED BY <1>2, <1>4, <1>5, <1>6, <1>7, <1>8 DEF Keeps, Sound

(* A routine ends: the main part's heap registers come back.                 *)
EndsRoutine(r, q) ==
  /\ Sound(q) /\ r.func_info # NULL /\ q.block_vect = <<>>
  /\ q.vars_vect = r.vars_vect /\ q.funcs_vect = r.funcs_vect
  /\ q.heap_memory_max_funcs = r.heap_memory_max_funcs + r.heap_memory_max
  /\ q.heap_memory_max = r.heap_memory_max_back
  /\ q.heap_memory_max_back = r.heap_memory_max_back
  /\ q.heap_pnt = r.heap_pnt_back /\ q.heap_pnt_back = r.heap_pnt_back
  /\ q.subs_body = FALSE /\ q.func_info = NULL

(* EndSubContext gives the main part its heap back.                          *)
LEMMA EndSubSound ==
  ASSUME NEW r, Sound(r), r.func_info # NULL, r.block_vect = <<>>
  PROVE  LET q == EndSubContext(r)
         IN  /\ EndsRoutine(r, q) /\ SameBlocks(r, q) /\ q.labels_vect = r.labels_vect
             /\ q.pe = r.pe /\ q.lost = r.lost
<1> DEFINE total == r.heap_memory_max_funcs + r.heap_memory_max
           max   == r.heap_memory_max_back
           back  == r.heap_pnt_back
           q     == EndSubContext(r)
<1>1. /\ r \in Result /\ r.heap_memory_max_funcs \in Nat /\ r.heap_memory_max \in Nat
      /\ max \in Nat /\ back \in Int
  BY DEF Sound, Result
<1>2. total \in Nat BY <1>1
<1>3. q = [r EXCEPT !.heap_memory_max_funcs = total, !.heap_memory_max = max,
                    !.heap_pnt = back, !.subs_body = FALSE, !.func_info = NULL]
  BY DEF EndSubContext
<1> SUFFICES /\ EndsRoutine(r, q) /\ SameBlocks(r, q) /\ q.labels_vect = r.labels_vect
             /\ q.pe = r.pe /\ q.lost = r.lost
  OBVIOUS
<1> HIDE DEF q, total, max, back
<1>4. q \in Result BY <1>1, <1>2, <1>3 DEF Result, NULL
<1>5. /\ q.block_vect = r.block_vect /\ q.vars_vect = r.vars_vect /\ q.funcs_vect = r.funcs_vect
      /\ q.heap_memory_max_funcs = total /\ q.heap_memory_max = max /\ q.heap_pnt = back
      /\ q.heap_memory_max_back = r.heap_memory_max_back /\ q.heap_pnt_back = r.heap_pnt_back
      /\ q.subs_body = FALSE /\ q.func_info = NULL
  BY <1>1, <1>3 DEF Result
<1>6. /\ q.labels_vect = r.labels_vect /\ q.obj = r.obj /\ q.pe = r.pe /\ q.lost = r.lost
      /\ SameBlocks(r, q)
  BY <1>1, <1>3 DEF Result, SameBlocks
<1>7. BlockRefs(q) /\ LabelRefs(q) /\ CodeRefs(q)
  BY <1>5, <1>6 DEF BlockRefs, LabelRefs, CodeRefs, Sound
<1>8. RoutineRefs(q)
  <2>1. Len(q.funcs_vect) \in Nat BY <1>4 DEF Result
  <2> QED BY <2>1, <1>5 DEF RoutineRefs, NULL
<1> QED BY <1>4, <1>5, <1>6, <1>7, <1>8 DEF Sound, EndsRoutine, total, max, back

(* The blocks that go with a brace: one, or a condition too, or a routine.   *)
Drops(r, q, double_pop) ==
  LET n == Len(r.block_vect)
  IN  /\ q.lost = r.lost
      /\ \/ /\ Keeps(r, q) /\ q.pe = r.pe /\ q.labels_vect = r.labels_vect /\ q.block_id = r.block_id
            /\ Len(q.block_vect) = IF double_pop THEN n - 2 ELSE n - 1
            /\ \A k \in 1..Len(q.block_vect) : q.block_vect[k] = r.block_vect[k]
            /\ n > 1 \/ (~double_pop /\ r.func_info = NULL)
         \/ Keeps(r, q) /\ n = 1 /\ double_pop /\ ~Ok(q)
         \/ /\ EndsRoutine(r, q) /\ SameLabels(r, q) /\ q.pe = "no_error"
            /\ n = 1 /\ ~double_pop

(* DropBlock takes the innermost block, or two of them, and ends the routine *)
(* with its last block.                                                      *)
LEMMA DropSound ==
  ASSUME NEW r, Sound(r), Len(r.block_vect) > 0, NEW double_pop \in BOOLEAN
  PROVE  Drops(r, DropBlock(r, double_pop), double_pop)
<1> DEFINE n   == Len(r.block_vect)
           p   == Pop(r)
           pp  == Pop(p)
           ret == code_op(p, "RET", FALSE, 0, 0)
           fin == Error(ret, "no_error")
           q   == DropBlock(r, double_pop)
<1>1. q = IF p.block_vect # <<>> THEN IF double_pop THEN pp ELSE p
          ELSE IF double_pop THEN Error(p, "syntax_invalid")
          ELSE IF r.func_info # NULL THEN EndSubContext(fin)
          ELSE p
  BY DEF DropBlock
<1> SUFFICES Drops(r, q, double_pop)
  OBVIOUS
<1>2. n \in Nat BY DEF Sound, Result
<1>3. /\ Keeps(r, p) /\ p.pe = r.pe /\ p.lost = r.lost /\ p.labels_vect = r.labels_vect
      /\ p.block_id = r.block_id /\ Len(p.block_vect) = n - 1
      /\ \A k \in 1..(n - 1) : p.block_vect[k] = r.block_vect[k]
  BY PopSound
<1> HIDE DEF p, n, q, fin, ret, pp
<1>4. Sound(p) /\ p.block_vect \in Seq(BlockType) BY <1>3 DEF Keeps, Sound, Result
<1>5. p.block_vect # <<>> <=> n > 1
  <2>1. n > 0 BY DEF n
  <2>2. p.block_vect = <<>> <=> Len(p.block_vect) = 0 BY <1>4
  <2> QED BY <1>2, <1>3, <2>1, <2>2
<1>6. CASE n > 1 /\ double_pop
  <2>0. Len(p.block_vect) > 0 BY <1>2, <1>3, <1>6
  <2>1. /\ Keeps(p, pp) /\ pp.pe = p.pe /\ pp.lost = p.lost /\ pp.labels_vect = p.labels_vect
        /\ pp.block_id = p.block_id
        /\ Len(pp.block_vect) = Len(p.block_vect) - 1
        /\ \A k \in 1..(Len(p.block_vect) - 1) : pp.block_vect[k] = p.block_vect[k]
    BY <1>4, <2>0, PopSound DEF pp
  <2>2. q = pp BY <1>1, <1>5, <1>6
  <2>3. Keeps(r, q) BY <1>3, <2>1, <2>2, KeepsTrans
  <2>4. Len(q.block_vect) = n - 2 BY <1>2, <1>3, <2>1, <2>2
  <2>5. \A k \in 1..Len(q.block_vect) : q.block_vect[k] = r.block_vect[k]
    <3> SUFFICES ASSUME NEW k \in 1..(n - 2) PROVE pp.block_vect[k] = r.block_vect[k]
      BY <2>2, <2>4
    <3>1. k \in 1..(n - 1) /\ k \in 1..(Len(p.block_vect) - 1) BY <1>2, <1>3
    <3> QED BY <3>1, <1>3, <2>1
  <2> QED BY <1>3, <1>6, <2>1, <2>2, <2>3, <2>4, <2>5 DEF Drops, n
<1>7. CASE n > 1 /\ ~double_pop
  <2>1. q = p BY <1>1, <1>5, <1>7
  <2> QED BY <1>3, <1>7, <2>1 DEF Drops, n
<1>8. CASE ~(n > 1) /\ double_pop
  <2>1. q = Error(p, "syntax_invalid") BY <1>1, <1>5, <1>8
  <2>2. Emits(p, q) /\ q.pe = "syntax_invalid" BY <1>4, <2>1, SyntaxError
  <2>3. Keeps(r, q) BY <1>3, <2>2, EmitsKeeps, KeepsTrans
  <2>4. n = 1
    <3>1. n > 0 BY DEF n
    <3> QED BY <1>2, <1>8, <3>1
  <2> QED BY <1>3, <1>8, <2>2, <2>3, <2>4 DEF Drops, n, Emits, Ok
<1>9. CASE ~(n > 1) /\ ~double_pop /\ r.func_info = NULL
  <2>1. q = p BY <1>1, <1>5, <1>9
  <2> QED BY <1>3, <1>9, <2>1 DEF Drops, n
<1>10. CASE ~(n > 1) /\ ~double_pop /\ r.func_info # NULL
  <2>1. q = EndSubContext(fin) BY <1>1, <1>5, <1>10
  <2>2. "RET" \in Op /\ FALSE \in BOOLEAN /\ 0 \in Int /\ "no_error" \in ParseError
    BY DEF Op, PlainOps, ParseError
  <2>3. Appends(p, ret) BY <1>4, <2>2, CodeOpSound, Zenon DEF ret
  <2>4. Emits(p, ret) /\ Sound(ret) BY <2>3 DEF Appends, Emits
  <2>5. Marks(ret, fin, "no_error") BY <2>2, <2>4, ErrorSound DEF fin
  <2>6. Emits(p, fin) /\ fin.pe = "no_error" BY <2>4, <2>5, EmitsTrans DEF Marks
  <2>7. /\ Sound(fin) /\ SameVars(r, fin) /\ SameRoutine(r, fin)
        /\ fin.block_vect = <<>> /\ fin.lost = r.lost
    BY <1>3, <1>5, <1>10, <2>6 DEF Emits, Kept, Keeps, SameVars, SameRoutine, SameBlocks
  <2>8. SameLabels(r, fin) BY <1>3, <2>6 DEF Emits, Kept, SameLabels
  <2>9. fin.func_info # NULL BY <1>10, <2>7 DEF SameRoutine
  <2>10. /\ EndsRoutine(fin, q) /\ q.labels_vect = fin.labels_vect /\ q.pe = fin.pe
         /\ q.lost = fin.lost
    BY <2>1, <2>7, <2>9, EndSubSound
  <2>11. EndsRoutine(r, q) BY <2>7, <2>10, <1>10 DEF EndsRoutine, SameVars, SameRoutine
  <2>12. n = 1
    <3>1. n > 0 BY DEF n
    <3> QED BY <1>2, <1>10, <3>1
  <2>13. SameLabels(r, q) BY <2>8, <2>10 DEF SameLabels
  <2> QED BY <1>10, <2>6, <2>7, <2>10, <2>11, <2>12, <2>13 DEF Drops, n
<1> QED BY <1>6, <1>7, <1>8, <1>9, <1>10

(* What becomes of a block that ends, once its variables are gone.           *)
LEMMA EndBlockSound ==
  ASSUME NEW r, Sound(r), Len(r.block_vect) > 0, NEW b \in BlockType, NEW behind \in BOOLEAN
  PROVE  Keeps(r, EndBlock(r, b, behind)) \/ EndsRoutine(r, EndBlock(r, b, behind))
<1> DEFINE both == IsBranch(b) /\ ~behind
           fails == IsBranch(b) /\ r.pe \in {"SIGSEGV", "syntax_invalid"}
           p == LabelEnd(r, b)
           d == DropBlock(p, both)
           q == EndBlock(r, b, behind)
<1>1. q = IF fails THEN r ELSE d
  BY DEF EndBlock
<1>2. Moves(r, p) BY LabelEndSound
<1>3. both \in BOOLEAN OBVIOUS
<1> SUFFICES Keeps(r, q) \/ EndsRoutine(r, q)
  OBVIOUS
<1> HIDE DEF fails, p, both, q
<1>4. Sound(p) /\ Len(p.block_vect) > 0 BY <1>2 DEF Moves
<1>5. Drops(p, d, both) BY <1>3, <1>4, DropSound
<1> HIDE DEF d
<1>6. Keeps(p, d) \/ EndsRoutine(p, d) BY <1>5 DEF Drops
<1>7. Keeps(p, d) => Keeps(r, d) BY <1>2, MovesKeeps, KeepsTrans
<1>8. EndsRoutine(p, d) => EndsRoutine(r, d)
  BY <1>2 DEF Moves, EndsRoutine, SameVars, SameRoutine
<1> QED BY <1>1, <1>6, <1>7, <1>8, KeepsNothing

(* A block closes: its variables go, and its routine may end.                *)
Closes(r, q) ==
  \E u, left, count :
    /\ Returns(r, left, count) /\ Unregisters(r, u, left, count)
    /\ Keeps(u, q) \/ EndsRoutine(u, q)

(* BLOCK_END closes a block, or finds none open (parser_gen.c).              *)
LEMMA BlockEndSound ==
  ASSUME NEW r, Sound(r), NEW behind \in BOOLEAN
  PROVE  LET q == BLOCK_END(r, behind)
         IN  /\ Sound(q)
             /\ r.block_vect = <<>> => Marks(r, q, "syntax_invalid")
             /\ r.block_vect # <<>> => Closes(r, q)
<1> DEFINE b == Block(r)
           u == UnregisterLastBlockVars(r)
           p == LeaveBlock(u, b, behind)
           e == EndBlock(p, b, behind)
           q == BLOCK_END(r, behind)
<1>1. q = IF r.block_vect = <<>> THEN Error(r, "syntax_invalid") ELSE e
  BY DEF BLOCK_END
<1> SUFFICES /\ Sound(q)
             /\ r.block_vect = <<>> => Marks(r, q, "syntax_invalid")
             /\ r.block_vect # <<>> => Closes(r, q)
  OBVIOUS
<1>2. CASE r.block_vect = <<>>
  <2>1. "syntax_invalid" \in ParseError BY DEF ParseError
  <2> QED BY <1>1, <1>2, <2>1, ErrorSound DEF Marks, Emits
<1>3. CASE r.block_vect # <<>>
  <2>1. r.block_vect \in Seq(BlockType) /\ Len(r.block_vect) \in Nat /\ Len(r.block_vect) > 0
    <3>1. r.block_vect \in Seq(BlockType) BY DEF Sound, Result
    <3> QED BY <1>3, <3>1
  <2>2. b \in BlockType BY <2>1 DEF Block, Last
  <2>3. PICK left, count : Returns(r, left, count) /\ Unregisters(r, u, left, count)
    BY UnregisterSound
  <2> HIDE DEF b, u
  <2>4. Sound(u) /\ Len(u.block_vect) > 0 BY <2>1, <2>3 DEF Unregisters, OnlyVars, SameBlocks
  <2>5. Moves(u, p) BY <2>2, <2>4, LeaveSound
  <2> HIDE DEF p
  <2>6. Sound(p) /\ Len(p.block_vect) > 0 BY <2>4, <2>5 DEF Moves
  <2>7. Keeps(p, e) \/ EndsRoutine(p, e) BY <2>2, <2>6, EndBlockSound
  <2> HIDE DEF e, q
  <2>8. Keeps(p, e) => Keeps(u, e) BY <2>5, MovesKeeps, KeepsTrans
  <2>9. EndsRoutine(p, e) => EndsRoutine(u, e)
    BY <2>5 DEF Moves, EndsRoutine, SameVars, SameRoutine
  <2>10. q = e BY <1>1, <1>3
  <2>11. Sound(q) BY <2>7, <2>10 DEF Keeps, EndsRoutine
  <2>12. Closes(r, q) BY <2>3, <2>7, <2>8, <2>9, <2>10 DEF Closes
  <2> QED BY <1>3, <2>11, <2>12
<1> QED BY <1>2, <1>3

-----------------------------------------------------------------------------
(* Routines and their parameters. *)

(* A routine begins: the main part's heap registers are set aside.           *)
StartsRoutine(r, q) ==
  /\ Sound(q) /\ SameBlocks(r, q) /\ q.labels_vect = r.labels_vect /\ q.lost = r.lost
  /\ q.pe = "no_error"
  /\ q.vars_vect = r.vars_vect
  /\ Len(q.funcs_vect) = Len(r.funcs_vect) + 1
  /\ q.func_info = Len(q.funcs_vect) /\ q.funcs_vect[q.func_info].params = <<>>
  /\ q.subs_body = TRUE
  /\ q.heap_memory_max = 0 /\ q.heap_memory_max_back = r.heap_memory_max
  /\ q.heap_pnt = 0 /\ q.heap_pnt_back = r.heap_pnt
  /\ q.heap_memory_max_funcs = r.heap_memory_max_funcs

(* BeginSub enrols a routine and sets the main part's heap aside, unless the *)
(* name is taken.                                                            *)
LEMMA BeginSubSound ==
  ASSUME NEW r, Sound(r), NEW name \in FuncNames
  PROVE  \/ Marks(r, BeginSub(r, name), "object_exist")
         \/ StartsRoutine(r, BeginSub(r, name))
<1> DEFINE f     == [name |-> name, params |-> <<>>, vm_code_offset |-> r.obj[TRUE].size]
           n     == Len(r.funcs_vect)
           funcs == Append(r.funcs_vect, f)
           info  == n + 1
           max   == r.heap_memory_max
           pnt   == r.heap_pnt
           known == Named(r.funcs_vect, name) # NULL
           q     == BeginSub(r, name)
<1>1. /\ r \in Result /\ r.funcs_vect \in Seq(FuncType) /\ n \in Nat /\ info \in Nat
      /\ max \in Nat /\ pnt \in Int /\ r.obj \in [BOOLEAN -> PartType]
  BY DEF Sound, Result
<1>2. f \in FuncType /\ f.params = <<>>
  <2>1. r.obj[TRUE].size \in Nat BY <1>1 DEF PartType
  <2>2. <<>> \in Seq(Nat) OBVIOUS
  <2> QED BY <2>1, <2>2 DEF FuncType
<1>3. q = IF known THEN Error(r, "object_exist")
          ELSE [r EXCEPT !.pe = "no_error", !.funcs_vect = funcs, !.func_info = info,
                         !.heap_memory_max_back = max, !.heap_memory_max = 0,
                         !.heap_pnt_back = pnt, !.heap_pnt = 0, !.subs_body = TRUE]
  BY DEF BeginSub
<1> SUFFICES Marks(r, q, "object_exist") \/ StartsRoutine(r, q)
  OBVIOUS
<1> HIDE DEF q, f, known
<1>4. /\ funcs \in Seq(FuncType) /\ Len(funcs) = n + 1 /\ funcs[n + 1] = f
      /\ \A k \in 1..n : funcs[k] = r.funcs_vect[k]
  BY <1>1, <1>2
<1>5. CASE known
  <2>1. "object_exist" \in ParseError BY DEF ParseError
  <2> QED BY <2>1, <1>3, <1>5, ErrorSound
<1>6. CASE ~known
  <2>0. info = n + 1 OBVIOUS
  <2> HIDE DEF funcs, info, max, pnt
  <2>1. q = [r EXCEPT !.pe = "no_error", !.funcs_vect = funcs, !.func_info = info,
                         !.heap_memory_max_back = max, !.heap_memory_max = 0,
                         !.heap_pnt_back = pnt, !.heap_pnt = 0, !.subs_body = TRUE]
    BY <1>3, <1>6
  <2>2. q \in Result
    <3> DEFINE s == [r EXCEPT !.pe = "no_error", !.funcs_vect = funcs, !.func_info = info,
                              !.heap_memory_max_back = max]
    <3>1. s \in Result BY <1>1, <1>4 DEF Result, ParseError
    <3>2. q = [s EXCEPT !.heap_memory_max = 0, !.heap_pnt_back = pnt, !.heap_pnt = 0,
                        !.subs_body = TRUE]
      BY <2>1
    <3> HIDE DEF s
    <3> DEFINE t == [s EXCEPT !.heap_memory_max = 0, !.heap_pnt_back = pnt]
    <3>3. pnt \in Int /\ 0 \in Nat /\ 0 \in Int BY <1>1
    <3>4. t \in Result BY <3>1, <3>3 DEF Result
    <3>5. q = [t EXCEPT !.heap_pnt = 0, !.subs_body = TRUE] BY <3>2
    <3> HIDE DEF t
    <3> QED BY <3>3, <3>4, <3>5 DEF Result
  <2>3. /\ q.pe = "no_error" /\ q.funcs_vect = funcs /\ q.func_info = info
        /\ q.heap_memory_max_back = max /\ q.heap_memory_max = 0
        /\ q.heap_pnt_back = pnt /\ q.heap_pnt = 0 /\ q.subs_body = TRUE
        /\ q.heap_memory_max_funcs = r.heap_memory_max_funcs
    BY <1>1, <2>1 DEF Result
  <2>4. /\ SameBlocks(r, q) /\ q.labels_vect = r.labels_vect /\ q.obj = r.obj /\ q.lost = r.lost
        /\ q.vars_vect = r.vars_vect
    BY <1>1, <2>1 DEF Result, SameBlocks
  <2>5. BlockRefs(q) /\ CodeRefs(q)
    BY <2>4 DEF BlockRefs, CodeRefs, Sound, SameBlocks
  <2>6. RoutineRefs(q)
    BY <1>1, <1>4, <2>0, <2>3 DEF RoutineRefs, NULL
  <2>7. LabelRefs(q)
    <3> SUFFICES ASSUME NEW i \in 1..Len(r.labels_vect)
                 PROVE  /\ Len(r.labels_vect[i].jmps) <= LINKS_BY_LABEL_MAX
                        /\ \A k \in 1..Len(r.labels_vect[i].jmps) :
                             \E a \in BOOLEAN : r.labels_vect[i].jmps[k] < r.obj[a].size
                        /\ r.labels_vect[i].func_info <= n + 1
      BY <1>4, <2>3, <2>4 DEF LabelRefs
    <3>1. /\ Len(r.labels_vect[i].jmps) <= LINKS_BY_LABEL_MAX
          /\ \A k \in 1..Len(r.labels_vect[i].jmps) :
               \E a \in BOOLEAN : r.labels_vect[i].jmps[k] < r.obj[a].size
          /\ r.labels_vect[i].func_info <= n
      BY DEF Sound, LabelRefs
    <3>2. r.labels_vect[i].func_info \in Nat
      <4>1. r.labels_vect[i] \in LabelType BY <1>1 DEF Result
      <4> QED BY <4>1 DEF LabelType
    <3> QED BY <1>1, <3>1, <3>2
  <2>8. Sound(q) BY <2>2, <2>5, <2>6, <2>7 DEF Sound
  <2>9. Len(q.funcs_vect) = n + 1 /\ q.funcs_vect[q.func_info].params = <<>>
    BY <1>2, <1>4, <2>0, <2>3
  <2> QED BY <1>4, <2>0, <2>3, <2>4, <2>8, <2>9 DEF StartsRoutine, max, pnt
<1> QED BY <1>5, <1>6

(* What parameters change: variables of one size, one behind the other, and  *)
(* the list of them that the routine keeps.                                  *)
AddsOnly(r, q) ==
  /\ SameBlocks(r, q) /\ q.labels_vect = r.labels_vect /\ q.lost = r.lost
  /\ Len(q.funcs_vect) = Len(r.funcs_vect)
  /\ q.func_info = r.func_info /\ q.subs_body = r.subs_body
  /\ q.heap_pnt_back = r.heap_pnt_back /\ q.heap_memory_max_back = r.heap_memory_max_back
  /\ q.heap_memory_max_funcs = r.heap_memory_max_funcs
(* Parameters are declared, each behind the others.                          *)
Adds(r, q) ==
  LET n == Len(r.vars_vect)
      m == Len(q.vars_vect)
  IN  /\ Sound(q) /\ AddsOnly(r, q)
      /\ m >= n
      /\ \A k \in 1..n : q.vars_vect[k] = r.vars_vect[k]
      /\ \A k \in (n + 1)..m :
           /\ q.vars_vect[k].mem_size = FptBytes
           /\ q.vars_vect[k].in_block = Len(r.block_vect)
           /\ q.vars_vect[k].subs_body = r.subs_body
           /\ q.vars_vect[k].mem_offs = r.heap_pnt + FptBytes * (k - n - 1)
      /\ q.heap_pnt = r.heap_pnt + FptBytes * (m - n)
      /\ q.heap_memory_max = IF m = n THEN r.heap_memory_max
                             ELSE Greatest(r.heap_memory_max, q.heap_pnt)

(* Or none.                                                                  *)
LEMMA AddsNothing == ASSUME NEW r, Sound(r) PROVE Adds(r, r)
<1>1. Len(r.vars_vect) \in Nat /\ r.heap_pnt \in Int BY DEF Sound, Result
<1>2. AddsOnly(r, r) BY DEF AddsOnly, SameBlocks
<1> QED BY <1>1, <1>2 DEF Adds, FptBytes

(* Lengths and registers are numbers.                                        *)
LEMMA NumbersAre ==
  ASSUME NEW r, Sound(r)
  PROVE  /\ Len(r.vars_vect) \in Nat /\ Len(r.block_vect) \in Nat
         /\ Len(r.labels_vect) \in Nat /\ Len(r.funcs_vect) \in Nat
         /\ r.heap_pnt \in Int /\ r.heap_memory_max \in Nat
         /\ r.heap_pnt_back \in Int /\ r.heap_memory_max_back \in Nat
         /\ r.heap_memory_max_funcs \in Nat
BY DEF Sound, Result

(* Parameters and more parameters.                                           *)
LEMMA AddsTrans ==
  ASSUME NEW r, Sound(r), NEW p, NEW q, Adds(r, p), Adds(p, q)
  PROVE  Adds(r, q)
<1> DEFINE n == Len(r.vars_vect)
           l == Len(p.vars_vect)
           m == Len(q.vars_vect)
<1>1. /\ n \in Nat /\ l \in Nat /\ m \in Nat
      /\ r.heap_pnt \in Int /\ p.heap_pnt \in Int /\ q.heap_pnt \in Int
      /\ r.heap_memory_max \in Nat /\ p.heap_memory_max \in Nat
  <2>1. Sound(p) /\ Sound(q) BY DEF Adds
  <2> QED BY <2>1, NumbersAre
<1>2. AddsOnly(r, q) BY DEF Adds, AddsOnly, SameBlocks
<1>3. Len(p.block_vect) = Len(r.block_vect) /\ p.subs_body = r.subs_body
  BY DEF Adds, AddsOnly, SameBlocks
<1>4. m >= l /\ l >= n BY DEF Adds
<1>5. \A k \in 1..n : q.vars_vect[k] = r.vars_vect[k]
  BY <1>1, <1>4 DEF Adds
<1>6. /\ p.heap_pnt = r.heap_pnt + FptBytes * (l - n)
      /\ q.heap_pnt = p.heap_pnt + FptBytes * (m - l)
  BY DEF Adds
<1>7. q.heap_pnt = r.heap_pnt + FptBytes * (m - n)
  <2> HIDE DEF n, l, m
  <2> QED BY <1>1, <1>6 DEF FptBytes
<1>8. \A k \in (n + 1)..m :
        /\ q.vars_vect[k].mem_size = FptBytes
        /\ q.vars_vect[k].in_block = Len(r.block_vect)
        /\ q.vars_vect[k].subs_body = r.subs_body
        /\ q.vars_vect[k].mem_offs = r.heap_pnt + FptBytes * (k - n - 1)
  <2> SUFFICES ASSUME NEW k \in (n + 1)..m
               PROVE  /\ q.vars_vect[k].mem_size = FptBytes
                      /\ q.vars_vect[k].in_block = Len(r.block_vect)
                      /\ q.vars_vect[k].subs_body = r.subs_body
                      /\ q.vars_vect[k].mem_offs = r.heap_pnt + FptBytes * (k - n - 1)
    OBVIOUS
  <2>1. CASE k <= l
    <3>1. k \in 1..l /\ k \in (n + 1)..l BY <2>1, <1>1
    <3>2. q.vars_vect[k] = p.vars_vect[k] BY <3>1 DEF Adds
    <3> QED BY <3>1, <3>2 DEF Adds
  <2>2. CASE ~(k <= l)
    <3>1. k \in (l + 1)..m BY <2>2, <1>1
    <3>2. /\ q.vars_vect[k].mem_size = FptBytes
          /\ q.vars_vect[k].in_block = Len(p.block_vect)
          /\ q.vars_vect[k].subs_body = p.subs_body
          /\ q.vars_vect[k].mem_offs = p.heap_pnt + FptBytes * (k - l - 1)
      BY <3>1 DEF Adds
    <3>3. p.heap_pnt + FptBytes * (k - l - 1) = r.heap_pnt + FptBytes * (k - n - 1)
      <4> HIDE DEF n, l, m
      <4>1. k \in Int BY <1>1
      <4> QED BY <1>1, <1>6, <4>1 DEF FptBytes
    <3> QED BY <1>3, <3>2, <3>3
  <2> QED BY <2>1, <2>2
<1>9. q.heap_memory_max = IF m = n THEN r.heap_memory_max
                          ELSE Greatest(r.heap_memory_max, q.heap_pnt)
  <2>1. /\ p.heap_memory_max = IF l = n THEN r.heap_memory_max
                               ELSE Greatest(r.heap_memory_max, p.heap_pnt)
        /\ q.heap_memory_max = IF m = l THEN p.heap_memory_max
                               ELSE Greatest(p.heap_memory_max, q.heap_pnt)
    BY DEF Adds
  <2> HIDE DEF n, l, m
  <2>2. q.heap_pnt >= p.heap_pnt BY <1>1, <1>4, <1>6 DEF FptBytes
  <2>3. m = l => q.heap_pnt = p.heap_pnt BY <1>1, <1>6 DEF FptBytes
  <2> QED BY <1>1, <1>4, <2>1, <2>2, <2>3 DEF Greatest
<1>10. Sound(q) BY DEF Adds
<1>11. m >= n
  <2> HIDE DEF n, l, m
  <2> QED BY <1>1, <1>4
<1> QED BY <1>2, <1>5, <1>7, <1>8, <1>9, <1>10, <1>11 DEF Adds

(* The last variable becomes a parameter of the routine.                     *)
LEMMA AsParamSound ==
  ASSUME NEW r, Sound(r), r.func_info # NULL
  PROVE  LET q == AsParam(r)
         IN  Sound(q) /\ SameVars(r, q) /\ AddsOnly(r, q)
<1> DEFINE i     == r.func_info
           n     == Len(r.funcs_vect)
           old   == r.funcs_vect
           f     == [old[i] EXCEPT !.params = Append(old[i].params, Len(r.vars_vect))]
           funcs == [old EXCEPT ![i] = f]
           added == [r EXCEPT !.funcs_vect = funcs]
           full  == Len(ParamsOf(r)) + 1 >= FUNC_MAX_PARAMS
           q     == AsParam(r)
<1>1. /\ r \in Result /\ old \in Seq(FuncType) /\ n \in Nat /\ old \in [1..n -> FuncType]
      /\ Len(r.vars_vect) \in Nat /\ i \in 1..n
  BY DEF Sound, Result, RoutineRefs, NULL
<1>2. old[i] \in FuncType /\ old[i].params \in Seq(Nat)
  <2>1. old[i] \in FuncType BY <1>1
  <2> QED BY <2>1 DEF FuncType
<1>3. f \in FuncType
  <2>1. Append(old[i].params, Len(r.vars_vect)) \in Seq(Nat) BY <1>1, <1>2
  <2> QED BY <1>2, <2>1 DEF FuncType
<1>4. q = IF ~Ok(r) THEN r ELSE IF full THEN Error(added, "object_max_number_exceeded") ELSE added
  BY DEF AsParam
<1> SUFFICES Sound(q) /\ SameVars(r, q) /\ AddsOnly(r, q)
  OBVIOUS
<1> HIDE DEF q, f, full
<1>5. funcs \in [1..n -> FuncType] BY <1>1, <1>3
<1> HIDE DEF funcs
<1>6. funcs \in Seq(FuncType) /\ Len(funcs) = n
  <2> HIDE DEF n
  <2> QED BY <1>1, <1>5, SeqFrom
<1>7. added \in Result BY <1>1, <1>6 DEF Result
<1>8. added.funcs_vect = funcs /\ added.obj = r.obj BY <1>1 DEF Result
<1>9. SameVars(r, added) BY <1>1 DEF Result, SameVars
<1>10. /\ SameBlocks(r, added) /\ added.labels_vect = r.labels_vect /\ added.lost = r.lost
       /\ added.func_info = r.func_info /\ added.subs_body = r.subs_body
       /\ added.heap_pnt_back = r.heap_pnt_back
       /\ added.heap_memory_max_back = r.heap_memory_max_back
       /\ added.heap_memory_max_funcs = r.heap_memory_max_funcs
  BY <1>1 DEF Result, SameBlocks
<1> HIDE DEF added
<1>11. AddsOnly(r, added) BY <1>6, <1>8, <1>10 DEF AddsOnly
<1>12. Sound(added)
  <2>1. BlockRefs(added) /\ CodeRefs(added) /\ LabelRefs(added) /\ RoutineRefs(added)
    BY <1>6, <1>8, <1>10 DEF BlockRefs, CodeRefs, LabelRefs, RoutineRefs, Sound, SameBlocks
  <2> QED BY <1>7, <2>1 DEF Sound
<1>13. CASE ~Ok(r)
  BY <1>4, <1>13 DEF SameVars, AddsOnly, SameBlocks
<1>14. CASE Ok(r) /\ ~full
  BY <1>4, <1>9, <1>11, <1>12, <1>14
<1>15. CASE Ok(r) /\ full
  <2>1. "object_max_number_exceeded" \in ParseError BY DEF ParseError
  <2>2. q = Error(added, "object_max_number_exceeded") BY <1>4, <1>15
  <2>3. Marks(added, q, "object_max_number_exceeded") BY <1>12, <2>1, <2>2, ErrorSound
  <2>4. Sound(q) /\ SameVars(added, q) /\ SameRoutine(added, q) /\ SameBlocks(added, q)
        /\ q.labels_vect = added.labels_vect /\ q.lost = added.lost
    BY <2>3 DEF Marks, Emits, Kept
  <2>5. SameVars(r, q) BY <1>9, <2>4 DEF SameVars
  <2>6. AddsOnly(r, q) BY <1>11, <2>4 DEF AddsOnly, SameRoutine, SameBlocks
  <2> QED BY <2>4, <2>5, <2>6
<1> QED BY <1>13, <1>14, <1>15

(* One parameter is declared.                                                *)
LEMMA ParamSound ==
  ASSUME NEW r, Sound(r), r.func_info # NULL \/ ~Ok(r), NEW name \in VarName
  PROVE  Adds(r, Param(r, name))
<1> DEFINE d == DeclareVar(r, name, "vt_generic", -1)
           q == Param(r, name)
<1> SUFFICES Adds(r, q)
  OBVIOUS
<1>1. CASE ~Ok(r)
  BY <1>1, AddsNothing DEF Param
<1>2. CASE Ok(r)
  <2>1. q = AsParam(d) BY <1>2 DEF Param
  <2>2. "vt_generic" \in VarKind /\ -1 \in Int BY DEF VarKind
  <2>3. MemSize("vt_generic", -1) = FptBytes /\ Elements("vt_generic", -1) > 0
    BY DEF MemSize, Elements
  <2>4. \/ Marks(r, d, "object_exist")
        \/ Declares(r, d, "vt_generic", MemSize("vt_generic", -1), Elements("vt_generic", -1) > 0)
    BY <2>2, DeclareVarSound, Zenon
  <2>5. \/ Marks(r, d, "object_exist")
        \/ Declares(r, d, "vt_generic", FptBytes, TRUE)
    BY <2>3, <2>4
  <2> HIDE DEF d, q
  <2>6. Sound(d) /\ SameRoutine(r, d) /\ SameBlocks(r, d)
    BY <2>5 DEF Marks, Emits, Kept, Declares, OnlyVars
  <2>7. d.func_info # NULL BY <1>2, <2>6 DEF SameRoutine
  <2>8. Sound(q) /\ SameVars(d, q) /\ AddsOnly(d, q) BY <2>1, <2>6, <2>7, AsParamSound
  <2>9. d.labels_vect = r.labels_vect /\ d.lost = r.lost
    BY <2>5 DEF Marks, Emits, Declares, OnlyVars
  <2>10. AddsOnly(r, q) BY <2>6, <2>8, <2>9 DEF AddsOnly, SameRoutine, SameBlocks
  <2>11. /\ Len(r.vars_vect) \in Nat /\ r.heap_pnt \in Int BY NumbersAre
  <2>12. CASE Marks(r, d, "object_exist")
    <3>1. /\ q.vars_vect = r.vars_vect /\ q.heap_pnt = r.heap_pnt
          /\ q.heap_memory_max = r.heap_memory_max
      BY <2>8, <2>12 DEF Marks, Emits, Kept, SameVars
    <3>2. r.heap_pnt = r.heap_pnt + FptBytes * (Len(r.vars_vect) - Len(r.vars_vect))
      BY <2>11 DEF FptBytes
    <3> QED BY <2>8, <2>10, <2>11, <3>1, <3>2 DEF Adds, AddsOnly
  <2>13. CASE Declares(r, d, "vt_generic", FptBytes, TRUE)
    <3> DEFINE n == Len(r.vars_vect)
               m == Len(q.vars_vect)
    <3>1. /\ q.vars_vect = d.vars_vect /\ q.heap_pnt = d.heap_pnt
          /\ q.heap_memory_max = d.heap_memory_max
      BY <2>8 DEF SameVars
    <3>2. /\ m = n + 1
          /\ \A k \in 1..n : q.vars_vect[k] = r.vars_vect[k]
          /\ q.vars_vect[n + 1].mem_size = FptBytes
          /\ q.vars_vect[n + 1].in_block = Len(r.block_vect)
          /\ q.vars_vect[n + 1].subs_body = r.subs_body
          /\ q.vars_vect[n + 1].mem_offs = r.heap_pnt
          /\ q.heap_pnt = r.heap_pnt + FptBytes
          /\ q.heap_memory_max = Greatest(r.heap_memory_max, q.heap_pnt)
      BY <2>13, <3>1 DEF Declares
    <3> HIDE DEF n, m
    <3>3. n \in Nat BY <2>11 DEF n
    <3>4. \A k \in (n + 1)..m : k = n + 1 BY <3>2, <3>3
    <3>5. \A k \in (n + 1)..m :
            /\ q.vars_vect[k].mem_size = FptBytes
            /\ q.vars_vect[k].in_block = Len(r.block_vect)
            /\ q.vars_vect[k].subs_body = r.subs_body
            /\ q.vars_vect[k].mem_offs = r.heap_pnt + FptBytes * (k - n - 1)
      <4> SUFFICES ASSUME NEW k \in (n + 1)..m
                   PROVE  /\ q.vars_vect[k].mem_size = FptBytes
                          /\ q.vars_vect[k].in_block = Len(r.block_vect)
                          /\ q.vars_vect[k].subs_body = r.subs_body
                          /\ q.vars_vect[k].mem_offs = r.heap_pnt + FptBytes * (k - n - 1)
        OBVIOUS
      <4>1. k = n + 1 BY <3>4
      <4>2. r.heap_pnt + FptBytes * (k - n - 1) = r.heap_pnt BY <2>11, <3>3, <4>1 DEF FptBytes
      <4> QED BY <3>2, <4>1, <4>2
    <3>6. m >= n /\ m # n /\ q.heap_pnt = r.heap_pnt + FptBytes * (m - n)
      BY <2>11, <3>2, <3>3 DEF FptBytes
    <3> QED BY <2>8, <2>10, <3>2, <3>5, <3>6 DEF Adds, AddsOnly, n, m
  <2> QED BY <2>5, <2>12, <2>13 DEF q
<1> QED BY <1>1, <1>2

(* All of a list are, one after the other.                                   *)
Admits(r, q) == Adds(r, q) /\ (q.func_info # NULL \/ ~Ok(q)) /\ (Ok(q) => Ok(r))
Enlists(g, r, names) ==
  LET n == Len(names)
  IN  /\ g[0] = r /\ g[n] = Params(r, names)
      /\ \A k \in 1..n : g[k] = Param(g[k - 1], names[k])
      /\ \A k \in 0..n : Admits(r, g[k])

(* There is such a row: what Params folds, step by step.                     *)
LEMMA ParamsAre ==
  ASSUME NEW r, Sound(r), r.func_info # NULL \/ ~Ok(r), NEW names \in Seq(VarName)
  PROVE  \E g : Enlists(g, r, names)
<1> DEFINE S == {q \in Result : Adds(r, q) /\ (q.func_info # NULL \/ ~Ok(q)) /\ (Ok(q) => Ok(r))}
           n == Len(names)
           F == [x \in S \X (1..n) |-> Param(x[1], names[x[2]])]
           after == CHOOSE g : g = [k \in 0..n |-> IF k = 0 THEN r ELSE Param(g[k - 1], names[k])]
<1>0. n \in Nat /\ \A k \in 1..n : names[k] \in VarName OBVIOUS
<1>1. r \in S BY AddsNothing DEF Sound
<1>2. ASSUME NEW q \in S, NEW k \in 1..n PROVE Param(q, names[k]) \in S
  <2>1. Adds(r, q) /\ Sound(q) /\ (q.func_info # NULL \/ ~Ok(q)) /\ (Ok(q) => Ok(r)) BY DEF Adds
  <2>2. Adds(q, Param(q, names[k])) BY <1>0, <2>1, ParamSound
  <2>3. Adds(r, Param(q, names[k])) BY <2>1, <2>2, AddsTrans
  <2>4. Param(q, names[k]).func_info # NULL \/ ~Ok(Param(q, names[k]))
    BY <2>1, <2>2 DEF Adds, AddsOnly, Param
  <2>5. Ok(Param(q, names[k])) => Ok(r) BY <2>1 DEF Param
  <2> QED BY <2>3, <2>4, <2>5 DEF Adds, Sound
<1> HIDE DEF S
<1>3. F \in [S \X (1..n) -> S] BY <1>2
<1>4. PICK g \in [0..n -> S] : Follows(g, r, n, F)
  <2> HIDE DEF F, n
  <2> QED BY <1>0, <1>1, <1>3, RecursionExists, Zenon
<1>5. g = [k \in 0..n |-> IF k = 0 THEN r ELSE Param(g[k - 1], names[k])]
  <2> SUFFICES ASSUME NEW k \in 0..n
               PROVE  g[k] = IF k = 0 THEN r ELSE Param(g[k - 1], names[k])
    OBVIOUS
  <2>1. CASE k = 0 BY <2>1, <1>4 DEF Follows
  <2>2. CASE k # 0
    <3>1. k \in 1..n /\ k - 1 \in 0..n BY <2>2
    <3>2. g[k] = F[<<g[k - 1], k>>] BY <3>1, <1>4 DEF Follows
    <3>3. <<g[k - 1], k>> \in S \X (1..n) BY <3>1
    <3> QED BY <2>2, <3>2, <3>3
  <2> QED BY <2>1, <2>2
<1>6. after = [k \in 0..n |-> IF k = 0 THEN r ELSE Param(after[k - 1], names[k])]
  <2> HIDE DEF n
  <2> QED BY <1>5
<1>7. Params(r, names) = after[n] BY Zenon DEF Params
<1> HIDE DEF after
<1>8. after[0] \in S BY <1>1, <1>6
<1>9. \A k \in 1..n : after[k - 1] \in S => after[k] \in S
  <2> SUFFICES ASSUME NEW k \in 1..n, after[k - 1] \in S PROVE after[k] \in S
    OBVIOUS
  <2>1. k \in 0..n /\ k # 0 OBVIOUS
  <2>2. after[k] = Param(after[k - 1], names[k]) BY <2>1, <1>6
  <2> QED BY <2>2, <1>2
<1>10. \A k \in 0..n : after[k] \in S
  <2> HIDE DEF n
  <2> QED BY <1>0, <1>8, <1>9, UpTo
<1>11. after[0] = r /\ \A k \in 1..n : after[k] = Param(after[k - 1], names[k])
  <2> HIDE DEF n
  <2> QED BY <1>0, <1>6
<1> QED BY <1>7, <1>10, <1>11 DEF S, Enlists, Admits

(* So the parameters of a routine add variables, and it stays open.          *)
LEMMA ParamsSound ==
  ASSUME NEW r, Sound(r), r.func_info # NULL \/ ~Ok(r), NEW names \in Seq(VarName)
  PROVE  LET q == Params(r, names)
         IN  Adds(r, q) /\ (q.func_info # NULL \/ ~Ok(q)) /\ (Ok(q) => Ok(r))
<1>1. PICK g : Enlists(g, r, names) BY ParamsAre
<1> QED BY <1>1 DEF Enlists, Admits

(* A routine takes its parameters from the stack, one after the other.       *)
Takes(g, r, params) ==
  LET n == Len(params)
  IN  /\ g[0] = r /\ g[n] = Taken(r, params)
      /\ \A k \in 1..n : /\ g[k] = VmOp_PopVar(g[k - 1], params[n + 1 - k], FALSE)
                         /\ params[n + 1 - k] \in 1..Len(r.vars_vect)
      /\ \A k \in 0..n : Emits(r, g[k])

(* There is such a row: what Taken folds, step by step.                      *)
LEMMA TakenAre ==
  ASSUME NEW r, Sound(r), NEW params \in Seq(Nat), Range(params) \subseteq 1..Len(r.vars_vect)
  PROVE  \E g : Takes(g, r, params)
<1> DEFINE S == {q \in Result : Emits(r, q)}
           n == Len(params)
           var(k) == params[n + 1 - k]
           F == [x \in S \X (1..n) |-> VmOp_PopVar(x[1], var(x[2]), FALSE)]
           after == CHOOSE g : g = [k \in 0..n |-> IF k = 0 THEN r
                                                   ELSE VmOp_PopVar(g[k - 1], var(k), FALSE)]
<1>0. n \in Nat OBVIOUS
<1>1. \A k \in 1..n : var(k) \in 1..Len(r.vars_vect)
  <2> SUFFICES ASSUME NEW k \in 1..n PROVE params[n + 1 - k] \in 1..Len(r.vars_vect)
    OBVIOUS
  <2>1. n + 1 - k \in 1..n BY <1>0
  <2>2. params[n + 1 - k] \in Range(params) BY <2>1 DEF Range
  <2> QED BY <2>2
<1>2. r \in S BY EmitsNothing DEF Sound
<1>3. ASSUME NEW q \in S, NEW k \in 1..n PROVE VmOp_PopVar(q, var(k), FALSE) \in S
  <2>1. Emits(r, q) /\ Sound(q) BY DEF Emits
  <2>2. var(k) \in 1..Len(q.vars_vect) BY <1>1, <2>1 DEF Emits, Kept, SameVars
  <2>3. FALSE \in BOOLEAN OBVIOUS
  <2> HIDE DEF var
  <2>4. Appends(q, VmOp_PopVar(q, var(k), FALSE)) BY <2>1, <2>2, <2>3, PopVarSound, Zenon
  <2>5. Emits(r, VmOp_PopVar(q, var(k), FALSE)) BY <2>1, <2>4, EmitsTrans DEF Appends
  <2> QED BY <2>5 DEF Emits, Sound
<1> HIDE DEF S, var
<1>4. F \in [S \X (1..n) -> S] BY <1>3
<1>5. PICK g \in [0..n -> S] : Follows(g, r, n, F)
  <2> HIDE DEF F, n
  <2> QED BY <1>0, <1>2, <1>4, RecursionExists, Zenon
<1>6. g = [k \in 0..n |-> IF k = 0 THEN r ELSE VmOp_PopVar(g[k - 1], var(k), FALSE)]
  <2> SUFFICES ASSUME NEW k \in 0..n
               PROVE  g[k] = IF k = 0 THEN r ELSE VmOp_PopVar(g[k - 1], var(k), FALSE)
    OBVIOUS
  <2>1. CASE k = 0 BY <2>1, <1>5 DEF Follows
  <2>2. CASE k # 0
    <3>1. k \in 1..n /\ k - 1 \in 0..n BY <2>2
    <3>2. g[k] = F[<<g[k - 1], k>>] BY <3>1, <1>5 DEF Follows
    <3>3. <<g[k - 1], k>> \in S \X (1..n) BY <3>1
    <3> QED BY <2>2, <3>2, <3>3
  <2> QED BY <2>1, <2>2
<1>7. after = [k \in 0..n |-> IF k = 0 THEN r ELSE VmOp_PopVar(after[k - 1], var(k), FALSE)]
  <2> HIDE DEF n
  <2> QED BY <1>6
<1>8. Taken(r, params) = after[n] BY Zenon DEF Taken, var
<1> HIDE DEF after
<1>9. after[0] \in S BY <1>2, <1>7
<1>10. \A k \in 1..n : after[k - 1] \in S => after[k] \in S
  <2> SUFFICES ASSUME NEW k \in 1..n, after[k - 1] \in S PROVE after[k] \in S
    OBVIOUS
  <2>1. k \in 0..n /\ k # 0 OBVIOUS
  <2>2. after[k] = VmOp_PopVar(after[k - 1], var(k), FALSE) BY <2>1, <1>7
  <2> QED BY <2>2, <1>3
<1>11. \A k \in 0..n : after[k] \in S
  <2> HIDE DEF n
  <2> QED BY <1>0, <1>9, <1>10, UpTo
<1>12. after[0] = r BY <1>0, <1>7
<1>13. ASSUME NEW k \in 1..n PROVE after[k] = VmOp_PopVar(after[k - 1], var(k), FALSE)
  <2>1. k \in 0..n /\ k # 0 OBVIOUS
  <2> QED BY <2>1, <1>7
<1> QED BY <1>1, <1>8, <1>11, <1>12, <1>13 DEF S, var, Takes

(* So taking the arguments emits code, and nothing else changes.             *)
LEMMA TakenSound ==
  ASSUME NEW r, Sound(r), NEW params \in Seq(Nat), Range(params) \subseteq 1..Len(r.vars_vect)
  PROVE  Emits(r, Taken(r, params))
<1>1. PICK g : Takes(g, r, params) BY TakenAre
<1> QED BY <1>1 DEF Takes

(* A routine's body: inside a routine the brace opens one block more.        *)
LEMMA BodySound ==
  ASSUME NEW r, Sound(r), NEW outside \in BOOLEAN, r.func_info # NULL \/ ~Ok(r),
         Ok(r) => Range(ParamsOf(r)) \subseteq DOMAIN r.vars_vect
  PROVE  LET q == BeginBody(r, outside)
         IN  /\ Keeps(r, q)
             /\ ~Ok(r) => q = r
             /\ Ok(r) => \E s : Emits(r, s) /\ Begins(s, q, "PROC", outside, "number")
<1> DEFINE params == ParamsOf(r)
           s == Taken(r, params)
           b == begin_block(s, "PROC", outside, "number")
           q == BeginBody(r, outside)
<1>1. q = IF Ok(r) THEN b ELSE r BY DEF BeginBody
<1> SUFFICES /\ Keeps(r, q)
             /\ ~Ok(r) => q = r
             /\ Ok(r) => \E p : Emits(r, p) /\ Begins(p, q, "PROC", outside, "number")
  OBVIOUS
<1>2. CASE ~Ok(r) BY <1>1, <1>2, KeepsNothing
<1>3. CASE Ok(r)
  <2>1. r.func_info \in 1..Len(r.funcs_vect)
    <3>1. r.func_info \in Nat /\ r.func_info <= Len(r.funcs_vect) /\ Len(r.funcs_vect) \in Nat
      BY DEF Sound, Result, RoutineRefs
    <3> QED BY <1>3, <3>1 DEF NULL
  <2>2. params \in Seq(Nat) BY <2>1, FuncIs DEF ParamsOf
  <2>3. DOMAIN r.vars_vect = 1..Len(r.vars_vect)
    <3>1. r.vars_vect \in Seq(VarType) BY DEF Sound, Result
    <3> QED BY <3>1
  <2>4. Range(params) \subseteq 1..Len(r.vars_vect) BY <1>3, <2>3
  <2> HIDE DEF params
  <2>5. Emits(r, s) BY <2>2, <2>4, TakenSound
  <2> HIDE DEF s
  <2>6. Sound(s) BY <2>5 DEF Emits
  <2>7. "PROC" \notin {"IF", "WHILE"} OBVIOUS
  <2>8. Begins(s, b, "PROC", outside, "number") /\ Keeps(s, b)
    BY <2>6, <2>7, BeginSound, Zenon
  <2>9. Keeps(r, b) BY <2>5, <2>8, EmitsKeeps, KeepsTrans
  <2> QED BY <1>1, <1>3, <2>5, <2>8, <2>9
<1> QED BY <1>2, <1>3

(* RETURN puts code.                                                         *)
LEMMA ReturnedSound ==
  ASSUME NEW r, Sound(r) PROVE Emits(r, Returned(r))
<1> DEFINE ret == code_op(r, "RETVAL", FALSE, 0, 0)
<1>1. Emits(r, ret)
  <2>1. "RETVAL" \in Op /\ FALSE \in BOOLEAN /\ 0 \in Int BY DEF Op, PlainOps
  <2>2. Appends(r, ret) BY <2>1, CodeOpSound, Zenon
  <2> QED BY <2>2 DEF Appends
<1> QED BY <1>1, EmitsNothing, SyntaxError DEF Returned

(* The value of a call is dropped.                                           *)
LEMMA DropResultSound ==
  ASSUME NEW r, Sound(r) PROVE Emits(r, DropResult(r))
<1> DEFINE drop == code_op(r, "POP_TO_NOWHERE", FALSE, 0, 0)
<1>1. Emits(r, drop)
  <2>1. "POP_TO_NOWHERE" \in Op /\ FALSE \in BOOLEAN /\ 0 \in Int BY DEF Op, PlainOps
  <2>2. Appends(r, drop) BY <2>1, CodeOpSound, Zenon
  <2> QED BY <2>2 DEF Appends
<1> QED BY <1>1, EmitsNothing DEF DropResult

(* What follows a brace keeps variables and routine.                         *)
LEMMA BehindSound ==
  ASSUME NEW r, Sound(r), NEW behind, NEW e, NEW junk \in BOOLEAN,
         behind = "else_if" => e \in Expressions
  PROVE  Keeps(r, BehindBrace(r, behind, e, junk))
<1> DEFINE alt   == Ok(r) /\ behind = "else"
           altIf == Ok(r) /\ behind = "else_if"
           s     == IF_command(r, junk)
           b     == begin_block(r, "ELSE", FALSE, "number")
           i     == IF_rest(s, e)
           q     == BehindBrace(r, behind, e, junk)
<1>1. q = CASE alt -> b [] altIf -> i [] OTHER -> r
  BY DEF BehindBrace
<1>2. ~(alt /\ altIf) OBVIOUS
<1>3. Keeps(r, b)
  <2>1. FALSE \in BOOLEAN /\ ~FALSE OBVIOUS
  <2> QED BY <2>1, BeginSound, Zenon
<1>4. altIf => Keeps(r, i)
  <2>1. Keeps(r, s) /\ Sound(s) BY IfSound DEF Keeps
  <2> HIDE DEF s
  <2>2. altIf => Keeps(s, i) BY <2>1, IfRestSound
  <2> QED BY <2>1, <2>2, KeepsTrans
<1> SUFFICES Keeps(r, q)
  OBVIOUS
<1> HIDE DEF q, alt, altIf, b, i
<1> QED BY <1>1, <1>2, <1>3, <1>4, KeepsNothing
=============================================================================
