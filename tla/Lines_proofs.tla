---------------------------- MODULE Lines_proofs ----------------------------
(***************************************************************************)
(* What each line of a source does to the compiler: the references stay    *)
(* sound, and the stack of blocks and the variables of each block change   *)
(* as the line says.                                                       *)
(***************************************************************************)
EXTENDS Statements_proofs

(* The empty sequence is one of anything.                                    *)
LEMMA EmptyIsSeq == ASSUME NEW S PROVE <<>> \in Seq(S)
OBVIOUS

(* A sequence of one element.                                                *)
LEMMA OneSeq == ASSUME NEW S, NEW x \in S PROVE <<x>> \in Seq(S)
OBVIOUS

(* The next line, before its statement.                                      *)
NextLine(r, q) ==
  /\ Keeps(r, q) /\ SameLabels(r, q)
  /\ q.block_vect = r.block_vect /\ q.block_id = r.block_id
  /\ q.lost = r.lost /\ q.pe = "no_error"

(* The next line is counted.                                                 *)
LEMMA CountedSound == ASSUME Sound(result) PROVE NextLine(result, Counted)
<1>1. "no_error" \in ParseError BY DEF ParseError
<1> DEFINE c == [result EXCEPT !.line_num = result.line_num + 1]
<1>2. result \in Result /\ Counted \in Result
  <2>1. result \in Result BY DEF Sound
  <2>2. result.line_num + 1 \in Nat BY <2>1 DEF Result
  <2>3. c \in Result BY <2>1, <2>2 DEF Result
  <2>4. [c EXCEPT !.pe = "no_error"] \in Result
    <3> HIDE DEF c
    <3> QED BY <1>1, <2>3 DEF Result
  <2>5. Counted = [c EXCEPT !.pe = "no_error"] BY <2>1 DEF Counted, Result
  <2> QED BY <2>1, <2>4, <2>5
<1>3. /\ Counted.pe = "no_error" /\ Counted.lost = result.lost
      /\ Counted.block_vect = result.block_vect /\ Counted.block_id = result.block_id
      /\ Counted.labels_vect = result.labels_vect /\ Counted.obj = result.obj
      /\ Counted.funcs_vect = result.funcs_vect /\ Counted.func_info = result.func_info
      /\ Counted.subs_body = result.subs_body
  BY <1>2 DEF Counted, Result
<1>4. SameVars(result, Counted) /\ SameRoutine(result, Counted) /\ SameLabels(result, Counted)
  BY <1>2 DEF Counted, Result, SameVars, SameRoutine, SameLabels
<1>5. Sound(Counted)
  BY <1>2, <1>3 DEF Sound, BlockRefs, LabelRefs, CodeRefs, RoutineRefs
<1> QED BY <1>3, <1>4, <1>5 DEF NextLine, Keeps

(* And its number put for the debugger.                                      *)
LEMMA LineSound == ASSUME Sound(result) PROVE NextLine(result, Line)
<1>1. NextLine(result, Counted) BY CountedSound
<1>2. Sound(Counted) BY <1>1 DEF NextLine, Keeps
<1>3. Counted.line_num \in Int BY <1>2 DEF Sound, Result
<1> HIDE DEF Counted
<1>4. Appends(Counted, Line)
  <2>1. "DBG" \in Op /\ FALSE \in BOOLEAN /\ 0 \in Int BY DEF Op, WordOps
  <2>2. Line = code_op(Counted, "DBG", FALSE, Counted.line_num, 0) BY DEF Line, VmOp_DebugNewLine
  <2>3. Appends(Counted, code_op(Counted, "DBG", FALSE, Counted.line_num, 0))
    BY <1>2, <1>3, <2>1, CodeOpSound, Zenon
  <2> QED BY <2>2, <2>3
<1>5. Emits(Counted, Line) /\ Line.pe = Counted.pe BY <1>4 DEF Appends
<1>6. Keeps(result, Line) BY <1>1, <1>5, EmitsKeeps, KeepsTrans DEF NextLine
<1> QED BY <1>1, <1>5, <1>6 DEF NextLine, Emits, Kept, SameBlocks, SameLabels

(* A line that opens or closes no block, and neither begins nor ends a       *)
(* routine: the labels of the blocks stay as they are.                       *)
Stays(r, q) ==
  /\ Sound(q) /\ SameRoutine(r, q)
  /\ q.block_vect = r.block_vect /\ q.block_id = r.block_id
  /\ Len(q.labels_vect) >= Len(r.labels_vect)
  /\ \A i \in 1..Len(r.labels_vect) :
       r.labels_vect[i].name = AutoName =>
         /\ q.labels_vect[i].name = AutoName
         /\ q.labels_vect[i].code_offs = r.labels_vect[i].code_offs
         /\ q.labels_vect[i].func_info = r.labels_vect[i].func_info
(* It declares nothing either.                                               *)
Steady(r, q) == Stays(r, q) /\ SameVars(r, q)

(* Blocks and routine stay in two steps if they do in each.                  *)
LEMMA StaysTrans ==
  ASSUME NEW r, Sound(r), NEW p, NEW q, Stays(r, p), Stays(p, q) PROVE Stays(r, q)
<1>1. SameRoutine(r, q) BY DEF Stays, SameRoutine
<1>2. Len(r.labels_vect) \in Nat /\ Len(p.labels_vect) \in Nat /\ Len(q.labels_vect) \in Nat
  BY NumbersAre DEF Stays
<1>3. 1..Len(r.labels_vect) \subseteq 1..Len(p.labels_vect)
  BY <1>2 DEF Stays
<1> QED BY <1>1, <1>2, <1>3 DEF Stays

(* And so for variables and labels.                                          *)
LEMMA SteadyTrans ==
  ASSUME NEW r, Sound(r), NEW p, NEW q, Steady(r, p), Steady(p, q) PROVE Steady(r, q)
BY StaysTrans DEF Steady, SameVars

(* The next line changes none of them.                                       *)
LEMMA NextSteady == ASSUME NEW r, NEW q, Sound(r), NextLine(r, q) PROVE Steady(r, q)
<1>1. Len(r.labels_vect) \in Nat /\ Len(q.labels_vect) \in Nat
  BY NumbersAre DEF NextLine, Keeps
<1> QED BY <1>1 DEF NextLine, Steady, Stays, SameLabels, Keeps

(* What keeps all keeps these.                                               *)
LEMMA KeptSteady ==
  ASSUME NEW r, NEW q, Sound(r), Sound(q), Kept(r, q) PROVE Steady(r, q)
<1>1. Len(r.labels_vect) \in Nat /\ Len(q.labels_vect) \in Nat
  BY NumbersAre
<1> QED BY <1>1 DEF Kept, Steady, Stays, SameLabels, SameBlocks

(* Code keeps them.                                                          *)
LEMMA EmitsSteady == ASSUME NEW r, NEW q, Sound(r), Emits(r, q) PROVE Steady(r, q)
BY KeptSteady DEF Emits

(* A line that only puts code keeps them.                                    *)
LEMMA LineEmits ==
  ASSUME Sound(result), NEW q, Emits(Line, q) PROVE Steady(result, q)
<1>1. NextLine(result, Line) /\ Sound(Line) BY LineSound DEF NextLine, Keeps
<1> HIDE DEF Line
<1>2. Steady(result, Line) /\ Steady(Line, q) BY <1>1, NextSteady, EmitsSteady
<1> QED BY <1>2, SteadyTrans

-----------------------------------------------------------------------------
(* The lines.                                                                *)

(* The line of a label.                                                      *)
LEMMA LabelLine ==
  ASSUME Sound(result), NEW name \in LabelNames
  PROVE  Steady(result, Error(RegisterLabel(Counted, name, TRUE), "no_error"))
<1>1. NextLine(result, Counted) /\ Sound(Counted) BY CountedSound DEF NextLine, Keeps
<1> HIDE DEF Counted
<1> DEFINE s == RegisterLabel(Counted, name, TRUE)
           q == Error(s, "no_error")
<1>2. Registers(Counted, s)
  <2>1. TRUE \in BOOLEAN OBVIOUS
  <2> QED BY <1>1, <2>1, RegisterLabelSound, Zenon
<1> HIDE DEF s
<1>3. Sound(s) BY <1>2 DEF Registers
<1>4. Steady(Counted, s)
  BY <1>1, <1>2 DEF Registers, Steady, Stays, SameBlocks
<1>5. Emits(s, q)
  <2>1. "no_error" \in ParseError BY DEF ParseError
  <2>2. Marks(s, q, "no_error") BY <1>3, <2>1, ErrorSound, Zenon
  <2> QED BY <2>2 DEF Marks
<1> SUFFICES Steady(result, q)
  BY DEF q, s
<1> HIDE DEF q
<1> QED BY <1>1, <1>3, <1>4, <1>5, NextSteady, EmitsSteady, SteadyTrans

(* The line of an assignment.                                                *)
LEMMA AssignLine ==
  ASSUME Sound(result), NEW name \in VarNames, NEW e \in Expressions
  PROVE  LET i      == Named(result.vars_vect, name)
             object == IsArray(result.vars_vect[i])
         IN  Steady(result, IF i = NULL THEN Error(Line, "object_unknown")
                            ELSE Assigned(Line, i, e, FALSE, object,
                                          IF object THEN any_array ELSE any_expr))
<1> DEFINE i == Named(result.vars_vect, name)
           object == IsArray(result.vars_vect[i])
           flags == IF object THEN any_array ELSE any_expr
           a == Assigned(Line, i, e, FALSE, object, flags)
           q == IF i = NULL THEN Error(Line, "object_unknown") ELSE a
<1>1. NextLine(result, Line) /\ Sound(Line) BY LineSound DEF NextLine, Keeps
<1> HIDE DEF Line
<1>2. i # NULL => i \in 1..Len(Line.vars_vect)
  <2>1. result.vars_vect \in Seq(VarType) BY DEF Sound, Result
  <2>2. i \in 0..Len(result.vars_vect) /\ Len(result.vars_vect) \in Nat BY <2>1, NamedIs
  <2>3. Line.vars_vect = result.vars_vect BY <1>1 DEF NextLine, Keeps, SameVars
  <2> QED BY <2>2, <2>3 DEF NULL
<1>3. i # NULL => Emits(Line, a)
  <2> HIDE DEF i, flags
  <2>1. object \in BOOLEAN BY DEF IsArray
  <2> HIDE DEF object
  <2> QED BY <1>1, <1>2, <2>1, AssignedSound
<1>4. Emits(Line, Error(Line, "object_unknown"))
  <2>1. "object_unknown" \in ParseError BY DEF ParseError
  <2>2. Marks(Line, Error(Line, "object_unknown"), "object_unknown") BY <1>1, <2>1, ErrorSound, Zenon
  <2> QED BY <2>2 DEF Marks
<1> SUFFICES Steady(result, q)
  OBVIOUS
<1>5. Emits(Line, q) BY <1>3, <1>4
<1> HIDE DEF q
<1> QED BY <1>5, LineEmits

(* The line of BREAK.                                                        *)
LEMMA BreakLine ==
  ASSUME Sound(result)
  PROVE  LET loops == {i \in DOMAIN result.block_vect : result.block_vect[i].block_type = "bt_loop"}
         IN  Steady(result, IF loops = {} THEN Line
                            ELSE JmpTo(Line, Line.block_vect[Max(loops)].label_end, FALSE))
<1> DEFINE loops == {i \in DOMAIN result.block_vect : result.block_vect[i].block_type = "bt_loop"}
           p == Line.block_vect[Max(loops)].label_end
           j == JmpTo(Line, p, FALSE)
           q == IF loops = {} THEN Line ELSE j
<1>1. NextLine(result, Line) /\ Sound(Line) BY LineSound DEF NextLine, Keeps
<1> HIDE DEF Line
<1>2. result.block_vect \in Seq(BlockType) /\ Len(result.block_vect) \in Nat
  BY DEF Sound, Result
<1>3. loops # {} => Max(loops) \in 1..Len(result.block_vect)
  <2> SUFFICES ASSUME loops # {} PROVE Max(loops) \in 1..Len(result.block_vect)
    OBVIOUS
  <2>1. loops \subseteq 1..Len(result.block_vect) BY <1>2
  <2>3. 1..Len(result.block_vect) \subseteq 0..Len(result.block_vect) BY <1>2
  <2>4. loops \subseteq 0..Len(result.block_vect) BY <2>1, <2>3
  <2> HIDE DEF loops
  <2>2. Max(loops) \in loops BY <1>2, <2>4, MaxIs
  <2> QED BY <2>1, <2>2
<1>4. loops # {} => Leaps(Line, j, p)
  <2> SUFFICES ASSUME loops # {} PROVE Leaps(Line, j, p)
    OBVIOUS
  <2>1. Max(loops) \in 1..Len(Line.block_vect) BY <1>1, <1>3 DEF NextLine
  <2> HIDE DEF loops
  <2>2. p \in Pointer BY <1>1, <2>1, BlockIs
  <2> HIDE DEF p
  <2>3. FALSE \in BOOLEAN OBVIOUS
  <2> QED BY <1>1, <2>2, <2>3, JmpToSound, Zenon
<1> SUFFICES Steady(result, q)
  OBVIOUS
<1>5. Steady(result, Line) BY <1>1, NextSteady
<1>6. loops # {} => Steady(Line, j)
  <2> HIDE DEF j, loops, p
  <2> QED BY <1>1, <1>4, KeptSteady DEF Leaps
<1> HIDE DEF j, p, loops
<1> QED BY <1>5, <1>6, SteadyTrans

(* The line of GOTO.                                                         *)
LEMMA GotoLine ==
  ASSUME Sound(result), NEW name \in LabelNames
  PROVE  LET known == RegisterLabel(Line, name, FALSE)
         IN  Steady(result, VmOp_Jmp(known, Named(known.labels_vect, name), FALSE))
<1> DEFINE s == RegisterLabel(Line, name, FALSE)
           i == Named(s.labels_vect, name)
           q == VmOp_Jmp(s, i, FALSE)
<1>1. NextLine(result, Line) /\ Sound(Line) BY LineSound DEF NextLine, Keeps
<1> HIDE DEF Line
<1>0. FALSE \in BOOLEAN OBVIOUS
<1>2. Registers(Line, s) BY <1>0, <1>1, RegisterLabelSound, Zenon
<1> HIDE DEF s
<1>3. Sound(s) BY <1>2 DEF Registers
<1>4. Steady(Line, s)
  BY <1>1, <1>2 DEF Registers, Steady, Stays, SameBlocks
<1>5. i \in Nat
  <2>1. s.labels_vect \in Seq(LabelType) BY <1>3 DEF Sound, Result
  <2>2. i \in 0..Len(s.labels_vect) /\ Len(s.labels_vect) \in Nat BY <2>1, NamedIs
  <2> QED BY <2>2
<1> HIDE DEF i
<1>6. Jumped(s, q) BY <1>0, <1>3, <1>5, JmpSound, Zenon
<1> SUFFICES Steady(result, q)
  BY DEF q, i, s
<1> HIDE DEF q
<1> QED BY <1>1, <1>3, <1>4, <1>6, NextSteady, EmitsSteady, SteadyTrans DEF Jumped

(* The line of RETURN.                                                       *)
LEMMA ReturnLine ==
  ASSUME Sound(result), NEW e \in Expressions
  PROVE  Steady(result, Returned(IF result.func_info = NULL THEN Evaluate(Line, e) ELSE Evaluated(Line, e)))
<1>1. NextLine(result, Line) /\ Sound(Line) BY LineSound DEF NextLine, Keeps
<1> HIDE DEF Line
<1> DEFINE s == IF result.func_info = NULL THEN Evaluate(Line, e) ELSE Evaluated(Line, e)
           q == Returned(s)
<1>2. Emits(Line, s) BY <1>1, EvaluateSound, EvaluatedSound
<1> HIDE DEF s
<1>3. Emits(s, q) BY <1>2, ReturnedSound DEF Emits
<1> SUFFICES Steady(result, q)
  BY DEF q, s
<1> HIDE DEF q
<1> QED BY <1>2, <1>3, EmitsTrans, LineEmits

(* The line of a call.                                                       *)
LEMMA CallLine ==
  ASSUME Sound(result), NEW name, NEW args \in ArgLists
  PROVE  Steady(result, DropResult(CallSub(Line, name, args)))
<1>1. NextLine(result, Line) /\ Sound(Line) BY LineSound DEF NextLine, Keeps
<1> HIDE DEF Line
<1> DEFINE S == {"number"} \cup VarNames
           s == CallSub(Line, name, args)
           q == DropResult(s)
<1>2. args \in Seq(S)
  <2>1. <<>> \in Seq(S) /\ \A x \in S : <<x>> \in Seq(S) BY EmptyIsSeq, OneSeq, Zenon
  <2> QED BY <2>1 DEF ArgLists
<1>3. Emits(Line, s)
  <2> HIDE DEF S
  <2> QED BY <1>1, <1>2, CallSubSound
<1> HIDE DEF s
<1>4. Emits(s, q) BY <1>3, DropResultSound DEF Emits
<1> SUFFICES Steady(result, q)
  BY DEF q, s
<1> HIDE DEF q
<1> QED BY <1>3, <1>4, EmitsTrans, LineEmits

(* The line of PRINT.                                                        *)
LEMMA PrintLine ==
  ASSUME Sound(result), NEW parts \in PrintLists
  PROVE  Steady(result, VmOp_Spc_Cmds(Parts([r |-> Line, params_cnt |-> 0, value |-> 0], parts)))
<1>1. NextLine(result, Line) /\ Sound(Line) BY LineSound DEF NextLine, Keeps
<1> HIDE DEF Line
<1> DEFINE p == [r |-> Line, params_cnt |-> 0, value |-> 0]
           s == Parts(p, parts)
           q == VmOp_Spc_Cmds(s)
<1>2. parts \in Seq(Expressions)
  <2>1. PICK n \in PrintCounts : parts \in [1..n -> Expressions] BY DEF PrintLists
  <2>2. n \in Nat BY BlocksAssumption
  <2> QED BY <2>1, <2>2, SeqFrom
<1>3. p \in PartOf(Line)
  <2>1. Emits(Line, Line) /\ Line \in Result BY <1>1, EmitsNothing DEF Sound
  <2> QED BY <2>1 DEF PartOf
<1> HIDE DEF p
<1>4. s \in PartOf(Line) BY <1>2, <1>3, PartsSound
<1> HIDE DEF s
<1>5. Emits(Line, q) BY <1>4, PrintSound
<1> SUFFICES Steady(result, q)
  BY DEF q, s, p
<1> HIDE DEF q
<1> QED BY <1>5, LineEmits

(* The line of BRKPNT.                                                       *)
LEMMA BrkpntLine == ASSUME Sound(result) PROVE Steady(result, VmOp_BreakPoint(Line))
<1>1. NextLine(result, Line) /\ Sound(Line) BY LineSound DEF NextLine, Keeps
<1> HIDE DEF Line
<1>2. Line.line_num \in Int BY <1>1 DEF Sound, Result
<1>3. "BREAK" \in Op /\ FALSE \in BOOLEAN /\ 0 \in Int BY DEF Op, WordOps
<1>4. Appends(Line, code_op(Line, "BREAK", FALSE, Line.line_num, 0))
  BY <1>1, <1>2, <1>3, CodeOpSound, Zenon
<1> QED BY <1>4, LineEmits DEF Appends, VmOp_BreakPoint

(* The line of STOP.                                                         *)
LEMMA StopLine == ASSUME Sound(result) PROVE Steady(result, Error(Line, "stop"))
<1>1. Sound(Line) BY LineSound DEF NextLine, Keeps
<1>2. "stop" \in ParseError BY DEF ParseError
<1>3. Marks(Line, Error(Line, "stop"), "stop") BY <1>1, <1>2, ErrorSound, Zenon
<1> QED BY <1>3, LineEmits DEF Marks

-----------------------------------------------------------------------------
(* Declarations.                                                             *)

(* One variable more, in the innermost block, its place behind the others.   *)
Gains(r, q, size) ==
  LET n == Len(r.vars_vect)
  IN  /\ Len(q.vars_vect) = n + 1
      /\ \A k \in 1..n : q.vars_vect[k] = r.vars_vect[k]
      /\ q.vars_vect[n + 1].mem_size = size
      /\ q.vars_vect[n + 1].mem_offs = r.heap_pnt
      /\ q.vars_vect[n + 1].in_block = Len(r.block_vect)
      /\ q.vars_vect[n + 1].subs_body = r.subs_body
      /\ q.heap_pnt = r.heap_pnt + size
      /\ q.heap_memory_max = Greatest(r.heap_memory_max, q.heap_pnt)

(* What a declaration says.                                                  *)
LEMMA DeclarationIs ==
  ASSUME NEW d \in Declarations
  PROVE  /\ d.type \in VarKind /\ d.array_size \in Int
         /\ d.array_size # 0 /\ Bytes(d) > 0 => Elements(d.type, d.array_size) > 0
         /\ d.array_size # 0 => Bytes(d) = MemSize(d.type, d.array_size)
         /\ d.array_size = 0 => /\ Bytes(d) = MemSize(d.type, ArrayLen)
                                /\ Elements(d.type, d.array_size) = 0
<1>1. ArrayLen \in 1..255 BY BlocksAssumption
<1>2. \/ d.type = "vt_generic" /\ d.array_size = -1
      \/ d.type = "vt_array_of_byte" /\ d.array_size \in {-1, 0, ArrayLen}
      \/ d.type = "vt_array_of_generic" /\ d.array_size \in {0, ArrayLen}
  BY BlocksAssumption
<1> QED BY <1>1, <1>2 DEF VarKind, Bytes, MemSize, Elements

(* A change of variables keeps blocks and routine.                           *)
LEMMA OnlyVarsStays ==
  ASSUME NEW r, Sound(r), NEW q, Sound(q), OnlyVars(r, q) PROVE Stays(r, q)
<1>1. Len(r.labels_vect) \in Nat BY NumbersAre
<1> QED BY <1>1 DEF OnlyVars, Stays, SameBlocks

(* So does a size that is found.                                             *)
LEMMA FixesStays ==
  ASSUME NEW r, Sound(r), NEW q, NEW size, Fixes(r, q, size) PROVE Stays(r, q)
<1>1. Len(r.labels_vect) \in Nat /\ Len(q.labels_vect) \in Nat
  BY NumbersAre DEF Fixes
<1> QED BY <1>1 DEF Fixes, Stays, SameBlocks, SameLabels

(* And code.                                                                 *)
LEMMA EmitsStays == ASSUME NEW r, Sound(r), NEW q, Emits(r, q) PROVE Stays(r, q)
BY EmitsSteady DEF Steady

(* A declaration that is accepted, and whose size is given by it or by the   *)
(* array on its right side, has its place.                                   *)
LEMMA DeclareLine ==
  ASSUME Sound(result), NEW name \in VarNames, NEW d \in Declarations,
         NEW e \in Expressions \cup {"none"}
  PROVE  LET auto   == d.array_size = 0
             flags  == {"inline_array"} \cup (IF d.type = "vt_array_of_byte" THEN {} ELSE any_expr)
             object == auto \/ (d.array_size < 0 /\ d.type = "vt_array_of_byte")
             q == IF auto /\ e = "none" THEN Error(Line, "array_index_invalid")
                  ELSE WithValue(DeclareVar(Line, name, d.type, d.array_size), e, auto, object, flags)
         IN  /\ Stays(result, q)
             /\ Ok(q) /\ Bytes(d) > 0 /\ (auto => e \in Arrays) => Gains(result, q, Bytes(d))
<1> DEFINE auto   == d.array_size = 0
           flags  == {"inline_array"} \cup (IF d.type = "vt_array_of_byte" THEN {} ELSE any_expr)
           object == auto \/ (d.array_size < 0 /\ d.type = "vt_array_of_byte")
           s == DeclareVar(Line, name, d.type, d.array_size)
           w == WithValue(s, e, auto, object, flags)
           m == Error(Line, "array_index_invalid")
           q == IF auto /\ e = "none" THEN m ELSE w
           given == Bytes(d) > 0 /\ (auto => e \in Arrays)
<1> SUFFICES Stays(result, q) /\ (Ok(q) /\ given => Gains(result, q, Bytes(d)))
  OBVIOUS
<1>1. NextLine(result, Line) /\ Sound(Line) BY LineSound DEF NextLine, Keeps
<1> HIDE DEF Line
<1>2. Stays(result, Line) /\ SameVars(result, Line) /\ Line.subs_body = result.subs_body
      /\ Line.block_vect = result.block_vect
  BY <1>1, NextSteady DEF Steady, Stays, SameRoutine
<1>3. d.type \in VarKind /\ d.array_size \in Int /\ name \in VarName BY DeclarationIs DEF VarName
<1>4. \/ Marks(Line, s, "object_exist")
      \/ Declares(Line, s, d.type, MemSize(d.type, d.array_size), Elements(d.type, d.array_size) > 0)
  BY <1>1, <1>3, DeclareVarSound
<1>5. auto /\ e = "none" => Stays(result, m) /\ ~Ok(m)
  <2>1. "array_index_invalid" \in ParseError BY DEF ParseError
  <2>2. Marks(Line, m, "array_index_invalid") BY <1>1, <2>1, ErrorSound, Zenon
  <2>3. m.pe = "array_index_invalid" /\ Stays(Line, m) BY <1>1, <2>2, EmitsStays DEF Marks
  <2>4. Stays(result, m) BY <1>2, <2>3, StaysTrans
  <2> QED BY <2>3, <2>4 DEF Ok
<1> HIDE DEF s, m
<1>6. Sound(s) /\ Stays(Line, s)
  BY <1>1, <1>4, EmitsStays, OnlyVarsStays DEF Marks, Declares, Emits
<1>7. Stays(result, s) BY <1>2, <1>6, StaysTrans
<1>8. w = IF ~Ok(s) \/ e = "none" THEN s
          ELSE Assigned(s, Len(s.vars_vect), e, auto, object, flags)
  BY DEF WithValue
<1> HIDE DEF w, flags
<1>9. CASE auto /\ e = "none"
  BY <1>5, <1>9
<1>10. CASE ~(auto /\ e = "none") /\ (~Ok(s) \/ e = "none")
  <2>1. q = s BY <1>8, <1>10
  <2>2. SUFFICES ASSUME Ok(s), given PROVE Gains(result, s, Bytes(d))
    BY <1>7, <2>1
  <2>3. ~auto /\ e = "none" BY <1>10, <2>2
  <2>4. Declares(Line, s, d.type, Bytes(d), TRUE)
    BY <1>4, <2>2, <2>3, DeclarationIs DEF Marks, Ok
  <2> QED BY <2>4, <1>2 DEF Declares, Gains, SameVars
<1>11. CASE Ok(s) /\ e # "none" /\ ~auto
  <2> DEFINE v == Assigned(s, Len(s.vars_vect), e, FALSE, object, flags)
  <2>1. q = v /\ e \in Expressions /\ object \in BOOLEAN BY <1>8, <1>11
  <2>2. Declares(Line, s, d.type, MemSize(d.type, d.array_size), Elements(d.type, d.array_size) > 0)
    BY <1>4, <1>11 DEF Marks, Ok
  <2>3. Len(s.vars_vect) \in 1..Len(s.vars_vect)
    <3>1. Len(Line.vars_vect) \in Nat BY <1>1, NumbersAre
    <3> QED BY <2>2, <3>1 DEF Declares
  <2> HIDE DEF object, auto
  <2>4. Emits(s, v) BY <1>6, <2>1, <2>3, AssignedSound
  <2> HIDE DEF v
  <2>5. Stays(result, v) BY <1>6, <1>7, <2>4, EmitsStays, StaysTrans
  <2>6. SUFFICES ASSUME Ok(v), given PROVE Gains(result, v, Bytes(d))
    BY <2>1, <2>5
  <2>7. Declares(Line, s, d.type, Bytes(d), TRUE)
    BY <1>11, <2>2, <2>6, DeclarationIs DEF auto
  <2>8. SameVars(s, v) BY <2>4 DEF Emits, Kept
  <2> QED BY <2>7, <2>8, <1>2 DEF Declares, Gains, SameVars
<1>12. CASE Ok(s) /\ e # "none" /\ auto
  <2> DEFINE n == Len(s.vars_vect)
             v == Assigned(s, n, e, TRUE, TRUE, flags)
             size == MemSize(s.vars_vect[n].type, ArrayLen)
  <2>1. auto = TRUE /\ object = TRUE BY <1>12
  <2>2. q = v /\ e \in Expressions BY <1>8, <1>12, <2>1
  <2>3. /\ Declares(Line, s, d.type, MemSize(d.type, d.array_size), FALSE)
        /\ Bytes(d) = MemSize(d.type, ArrayLen)
    <3>1. Elements(d.type, d.array_size) = 0 /\ Bytes(d) = MemSize(d.type, ArrayLen)
      BY <1>12, DeclarationIs
    <3>2. Declares(Line, s, d.type, MemSize(d.type, d.array_size), Elements(d.type, d.array_size) > 0)
      BY <1>4, <1>12 DEF Marks, Ok
    <3>3. ~(Elements(d.type, d.array_size) > 0) BY <3>1
    <3> QED BY <3>1, <3>2, <3>3 DEF Declares
  <2>4. n > 0 /\ n = Len(Line.vars_vect) + 1 /\ Len(Line.vars_vect) \in Nat
    <3>1. Len(Line.vars_vect) \in Nat BY <1>1, NumbersAre
    <3> QED BY <2>3, <3>1 DEF Declares
  <2>5. \/ Emits(s, v) /\ (e \in Arrays /\ "inline_array" \in flags => ~Ok(v))
        \/ Fixes(s, v, size)
    BY <1>6, <2>2, <2>4, AssignedAuto
  <2>6. Stays(result, v)
    <3> HIDE DEF v, size
    <3> QED BY <1>6, <1>7, <2>5, EmitsStays, FixesStays, StaysTrans
  <2>7. SUFFICES ASSUME Ok(v), given PROVE Gains(result, v, Bytes(d))
    BY <2>2, <2>6
  <2>8. "inline_array" \in flags BY DEF flags
  <2>9. Fixes(s, v, size) BY <1>12, <2>5, <2>7, <2>8
  <2>10. size = Bytes(d) BY <2>3 DEF Declares
  <2> HIDE DEF v, size
  <2> QED BY <2>3, <2>4, <2>9, <2>10, <1>2 DEF Declares, Fixes, Gains, SameVars
<1> QED BY <1>9, <1>10, <1>11, <1>12

-----------------------------------------------------------------------------
(* Lines that open blocks and close them.                                    *)

(* A branch opens behind the code of its condition, which is not a number.   *)
OpensBranch(r, q, e) ==
  /\ e # "number"
  /\ \E t, s : Emits(r, t) /\ Opens(t, s, "bt_if") /\ Tests(s, q)

(* The rest of IF opens the branch.                                          *)
LEMMA IfRestIs ==
  ASSUME NEW r, Sound(r), NEW e \in Expressions
  PROVE  Ok(IF_rest(r, e)) \/ (Ok(r) /\ e = "key") => OpensBranch(r, IF_rest(r, e), e)
<1> DEFINE t == Evaluate(r, e)
           q == Conditioned(t, "IF", FALSE, e)
           i == IF_rest(r, e)
<1>1. i = IF ~Ok(r) THEN r ELSE IF e = "number" THEN Error(r, "syntax_invalid") ELSE q
  BY DEF IF_rest
<1>2. Emits(r, t) /\ (e \in Values => t.pe = r.pe) BY EvaluateSound
<1>3. q = IF Ok(t) THEN begin_block(t, "IF", FALSE, e) ELSE t BY DEF Conditioned
<1> SUFFICES ASSUME Ok(i) \/ (Ok(r) /\ e = "key") PROVE OpensBranch(r, i, e)
  OBVIOUS
<1> HIDE DEF t, q, i
<1>4. ~Ok(Error(r, "syntax_invalid"))
  <2>1. Error(r, "syntax_invalid").pe = "syntax_invalid" BY SyntaxError
  <2> QED BY <2>1 DEF Ok
<1>5. Ok(r) /\ e # "number" /\ i = q
  BY <1>1, <1>4
<1>6. Ok(t)
  <2>1. CASE Ok(i) BY <2>1, <1>3, <1>5
  <2>2. CASE e = "key" BY <2>2, <1>2, <1>5 DEF Ok, Values, Emits
  <2> QED BY <2>1, <2>2
<1>7. Begins(t, q, "IF", FALSE, e)
  <2>1. Sound(t) /\ FALSE \in BOOLEAN /\ (FALSE => Len(t.block_vect) > 0 \/ "IF" \notin {"IF", "WHILE"})
    BY <1>2 DEF Emits
  <2>2. Begins(t, begin_block(t, "IF", FALSE, e), "IF", FALSE, e) BY <2>1, BeginSound, Zenon
  <2> QED BY <2>2, <1>3, <1>6
<1>8. \E s : Opens(t, s, "bt_if") /\ Tests(s, q)
  BY <1>5, <1>7 DEF Begins, BlockFor
<1> QED BY <1>2, <1>5, <1>8 DEF OpensBranch

(* The line of IF opens a condition and its first branch.                    *)
LEMMA IfLine ==
  ASSUME Sound(result), NEW e \in Expressions, NEW junk \in BOOLEAN
  PROVE  LET s == IF_command(Line, junk)
             q == IF_rest(s, e)
         IN  /\ Keeps(result, q)
             /\ OpensCondition(Line, s, junk)
             /\ Ok(q) \/ (Ok(s) /\ e = "key") => OpensBranch(s, q, e)
<1> DEFINE s == IF_command(Line, junk)
           q == IF_rest(s, e)
<1> SUFFICES /\ Keeps(result, q)
             /\ OpensCondition(Line, s, junk)
             /\ Ok(q) \/ (Ok(s) /\ e = "key") => OpensBranch(s, q, e)
  OBVIOUS
<1>1. NextLine(result, Line) /\ Sound(Line) BY LineSound DEF NextLine, Keeps
<1> HIDE DEF Line
<1>2. OpensCondition(Line, s, junk) /\ Keeps(Line, s) BY <1>1, IfSound
<1> HIDE DEF s
<1>3. Sound(s) BY <1>2 DEF Keeps
<1>4. Keeps(s, q) BY <1>3, IfRestSound
<1>5. Ok(q) \/ (Ok(s) /\ e = "key") => OpensBranch(s, q, e) BY <1>3, IfRestIs
<1> HIDE DEF q
<1> QED BY <1>1, <1>2, <1>4, <1>5, KeepsTrans DEF NextLine

(* A loop gets its end and, behind that, its beginning; then its condition   *)
(* is read.                                                                  *)
OpensLoop(r, q, e) ==
  \E s, t, u : /\ Opens(r, s, "bt_loop")
               /\ Labelled(s, t, Len(s.block_vect), TRUE)
               /\ Emits(t, u) /\ (e \in Values => u.pe = "no_error")
               /\ Ok(q) \/ Ok(u) => IF e = "number" THEN q = u ELSE Tests(u, q)

(* The line of WHILE opens a loop.                                           *)
LEMMA WhileLine ==
  ASSUME Sound(result), NEW e \in Expressions
  PROVE  LET opened == open_block(Line, "bt_loop")
             begun  == LabelBlock(opened, Len(opened.block_vect), TRUE)
             q      == Conditioned(Evaluate(begun, e), "WHILE", TRUE, e)
         IN  Keeps(result, q) /\ OpensLoop(Line, q, e)
<1> DEFINE s == open_block(Line, "bt_loop")
           n == Len(s.block_vect)
           t == LabelBlock(s, n, TRUE)
           u == Evaluate(t, e)
           q == Conditioned(u, "WHILE", TRUE, e)
<1> SUFFICES Keeps(result, q) /\ OpensLoop(Line, q, e)
  OBVIOUS
<1>1. NextLine(result, Line) /\ Sound(Line) BY LineSound DEF NextLine, Keeps
<1> HIDE DEF Line
<1>2. Opens(Line, s, "bt_loop")
  <2>1. "bt_loop" \in BlockKind BY DEF BlockKind
  <2> QED BY <1>1, <2>1, OpenSound, Zenon
<1> HIDE DEF s
<1>3. Sound(s) /\ Keeps(Line, s) BY <1>2 DEF Opens, Keeps
<1>4. n \in Nat /\ Len(Line.block_vect) \in Nat /\ n = Len(Line.block_vect) + 1
  BY <1>1, <1>2, <1>3, NumbersAre DEF Opens
<1>5. Labelled(s, t, n, TRUE)
  <2>1. TRUE \in BOOLEAN OBVIOUS
  <2> HIDE DEF n
  <2> QED BY <1>3, <1>4, <2>1, LabelBlockSound, Zenon
<1> HIDE DEF t
<1>6. Sound(t) /\ Keeps(s, t) /\ Len(t.block_vect) = n
  BY <1>5, MovesKeeps DEF Labelled, Moves
<1>7. Emits(t, u) /\ (e \in Values => u.pe = t.pe) BY <1>6, EvaluateSound
<1> HIDE DEF u
<1>8. Sound(u) /\ Keeps(t, u) /\ Len(u.block_vect) > 0
  BY <1>4, <1>6, <1>7, EmitsKeeps DEF Emits, Kept, SameBlocks
<1>9. q = IF Ok(u) THEN begin_block(u, "WHILE", TRUE, e) ELSE u BY DEF Conditioned
<1>10. Keeps(u, q)
  <2>1. TRUE \in BOOLEAN OBVIOUS
  <2>2. TRUE => Len(u.block_vect) > 0 BY <1>8
  <2> QED BY <1>8, <2>1, <2>2, ConditionedSound, Zenon
<1> HIDE DEF q
<1>11. Ok(u) => IF e = "number" THEN q = u ELSE Tests(u, q)
  <2>1. TRUE \in BOOLEAN /\ (TRUE => Len(u.block_vect) > 0 \/ "WHILE" \notin {"IF", "WHILE"})
    BY <1>8
  <2>2. Begins(u, begin_block(u, "WHILE", TRUE, e), "WHILE", TRUE, e)
    BY <1>8, <2>1, BeginSound, Zenon
  <2> QED BY <1>9, <2>2 DEF Begins
<1>12. Ok(q) => Ok(u) BY <1>9
<1>13. e \in Values => u.pe = "no_error" BY <1>5, <1>7 DEF Labelled
<1>14. OpensLoop(Line, q, e)
  <2> HIDE DEF n
  <2>1. Labelled(s, t, Len(s.block_vect), TRUE) BY <1>5 DEF n
  <2> QED BY <1>2, <1>7, <1>11, <1>12, <1>13, <2>1 DEF OpensLoop
<1>15. Keeps(result, Line) BY <1>1 DEF NextLine
<1> QED BY <1>3, <1>6, <1>8, <1>10, <1>14, <1>15, KeepsTrans

(* A line with a brace opens a block.                                        *)
LEMMA OpenLine ==
  ASSUME Sound(result)
  PROVE  LET q == begin_block(Line, "NOP", FALSE, "number")
         IN  Keeps(result, q) /\ Opens(Line, q, "bt_none")
<1> DEFINE q == begin_block(Line, "NOP", FALSE, "number")
<1> SUFFICES Keeps(result, q) /\ Opens(Line, q, "bt_none")
  OBVIOUS
<1>1. NextLine(result, Line) /\ Sound(Line) BY LineSound DEF NextLine, Keeps
<1> HIDE DEF Line
<1>2. FALSE \in BOOLEAN /\ (FALSE => Len(Line.block_vect) > 0 \/ "NOP" \notin {"IF", "WHILE"})
  OBVIOUS
<1>3. Begins(Line, q, "NOP", FALSE, "number") /\ Keeps(Line, q)
  BY <1>1, <1>2, BeginSound, Zenon
<1> HIDE DEF q
<1>4. Opens(Line, q, "bt_none") BY <1>3 DEF Begins, BlockFor
<1>5. Keeps(result, Line) BY <1>1 DEF NextLine
<1> QED BY <1>3, <1>4, <1>5, KeepsTrans

(* A line with a closing brace closes a block; what is behind the brace may  *)
(* open one.                                                                 *)
LEMMA CloseLine ==
  ASSUME Sound(result), NEW behind, NEW e, NEW junk \in BOOLEAN,
         behind = "else_if" => e \in Expressions
  PROVE  LET s == BLOCK_END(Line, behind # "nothing")
             q == BehindBrace(s, behind, e, junk)
         IN  /\ Keeps(s, q)
             /\ Line.block_vect = <<>> => Marks(Line, s, "syntax_invalid")
             /\ Line.block_vect # <<>> => Closes(Line, s)
<1> DEFINE s == BLOCK_END(Line, behind # "nothing")
           q == BehindBrace(s, behind, e, junk)
<1> SUFFICES /\ Keeps(s, q)
             /\ Line.block_vect = <<>> => Marks(Line, s, "syntax_invalid")
             /\ Line.block_vect # <<>> => Closes(Line, s)
  OBVIOUS
<1>1. NextLine(result, Line) /\ Sound(Line) BY LineSound DEF NextLine, Keeps
<1> HIDE DEF Line
<1>2. (behind # "nothing") \in BOOLEAN OBVIOUS
<1>3. /\ Sound(s)
      /\ Line.block_vect = <<>> => Marks(Line, s, "syntax_invalid")
      /\ Line.block_vect # <<>> => Closes(Line, s)
  BY <1>1, <1>2, BlockEndSound
<1> HIDE DEF s
<1>4. Keeps(s, q) BY <1>3, BehindSound
<1> QED BY <1>3, <1>4

(* A routine outside of all others: its block, its parameters, its body.     *)
StartsBody(r, q) ==
  \E o, b, p, t : /\ Opens(r, o, "bt_proc") /\ StartsRoutine(o, b) /\ Adds(b, p)
                  /\ Ok(p) /\ Emits(p, t) /\ q = t

(* The line of FUNC opens the routine's block and declares its parameters.   *)
LEMMA FuncLine ==
  ASSUME Sound(result), NEW name \in FuncNames, NEW params \in ParamLists
  PROVE  LET outside  == result.func_info = NULL
             named    == IF outside THEN BeginSub(open_block(Line, "bt_proc"), name)
                         ELSE Param(Line, name)
             declared == Params(named, params)
             q        == BeginBody(declared, outside)
         IN  (Ok(declared) => Range(ParamsOf(declared)) \subseteq DOMAIN declared.vars_vect)
             => Sound(q) /\ (outside /\ Ok(q) => StartsBody(Line, q))
<1> DEFINE outside  == result.func_info = NULL
           o        == open_block(Line, "bt_proc")
           b        == BeginSub(o, name)
           in       == Param(Line, name)
           named    == IF outside THEN b ELSE in
           declared == Params(named, params)
           q        == BeginBody(declared, outside)
           known    == Ok(declared) => Range(ParamsOf(declared)) \subseteq DOMAIN declared.vars_vect
<1> SUFFICES ASSUME known
             PROVE  Sound(q) /\ (outside /\ Ok(q) => StartsBody(Line, q))
  OBVIOUS
<1>1. NextLine(result, Line) /\ Sound(Line) BY LineSound DEF NextLine, Keeps
<1> HIDE DEF Line
<1>2. params \in Seq(VarName) /\ name \in VarName
  <2>1. <<>> \in Seq(VarName) /\ \A x \in VarName : <<x>> \in Seq(VarName)
    BY EmptyIsSeq, OneSeq, Zenon
  <2> QED BY <2>1 DEF ParamLists, VarName
<1>3. Opens(Line, o, "bt_proc") /\ Sound(o)
  <2>1. "bt_proc" \in BlockKind BY DEF BlockKind
  <2>2. Opens(Line, o, "bt_proc") BY <1>1, <2>1, OpenSound, Zenon
  <2> QED BY <2>2 DEF Opens
<1> HIDE DEF o
<1>4. Marks(o, b, "object_exist") \/ StartsRoutine(o, b) BY <1>3, BeginSubSound
<1>5. ~outside => Adds(Line, in)
  <2>1. SUFFICES ASSUME ~outside PROVE Adds(Line, in)
    OBVIOUS
  <2>2. Line.func_info # NULL BY <1>1, <2>1 DEF NextLine, Keeps, SameRoutine
  <2> QED BY <1>1, <1>2, <2>2, ParamSound
<1>6. /\ Sound(named) /\ (named.func_info # NULL \/ ~Ok(named))
      /\ outside /\ Ok(named) => StartsRoutine(o, named)
  <2>1. CASE ~outside
    <3>1. Adds(Line, named) /\ result.func_info # NULL BY <1>5, <2>1
    <3>2. named.func_info = result.func_info
      BY <1>1, <3>1 DEF NextLine, Keeps, SameRoutine, Adds, AddsOnly
    <3> QED BY <2>1, <3>1, <3>2 DEF Adds
  <2>2. CASE outside /\ Marks(o, b, "object_exist")
    <3>1. named = b BY <2>2
    <3> QED BY <2>2, <3>1 DEF Marks, Emits, Ok
  <2>3. CASE outside /\ StartsRoutine(o, b)
    <3>1. named = b BY <2>3
    <3>2. named.func_info # NULL
      <4>1. Len(o.funcs_vect) \in Nat BY <1>3, NumbersAre
      <4> QED BY <2>3, <3>1, <4>1 DEF StartsRoutine, NULL
    <3> QED BY <2>3, <3>1, <3>2 DEF StartsRoutine
  <2> QED BY <1>4, <2>1, <2>2, <2>3
<1> HIDE DEF named, in, b
<1>7. /\ Adds(named, declared) /\ (declared.func_info # NULL \/ ~Ok(declared))
      /\ Ok(declared) => Ok(named)
  BY <1>2, <1>6, ParamsSound
<1>8. Sound(declared) BY <1>7 DEF Adds
<1> HIDE DEF declared
<1>9. /\ Keeps(declared, q)
      /\ ~Ok(declared) => q = declared
      /\ Ok(declared) => \E s : Emits(declared, s) /\ Begins(s, q, "PROC", outside, "number")
  <2>1. outside \in BOOLEAN OBVIOUS
  <2> HIDE DEF outside
  <2> QED BY <1>7, <1>8, <2>1, BodySound
<1>10. Sound(q) BY <1>9 DEF Keeps
<1> HIDE DEF q
<1>11. outside /\ Ok(q) => StartsBody(Line, q)
  <2> SUFFICES ASSUME outside, Ok(q) PROVE StartsBody(Line, q)
    OBVIOUS
  <2>1. Ok(declared) BY <1>9
  <2>2. PICK s : Emits(declared, s) /\ Begins(s, q, "PROC", outside, "number") BY <1>9, <2>1
  <2>3. q = s BY <2>2 DEF Begins
  <2>4. StartsRoutine(o, named) BY <1>6, <1>7, <2>1
  <2> QED BY <1>3, <1>7, <2>1, <2>2, <2>3, <2>4 DEF StartsBody
<1> QED BY <1>10, <1>11

-----------------------------------------------------------------------------
(* The end of a block, step by step.                                         *)

(* A branch is open, so its condition is; or a block of another kind.        *)
Proper(r) ==
  LET n == Len(r.block_vect)
  IN  /\ n > 0
      /\ IsBranch(Block(r)) => n > 1 /\ r.block_vect[n - 1].block_type = "bt_condition"

(* The condition around block n gets its label, if it has none and needs it. *)
Readies(u, e, n, wanted) ==
  IF wanted /\ u.block_vect[n - 1].label_end = NoLabel THEN Labelled(u, e, n - 1, FALSE) ELSE e = u

(* The jump at the end of block n, which is b.                               *)
LeavesBy(e, s, n, b, behind) ==
  /\ b.block_type = "bt_loop" => Leaps(e, s, b.label_begin)
  /\ IsBranch(b) /\ behind => Leaps(e, s, e.block_vect[n - 1].label_end)
  /\ IsBranch(b) /\ ~behind =>
       IF e.block_vect[n - 1].label_end # NoLabel THEN Lands(e, s, e.block_vect[n - 1].label_end)
       ELSE s = e
  /\ b.block_type # "bt_loop" /\ ~IsBranch(b) => s = e

(* The label of the block's end is placed, where there is one.               *)
EndsBy(s, l, b) == IF b.label_end # NoLabel THEN Lands(s, l, b.label_end) ELSE l = s

(* How a block closes, step by step: variables, branch or loop, end, block.  *)
ClosesBy(r, q, behind) ==
  LET n == Len(r.block_vect)
      b == Block(r)
  IN  \E u, left, count, e, s, l :
        /\ Returns(r, left, count) /\ Unregisters(r, u, left, count)
        /\ Readies(u, e, n, IsBranch(b) /\ behind)
        /\ LeavesBy(e, s, n, b, behind)
        /\ EndsBy(s, l, b)
        /\ Drops(l, q, IsBranch(b) /\ ~behind)

(* How a branch is left.                                                     *)
LEMMA CloseBranchIs ==
  ASSUME NEW u, Sound(u), NEW n \in Nat, n > 1, n = Len(u.block_vect), NEW behind \in BOOLEAN,
         NEW b, IsBranch(b), u.block_vect[n - 1].block_type = "bt_condition"
  PROVE  \E e : /\ Readies(u, e, n, behind)
                /\ LeavesBy(e, CloseBranch(u, behind), n, b, behind)
<1> DEFINE c     == n - 1
           cond  == u.block_vect[c]
           ended == IF cond.label_end # NoLabel THEN u ELSE LabelBlock(u, c, FALSE)
           pnt   == ended.block_vect[c].label_end
           jump  == JmpTo(ended, pnt, FALSE)
           place == PlaceEnd(u, cond.label_end)
           q     == CloseBranch(u, behind)
<1>1. q = IF c = 0 THEN Error(u, "SIGSEGV")
          ELSE IF behind THEN jump
          ELSE IF cond.block_type # "bt_condition" THEN Error(u, "syntax_invalid")
          ELSE IF cond.label_end # NoLabel THEN place
          ELSE u
  BY DEF CloseBranch
<1>2. c # 0 /\ c \in 1..Len(u.block_vect) /\ c \in Nat
  <2>1. \A m \in Nat : m > 1 => m - 1 # 0 /\ m - 1 \in 1..m /\ m - 1 \in Nat OBVIOUS
  <2> QED BY <2>1, Zenon
<1>3. b.block_type # "bt_loop" BY DEF IsBranch
<1> SUFFICES \E e : Readies(u, e, n, behind) /\ LeavesBy(e, q, n, b, behind)
  OBVIOUS
<1>4. CASE behind
  <2>1. Readies(u, ended, n, behind)
    <3>1. FALSE \in BOOLEAN OBVIOUS
    <3> HIDE DEF c
    <3>2. Labelled(u, LabelBlock(u, c, FALSE), c, FALSE) BY <1>2, <3>1, LabelBlockSound, Zenon
    <3> QED BY <1>4, <3>2 DEF Readies, c
  <2>2. Sound(ended) /\ Len(ended.block_vect) = Len(u.block_vect)
    <3> HIDE DEF ended
    <3> QED BY <2>1 DEF Readies, Labelled, Moves
  <2> HIDE DEF ended
  <2>3. pnt \in Pointer
    <3> HIDE DEF c
    <3> QED BY <1>2, <2>2, BlockIs
  <2>4. Leaps(ended, jump, pnt)
    <3>1. FALSE \in BOOLEAN OBVIOUS
    <3> HIDE DEF pnt
    <3> QED BY <2>2, <2>3, <3>1, JmpToSound, Zenon
  <2>5. q = jump BY <1>1, <1>2, <1>4
  <2> HIDE DEF q, jump
  <2>6. LeavesBy(ended, q, n, b, behind) BY <1>3, <1>4, <2>4, <2>5 DEF LeavesBy
  <2> QED BY <2>1, <2>6
<1>5. CASE ~behind
  <2>1. Readies(u, u, n, behind) BY <1>5 DEF Readies
  <2>2. Lands(u, place, cond.label_end) BY PlaceEndSound
  <2>3. q = IF cond.label_end # NoLabel THEN place ELSE u BY <1>1, <1>2, <1>5
  <2> HIDE DEF q, place
  <2>4. LeavesBy(u, q, n, b, behind) BY <1>3, <1>5, <2>2, <2>3 DEF LeavesBy
  <2> QED BY <2>1, <2>4
<1> QED BY <1>4, <1>5

(* How any block is left.                                                    *)
LEMMA LeaveIs ==
  ASSUME NEW u, Sound(u), NEW n \in Nat, n > 0, n = Len(u.block_vect), NEW behind \in BOOLEAN,
         NEW b \in BlockType,
         IsBranch(b) => n > 1 /\ u.block_vect[n - 1].block_type = "bt_condition"
  PROVE  \E e : /\ Readies(u, e, n, IsBranch(b) /\ behind)
                /\ LeavesBy(e, LeaveBlock(u, b, behind), n, b, behind)
<1> DEFINE jump  == JmpTo(u, b.label_begin, FALSE)
           close == CloseBranch(u, behind)
           q     == LeaveBlock(u, b, behind)
<1>1. q = CASE b.block_type = "bt_loop" -> jump [] IsBranch(b) -> close [] OTHER -> u
  BY DEF LeaveBlock
<1>2. b.label_begin \in Pointer /\ FALSE \in BOOLEAN BY DEF BlockType
<1>3. Leaps(u, jump, b.label_begin) BY <1>2, JmpToSound, Zenon
<1>4. ~(b.block_type = "bt_loop" /\ IsBranch(b)) BY DEF IsBranch
<1> SUFFICES \E e : Readies(u, e, n, IsBranch(b) /\ behind) /\ LeavesBy(e, q, n, b, behind)
  OBVIOUS
<1> HIDE DEF q, jump
<1>5. CASE IsBranch(b)
  <2>1. q = close BY <1>1, <1>4, <1>5
  <2>2. n > 1 /\ u.block_vect[n - 1].block_type = "bt_condition" BY <1>5
  <2>3. \E e : Readies(u, e, n, behind) /\ LeavesBy(e, close, n, b, behind)
    BY <1>5, <2>2, CloseBranchIs
  <2> HIDE DEF close
  <2> QED BY <1>5, <2>1, <2>3 DEF Readies
<1>6. CASE ~IsBranch(b)
  <2>1. Readies(u, u, n, IsBranch(b) /\ behind) BY <1>6 DEF Readies
  <2>2. LeavesBy(u, q, n, b, behind)
    BY <1>1, <1>3, <1>6 DEF LeavesBy
  <2> QED BY <2>1, <2>2
<1> QED BY <1>5, <1>6

(* BLOCK_END closes a proper block in these steps.                           *)
LEMMA CloseIs ==
  ASSUME NEW r, Sound(r), Proper(r), NEW behind \in BOOLEAN
  PROVE  ClosesBy(r, BLOCK_END(r, behind), behind)
<1> DEFINE n == Len(r.block_vect)
           b == Block(r)
           u == UnregisterLastBlockVars(r)
           s == LeaveBlock(u, b, behind)
           both == IsBranch(b) /\ ~behind
           l == LabelEnd(s, b)
           d == DropBlock(l, both)
           fails == IsBranch(b) /\ s.pe \in {"SIGSEGV", "syntax_invalid"}
           q == BLOCK_END(r, behind)
<1>1. r.block_vect \in Seq(BlockType) /\ n \in Nat /\ n > 0 /\ r.block_vect # <<>>
  <2>1. r.block_vect \in Seq(BlockType) BY DEF Sound, Result
  <2>2. Len(r.block_vect) > 0 BY DEF Proper
  <2> QED BY <2>1, <2>2
<1>2. q = IF fails THEN s ELSE d
  BY <1>1 DEF BLOCK_END, EndBlock
<1>3. b \in BlockType BY <1>1 DEF Block, Last
<1>4. IsBranch(b) => n > 1 /\ r.block_vect[n - 1].block_type = "bt_condition"
  BY DEF Proper
<1>5. PICK left, count : Returns(r, left, count) /\ Unregisters(r, u, left, count)
  BY UnregisterSound
<1> SUFFICES ClosesBy(r, q, behind)
  OBVIOUS
<1> HIDE DEF u, q
<1>6. /\ Sound(u) /\ u.block_vect = r.block_vect
      /\ u.pe \in {"no_error", "stack_corrupted"}
  BY <1>5 DEF Unregisters, OnlyVars, SameBlocks
<1>7. PICK e : /\ Readies(u, e, n, IsBranch(b) /\ behind)
               /\ LeavesBy(e, s, n, b, behind)
  <2> HIDE DEF b, s
  <2>1. n = Len(u.block_vect) BY <1>6
  <2>2. IsBranch(b) => n > 1 /\ u.block_vect[n - 1].block_type = "bt_condition" BY <1>4, <1>6
  <2> HIDE DEF n
  <2> QED BY <1>1, <1>3, <1>6, <2>1, <2>2, LeaveIs DEF s
<1>8. Moves(u, s)
  <2> HIDE DEF b, n
  <2>1. Len(u.block_vect) > 0 BY <1>1, <1>6 DEF n
  <2> QED BY <1>3, <1>6, <2>1, LeaveSound
<1> HIDE DEF s
<1>9. Sound(s) /\ Len(s.block_vect) > 0 BY <1>1, <1>6, <1>8 DEF Moves
<1>10. EndsBy(s, l, b)
  <2>1. Lands(s, PlaceEnd(s, b.label_end), b.label_end)
    <3> HIDE DEF b
    <3> QED BY <1>9, PlaceEndSound
  <2> QED BY <2>1 DEF EndsBy, LabelEnd
<1>11. Moves(s, l)
  <2> HIDE DEF b
  <2> QED BY <1>9, LabelEndSound
<1> HIDE DEF l
<1>12. Drops(l, d, both)
  <2>1. Sound(l) /\ Len(l.block_vect) > 0 BY <1>9, <1>11 DEF Moves
  <2>2. both \in BOOLEAN OBVIOUS
  <2> HIDE DEF both
  <2> QED BY <2>1, <2>2, DropSound
<1> HIDE DEF d
<1>13. ~fails
  <2> SUFFICES ASSUME IsBranch(b) PROVE s.pe \notin {"SIGSEGV", "syntax_invalid"}
    OBVIOUS
  <2>1. CASE behind
    <3>1. s.pe \in {"no_error", "label_invalid"} BY <1>7, <2>1 DEF LeavesBy, Leaps
    <3> QED BY <3>1
  <2>2. CASE ~behind
    <3>1. e = u BY <1>7, <2>2 DEF Readies
    <3>2. s.pe \in {"no_error", "object_exist", "stack_corrupted"}
      BY <1>6, <1>7, <2>2, <3>1 DEF LeavesBy, Lands
    <3> QED BY <3>2
  <2> QED BY <2>1, <2>2
<1>14. q = d BY <1>2, <1>13
<1> HIDE DEF fails
<1> QED BY <1>5, <1>7, <1>10, <1>12, <1>14 DEF ClosesBy

-----------------------------------------------------------------------------
(* The stack of blocks: block m of the source, T[m], has its place at[m];    *)
(* below a branch is its condition, and nothing else is a condition.         *)
Branches == {"bt_if", "bt_else"}
(* A branch has its condition's block around it.                             *)
Room(type) == IF type \in Branches THEN 2 ELSE 1

(* The open blocks of the kinds T, each at its place on the stack.           *)
Stands(r, L, T, at) ==
  /\ at \in [0..L -> Nat] /\ at[0] = 0 /\ at[L] = Len(r.block_vect)
  /\ \A m \in 1..L : at[m] = at[m - 1] + Room(T[m])
  /\ \A m, k \in 0..L : m < k => at[m] < at[k]
  /\ \A m \in 1..L :
       /\ T[m] # "bt_condition" /\ r.block_vect[at[m]].block_type = T[m]
       /\ T[m] \in Branches => m > 1 /\ r.block_vect[at[m] - 1].block_type = "bt_condition"
(* block_vect holds L blocks of the kinds T, in that order.                  *)
Stack(r, L, T) == \E at : Stands(r, L, T, at)

(* The first n blocks are of the same kinds.                                 *)
SameTypes(r, q, n) == \A k \in 1..n : q.block_vect[k].block_type = r.block_vect[k].block_type

(* No block is open at the beginning.                                        *)
LEMMA StackEmpty ==
  ASSUME NEW r, r.block_vect = <<>>, NEW T PROVE Stack(r, 0, T)
<1> DEFINE at == [m \in 0..0 |-> 0]
<1>1. Stands(r, 0, T, at) BY DEF Stands
<1> QED BY <1>1 DEF Stack

(* The same kinds are the same stack.                                        *)
LEMMA StackSame ==
  ASSUME NEW r, Sound(r), NEW q, NEW L \in Nat, NEW T, NEW U, Stack(r, L, T),
         Len(q.block_vect) = Len(r.block_vect), SameTypes(r, q, Len(r.block_vect)),
         \A m \in 1..L : U[m] = T[m]
  PROVE  Stack(q, L, U)
<1>1. PICK at : Stands(r, L, T, at) BY DEF Stack
<1>2. Len(r.block_vect) \in Nat BY NumbersAre
<1>3. \A m \in 1..L : at[m] \in 1..Len(r.block_vect)
                      /\ (T[m] \in Branches => at[m] - 1 \in 1..Len(r.block_vect))
  <2> SUFFICES ASSUME NEW m \in 1..L
               PROVE  /\ at[m] \in 1..Len(r.block_vect)
                      /\ T[m] \in Branches => at[m] - 1 \in 1..Len(r.block_vect)
    OBVIOUS
  <2>1. m \in 0..L /\ m - 1 \in 0..L /\ 0 \in 0..L /\ L \in 0..L /\ 0 < m /\ (m < L \/ m = L)
    OBVIOUS
  <2>2. /\ at[m] \in Nat /\ at[m - 1] \in Nat /\ at[0] = 0 /\ at[L] = Len(r.block_vect)
        /\ at[m] = at[m - 1] + Room(T[m]) /\ at[0] < at[m] /\ (m < L => at[m] < at[L])
    BY <1>1, <2>1 DEF Stands
  <2>3. at[m] <= at[L] BY <1>2, <2>1, <2>2
  <2> HIDE <1>1
  <2> QED BY <1>2, <2>2, <2>3 DEF Room
<1>4. Stands(q, L, U, at)
  BY <1>1, <1>3 DEF Stands, SameTypes
<1> QED BY <1>4 DEF Stack

(* A block more.                                                             *)
LEMMA StackPush ==
  ASSUME NEW r, Sound(r), NEW q, NEW L \in Nat, NEW T, NEW U, Stack(r, L, T),
         NEW type, type # "bt_condition", U[L + 1] = type, \A m \in 1..L : U[m] = T[m],
         Len(q.block_vect) = Len(r.block_vect) + Room(type),
         SameTypes(r, q, Len(r.block_vect)),
         q.block_vect[Len(q.block_vect)].block_type = type,
         type \in Branches => L > 0 /\ q.block_vect[Len(r.block_vect) + 1].block_type = "bt_condition"
  PROVE  Stack(q, L + 1, U)
<1> DEFINE n == Len(r.block_vect)
<1>1. PICK at : Stands(r, L, T, at) BY DEF Stack
<1>2. n \in Nat /\ Room(type) \in {1, 2} BY NumbersAre DEF Room
<1> DEFINE up == [m \in 0..(L + 1) |-> IF m = L + 1 THEN n + Room(type) ELSE at[m]]
<1>3. \A m \in 0..L : at[m] \in Nat /\ at[m] <= n
  <2> SUFFICES ASSUME NEW m \in 0..L PROVE at[m] \in Nat /\ at[m] <= n
    OBVIOUS
  <2>1. L \in 0..L /\ (m < L \/ m = L) OBVIOUS
  <2>2. at[m] \in Nat /\ at[L] = n /\ (m < L => at[m] < at[L]) BY <1>1, <2>1 DEF Stands
  <2> QED BY <1>2, <2>1, <2>2
<1>4. \A m \in 1..L : at[m] \in 1..n /\ (T[m] \in Branches => at[m] - 1 \in 1..n)
  <2> SUFFICES ASSUME NEW m \in 1..L
               PROVE  at[m] \in 1..n /\ (T[m] \in Branches => at[m] - 1 \in 1..n)
    OBVIOUS
  <2>1. m \in 0..L /\ m - 1 \in 0..L OBVIOUS
  <2>2. /\ at[m] \in Nat /\ at[m - 1] \in Nat /\ at[m] <= n
        /\ at[m] = at[m - 1] + Room(T[m])
    BY <1>1, <1>3, <2>1 DEF Stands
  <2> HIDE <1>1, <1>3
  <2> QED BY <1>2, <2>2 DEF Room
<1>5. up \in [0..(L + 1) -> Nat] /\ up[0] = 0 /\ up[L + 1] = n + Room(type)
      /\ \A m \in 0..L : up[m] = at[m]
  <2>1. 0 \in 0..L /\ 0 # L + 1 /\ at[0] = 0 BY <1>1 DEF Stands
  <2>2. \A m \in 0..L : m \in 0..(L + 1) /\ m # L + 1 OBVIOUS
  <2>3. \A m \in 0..(L + 1) : m = L + 1 \/ m \in 0..L OBVIOUS
  <2>4. L + 1 \in 0..(L + 1) OBVIOUS
  <2> HIDE DEF n
  <2> QED BY <1>2, <1>3, <2>1, <2>2, <2>3, <2>4
<1> HIDE DEF up
<1>6. \A m \in 1..(L + 1) : up[m] = up[m - 1] + Room(U[m])
  <2> SUFFICES ASSUME NEW m \in 1..(L + 1) PROVE up[m] = up[m - 1] + Room(U[m])
    OBVIOUS
  <2>1. CASE m = L + 1
    <3>1. m - 1 = L /\ L \in 0..L BY <2>1
    <3>2. up[L] = n BY <1>1, <1>5, <3>1 DEF Stands
    <3> QED BY <1>5, <2>1, <3>1, <3>2
  <2>2. CASE m # L + 1
    <3>1. m \in 1..L /\ m \in 0..L /\ m - 1 \in 0..L BY <2>2
    <3> QED BY <1>1, <1>5, <3>1 DEF Stands
  <2> QED BY <2>1, <2>2
<1>7. \A m, k \in 0..(L + 1) : m < k => up[m] < up[k]
  <2> SUFFICES ASSUME NEW m \in 0..(L + 1), NEW k \in 0..(L + 1), m < k PROVE up[m] < up[k]
    OBVIOUS
  <2>1. m \in 0..L OBVIOUS
  <2>2. CASE k = L + 1
    <3>1. up[m] <= n /\ up[m] \in Nat BY <1>3, <1>5, <2>1
    <3> HIDE DEF n
    <3> QED BY <1>2, <1>5, <2>2, <3>1
  <2>3. CASE k # L + 1
    <3>1. k \in 0..L BY <2>3
    <3> QED BY <1>1, <1>5, <2>1, <3>1 DEF Stands
  <2> QED BY <2>2, <2>3
<1>8. ASSUME NEW m \in 1..(L + 1)
      PROVE  /\ U[m] # "bt_condition" /\ q.block_vect[up[m]].block_type = U[m]
             /\ U[m] \in Branches => m > 1 /\ q.block_vect[up[m] - 1].block_type = "bt_condition"
  <2>1. CASE m = L + 1
    <3>1. up[m] = Len(q.block_vect) /\ U[m] = type BY <1>5, <2>1
    <3>2. type \in Branches => m > 1 /\ up[m] - 1 = n + 1
      <4>1. type \in Branches => Room(type) = 2 /\ L > 0 BY DEF Room
      <4> HIDE DEF n
      <4> QED BY <1>2, <1>5, <2>1, <4>1
    <3> QED BY <3>1, <3>2
  <2>2. CASE m # L + 1
    <3>1. m \in 1..L /\ up[m] = at[m] /\ U[m] = T[m] BY <1>5, <2>2
    <3>2. /\ T[m] # "bt_condition" /\ r.block_vect[at[m]].block_type = T[m]
          /\ T[m] \in Branches => m > 1 /\ r.block_vect[at[m] - 1].block_type = "bt_condition"
      BY <1>1, <3>1 DEF Stands
    <3> QED BY <1>4, <3>1, <3>2 DEF SameTypes
  <2> QED BY <2>1, <2>2
<1>9. Stands(q, L + 1, U, up)
  BY <1>5, <1>6, <1>7, <1>8 DEF Stands
<1> QED BY <1>9 DEF Stack

(* What is on top of the stack.                                              *)
LEMMA StackTop ==
  ASSUME NEW r, Sound(r), NEW L \in Nat, NEW T, Stack(r, L, T)
  PROVE  /\ L = 0 <=> r.block_vect = <<>>
         /\ L > 0 => /\ Len(r.block_vect) >= Room(T[L]) /\ Block(r).block_type = T[L] /\ Proper(r)
                     /\ T[L] # "bt_condition"
                     /\ Len(r.block_vect) = 1 <=> L = 1
                     /\ T[L] \in Branches => L > 1 /\ Len(r.block_vect) > 2
<1> DEFINE n == Len(r.block_vect)
<1>1. PICK at : Stands(r, L, T, at) BY DEF Stack
<1>2. r.block_vect \in Seq(BlockType) /\ n \in Nat BY DEF Sound, Result
<1>3. 0 \in 0..L /\ L \in 0..L /\ at[0] = 0 /\ at[L] = n BY <1>1 DEF Stands
<1>4. L = 0 <=> r.block_vect = <<>>
  <2>1. L > 0 => at[0] < at[L] BY <1>1, <1>3 DEF Stands
  <2>2. L = 0 => n = 0 BY <1>3
  <2>3. L > 0 => n > 0 BY <1>3, <2>1
  <2> QED BY <1>2, <2>2, <2>3
<1>5. ASSUME L > 0
      PROVE  /\ n >= Room(T[L]) /\ Block(r).block_type = T[L] /\ Proper(r)
             /\ T[L] # "bt_condition"
             /\ n = 1 <=> L = 1
             /\ T[L] \in Branches => L > 1 /\ n > 2
  <2>1. L \in 1..L /\ L - 1 \in 0..L BY <1>5
  <2>2. /\ at[L] = at[L - 1] + Room(T[L]) /\ at[L - 1] \in Nat
        /\ T[L] # "bt_condition" /\ r.block_vect[n].block_type = T[L]
        /\ T[L] \in Branches => L > 1 /\ r.block_vect[n - 1].block_type = "bt_condition"
    BY <1>1, <1>3, <2>1 DEF Stands
  <2>3. L > 1 => at[0] < at[L - 1] BY <1>1, <1>3, <2>1 DEF Stands
  <2>4. n = at[L - 1] + Room(T[L]) /\ (L > 1 => 0 < at[L - 1]) /\ (L = 1 => at[L - 1] = 0)
    BY <1>3, <2>2, <2>3
  <2>5. Room(T[L]) \in {1, 2} /\ (T[L] \in Branches <=> Room(T[L]) = 2) BY DEF Room
  <2> HIDE DEF n
  <2>6. n >= Room(T[L]) /\ (n = 1 <=> L = 1) /\ (T[L] \in Branches => n > 2) /\ n > 0
    BY <1>2, <1>5, <2>2, <2>4, <2>5
  <2>7. Block(r).block_type = T[L] BY <2>2 DEF Block, Last, n
  <2>8. IsBranch(Block(r)) => T[L] \in Branches BY <2>7 DEF IsBranch, Branches
  <2>9. Proper(r) BY <2>2, <2>6, <2>8 DEF Proper, n
  <2> QED BY <2>2, <2>6, <2>7, <2>9
<1> QED BY <1>4, <1>5

(* A block less.                                                             *)
LEMMA StackPop ==
  ASSUME NEW r, Sound(r), NEW q, NEW L \in Nat, L > 0, NEW T, NEW U, Stack(r, L, T),
         \A m \in 1..(L - 1) : U[m] = T[m],
         Len(q.block_vect) = Len(r.block_vect) - Room(T[L]),
         SameTypes(r, q, Len(q.block_vect))
  PROVE  Stack(q, L - 1, U)
<1> DEFINE n == Len(r.block_vect)
           M == L - 1
<1>1. PICK at : Stands(r, L, T, at) BY DEF Stack
<1>2. n \in Nat /\ Room(T[L]) \in {1, 2} BY NumbersAre DEF Room
<1>3. M \in Nat /\ M \in 0..L /\ L \in 1..L /\ \A m \in 0..M : m \in 0..L OBVIOUS
<1>4. at[M] = Len(q.block_vect) /\ Len(q.block_vect) \in Nat
  <2>1. at[L] = n /\ at[L] = at[M] + Room(T[L]) /\ at[M] \in Nat BY <1>1, <1>3 DEF Stands
  <2> HIDE DEF M, n
  <2>2. Len(q.block_vect) = n - Room(T[L]) BY DEF n
  <2> QED BY <1>2, <2>1, <2>2
<1> DEFINE down == [m \in 0..M |-> at[m]]
<1>5. \A m \in 1..M : at[m] \in 1..Len(q.block_vect)
                      /\ (T[m] \in Branches => at[m] - 1 \in 1..Len(q.block_vect))
  <2> SUFFICES ASSUME NEW m \in 1..M
               PROVE  /\ at[m] \in 1..Len(q.block_vect)
                      /\ T[m] \in Branches => at[m] - 1 \in 1..Len(q.block_vect)
    OBVIOUS
  <2>1. m \in 0..L /\ m \in 1..L /\ m - 1 \in 0..L /\ (m < M \/ m = M) OBVIOUS
  <2>2. /\ at[m] \in Nat /\ at[m - 1] \in Nat
        /\ at[m] = at[m - 1] + Room(T[m]) /\ (m < M => at[m] < at[M])
    BY <1>1, <1>3, <2>1 DEF Stands
  <2>3. at[m] <= Len(q.block_vect) BY <1>4, <2>1, <2>2
  <2>5. Room(T[m]) \in {1, 2} /\ (T[m] \in Branches => Room(T[m]) = 2) BY DEF Room
  <2>6. PICK k \in Nat : k = Len(q.block_vect) BY <1>4
  <2>7. at[m] \in 1..k /\ (T[m] \in Branches => at[m] - 1 \in 1..k)
    <3>1. at[m] <= k BY <2>3, <2>6
    <3> HIDE <1>1
    <3> HIDE DEF M, n
    <3> QED BY <2>2, <2>5, <3>1
  <2> QED BY <2>6, <2>7
<1>6. down \in [0..M -> Nat] /\ down[0] = 0 /\ down[M] = Len(q.block_vect)
      /\ \A m \in 0..M : down[m] = at[m]
  BY <1>1, <1>3, <1>4 DEF Stands
<1> HIDE DEF down
<1>7. \A m \in 1..M : m \in 1..L /\ m \in 0..M /\ m - 1 \in 0..M OBVIOUS
<1>8. \A m \in 1..M : down[m] = down[m - 1] + Room(U[m])
  BY <1>1, <1>6, <1>7 DEF Stands
<1>9. \A m, k \in 0..M : m < k => down[m] < down[k]
  BY <1>1, <1>3, <1>6 DEF Stands
<1>10. ASSUME NEW m \in 1..M
       PROVE  /\ U[m] # "bt_condition" /\ q.block_vect[down[m]].block_type = U[m]
              /\ U[m] \in Branches => m > 1 /\ q.block_vect[down[m] - 1].block_type = "bt_condition"
  <2>1. m \in 1..L /\ down[m] = at[m] /\ U[m] = T[m] BY <1>6, <1>7
  <2>2. /\ T[m] # "bt_condition" /\ r.block_vect[at[m]].block_type = T[m]
        /\ T[m] \in Branches => m > 1 /\ r.block_vect[at[m] - 1].block_type = "bt_condition"
    BY <1>1, <2>1 DEF Stands
  <2> QED BY <1>5, <2>1, <2>2 DEF SameTypes
<1>11. Stands(q, M, U, down)
  BY <1>6, <1>8, <1>9, <1>10 DEF Stands
<1> QED BY <1>11 DEF Stack

-----------------------------------------------------------------------------
(* Blocks that close, and variables.                                         *)

(* The innermost block becomes another branch of the same condition.         *)
LEMMA StackSwap ==
  ASSUME NEW r, Sound(r), NEW q, NEW L \in Nat, L > 0, NEW T, NEW U, Stack(r, L, T),
         T[L] \in Branches, NEW type \in Branches, U[L] = type, \A m \in 1..(L - 1) : U[m] = T[m],
         Len(q.block_vect) = Len(r.block_vect),
         SameTypes(r, q, Len(r.block_vect) - 1),
         q.block_vect[Len(q.block_vect)].block_type = type
  PROVE  Stack(q, L, U)
<1> DEFINE n == Len(r.block_vect)
<1>1. PICK at : Stands(r, L, T, at) BY DEF Stack
<1>2. n \in Nat /\ 0 \in 0..L /\ L \in 0..L /\ L \in 1..L BY NumbersAre
<1>3. at \in [0..L -> Nat] /\ at[0] = 0 /\ at[L] = n /\ at[L] = at[L - 1] + Room(T[L])
  BY <1>1, <1>2 DEF Stands
<1>4. \A m \in 1..L : at[m] = at[m - 1] + Room(U[m])
  <2> SUFFICES ASSUME NEW m \in 1..L PROVE at[m] = at[m - 1] + Room(U[m])
    OBVIOUS
  <2>1. Room(T[L]) = 2 /\ Room(U[L]) = 2 BY DEF Room
  <2>2. m = L \/ m \in 1..(L - 1) OBVIOUS
  <2> QED BY <1>1, <2>1, <2>2 DEF Stands
<1>5. \A m, k \in 0..L : m < k => at[m] < at[k] BY <1>1 DEF Stands
<1>6. ASSUME NEW m \in 1..L
      PROVE  /\ U[m] # "bt_condition" /\ q.block_vect[at[m]].block_type = U[m]
             /\ U[m] \in Branches => m > 1 /\ q.block_vect[at[m] - 1].block_type = "bt_condition"
  <2>1. /\ T[m] # "bt_condition" /\ r.block_vect[at[m]].block_type = T[m]
        /\ T[m] \in Branches => m > 1 /\ r.block_vect[at[m] - 1].block_type = "bt_condition"
    BY <1>1 DEF Stands
  <2>2. m \in 0..L /\ m - 1 \in 0..L /\ (m = L \/ m < L) OBVIOUS
  <2>3. at[m] \in Nat /\ at[m - 1] \in Nat /\ at[m] = at[m - 1] + Room(T[m]) BY <1>1, <1>3, <2>2 DEF Stands
  <2>4. T[m] \in Branches => at[m] - 1 > 0
    <3>1. m > 1 => at[0] < at[m - 1] BY <1>2, <1>5, <2>2
    <3>2. T[m] \in Branches => Room(T[m]) = 2 BY DEF Room
    <3>3. m > 1 => 0 < at[m - 1] BY <1>3, <3>1
    <3> HIDE DEF n
    <3> QED BY <2>1, <2>3, <3>2, <3>3
  <2>5. CASE m = L
    <3>1. q.block_vect[at[m]].block_type = U[m] /\ U[m] \in Branches /\ U[m] # "bt_condition"
      BY <1>3, <2>5 DEF Branches
    <3>2. at[m] - 1 \in 1..(n - 1)
      <4>1. at[m] = n /\ at[m] - 1 > 0 BY <1>3, <2>4, <2>5
      <4> HIDE DEF n
      <4> QED BY <1>2, <4>1
    <3> QED BY <2>1, <2>5, <3>1, <3>2 DEF SameTypes
  <2>6. CASE m # L
    <3>4. m \in 1..(L - 1) /\ m < L BY <2>6
    <3>5. at[m] < at[L] BY <1>2, <1>5, <2>2, <3>4
    <3>1. m \in 1..(L - 1) /\ U[m] = T[m] /\ at[m] < n BY <1>3, <3>4, <3>5
    <3>2. at[m] \in 1..(n - 1)
      <4>1. at[0] < at[m] BY <1>2, <1>5, <2>2
      <4> HIDE DEF n
      <4> QED BY <1>2, <1>3, <2>3, <3>1, <4>1
    <3>3. T[m] \in Branches => at[m] - 1 \in 1..(n - 1)
      <4> HIDE DEF n
      <4> QED BY <1>2, <2>3, <2>4, <3>2
    <3> QED BY <2>1, <3>1, <3>2, <3>3 DEF SameTypes
  <2> QED BY <2>5, <2>6
<1>7. Stands(q, L, U, at) BY <1>3, <1>4, <1>5, <1>6 DEF Stands
<1> QED BY <1>7 DEF Stack

-----------------------------------------------------------------------------
(* The variables and the blocks they are in: in order, in none that is a     *)
(* condition; while a routine is compiled its own are those in a block.      *)
InBlocks(r) ==
  \A i \in 1..Len(r.vars_vect) :
    /\ r.vars_vect[i].in_block <= Len(r.block_vect)
    /\ r.vars_vect[i].in_block > 0 => r.block_vect[r.vars_vect[i].in_block].block_type # "bt_condition"
(* Variables of outer blocks are before those of inner ones.                 *)
InOrder(r) ==
  \A i, j \in 1..Len(r.vars_vect) : i < j => r.vars_vect[i].in_block <= r.vars_vect[j].in_block
(* A routine's variables are those in some block while it is compiled; the   *)
(* main part has no others.                                                  *)
InAreas(r) ==
  \A i \in 1..Len(r.vars_vect) :
    /\ r.vars_vect[i].subs_body => r.subs_body
    /\ r.subs_body => (r.vars_vect[i].subs_body <=> r.vars_vect[i].in_block > 0)
(* Variables and the blocks they are in.                                     *)
VarsIn(r) ==
  /\ r.func_info # NULL => r.block_vect # <<>>
  /\ InBlocks(r) /\ InOrder(r) /\ InAreas(r)

(* The same variables in the same blocks.                                    *)
LEMMA VarsSame ==
  ASSUME NEW r, Sound(r), VarsIn(r), NEW q, Sound(q), q.vars_vect = r.vars_vect,
         q.func_info = r.func_info, q.subs_body = r.subs_body,
         Len(q.block_vect) >= Len(r.block_vect), SameTypes(r, q, Len(r.block_vect))
  PROVE  VarsIn(q)
<1>1. /\ Len(r.block_vect) \in Nat /\ Len(q.block_vect) \in Nat
      /\ r.block_vect \in Seq(BlockType) /\ q.block_vect \in Seq(BlockType)
  BY NumbersAre DEF Sound, Result
<1>2. q.func_info # NULL => q.block_vect # <<>> BY <1>1 DEF VarsIn
<1>3. InBlocks(q)
  <2> SUFFICES ASSUME NEW i \in 1..Len(q.vars_vect)
               PROVE  /\ q.vars_vect[i].in_block <= Len(q.block_vect)
                      /\ q.vars_vect[i].in_block > 0 =>
                           q.block_vect[q.vars_vect[i].in_block].block_type # "bt_condition"
    BY DEF InBlocks
  <2>1. PICK k \in Nat : k = q.vars_vect[i].in_block BY VarIs
  <2>2. /\ k <= Len(r.block_vect)
        /\ k > 0 => r.block_vect[k].block_type # "bt_condition"
    BY <2>1 DEF VarsIn, InBlocks
  <2>3. k > 0 => k \in 1..Len(r.block_vect) BY <1>1, <2>2
  <2>4. k > 0 => q.block_vect[k].block_type = r.block_vect[k].block_type BY <2>3 DEF SameTypes
  <2>5. k <= Len(q.block_vect) BY <1>1, <2>2
  <2> QED BY <2>1, <2>2, <2>4, <2>5
<1> QED BY <1>2, <1>3 DEF VarsIn, InOrder, InAreas

(* A declaration in the innermost block, which is no condition.              *)
LEMMA VarsGain ==
  ASSUME NEW r, Sound(r), VarsIn(r), NEW q, Sound(q), NEW size, Gains(r, q, size),
         q.func_info = r.func_info, q.subs_body = r.subs_body, q.block_vect = r.block_vect,
         r.block_vect # <<>> => Block(r).block_type # "bt_condition"
  PROVE  VarsIn(q)
<1> DEFINE n == Len(r.vars_vect)
           b == Len(r.block_vect)
<1>1. n \in Nat /\ b \in Nat /\ r.block_vect \in Seq(BlockType) BY NumbersAre DEF Sound, Result
<1>2. /\ Len(q.vars_vect) = n + 1
      /\ \A k \in 1..n : q.vars_vect[k] = r.vars_vect[k]
      /\ q.vars_vect[n + 1].in_block = b /\ q.vars_vect[n + 1].subs_body = r.subs_body
  BY DEF Gains
<1>3. r.subs_body => b > 0 BY <1>1 DEF VarsIn, Sound, RoutineRefs
<1>4. b > 0 => r.block_vect[b].block_type # "bt_condition" BY <1>1 DEF Block, Last
<1> HIDE DEF n, b
<1>5. \A i \in 1..(n + 1) : i \in 1..n \/ i = n + 1 BY <1>1
<1>6. \A i \in 1..n : r.vars_vect[i].in_block \in Nat /\ r.vars_vect[i].in_block <= b
  BY VarIs DEF VarsIn, InBlocks, n, b
<1>7. InBlocks(q)
  <2> SUFFICES ASSUME NEW i \in 1..(n + 1)
               PROVE  /\ q.vars_vect[i].in_block <= b
                      /\ q.vars_vect[i].in_block > 0 =>
                           r.block_vect[q.vars_vect[i].in_block].block_type # "bt_condition"
    BY <1>2 DEF InBlocks, b
  <2>1. CASE i = n + 1 BY <1>1, <1>2, <1>4, <2>1
  <2>2. CASE i \in 1..n BY <1>2, <2>2 DEF VarsIn, InBlocks, n, b
  <2> QED BY <1>5, <2>1, <2>2
<1>8. InOrder(q)
  <2> SUFFICES ASSUME NEW i \in 1..(n + 1), NEW j \in 1..(n + 1), i < j
               PROVE  q.vars_vect[i].in_block <= q.vars_vect[j].in_block
    BY <1>2 DEF InOrder
  <2>1. i \in 1..n BY <1>1
  <2>2. CASE j = n + 1 BY <1>2, <1>6, <2>1, <2>2
  <2>3. CASE j \in 1..n BY <1>2, <2>1, <2>3 DEF VarsIn, InOrder, n
  <2> QED BY <1>5, <2>2, <2>3
<1>9. InAreas(q)
  <2> SUFFICES ASSUME NEW i \in 1..(n + 1)
               PROVE  /\ q.vars_vect[i].subs_body => r.subs_body
                      /\ r.subs_body => (q.vars_vect[i].subs_body <=> q.vars_vect[i].in_block > 0)
    BY <1>2 DEF InAreas
  <2>1. CASE i = n + 1 BY <1>2, <1>3, <2>1
  <2>2. CASE i \in 1..n BY <1>2, <2>2 DEF VarsIn, InAreas, n
  <2> QED BY <1>5, <2>1, <2>2
<1> QED BY <1>7, <1>8, <1>9 DEF VarsIn

(* A routine begins: its parameters are the first variables of its area, in  *)
(* its own block; what the main part has on the heap is set aside.           *)
Enrols(r, q) ==
  LET n == Len(r.vars_vect)
      m == Len(q.vars_vect)
  IN  /\ m >= n
      /\ \A k \in 1..n : q.vars_vect[k] = r.vars_vect[k]
      /\ \A k \in (n + 1)..m :
           /\ q.vars_vect[k].mem_size = FptBytes
           /\ q.vars_vect[k].in_block = Len(r.block_vect) + 1
           /\ q.vars_vect[k].subs_body = TRUE
           /\ q.vars_vect[k].mem_offs = FptBytes * (k - n - 1)
      /\ q.heap_pnt = FptBytes * (m - n) /\ q.heap_memory_max = q.heap_pnt
      /\ q.heap_pnt_back = r.heap_pnt /\ q.heap_memory_max_back = r.heap_memory_max
      /\ q.heap_memory_max_funcs = r.heap_memory_max_funcs
      /\ q.subs_body = TRUE /\ q.func_info # NULL
      /\ Len(q.block_vect) = Len(r.block_vect) + 1
      /\ SameTypes(r, q, Len(r.block_vect))
      /\ q.block_vect[Len(q.block_vect)].block_type = "bt_proc"

(* A routine that starts declares its parameters in its block.               *)
LEMMA StartEnrols ==
  ASSUME NEW r, Sound(r), NEW q, StartsBody(r, q)
  PROVE  Enrols(r, q)
<1>1. PICK o, b, p : /\ Opens(r, o, "bt_proc") /\ StartsRoutine(o, b) /\ Adds(b, p) /\ Emits(p, q)
  BY DEF StartsBody
<1>2. /\ o.vars_vect = r.vars_vect /\ o.heap_pnt = r.heap_pnt
      /\ o.heap_memory_max = r.heap_memory_max
      /\ o.heap_memory_max_funcs = r.heap_memory_max_funcs
      /\ Len(o.block_vect) = Len(r.block_vect) + 1
      /\ SameTypes(r, o, Len(r.block_vect))
      /\ o.block_vect[Len(o.block_vect)].block_type = "bt_proc"
      /\ Sound(o)
  BY <1>1 DEF Opens, SameVars, SameRoutine, SameTypes, Last
<1>3. /\ b.vars_vect = o.vars_vect /\ b.block_vect = o.block_vect
      /\ b.heap_memory_max = 0 /\ b.heap_memory_max_back = o.heap_memory_max
      /\ b.heap_pnt = 0 /\ b.heap_pnt_back = o.heap_pnt
      /\ b.heap_memory_max_funcs = o.heap_memory_max_funcs
      /\ b.subs_body = TRUE /\ Sound(b)
  BY <1>1 DEF StartsRoutine, SameBlocks
<1>4. b.func_info # NULL BY <1>3 DEF Sound, RoutineRefs
<1>5. Sound(p) /\ AddsOnly(b, p) BY <1>1 DEF Adds
<1>6. /\ p.block_vect = b.block_vect /\ p.func_info = b.func_info /\ p.subs_body = b.subs_body
      /\ p.heap_pnt_back = b.heap_pnt_back /\ p.heap_memory_max_back = b.heap_memory_max_back
      /\ p.heap_memory_max_funcs = b.heap_memory_max_funcs
  BY <1>5 DEF AddsOnly, SameBlocks
<1>7. /\ q.vars_vect = p.vars_vect /\ q.heap_pnt = p.heap_pnt /\ q.heap_memory_max = p.heap_memory_max
      /\ q.block_vect = p.block_vect /\ q.func_info = p.func_info /\ q.subs_body = p.subs_body
      /\ q.heap_pnt_back = p.heap_pnt_back /\ q.heap_memory_max_back = p.heap_memory_max_back
      /\ q.heap_memory_max_funcs = p.heap_memory_max_funcs
  BY <1>1 DEF Emits, Kept, SameVars, SameRoutine, SameBlocks
<1>8. PICK n \in Nat : n = Len(r.vars_vect) BY NumbersAre
<1>9. PICK m \in Nat : m = Len(q.vars_vect) BY <1>5, <1>7, NumbersAre
<1>10. Len(b.vars_vect) = n /\ Len(p.vars_vect) = m /\ b.vars_vect = r.vars_vect
  BY <1>2, <1>3, <1>7, <1>8, <1>9
<1>11. /\ m >= n
       /\ \A k \in 1..n : p.vars_vect[k] = b.vars_vect[k]
       /\ \A k \in (n + 1)..m :
            /\ p.vars_vect[k].mem_size = FptBytes
            /\ p.vars_vect[k].in_block = Len(b.block_vect)
            /\ p.vars_vect[k].subs_body = b.subs_body
            /\ p.vars_vect[k].mem_offs = b.heap_pnt + FptBytes * (k - n - 1)
       /\ p.heap_pnt = b.heap_pnt + FptBytes * (m - n)
       /\ p.heap_memory_max = IF m = n THEN b.heap_memory_max
                              ELSE Greatest(b.heap_memory_max, p.heap_pnt)
  BY <1>1, <1>10 DEF Adds
<1>12. FptBytes \in Nat BY DEF FptBytes
<1>13. \A k \in (n + 1)..m : p.vars_vect[k].mem_offs = FptBytes * (k - n - 1)
  <2> SUFFICES ASSUME NEW k \in (n + 1)..m PROVE p.vars_vect[k].mem_offs = FptBytes * (k - n - 1)
    OBVIOUS
  <2>1. FptBytes * (k - n - 1) \in Int BY <1>12
  <2> QED BY <1>3, <1>11, <2>1
<1>14. p.heap_pnt = FptBytes * (m - n) /\ p.heap_pnt \in Nat
  <2>1. FptBytes * (m - n) \in Nat
    <3>1. m - n \in Nat BY <1>11
    <3> QED BY <3>1, <1>12
  <2> QED BY <1>3, <1>11, <2>1
<1>15. p.heap_memory_max = p.heap_pnt
  <2>1. CASE m = n
    <3>1. FptBytes * 0 = 0 /\ m - n = 0 BY <1>12, <2>1
    <3> QED BY <1>3, <1>11, <1>14, <2>1, <3>1
  <2>2. CASE m # n BY <1>3, <1>11, <1>14, <2>2 DEF Greatest
  <2> QED BY <2>1, <2>2
<1>16. \A k \in (n + 1)..m :
         /\ q.vars_vect[k].mem_size = FptBytes
         /\ q.vars_vect[k].in_block = Len(r.block_vect) + 1
         /\ q.vars_vect[k].subs_body = TRUE
         /\ q.vars_vect[k].mem_offs = FptBytes * (k - n - 1)
  BY <1>2, <1>3, <1>7, <1>11, <1>13, SMTT(30)
<1>17. /\ q.block_vect = o.block_vect BY <1>3, <1>6, <1>7
<1>18. /\ q.heap_pnt = FptBytes * (m - n) /\ q.heap_memory_max = q.heap_pnt
       /\ q.heap_pnt_back = r.heap_pnt /\ q.heap_memory_max_back = r.heap_memory_max
       /\ q.heap_memory_max_funcs = r.heap_memory_max_funcs
       /\ q.subs_body = TRUE /\ q.func_info # NULL
  BY <1>2, <1>3, <1>4, <1>6, <1>7, <1>14, <1>15
<1>19. /\ Len(q.block_vect) = Len(r.block_vect) + 1
       /\ SameTypes(r, q, Len(r.block_vect))
       /\ q.block_vect[Len(q.block_vect)].block_type = "bt_proc"
  BY <1>2, <1>17 DEF SameTypes
<1>20. \A k \in 1..n : q.vars_vect[k] = r.vars_vect[k] BY <1>7, <1>10, <1>11
<1> QED BY <1>8, <1>9, <1>11, <1>16, <1>18, <1>19, <1>20, Zenon DEF Enrols

(* And they are in order.                                                    *)
LEMMA VarsBegin ==
  ASSUME NEW r, Sound(r), VarsIn(r), NEW q, Sound(q), Enrols(r, q),
         r.block_vect = <<>>, r.func_info = NULL
  PROVE  VarsIn(q)
<1>1. PICK n \in Nat : n = Len(r.vars_vect) BY NumbersAre
<1>2. PICK m \in Nat : m = Len(q.vars_vect) BY NumbersAre
<1>3. /\ \A k \in 1..n : q.vars_vect[k] = r.vars_vect[k]
      /\ \A k \in (n + 1)..m : q.vars_vect[k].in_block = Len(r.block_vect) + 1
                               /\ q.vars_vect[k].subs_body = TRUE
      /\ q.subs_body = TRUE
      /\ Len(q.block_vect) = Len(r.block_vect) + 1
      /\ q.block_vect[Len(q.block_vect)].block_type = "bt_proc"
  BY <1>1, <1>2 DEF Enrols
<1>4. Len(r.block_vect) = 0 /\ Len(q.block_vect) = 1 /\ q.block_vect # <<>>
  <2>1. Len(r.block_vect) = 0 OBVIOUS
  <2>2. Len(q.block_vect) = 1 BY <1>3, <2>1
  <2>3. q.block_vect \in Seq(BlockType) BY DEF Sound, Result
  <2> QED BY <2>1, <2>2, <2>3, SMTT(30)
<1>5. r.subs_body = FALSE BY DEF Sound, RoutineRefs, Result
<1>6. \A k \in 1..m : k \in 1..n \/ k \in (n + 1)..m BY <1>1, <1>2
<1>7. \A k \in 1..n : q.vars_vect[k].in_block = 0 /\ q.vars_vect[k].subs_body = FALSE
  <2> SUFFICES ASSUME NEW k \in 1..n
               PROVE  r.vars_vect[k].in_block = 0 /\ r.vars_vect[k].subs_body = FALSE
    BY <1>3
  <2>1. r.vars_vect[k].in_block \in Nat /\ r.vars_vect[k].subs_body \in BOOLEAN BY <1>1, VarIs
  <2>2. r.vars_vect[k].in_block <= 0 BY <1>1, <1>4 DEF VarsIn, InBlocks
  <2>3. ~r.vars_vect[k].subs_body BY <1>1, <1>5 DEF VarsIn, InAreas
  <2> QED BY <2>1, <2>2, <2>3
<1>8. \A k \in (n + 1)..m : q.vars_vect[k].in_block = 1 /\ q.vars_vect[k].subs_body = TRUE
  BY <1>3, <1>4
<1>9. InBlocks(q) BY <1>2, <1>3, <1>4, <1>6, <1>7, <1>8 DEF InBlocks
<1>10. InOrder(q)
  <2> SUFFICES ASSUME NEW i \in 1..m, NEW j \in 1..m, i < j
               PROVE  q.vars_vect[i].in_block <= q.vars_vect[j].in_block
    BY <1>2 DEF InOrder
  <2>1. CASE i \in 1..n BY <1>6, <1>7, <1>8, <2>1
  <2>2. CASE i \in (n + 1)..m
    <3>1. j \in (n + 1)..m BY <2>2
    <3> QED BY <1>8, <2>2, <3>1
  <2> QED BY <1>6, <2>1, <2>2
<1>11. InAreas(q) BY <1>2, <1>3, <1>6, <1>7, <1>8 DEF InAreas
<1> QED BY <1>4, <1>9, <1>10, <1>11 DEF VarsIn

(* A block closes: it, and the condition whose last branch it is, are gone,  *)
(* the variables it had and no others; or the routine it was ends.           *)
Shrinks(r, q, left, count, blocks) ==
  /\ Returns(r, left, count)
  /\ q.vars_vect = SubSeq(r.vars_vect, 1, Len(r.vars_vect) - count)
  /\ Len(q.block_vect) = Len(r.block_vect) - blocks
  /\ SameTypes(r, q, Len(q.block_vect))
  /\ \/ /\ SameRoutine(r, q) /\ q.heap_pnt = left[count]
        /\ q.heap_memory_max = r.heap_memory_max
        /\ Len(r.block_vect) = 1 => r.func_info = NULL
     \/ /\ Len(r.block_vect) = 1 /\ blocks = 1
        /\ r.func_info # NULL /\ q.func_info = NULL /\ q.subs_body = FALSE
        /\ q.heap_memory_max_funcs = r.heap_memory_max_funcs + r.heap_memory_max
        /\ q.heap_memory_max = r.heap_memory_max_back
        /\ q.heap_pnt = r.heap_pnt_back

(* Variables have been laid out so that what they give back is theirs.       *)
GivesBack(r) ==
  \A left, count : Returns(r, left, count) => \A k \in 1..count : left[k] >= 0

(* A branch that nothing follows takes its condition's block with it.        *)
Dropped(r, behind) == IF IsBranch(Block(r)) /\ ~behind THEN 2 ELSE 1

(* A block that closes takes the last variables and one or two blocks.       *)
LEMMA CloseShrinks ==
  ASSUME NEW r, Sound(r), Proper(r), GivesBack(r), NEW behind \in BOOLEAN, NEW q, Ok(q),
         ClosesBy(r, q, behind)
  PROVE  \E left, count : Shrinks(r, q, left, count, Dropped(r, behind))
<1> DEFINE n == Len(r.block_vect)
           b == Block(r)
<1>1. PICK u, left, count, e, s, l :
        /\ Returns(r, left, count) /\ Unregisters(r, u, left, count)
        /\ Readies(u, e, n, IsBranch(b) /\ behind)
        /\ LeavesBy(e, s, n, b, behind)
        /\ EndsBy(s, l, b)
        /\ Drops(l, q, IsBranch(b) /\ ~behind)
  BY DEF ClosesBy
<1>2. n \in Nat /\ n > 0 /\ (IsBranch(b) => n > 1) BY NumbersAre DEF Proper
<1>3. /\ Sound(u) /\ SameRoutine(r, u) /\ u.block_vect = r.block_vect
      /\ u.heap_memory_max = r.heap_memory_max
      /\ u.heap_pnt = left[count]
      /\ u.vars_vect = SubSeq(r.vars_vect, 1, Len(r.vars_vect) - count)
  <2>1. \A k \in 1..count : left[k] >= 0 BY <1>1 DEF GivesBack
  <2>2. count \in 0..Len(r.vars_vect) /\ left \in [0..Len(r.vars_vect) -> Int] BY <1>1 DEF Returns
  <2>3. Len(r.vars_vect) \in Nat BY NumbersAre
  <2>4. \A k \in 1..count : k \in 0..Len(r.vars_vect) BY <2>2, <2>3
  <2>5. ~\E k \in 1..count : left[k] < 0 BY <2>1, <2>2, <2>4
  <2> QED BY <1>1, <2>5 DEF Unregisters, OnlyVars, SameBlocks
<1>4. /\ Moves(u, e) /\ SameTypes(u, e, n)
  <2>1. CASE Labelled(u, e, n - 1, FALSE)
    <3>1. \A k \in 1..n : e.block_vect[k].block_type = u.block_vect[k].block_type
      <4> SUFFICES ASSUME NEW k \in 1..n PROVE e.block_vect[k].block_type = u.block_vect[k].block_type
        OBVIOUS
      <4>1. k \in 1..Len(u.block_vect) BY <1>3
      <4>2. u.block_vect[k] \in BlockType BY <1>3, <4>1, BlockIs
      <4>3. \/ e.block_vect[k] = Ended(u.block_vect[k], FALSE, LastLabel(e))
            \/ e.block_vect[k] = u.block_vect[k]
        BY <2>1, <4>1 DEF Labelled
      <4> QED BY <4>2, <4>3 DEF Ended, BlockType
    <3> QED BY <2>1, <3>1 DEF Labelled, SameTypes
  <2>2. CASE e = u BY <1>3, <2>2, MovesNothing DEF SameTypes
  <2> QED BY <1>1, <2>1, <2>2 DEF Readies
<1>5. Sound(e) BY <1>4 DEF Moves
<1>6. Moves(e, s) /\ s.block_vect = e.block_vect
  <2>1. (\E p : Leaps(e, s, p)) \/ (\E p : Lands(e, s, p)) \/ s = e BY <1>1 DEF LeavesBy
  <2>2. ASSUME NEW p, Leaps(e, s, p) PROVE Moves(e, s) /\ s.block_vect = e.block_vect
    BY <2>2, LeapsMoves DEF Leaps, Kept, SameBlocks
  <2>3. ASSUME NEW p, Lands(e, s, p) PROVE Moves(e, s) /\ s.block_vect = e.block_vect
    BY <2>3, LandsMoves DEF Lands, SameBlocks
  <2>4. s = e => Moves(e, s) /\ s.block_vect = e.block_vect BY <1>5, MovesNothing
  <2> QED BY <2>1, <2>2, <2>3, <2>4
<1>7. Moves(s, l) /\ l.block_vect = s.block_vect
  <2>1. Sound(s) BY <1>6 DEF Moves
  <2>2. CASE Lands(s, l, b.label_end) BY <2>2, LandsMoves DEF Lands, SameBlocks
  <2>3. CASE l = s BY <2>1, <2>3, MovesNothing
  <2> QED BY <1>1, <2>2, <2>3 DEF EndsBy
<1>8. Moves(u, l) BY <1>4, <1>6, <1>7, MovesTrans, Zenon
<1>9. /\ Sound(l) /\ SameVars(u, l) /\ SameRoutine(u, l) /\ Len(l.block_vect) = n
      /\ SameTypes(r, l, n)
  BY <1>3, <1>4, <1>6, <1>7, <1>8 DEF Moves, SameTypes
<1>10. /\ l.vars_vect = SubSeq(r.vars_vect, 1, Len(r.vars_vect) - count)
       /\ l.heap_pnt = left[count] /\ l.heap_memory_max = r.heap_memory_max
       /\ SameRoutine(r, l)
  BY <1>3, <1>9 DEF SameVars, SameRoutine
<1>11. CASE Keeps(l, q) /\ Len(q.block_vect) = (IF IsBranch(b) /\ ~behind THEN n - 2 ELSE n - 1)
            /\ (\A k \in 1..Len(q.block_vect) : q.block_vect[k] = l.block_vect[k])
            /\ (n > 1 \/ (~(IsBranch(b) /\ ~behind) /\ l.func_info = NULL))
  <2>1. Len(q.block_vect) = n - Dropped(r, behind) BY <1>11 DEF Dropped
  <2>2. Dropped(r, behind) \in {1, 2} BY DEF Dropped
  <2>3. Len(q.block_vect) \in Nat BY <1>11, NumbersAre DEF Keeps
  <2>4. \A k \in 1..Len(q.block_vect) : k \in 1..n
    <3> HIDE DEF n
    <3> QED BY <1>2, <2>1, <2>2, <2>3
  <2>5. SameTypes(r, q, Len(q.block_vect)) BY <1>9, <1>11, <2>4 DEF SameTypes
  <2>6. /\ SameRoutine(r, q) /\ q.heap_pnt = left[count] /\ q.heap_memory_max = r.heap_memory_max
        /\ q.vars_vect = SubSeq(r.vars_vect, 1, Len(r.vars_vect) - count)
    BY <1>10, <1>11 DEF Keeps, SameVars, SameRoutine
  <2>7. n = 1 => r.func_info = NULL BY <1>10, <1>11 DEF SameRoutine
  <2>8. Shrinks(r, q, left, count, Dropped(r, behind))
    BY <1>1, <2>1, <2>5, <2>6, <2>7 DEF Shrinks
  <2> QED BY <2>8
<1>12. CASE EndsRoutine(l, q) /\ n = 1 /\ ~(IsBranch(b) /\ ~behind)
  <2>1. Len(q.block_vect) = 0 /\ Dropped(r, behind) = 1 BY <1>12 DEF EndsRoutine, Dropped
  <2>2. SameTypes(r, q, 0) BY DEF SameTypes
  <2>3. /\ r.func_info # NULL /\ q.func_info = NULL /\ q.subs_body = FALSE
        /\ q.heap_memory_max_funcs = r.heap_memory_max_funcs + r.heap_memory_max
        /\ q.heap_memory_max = r.heap_memory_max_back
        /\ q.heap_pnt = r.heap_pnt_back
        /\ q.vars_vect = SubSeq(r.vars_vect, 1, Len(r.vars_vect) - count)
    BY <1>10, <1>12 DEF EndsRoutine, SameRoutine
  <2>4. n - 1 = 0 BY <1>12
  <2>5. Len(q.block_vect) = n - Dropped(r, behind) BY <2>1, <2>4
  <2>6. Shrinks(r, q, left, count, Dropped(r, behind))
    BY <1>1, <1>12, <2>1, <2>2, <2>3, <2>5 DEF Shrinks
  <2> QED BY <2>6
<1> QED
  <2>1. Len(l.block_vect) = n BY <1>9
  <2>2. ~(Keeps(l, q) /\ n = 1 /\ IsBranch(b) /\ ~behind /\ ~Ok(q)) OBVIOUS
  <2> HIDE DEF n, b
  <2> QED BY <1>1, <1>11, <1>12, <2>1, <2>2 DEF Drops

(* Those that are left were declared in blocks that are still open.          *)
LEMMA VarsLeft ==
  ASSUME NEW r, Sound(r), VarsIn(r), NEW left, NEW count, Returns(r, left, count),
         NEW i \in 1..(Len(r.vars_vect) - count)
  PROVE  /\ i \in 1..Len(r.vars_vect) /\ r.vars_vect[i].in_block \in Nat
         /\ r.vars_vect[i].in_block < Len(r.block_vect)
<1>1. PICK n \in Nat : n = Len(r.vars_vect) BY NumbersAre
<1>2. Len(r.block_vect) \in Nat BY NumbersAre
<1>3. /\ count \in 0..n
      /\ count < n => r.vars_vect[n - count].in_block # Len(r.block_vect)
  BY <1>1 DEF Returns
<1>4. i \in 1..n /\ n - count \in 1..n /\ count < n /\ (i < n - count \/ i = n - count)
  BY <1>1, <1>3
<1>5. /\ r.vars_vect[i].in_block \in Nat /\ r.vars_vect[n - count].in_block \in Nat
  BY <1>1, <1>4, VarIs
<1>6. r.vars_vect[n - count].in_block <= Len(r.block_vect) BY <1>1, <1>4 DEF VarsIn, InBlocks
<1>7. r.vars_vect[i].in_block <= r.vars_vect[n - count].in_block
  <2>1. CASE i < n - count BY <1>1, <1>4, <2>1 DEF VarsIn, InOrder
  <2>2. CASE i = n - count BY <1>5, <2>2
  <2> QED BY <1>4, <2>1, <2>2
<1>8. r.vars_vect[n - count].in_block # Len(r.block_vect) BY <1>3, <1>4
<1>9. \A x, y, z \in Nat : x <= y /\ y <= z /\ y # z => x < z OBVIOUS
<1>10. r.vars_vect[i].in_block < Len(r.block_vect) BY <1>2, <1>5, <1>6, <1>7, <1>8, <1>9
<1> QED BY <1>1, <1>4, <1>5, <1>10

(* The others stay in order.                                                 *)
LEMMA VarsClose ==
  ASSUME NEW r, Sound(r), VarsIn(r), NEW q, Sound(q), NEW left, NEW count, NEW blocks \in {1, 2},
         Shrinks(r, q, left, count, blocks), Len(r.block_vect) > 0,
         blocks = 2 => /\ Len(r.block_vect) > 2
                       /\ r.block_vect[Len(r.block_vect) - 1].block_type = "bt_condition"
  PROVE  VarsIn(q)
<1>1. PICK n \in Nat : n = Len(r.vars_vect) BY NumbersAre
<1>2. PICK b \in Nat : b = Len(r.block_vect) BY NumbersAre
<1>3. count \in 0..n /\ r.vars_vect \in Seq(VarType) BY <1>1 DEF Shrinks, Returns, Sound, Result
<1>4. PICK m \in Nat : m = n - count BY <1>3
<1>5. /\ Len(q.vars_vect) = m
      /\ \A i \in 1..m : i \in 1..n /\ q.vars_vect[i] = r.vars_vect[i]
  <2>1. q.vars_vect = SubSeq(r.vars_vect, 1, m) BY <1>1, <1>4 DEF Shrinks
  <2> QED BY <1>1, <1>3, <1>4, <2>1
<1>6. /\ b > 0 /\ Len(q.block_vect) = b - blocks /\ SameTypes(r, q, b - blocks)
      /\ blocks = 2 => b > 2 /\ r.block_vect[b - 1].block_type = "bt_condition"
      /\ q.block_vect \in Seq(BlockType)
  BY <1>2 DEF Shrinks, Sound, Result
<1>7. \A i \in 1..m : /\ q.vars_vect[i].in_block \in Nat /\ q.vars_vect[i].in_block < b
                      /\ q.vars_vect[i].in_block > 0 =>
                           r.block_vect[q.vars_vect[i].in_block].block_type # "bt_condition"
                      /\ q.vars_vect[i].in_block = r.vars_vect[i].in_block
  <2> SUFFICES ASSUME NEW i \in 1..m
               PROVE  /\ r.vars_vect[i].in_block \in Nat /\ r.vars_vect[i].in_block < b
                      /\ r.vars_vect[i].in_block > 0 =>
                           r.block_vect[r.vars_vect[i].in_block].block_type # "bt_condition"
    BY <1>5
  <2>1. i \in 1..(Len(r.vars_vect) - count) /\ i \in 1..Len(r.vars_vect) BY <1>1, <1>4, <1>5
  <2>2. Returns(r, left, count) BY DEF Shrinks
  <2> QED BY <1>2, <2>1, <2>2, VarsLeft DEF VarsIn, InBlocks
<1>8. InBlocks(q)
  <2> SUFFICES ASSUME NEW i \in 1..m, NEW k, k = q.vars_vect[i].in_block
               PROVE  /\ k <= b - blocks
                      /\ k > 0 => q.block_vect[k].block_type # "bt_condition"
    BY <1>5, <1>6 DEF InBlocks
  <2>1. /\ k \in Nat /\ k < b
        /\ k > 0 => r.block_vect[k].block_type # "bt_condition"
    BY <1>7
  <2>2. k <= b - blocks
    <3>1. CASE blocks = 1 BY <2>1, <3>1
    <3>2. CASE blocks = 2
      <4>1. k = b - 1 => k > 0 BY <1>6, <2>1, <3>2
      <4>2. k # b - 1 BY <1>6, <2>1, <3>2, <4>1
      <4> QED BY <2>1, <3>2, <4>2
    <3> QED BY <3>1, <3>2
  <2>3. k > 0 => k \in 1..(b - blocks) BY <2>1, <2>2
  <2> QED BY <1>6, <2>1, <2>2, <2>3 DEF SameTypes
<1>9. InOrder(q)
  <2> SUFFICES ASSUME NEW i \in 1..m, NEW j \in 1..m, i < j
               PROVE  q.vars_vect[i].in_block <= q.vars_vect[j].in_block
    BY <1>5 DEF InOrder
  <2>1. r.vars_vect[i].in_block <= r.vars_vect[j].in_block BY <1>1, <1>5 DEF VarsIn, InOrder
  <2> QED BY <1>5, <2>1
<1>10. ASSUME SameRoutine(r, q), b = 1 => r.func_info = NULL PROVE VarsIn(q)
  <2>1. q.func_info = r.func_info /\ q.subs_body = r.subs_body BY <1>10 DEF SameRoutine
  <2>2. q.func_info # NULL => q.block_vect # <<>>
    <3> SUFFICES ASSUME q.func_info # NULL PROVE q.block_vect # <<>>
      OBVIOUS
    <3>1. b # 1 BY <1>10, <2>1
    <3>2. b - blocks > 0 BY <1>6, <3>1
    <3> QED BY <1>6, <3>2
  <2>3. InAreas(q)
    <3> SUFFICES ASSUME NEW i \in 1..m
                 PROVE  /\ r.vars_vect[i].subs_body => r.subs_body
                        /\ r.subs_body => (r.vars_vect[i].subs_body <=> r.vars_vect[i].in_block > 0)
      BY <1>5, <2>1 DEF InAreas
    <3> QED BY <1>1, <1>5 DEF VarsIn, InAreas
  <2> QED BY <1>8, <1>9, <2>2, <2>3 DEF VarsIn
<1>11. ASSUME b = 1, r.func_info # NULL, q.func_info = NULL, q.subs_body = FALSE PROVE VarsIn(q)
  <2>1. r.subs_body BY <1>11 DEF Sound, RoutineRefs
  <2>2. InAreas(q)
    <3> SUFFICES ASSUME NEW i \in 1..m PROVE ~q.vars_vect[i].subs_body
      BY <1>5, <1>11 DEF InAreas
    <3>1. ~(q.vars_vect[i].in_block > 0) BY <1>7, <1>11
    <3>2. r.vars_vect[i].subs_body <=> r.vars_vect[i].in_block > 0
      BY <1>1, <1>5, <2>1 DEF VarsIn, InAreas
    <3> QED BY <1>5, <3>1, <3>2
  <2> QED BY <1>8, <1>9, <1>11, <2>2 DEF VarsIn
<1> QED BY <1>2, <1>10, <1>11 DEF Shrinks
=============================================================================
