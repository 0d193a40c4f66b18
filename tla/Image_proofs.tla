---------------------------- MODULE Image_proofs ----------------------------
(* Proofs that the image keeps its routines whole (RoutinesWhole of          *)
(* Nesting.tla), for a source of any length. The argument follows the code   *)
(* line by line: what each step writes to the two parts of the code, what a  *)
(* line therefore does to them, and a chart of all that was compiled, which  *)
(* says where each routine begins, which routine a line is in and where its  *)
(* mark is. Every line extends the chart, and the image is the chart's two   *)
(* parts, one behind the other.                                              *)
EXTENDS Nesting_proofs

-----------------------------------------------------------------------------
(* What each step of the compiler writes to the code.                        *)

(* The instructions that are no line's, no routine's end and no jump.        *)
Ordinary == Op \ ({"DBG", "RET"} \cup JumpOps)

(* A part has a size and a sequence of instructions.                         *)
CodePart(p) == p.size \in Nat /\ \E T : p.code \in Seq(T)
(* What of a Result these lemmas look at is there.                           *)
Coded(r) ==
  /\ {"obj", "subs_body", "line_num", "func_info", "funcs_vect"} \subseteq DOMAIN r
  /\ r.subs_body \in BOOLEAN
  /\ r.obj = [a \in BOOLEAN |-> r.obj[a]]
  /\ \A a \in BOOLEAN : CodePart(r.obj[a])

(* The part p has become t: what was there is, and only operations of S are  *)
(* behind it.                                                                *)
Grown(p, t, S) ==
  /\ p.size <= t.size
  /\ Range(p.code) \subseteq Range(t.code)
  /\ \A c \in Range(t.code) \ Range(p.code) :
       c.at \in Nat /\ p.size <= c.at /\ c.at < t.size /\ c.instr.op \in S

(* Lines, routine and the entries of the routines are what they were.        *)
SameEntries(r, q) ==
  /\ q.line_num = r.line_num /\ q.func_info = r.func_info /\ q.subs_body = r.subs_body
  /\ Len(q.funcs_vect) = Len(r.funcs_vect)
  /\ \A f \in 1..Len(r.funcs_vect) :
       /\ q.funcs_vect[f].name = r.funcs_vect[f].name
       /\ q.funcs_vect[f].vm_code_offset = r.funcs_vect[f].vm_code_offset

(* Only operations of S are written, to the current part.                    *)
Writes(r, q, S) ==
  /\ Coded(q) /\ SameEntries(r, q)
  /\ \A a \in BOOLEAN : q.obj[a] = r.obj[a] \/ (a = r.subs_body /\ Grown(r.obj[a], q.obj[a], S))

(* To grow twice is to grow.                                                 *)
LEMMA GrownTrans ==
  ASSUME NEW p, p.size \in Nat, NEW t, t.size \in Nat, NEW u, u.size \in Nat, NEW S,
         Grown(p, t, S), Grown(t, u, S)
  PROVE  Grown(p, u, S)
<1>1. Range(p.code) \subseteq Range(u.code) BY DEF Grown
<1>2. ASSUME NEW c \in Range(u.code) \ Range(p.code)
      PROVE  c.at \in Nat /\ p.size <= c.at /\ c.at < u.size /\ c.instr.op \in S
  <2>1. CASE c \in Range(t.code)
    <3>1. c.at \in Nat /\ p.size <= c.at /\ c.at < t.size /\ t.size <= u.size /\ c.instr.op \in S
      BY <2>1 DEF Grown
    <3> QED BY <3>1
  <2>2. CASE c \notin Range(t.code)
    <3>1. p.size <= t.size /\ c.at \in Nat /\ t.size <= c.at /\ c.at < u.size /\ c.instr.op \in S
      BY <2>2 DEF Grown
    <3> QED BY <3>1
  <2> QED BY <2>1, <2>2
<1> QED BY <1>1, <1>2 DEF Grown

(* To write twice is to write.                                               *)
LEMMA WritesTrans ==
  ASSUME NEW r, Coded(r), NEW p, NEW q, NEW S, Writes(r, p, S), Writes(p, q, S)
  PROVE  Writes(r, q, S)
<1>1. SameEntries(r, q) BY DEF Writes, SameEntries
<1>2. ASSUME NEW a \in BOOLEAN
      PROVE  q.obj[a] = r.obj[a] \/ (a = r.subs_body /\ Grown(r.obj[a], q.obj[a], S))
  <2>1. /\ p.obj[a] = r.obj[a] \/ (a = r.subs_body /\ Grown(r.obj[a], p.obj[a], S))
        /\ q.obj[a] = p.obj[a] \/ (a = r.subs_body /\ Grown(p.obj[a], q.obj[a], S))
    BY DEF Writes, SameEntries
  <2>2. r.obj[a].size \in Nat /\ p.obj[a].size \in Nat /\ q.obj[a].size \in Nat
    BY DEF Writes, Coded, CodePart
  <2>3. Grown(r.obj[a], p.obj[a], S) /\ Grown(p.obj[a], q.obj[a], S) => Grown(r.obj[a], q.obj[a], S)
    BY <2>2, GrownTrans
  <2> QED BY <2>1, <2>3
<1> QED BY <1>1, <1>2 DEF Writes

(* To do nothing is to write nothing.                                        *)
LEMMA WritesNothing ==
  ASSUME NEW r, Coded(r), NEW S PROVE Writes(r, r, S)
BY DEF Writes, SameEntries

(* Neither the code nor the routines change.                                 *)
Silent(r, q) ==
  /\ {"obj", "subs_body", "line_num", "func_info", "funcs_vect"} \subseteq DOMAIN q
  /\ q.line_num = r.line_num /\ q.func_info = r.func_info /\ q.subs_body = r.subs_body
  /\ q.funcs_vect = r.funcs_vect /\ q.obj = r.obj

(* What is silent writes nothing.                                            *)
LEMMA SilentWrites ==
  ASSUME NEW r, Coded(r), NEW q, Silent(r, q), NEW S PROVE Writes(r, q, S)
<1>1. Coded(q) BY DEF Silent, Coded
<1>2. SameEntries(r, q) BY DEF Silent, SameEntries
<1> QED BY <1>1, <1>2 DEF Writes, Silent

(* An element behind a sequence is one element more.                         *)
LEMMA AppendedRange ==
  ASSUME NEW T, NEW s \in Seq(T), NEW x
  PROVE  Range(Append(s, x)) = Range(s) \cup {x} /\ Append(s, x) \in Seq(T \cup {x})
<1>1. s \in Seq(T \cup {x}) OBVIOUS
<1>2. Append(s, x) \in Seq(T \cup {x}) BY <1>1
<1>3. /\ DOMAIN s = 1..Len(s) /\ DOMAIN Append(s, x) = 1..(Len(s) + 1) /\ Len(s) \in Nat
      /\ \A i \in 1..Len(s) : Append(s, x)[i] = s[i]
      /\ Append(s, x)[Len(s) + 1] = x
  BY <1>1
<1>4. \A i \in 1..(Len(s) + 1) : i \in 1..Len(s) \/ i = Len(s) + 1 BY <1>3
<1>5. 1..Len(s) \subseteq 1..(Len(s) + 1) /\ Len(s) + 1 \in 1..(Len(s) + 1) BY <1>3
<1>6. Range(Append(s, x)) \subseteq Range(s) \cup {x} BY <1>3, <1>4 DEF Range
<1>7. Range(s) \cup {x} \subseteq Range(Append(s, x)) BY <1>3, <1>5 DEF Range
<1> QED BY <1>2, <1>6, <1>7

(* code_op's put writes its operation, behind what was there.                *)
LEMMA PutWrites ==
  ASSUME NEW r, Coded(r), NEW S, NEW bytes \in Nat \ {0}, NEW op \in S, NEW mod, NEW arg, NEW byte
  PROVE  Writes(r, Put(r, bytes, op, mod, arg, byte), S)
<1> DEFINE a == r.subs_body
           p == r.obj[a]
           c == [at |-> p.size, instr |-> [op |-> op, mod |-> mod, arg |-> arg, byte |-> byte]]
           t == [size |-> p.size + bytes, code |-> Append(p.code, c)]
           q == [r EXCEPT !.obj = [r.obj EXCEPT ![a] = t]]
<1>1. Put(r, bytes, op, mod, arg, byte) = q BY DEF Put
<1>2. a \in BOOLEAN /\ CodePart(p) BY DEF Coded
<1>3. PICK T : p.code \in Seq(T) BY <1>2 DEF CodePart
<1>4. p.size \in Nat BY <1>2 DEF CodePart
<1> HIDE DEF p, c
<1>5. Range(t.code) = Range(p.code) \cup {c} /\ t.code \in Seq(T \cup {c})
  BY <1>3, AppendedRange
<1>6. CodePart(t)
  <2>1. t.size \in Nat BY <1>4
  <2> QED BY <1>5, <2>1 DEF CodePart
<1>7. Grown(p, t, S)
  <2>1. c.at = p.size /\ c.instr.op = op BY DEF c
  <2> QED BY <1>4, <1>5, <2>1 DEF Grown
<1> HIDE DEF t
<1>8. q.obj = [r.obj EXCEPT ![a] = t] /\ DOMAIN q = DOMAIN r
      /\ q.line_num = r.line_num /\ q.func_info = r.func_info /\ q.subs_body = r.subs_body
      /\ q.funcs_vect = r.funcs_vect
  BY DEF Coded
<1> HIDE DEF q, a
<1>9. \A b \in BOOLEAN : IF b = a THEN q.obj[b] = t ELSE q.obj[b] = r.obj[b]
  BY <1>8 DEF Coded
<1>10. Coded(q)
  <2>1. q.obj = [b \in BOOLEAN |-> q.obj[b]] BY <1>8 DEF Coded
  <2>2. \A b \in BOOLEAN : CodePart(q.obj[b]) BY <1>6, <1>9 DEF Coded
  <2> QED BY <1>8, <2>1, <2>2 DEF Coded
<1>11. SameEntries(r, q) BY <1>8 DEF SameEntries
<1>12. \A b \in BOOLEAN : q.obj[b] = r.obj[b] \/ (b = a /\ Grown(r.obj[b], q.obj[b], S))
  BY <1>7, <1>9 DEF p
<1> QED BY <1>1, <1>10, <1>11, <1>12 DEF Writes, a

(* So does code_op.                                                          *)
LEMMA CodeWrites ==
  ASSUME NEW r, Coded(r), NEW S, NEW op \in S, NEW mod, NEW arg, NEW byte
  PROVE  Writes(r, code_op(r, op, mod, arg, byte), S)
<1>1. CmdSize(op) \in Nat \ {0} BY CmdSizeIs
<1> QED BY <1>1, PutWrites DEF code_op

(* The operations that lines emit besides marks, jumps and RET.              *)
Emitted == {"PUSH_NUM", "PUSH_VAR", "PUSH_OBJ_PNT", "INIT_bVAR", "INIT_gVAR", "POP_VAR", "COPY_TO_bARRAY",
            "COPY_TO_gARRAY", "POP_bARRAY_BY_IDX", "POP_gARRAY_BY_IDX", "CALL_PRG_FUNC", "CALL_INT_FUNC",
            "CALL_INT_PROC", "POP_TO_NOWHERE", "RETVAL", "BREAK", "END"}

(* They are ordinary.                                                        *)
LEMMA EmittedOrdinary == Emitted \subseteq Ordinary
BY DEF Emitted, Ordinary, Op, PlainOps, IdOps, WordOps, WordByteOps, JumpOps

(* An error writes nothing.                                                  *)
LEMMA ErrorWrites ==
  ASSUME NEW r, Coded(r), NEW pe, NEW S PROVE Writes(r, Error(r, pe), S)
<1>1. Silent(r, Error(r, pe)) BY DEF Silent, Coded, Error
<1> QED BY <1>1, SilentWrites

(* A new label writes nothing.                                               *)
LEMMA NewLabelWrites ==
  ASSUME NEW r, Coded(r), NEW name, NEW create \in BOOLEAN, NEW S
  PROVE  Writes(r, NewLabel(r, name, create), S)
<1>1. Silent(r, NewLabel(r, name, create)) BY DEF Silent, Coded, NewLabel
<1> QED BY <1>1, SilentWrites

(* Giving a label its place writes nothing.                                  *)
LEMMA PlaceLabelWrites ==
  ASSUME NEW r, Coded(r), NEW i, NEW S
  PROVE  Writes(r, PlaceLabel(r, i), S)
<1>1. Silent(r, PlaceLabel(r, i)) BY DEF Silent, Coded, PlaceLabel, Error
<1> QED BY <1>1, SilentWrites

(* RegisterLabel writes nothing.                                             *)
LEMMA RegisterLabelWrites ==
  ASSUME NEW r, Coded(r), NEW name, NEW create \in BOOLEAN, NEW S
  PROVE  Writes(r, RegisterLabel(r, name, create), S)
<1>1. PICK i : i = Named(r.labels_vect, name) OBVIOUS
<1> QED BY <1>1, NewLabelWrites, PlaceLabelWrites, ErrorWrites DEF RegisterLabel

(* What goes through a label's registration writes what is done behind it.   *)
LEMMA ThroughWrites ==
  ASSUME NEW r, Coded(r), NEW p, NEW done, NEW S, Writes(r, done, S)
  PROVE  Writes(r, Through(r, p, done), S)
<1>1. Coded(done) BY DEF Writes
<1>2. Silent(done, Through(r, p, done)) BY <1>1 DEF Silent, Coded, Through
<1> QED BY <1>1, <1>2, SilentWrites, WritesTrans

(* VmOp_Jmp writes a jump, or nothing.                                       *)
LEMMA JmpWrites ==
  ASSUME NEW r, Coded(r), NEW i, NEW use_condition \in BOOLEAN, NEW S, JumpOps \subseteq S
  PROVE  Writes(r, VmOp_Jmp(r, i, use_condition), S)
<1> DEFINE op     == IF use_condition THEN "JMP_POP_CMPZ" ELSE "JMP"
           marked == [r EXCEPT !.labels_vect[i].subs_body = r.subs_body]
           linked == [marked EXCEPT !.labels_vect[i].jmps = Append(@, GetCodeOffset(r) + 1)]
<1>1. op \in S BY DEF JumpOps
<1>2. Silent(r, marked) /\ Silent(r, linked) BY DEF Silent, Coded
<1>3. Writes(r, marked, S) /\ Writes(r, linked, S) BY <1>2, SilentWrites
<1>4. VmOp_Jmp(r, i, use_condition) = IF Len(r.labels_vect[i].jmps) >= LINKS_BY_LABEL_MAX
        THEN Error(Put(marked, 1, op, FALSE, i, 0), "label_invalid")
        ELSE Error(code_op(linked, op, FALSE, i, 0), "no_error")
  BY Zenon DEF VmOp_Jmp
<1> HIDE DEF op, marked, linked
<1>5. Coded(marked) /\ Coded(linked) BY <1>3 DEF Writes
<1>6. Writes(marked, Put(marked, 1, op, FALSE, i, 0), S)
  <2>1. 1 \in Nat \ {0} OBVIOUS
  <2> QED BY <1>1, <1>5, <2>1, PutWrites, Zenon
<1>7. Writes(linked, code_op(linked, op, FALSE, i, 0), S) BY <1>1, <1>5, CodeWrites, Zenon
<1>8. PICK p, q : p = Put(marked, 1, op, FALSE, i, 0) /\ q = code_op(linked, op, FALSE, i, 0) OBVIOUS
<1>9. Coded(p) /\ Coded(q) /\ Writes(r, p, S) /\ Writes(r, q, S)
  <2>1. Writes(marked, p, S) /\ Writes(linked, q, S) BY <1>6, <1>7, <1>8
  <2> QED BY <1>3, <2>1, WritesTrans DEF Writes
<1>10. Writes(r, Error(p, "label_invalid"), S) /\ Writes(r, Error(q, "no_error"), S)
  BY <1>9, ErrorWrites, WritesTrans
<1> QED BY <1>4, <1>8, <1>10

(* Allocating a variable's place writes its INIT, or nothing.                *)
LEMMA AllocateWrites ==
  ASSUME NEW r, Coded(r), NEW i, NEW S, Ordinary \subseteq S
  PROVE  Writes(r, Allocate(r, i), S)
<1> DEFINE v   == r.vars_vect[i]
           top == r.heap_pnt + v.mem_size
           op  == IF v.type = "vt_array_of_byte" THEN "INIT_bVAR" ELSE "INIT_gVAR"
           set == [r EXCEPT !.vars_vect[i].mem_offs = r.heap_pnt,
                            !.heap_pnt = top,
                            !.heap_memory_max = IF top > @ THEN top ELSE @]
           elements == IF IsArray(v) THEN v.elm_count ELSE 0
<1>1. op \in S BY EmittedOrdinary DEF Emitted
<1>2. Silent(r, set) BY DEF Silent, Coded
<1>3. Allocate(r, i) = code_op(set, op, v.subs_body, r.heap_pnt, elements) BY Zenon DEF Allocate
<1> HIDE DEF set, op, v, elements
<1>4. Writes(r, set, S) BY <1>2, SilentWrites
<1>5. Coded(set) BY <1>4 DEF Writes
<1>6. Writes(set, Allocate(r, i), S) BY <1>1, <1>3, <1>5, CodeWrites, Zenon
<1> QED BY <1>4, <1>6, WritesTrans

(* DeclareVar writes ordinary operations only.                               *)
LEMMA DeclareVarWrites ==
  ASSUME NEW r, Coded(r), NEW name, NEW type, NEW array_size, NEW S, Ordinary \subseteq S
  PROVE  Writes(r, DeclareVar(r, name, type, array_size), S)
<1> DEFINE elements == IF type = "vt_generic" THEN 1 ELSE array_size
           v == [name |-> name, type |-> type, elm_count |-> elements,
                 mem_size |-> MemSize(type, array_size), mem_offs |-> 0,
                 in_block |-> Len(r.block_vect), subs_body |-> r.subs_body]
           added == [r EXCEPT !.pe = "no_error", !.vars_vect = Append(@, v)]
<1>1. Silent(r, added) BY DEF Silent, Coded
<1>2. DeclareVar(r, name, type, array_size) =
        IF Named(r.vars_vect, name) # NULL THEN Error(r, "object_exist")
        ELSE IF elements > 0 THEN Allocate(added, Len(added.vars_vect))
        ELSE added
  BY Zenon DEF DeclareVar
<1> HIDE DEF elements, v, added
<1>3. Writes(r, added, S) BY <1>1, SilentWrites
<1>4. Coded(added) BY <1>3 DEF Writes
<1>5. Writes(added, Allocate(added, Len(added.vars_vect)), S) BY <1>4, AllocateWrites
<1>6. Writes(r, Allocate(added, Len(added.vars_vect)), S) BY <1>3, <1>5, WritesTrans
<1>7. Writes(r, Error(r, "object_exist"), S) BY ErrorWrites
<1> QED BY <1>2, <1>3, <1>6, <1>7

(* So does the late size of an array.                                        *)
LEMMA FixArraySizeWrites ==
  ASSUME NEW r, Coded(r), NEW i, NEW array_size, NEW S, Ordinary \subseteq S
  PROVE  Writes(r, FixArraySize(r, i, array_size), S)
<1> DEFINE mem_size == MemSize(r.vars_vect[i].type, array_size)
           set == [r EXCEPT !.vars_vect[i].elm_count = array_size, !.vars_vect[i].mem_size = mem_size]
<1>1. Silent(r, set) BY DEF Silent, Coded
<1>2. FixArraySize(r, i, array_size) =
        IF mem_size > 255 THEN Error(r, "syntax_invalid") ELSE Allocate(set, i)
  BY Zenon DEF FixArraySize
<1> HIDE DEF mem_size, set
<1>3. Writes(r, set, S) BY <1>1, SilentWrites
<1>4. Coded(set) BY <1>3 DEF Writes
<1>5. Writes(r, Allocate(set, i), S) BY <1>3, <1>4, AllocateWrites, WritesTrans
<1>6. Writes(r, Error(r, "syntax_invalid"), S) BY ErrorWrites
<1> QED BY <1>2, <1>5, <1>6

(* Forgetting a block's variables writes nothing.                            *)
LEMMA UnregisterWrites ==
  ASSUME NEW r, Coded(r), NEW S
  PROVE  Writes(r, UnregisterLastBlockVars(r), S)
<1>1. Silent(r, UnregisterLastBlockVars(r)) BY DEF Silent, Coded, UnregisterLastBlockVars
<1> QED BY <1>1, SilentWrites

(* VmOp_PopVar writes ordinary operations only.                              *)
LEMMA PopVarWrites ==
  ASSUME NEW r, Coded(r), NEW i, r.vars_vect[i].type \in VarKind, NEW is_object \in BOOLEAN, NEW S, Ordinary \subseteq S
  PROVE  Writes(r, VmOp_PopVar(r, i, is_object), S)
<1> DEFINE v  == r.vars_vect[i]
           op == CASE v.type = "vt_generic"          -> "POP_VAR"
                   [] v.type = "vt_array_of_byte"    -> IF is_object THEN "COPY_TO_bARRAY"
                                                        ELSE "POP_bARRAY_BY_IDX"
                   [] v.type = "vt_array_of_generic" -> IF is_object THEN "COPY_TO_gARRAY"
                                                        ELSE "POP_gARRAY_BY_IDX"
<1>1. op \in S BY EmittedOrdinary DEF Emitted, VarKind
<1>2. VmOp_PopVar(r, i, is_object) = code_op(r, op, v.subs_body, v.mem_offs, 0) BY Zenon DEF VmOp_PopVar
<1> HIDE DEF op, v
<1> QED BY <1>1, <1>2, CodeWrites, Zenon

(* So does an inline array.                                                  *)
LEMMA PushArrayWrites ==
  ASSUME NEW r, Coded(r), NEW e, NEW S, Ordinary \subseteq S
  PROVE  Writes(r, PushArray(r, e), S)
<1> DEFINE set == [r EXCEPT !.const_memory = @ + MemSize(ArrayType(e), ArrayLen)]
           v   == r.vars_vect[Named(r.vars_vect, e)]
           tag == IF e = "bytes" THEN vvt_const_byte_array_pnt ELSE vvt_const_generic_array_pnt
           own == IF v.type = "vt_array_of_byte" THEN vvt_var_byte_array_pnt ELSE vvt_var_generic_array_pnt
<1>1. "PUSH_OBJ_PNT" \in S BY EmittedOrdinary DEF Emitted
<1>2. Silent(r, set) BY DEF Silent, Coded
<1>3. PushArray(r, e) = IF e \in Arrays THEN code_op(set, "PUSH_OBJ_PNT", FALSE, r.const_memory, tag)
                        ELSE code_op(r, "PUSH_OBJ_PNT", v.subs_body, v.mem_offs, own)
  BY Zenon DEF PushArray
<1> HIDE DEF set, v, tag, own
<1>4. Writes(r, set, S) BY <1>2, SilentWrites
<1>5. Coded(set) BY <1>4 DEF Writes
<1>6. Writes(set, code_op(set, "PUSH_OBJ_PNT", FALSE, r.const_memory, tag), S)
  BY <1>1, <1>5, CodeWrites, Zenon
<1>7. Writes(r, code_op(set, "PUSH_OBJ_PNT", FALSE, r.const_memory, tag), S) BY <1>4, <1>6, WritesTrans
<1>8. Writes(r, code_op(r, "PUSH_OBJ_PNT", v.subs_body, v.mem_offs, own), S) BY <1>1, CodeWrites, Zenon
<1> QED BY <1>3, <1>7, <1>8

(* So does a variable's value.                                               *)
LEMMA PushVarWrites ==
  ASSUME NEW r, Coded(r), NEW x, NEW S, Ordinary \subseteq S
  PROVE  Writes(r, PushVar(r, x), S)
<1> DEFINE i == Named(r.vars_vect, x)
           v == r.vars_vect[i]
<1>1. "PUSH_VAR" \in S BY EmittedOrdinary DEF Emitted
<1>2. PushVar(r, x) = IF i = NULL THEN Error(r, "object_unknown")
                      ELSE IF IsArray(v) THEN Error(r, "expression_invalid")
                      ELSE code_op(r, "PUSH_VAR", v.subs_body, v.mem_offs, 0)
  BY Zenon DEF PushVar
<1> HIDE DEF i, v
<1>3. Writes(r, code_op(r, "PUSH_VAR", v.subs_body, v.mem_offs, 0), S) BY <1>1, CodeWrites, Zenon
<1> QED BY <1>2, <1>3, ErrorWrites

(* So does the count of arguments.                                           *)
LEMMA ArgNumWrites ==
  ASSUME NEW r, Coded(r), NEW S, Ordinary \subseteq S
  PROVE  Writes(r, VmOp_ArgNum(r), S)
<1>1. "PUSH_NUM" \in S BY EmittedOrdinary DEF Emitted
<1>2. Writes(r, code_op(r, "PUSH_NUM", FALSE, FptOne, 0), S) BY <1>1, CodeWrites, Zenon
<1> QED BY <1>2, Zenon DEF VmOp_ArgNum

(* So does an argument.                                                      *)
LEMMA ArgumentWrites ==
  ASSUME NEW r, Coded(r), NEW e, NEW S, Ordinary \subseteq S
  PROVE  Writes(r, Argument(r, e), S)
BY WritesNothing, ArgNumWrites, PushVarWrites DEF Argument

(* The argument of a call.                                                   *)
WrittenFrom(r, S) == {q \in Result : Writes(r, q, S)}

(* The arguments of a call write ordinary operations only.                   *)
LEMMA PushedWrites ==
  ASSUME NEW r, Sound(r), Coded(r), NEW args, Len(args) \in Nat, NEW S, Ordinary \subseteq S
  PROVE  Writes(r, Pushed(r, args), S)
<1> DEFINE n == Len(args)
           W == WrittenFrom(r, S)
<1>1. PICK g : Pushes(g, r, args) BY PushedIs
<1>2. g[0] \in W BY <1>1, WritesNothing DEF Pushes, WrittenFrom, Sound
<1>3. ASSUME NEW k \in 1..n, g[k - 1] \in W PROVE g[k] \in W
  <2>1. Writes(r, g[k - 1], S) /\ Coded(g[k - 1]) BY <1>3 DEF WrittenFrom, Writes
  <2>2. g[k] = Argument(g[k - 1], args[k]) /\ g[k] \in Result BY <1>1 DEF Pushes, Emits, Sound
  <2>3. Writes(r, g[k], S) BY <2>1, <2>2, ArgumentWrites, WritesTrans
  <2> QED BY <2>2, <2>3 DEF WrittenFrom
<1>4. g[n] \in W
  <2> HIDE DEF n, W
  <2>1. n \in Nat BY DEF n
  <2>2. \A k \in 0..n : g[k] \in W BY <2>1, <1>2, <1>3, UpTo
  <2> QED BY <2>1, <2>2
<1> QED BY <1>1, <1>4 DEF Pushes, WrittenFrom

(* A call of the routine of that name is in what follows r.                  *)
CallsTo(r, q, name) ==
  \E f \in 1..Len(r.funcs_vect) :
    /\ r.funcs_vect[f].name = name
    /\ \E c \in Range(q.obj[r.subs_body].code) :
         /\ c.instr.op = "CALL_PRG_FUNC" /\ c.instr.arg = r.funcs_vect[f].vm_code_offset
         /\ c.at \in Nat /\ r.obj[r.subs_body].size <= c.at /\ c.at < q.obj[r.subs_body].size

(* One instruction more.                                                     *)
Extended(p, t, c) ==
  /\ p.size \in Nat /\ c.at = p.size /\ t.size = p.size + CmdSize(c.instr.op)
  /\ Range(t.code) = Range(p.code) \cup {c}
(* One instruction of operation op and argument arg is put.                  *)
Puts(r, q, op, arg) ==
  \E c : /\ c.instr.op = op /\ c.instr.arg = arg
         /\ Extended(r.obj[r.subs_body], q.obj[r.subs_body], c)
         /\ \A a \in BOOLEAN : a = r.subs_body \/ q.obj[a] = r.obj[a]

(* code_op puts one instruction.                                             *)
LEMMA PutIs ==
  ASSUME NEW r, Coded(r), NEW op, NEW mod, NEW arg, NEW byte
  PROVE  Puts(r, code_op(r, op, mod, arg, byte), op, arg)
<1> DEFINE a == r.subs_body
           p == r.obj[a]
           c == [at |-> p.size, instr |-> [op |-> op, mod |-> mod, arg |-> arg, byte |-> byte]]
           t == [size |-> p.size + CmdSize(op), code |-> Append(p.code, c)]
           q == [r EXCEPT !.obj = [r.obj EXCEPT ![a] = t]]
<1>1. code_op(r, op, mod, arg, byte) = q BY DEF code_op, Put
<1>2. a \in BOOLEAN /\ CodePart(p) BY DEF Coded
<1>3. PICK T : p.code \in Seq(T) BY <1>2 DEF CodePart
<1>4. Range(Append(p.code, c)) = Range(p.code) \cup {c}
  <2> HIDE DEF p, c
  <2> QED BY <1>3, AppendedRange
<1>5. p.size \in Nat BY <1>2 DEF CodePart
<1>6. Extended(p, t, c) /\ c.instr.op = op /\ c.instr.arg = arg BY <1>4, <1>5 DEF Extended
<1> HIDE DEF t, p, c
<1>7. q.obj = [r.obj EXCEPT ![a] = t] BY DEF Coded
<1> HIDE DEF q, a
<1>8. q.obj[a] = t /\ \A b \in BOOLEAN : b = a \/ q.obj[b] = r.obj[b] BY <1>2, <1>7 DEF Coded
<1> QED BY <1>1, <1>6, <1>8 DEF Puts, a, p

(* A call's own instruction is ordinary.                                     *)
LEMMA CallPrgWrites ==
  ASSUME NEW r, Coded(r), NEW f, NEW given, NEW S, Ordinary \subseteq S
  PROVE  Writes(r, CallPrg(r, f, given), S)
<1>1. "CALL_PRG_FUNC" \in S BY EmittedOrdinary DEF Emitted
<1>2. Writes(r, code_op(r, "CALL_PRG_FUNC", FALSE, r.funcs_vect[f].vm_code_offset, 0), S)
  BY <1>1, CodeWrites, Zenon
<1> QED BY <1>2, WritesNothing, ErrorWrites DEF CallPrg

(* A call writes ordinary operations, a call of the routine among them.      *)
LEMMA CallSubWrites ==
  ASSUME NEW r, Sound(r), Coded(r), NEW name, NEW T, NEW args \in Seq(T), NEW S, Ordinary \subseteq S
  PROVE  /\ Writes(r, CallSub(r, name, args), S)
         /\ Ok(CallSub(r, name, args)) => CallsTo(r, CallSub(r, name, args), name)
<1> DEFINE f      == Named(r.funcs_vect, name)
           wanted == Len(r.funcs_vect[f].params)
           read   == IF Len(args) > wanted THEN SubSeq(args, 1, wanted) ELSE args
           q      == CallSub(r, name, args)
<1>1. r.funcs_vect \in Seq(FuncType) BY DEF Sound, Result
<1>2. f \in 0..Len(r.funcs_vect) /\ (f # NULL => r.funcs_vect[f].name = name) BY <1>1, NamedIs DEF NULL
<1>3. q = IF f = NULL THEN Error(r, "object_unknown") ELSE CallPrg(Pushed(r, read), f, Len(args))
  BY DEF CallSub
<1> SUFFICES Writes(r, q, S) /\ (Ok(q) => CallsTo(r, q, name))
  OBVIOUS
<1> HIDE DEF q, f
<1>4. CASE f = NULL
  <2>1. Writes(r, q, S) BY <1>3, <1>4, ErrorWrites
  <2>2. ~Ok(q) BY <1>3, <1>4 DEF Ok, Error, Coded, Sound, Result
  <2> QED BY <2>1, <2>2
<1>5. CASE f # NULL
  <2>1. f \in 1..Len(r.funcs_vect) BY <1>1, <1>2, <1>5 DEF NULL
  <2>2. r.funcs_vect[f].params \in Seq(Nat) BY <2>1, FuncIs
  <2>3. Len(args) \in Nat /\ wanted \in Nat BY <2>2
  <2>4. Len(args) > wanted => Len(SubSeq(args, 1, wanted)) = wanted BY <2>3
  <2>5. Len(read) \in Nat BY <2>3, <2>4
  <2> HIDE DEF read
  <2> DEFINE p == Pushed(r, read)
  <2>6. Emits(r, p) /\ Writes(r, p, S) BY <2>5, PushedSound, PushedWrites
  <2> HIDE DEF p
  <2>7. Coded(p) /\ Sound(p) BY <2>6 DEF Writes, Emits
  <2>8. Writes(p, q, S) BY <1>3, <1>5, <2>7, CallPrgWrites DEF p
  <2>9. Writes(r, q, S) BY <2>6, <2>8, WritesTrans
  <2>10. ASSUME Ok(q) PROVE CallsTo(r, q, name)
    <3> DEFINE arg == p.funcs_vect[f].vm_code_offset
               a   == p.subs_body
    <3>1. q = CallPrg(p, f, Len(args)) BY <1>3, <1>5 DEF p
    <3>2. q = code_op(p, "CALL_PRG_FUNC", FALSE, arg, 0)
      <4>1. ~Ok(Error(p, "parameters_mismatch")) BY <2>7 DEF Ok, Error, Sound, Result
      <4> QED BY <2>10, <3>1, <4>1 DEF CallPrg
    <3>3. PICK c : /\ c.instr.op = "CALL_PRG_FUNC" /\ c.instr.arg = arg
                   /\ Extended(p.obj[a], q.obj[a], c)
      <4>1. Puts(p, q, "CALL_PRG_FUNC", arg) BY <2>7, <3>2, PutIs, Zenon
      <4> QED BY <4>1 DEF Puts
    <3>4. CmdSize("CALL_PRG_FUNC") \in 1..5 BY CmdSizeIs
    <3>5. p.subs_body = r.subs_body /\ p.funcs_vect = r.funcs_vect BY <2>6 DEF Emits, Kept, SameRoutine
    <3>6. a \in BOOLEAN /\ r.obj[a].size \in Nat BY <3>5 DEF Coded, CodePart
    <3>7. r.obj[a].size <= p.obj[a].size /\ p.obj[a].size \in Nat
      <4>1. p.obj[a].size \in Nat BY <3>3 DEF Extended
      <4>2. p.obj[a] = r.obj[a] \/ Grown(r.obj[a], p.obj[a], S) BY <2>6, <3>5, <3>6 DEF Writes
      <4> QED BY <3>6, <4>1, <4>2 DEF Grown
    <3> HIDE DEF arg, a
    <3>8. c \in Range(q.obj[a].code) BY <3>3 DEF Extended
    <3>9. c.at \in Nat /\ r.obj[a].size <= c.at /\ c.at < q.obj[a].size
      BY <3>3, <3>4, <3>6, <3>7 DEF Extended
    <3>10. arg = r.funcs_vect[f].vm_code_offset /\ a = r.subs_body BY <3>5 DEF arg, a
    <3> QED BY <1>2, <1>5, <2>1, <3>3, <3>8, <3>9, <3>10 DEF CallsTo
  <2> QED BY <2>9, <2>10
<1> QED BY <1>4, <1>5

(* An expression writes ordinary operations only.                            *)
LEMMA EvaluateWrites ==
  ASSUME NEW r, Sound(r), Coded(r), NEW e \in Expressions, NEW S, Ordinary \subseteq S
  PROVE  Writes(r, Evaluate(r, e), S)
<1> DEFINE p    == code_op(r, "PUSH_NUM", FALSE, 0, 0)
           key  == code_op(p, "CALL_INT_FUNC", FALSE, func_INKEY, 0)
           var  == PushVar(r, e)
           call == CallSub(r, e, <<>>)
           err  == Error(r, "expression_invalid")
           q    == Evaluate(r, e)
<1>1. q = CASE e = "number" -> r [] e = "key" -> key [] e \in VarNames -> var
            [] e \in FuncNames -> call [] e \in Arrays -> err
  BY DEF Evaluate
<1>2. Writes(r, key, S)
  <2>1. "PUSH_NUM" \in S /\ "CALL_INT_FUNC" \in S BY EmittedOrdinary DEF Emitted
  <2>2. Writes(r, p, S) BY <2>1, CodeWrites, Zenon
  <2> HIDE DEF p
  <2>3. Coded(p) BY <2>2 DEF Writes
  <2>4. Writes(p, key, S) BY <2>1, <2>3, CodeWrites, Zenon
  <2> QED BY <2>2, <2>4, WritesTrans
<1>3. Writes(r, call, S)
  <2>1. <<>> \in Seq({}) BY EmptyIsSeq
  <2> QED BY <2>1, CallSubWrites
<1>4. Writes(r, r, S) /\ Writes(r, var, S) /\ Writes(r, err, S) BY WritesNothing, PushVarWrites, ErrorWrites
<1> SUFFICES Writes(r, q, S)
  OBVIOUS
<1> HIDE DEF q, key, var, call, err
<1>5. e \in Arrays \cup Values \cup VarNames \cup FuncNames BY BlocksAssumption
<1>6. q = r \/ q = key \/ q = var \/ q = call \/ q = err BY <1>1, <1>5 DEF Values
<1> QED BY <1>2, <1>3, <1>4, <1>6

(* So does one whose value is checked.                                       *)
LEMMA EvaluatedWrites ==
  ASSUME NEW r, Sound(r), Coded(r), NEW e \in Expressions, NEW S, Ordinary \subseteq S
  PROVE  Writes(r, Evaluated(r, e), S)
BY ArgNumWrites, EvaluateWrites DEF Evaluated

(* So does storing a value.                                                  *)
LEMMA PoppedWrites ==
  ASSUME NEW r, Sound(r), Coded(r), NEW i \in 1..Len(r.vars_vect), NEW is_object \in BOOLEAN,
         NEW S, Ordinary \subseteq S
  PROVE  Writes(r, VmOp_PopVar(r, i, is_object), S) /\ Writes(r, Popped(r, i, is_object), S)
<1>1. r.vars_vect[i].type \in VarKind BY VarIs
<1> QED BY <1>1, PopVarWrites, WritesNothing DEF Popped

(* So does an assignment.                                                    *)
LEMMA AssignedWrites ==
  ASSUME NEW r, Sound(r), Coded(r), NEW i \in 1..Len(r.vars_vect), NEW e \in Expressions,
         NEW auto_size \in BOOLEAN, auto_size => i = Len(r.vars_vect),
         NEW is_object \in BOOLEAN, NEW flags, NEW S, Ordinary \subseteq S
  PROVE  Writes(r, Assigned(r, i, e, auto_size, is_object, flags), S)
<1> DEFINE pushed == PushArray(r, e)
           fixed  == FixArraySize(pushed, i, ArrayLen)
           object == IsObject(r, e, flags)
           q      == Assigned(r, i, e, auto_size, is_object, flags)
<1> SUFFICES Writes(r, q, S)
  OBVIOUS
<1>1. CASE object
  <2>1. q = IF auto_size
            THEN IF r.vars_vect[i].type # ArrayType(e) THEN Error(pushed, "syntax_invalid")
                 ELSE Popped(fixed, i, TRUE)
            ELSE IF is_object THEN VmOp_PopVar(pushed, i, TRUE) ELSE Error(pushed, "syntax_invalid")
    BY <1>1 DEF Assigned
  <2>2. e \in Arrays \/ IsArrayVar(r, e) BY <1>1, ObjectIs
  <2>3. Emits(r, pushed) /\ Writes(r, pushed, S) BY <2>2, PushArraySound, PushArrayWrites
  <2> HIDE DEF pushed, q
  <2>4. Sound(pushed) /\ Coded(pushed) /\ i \in 1..Len(pushed.vars_vect) /\ Len(pushed.vars_vect) = Len(r.vars_vect)
    BY <2>3 DEF Emits, Kept, SameVars, Writes
  <2>5. Writes(r, VmOp_PopVar(pushed, i, TRUE), S) BY <2>3, <2>4, PoppedWrites, WritesTrans
  <2>6. Writes(r, Error(pushed, "syntax_invalid"), S) BY <2>3, <2>4, ErrorWrites, WritesTrans
  <2>7. ASSUME auto_size PROVE Writes(r, Popped(fixed, i, TRUE), S)
    <3>1. i = Len(pushed.vars_vect) /\ i > 0 /\ ArrayLen \in Int
      BY <2>4, <2>7, BlocksAssumption
    <3>2. Writes(r, fixed, S) BY <2>3, <2>4, FixArraySizeWrites, WritesTrans
    <3>3. Sound(fixed) /\ Len(fixed.vars_vect) = i
      <4>1. \/ Marks(pushed, fixed, "syntax_invalid")
            \/ Resizes(pushed, fixed, MemSize(pushed.vars_vect[i].type, ArrayLen))
        BY <2>4, <3>1, FixArraySizeSound
      <4> QED BY <3>1, <4>1 DEF Marks, Resizes, Emits, Kept, SameVars
    <3> HIDE DEF fixed
    <3>4. Coded(fixed) /\ i \in 1..Len(fixed.vars_vect) BY <3>1, <3>2, <3>3 DEF Writes
    <3> QED BY <3>2, <3>3, <3>4, PoppedWrites, WritesTrans
  <2> QED BY <2>1, <2>5, <2>6, <2>7
<1>2. CASE ~object /\ "value" \in flags
  <2> DEFINE p == Evaluated(r, e)
  <2>1. q = Popped(p, i, is_object)
    BY <1>2 DEF Assigned
  <2>2. Emits(r, p) /\ Writes(r, p, S) BY EvaluatedSound, EvaluatedWrites
  <2> HIDE DEF p, q
  <2>3. Sound(p) /\ Coded(p) /\ i \in 1..Len(p.vars_vect) BY <2>2 DEF Emits, Kept, SameVars, Writes
  <2>4. Writes(p, Popped(p, i, is_object), S) BY <2>3, PoppedWrites
  <2> QED BY <2>1, <2>2, <2>4, WritesTrans
<1>3. CASE ~object /\ "value" \notin flags
  <2>1. q = Error(r, "expression_invalid") BY <1>3 DEF Assigned
  <2> QED BY <2>1, ErrorWrites
<1> QED BY <1>1, <1>2, <1>3

(* So does one part of a PRINT.                                              *)
LEMMA PartWrites ==
  ASSUME NEW r, Coded(r), NEW S, Ordinary \subseteq S, NEW p, Sound(p.r), Writes(r, p.r, S), NEW e \in Expressions
  PROVE  Writes(r, Part(p, e).r, S)
<1>1. Coded(p.r) BY DEF Writes
<1>2. Part(p, e).r = IF ~Ok(p.r) THEN p.r
                     ELSE IF IsObject(p.r, e, ALL) THEN PushArray(p.r, e) ELSE Evaluated(p.r, e)
  BY DEF Part
<1>3. Writes(p.r, PushArray(p.r, e), S) BY <1>1, PushArrayWrites
<1>4. Writes(p.r, Evaluated(p.r, e), S) BY <1>1, EvaluatedWrites
<1>5. Writes(r, PushArray(p.r, e), S) /\ Writes(r, Evaluated(p.r, e), S) BY <1>3, <1>4, WritesTrans
<1> QED BY <1>2, <1>5

(* So do all its parts.                                                      *)
LEMMA PartsWrites ==
  ASSUME NEW r, Sound(r), Coded(r), NEW S, Ordinary \subseteq S, NEW parts \in Seq(Expressions), NEW p \in PartOf(r), p.r = r
  PROVE  Writes(r, Parts(p, parts).r, S)
<1> DEFINE n == Len(parts)
           W == {t \in PartOf(r) : Writes(r, t.r, S)}
<1>1. PICK g : Prints(g, r, p, parts) BY PartsAre
<1>2. g[0] \in W BY <1>1, WritesNothing DEF Prints
<1>3. ASSUME NEW k \in 1..n, g[k - 1] \in W PROVE g[k] \in W
  <2>1. Writes(r, g[k - 1].r, S) /\ Sound(g[k - 1].r) BY <1>3 DEF PartOf, Emits
  <2>2. g[k] = Part(g[k - 1], parts[k]) /\ g[k] \in PartOf(r) /\ parts[k] \in Expressions BY <1>1 DEF Prints
  <2>3. Writes(r, g[k].r, S) BY <2>1, <2>2, PartWrites
  <2> QED BY <2>2, <2>3
<1>4. g[n] \in W
  <2> HIDE DEF n, W
  <2>1. n \in Nat BY DEF n
  <2>2. \A k \in 0..n : g[k] \in W BY <2>1, <1>2, <1>3, UpTo
  <2> QED BY <2>1, <2>2
<1> QED BY <1>1, <1>4 DEF Prints

(* So does the PRINT's own command.                                          *)
LEMMA PrintWrites ==
  ASSUME NEW r, Coded(r), NEW S, Ordinary \subseteq S, NEW p, Writes(r, p.r, S)
  PROVE  Writes(r, VmOp_Spc_Cmds(p), S)
<1>1. "PUSH_OBJ_PNT" \in S /\ "CALL_INT_PROC" \in S BY EmittedOrdinary DEF Emitted
<1> DEFINE low  == p.value % 65536
           high == p.value \div 65536
           t    == code_op(p.r, "PUSH_OBJ_PNT", FALSE, low, high)
<1>3. VmOp_Spc_Cmds(p) = IF ~Ok(p.r) THEN p.r ELSE code_op(t, "CALL_INT_PROC", FALSE, cmd_id_PRINT, 0)
  BY DEF VmOp_Spc_Cmds
<1> HIDE DEF low, high
<1>4. Coded(p.r) BY DEF Writes
<1>5. Writes(p.r, t, S) BY <1>1, <1>4, CodeWrites, Zenon
<1> HIDE DEF t
<1>6. Coded(t) BY <1>5 DEF Writes
<1>7. Writes(t, code_op(t, "CALL_INT_PROC", FALSE, cmd_id_PRINT, 0), S) BY <1>1, <1>6, CodeWrites, Zenon
<1> QED BY <1>3, <1>4, <1>5, <1>6, <1>7, WritesTrans

(* A block's labels write nothing.                                           *)
LEMMA LabelBlockWrites ==
  ASSUME NEW r, Coded(r), NEW n, NEW begin \in BOOLEAN, NEW S
  PROVE  Writes(r, LabelBlock(r, n, begin), S)
<1>1. PICK p : p = NewLabel(r, AutoName, begin) OBVIOUS
<1>2. Writes(r, p, S) BY <1>1, NewLabelWrites
<1>3. Coded(p) BY <1>2 DEF Writes
<1>4. Silent(p, LabelBlock(r, n, begin)) BY <1>1, <1>3 DEF Silent, Coded, LabelBlock
<1> QED BY <1>2, <1>3, <1>4, SilentWrites, WritesTrans

(* Placing a block's end writes nothing.                                     *)
LEMMA PlaceEndWrites ==
  ASSUME NEW r, Coded(r), NEW p, NEW S PROVE Writes(r, PlaceEnd(r, p), S)
BY PlaceLabelWrites, ThroughWrites DEF PlaceEnd

(* A jump to a block's label writes a jump.                                  *)
LEMMA JmpToWrites ==
  ASSUME NEW r, Coded(r), NEW p, NEW use_condition \in BOOLEAN, NEW S, JumpOps \subseteq S
  PROVE  Writes(r, JmpTo(r, p, use_condition), S)
BY JmpWrites, ThroughWrites DEF JmpTo

(* Opening a block writes nothing.                                           *)
LEMMA OpenWrites ==
  ASSUME NEW r, Coded(r), NEW type, NEW S
  PROVE  Writes(r, open_block(r, type), S)
<1> DEFINE opened == [r EXCEPT !.block_id = @ + 1,
                               !.block_vect = Append(@, [block_type |-> type, label_begin |-> NoLabel,
                                                         label_end |-> NoLabel])]
<1>1. Silent(r, opened) BY DEF Silent, Coded
<1>2. open_block(r, type) = IF type \in {"bt_if", "bt_loop"}
                            THEN LabelBlock(opened, Len(opened.block_vect), FALSE) ELSE opened
  BY Zenon DEF open_block
<1> HIDE DEF opened
<1>3. Writes(r, opened, S) BY <1>1, SilentWrites
<1>4. Coded(opened) /\ FALSE \in BOOLEAN BY <1>3 DEF Writes
<1>5. Writes(opened, LabelBlock(opened, Len(opened.block_vect), FALSE), S)
  BY <1>4, LabelBlockWrites, Zenon
<1> QED BY <1>2, <1>3, <1>5, WritesTrans

(* A condition's test writes a jump.                                         *)
LEMMA TestWrites ==
  ASSUME NEW r, Coded(r), NEW S, JumpOps \subseteq S
  PROVE  Writes(r, TestCondition(r), S)
<1>1. TRUE \in BOOLEAN OBVIOUS
<1>2. PICK p : p = JmpTo(r, Block(r).label_end, TRUE) OBVIOUS
<1>3. Writes(r, p, S) BY <1>1, <1>2, JmpToWrites, Zenon
<1>4. Coded(p) BY <1>3 DEF Writes
<1>5. Writes(p, Error(p, "no_error"), S) BY <1>4, ErrorWrites
<1> QED BY <1>2, <1>3, <1>5, WritesTrans, Zenon DEF TestCondition

(* begin_block writes a jump at most.                                        *)
LEMMA BeginWrites ==
  ASSUME NEW r, Coded(r), NEW past_cmd, NEW early_opened \in BOOLEAN, NEW e, NEW S, JumpOps \subseteq S
  PROVE  Writes(r, begin_block(r, past_cmd, early_opened, e), S)
<1> DEFINE type   == CASE past_cmd = "IF"    -> "bt_if"
                       [] past_cmd = "ELSE"  -> "bt_else"
                       [] past_cmd = "WHILE" -> "bt_loop"
                       [] OTHER              -> "bt_none"
           opened == IF early_opened THEN r ELSE open_block(r, type)
<1>1. begin_block(r, past_cmd, early_opened, e) =
        IF past_cmd \in {"IF", "WHILE"} /\ e # "number" THEN TestCondition(opened) ELSE opened
  BY Zenon DEF begin_block
<1> HIDE DEF type
<1>2. Writes(r, opened, S) BY OpenWrites, WritesNothing
<1> HIDE DEF opened
<1>3. Coded(opened) BY <1>2 DEF Writes
<1>4. Writes(opened, TestCondition(opened), S) BY <1>3, TestWrites
<1> QED BY <1>1, <1>2, <1>4, WritesTrans

(* IF before its condition writes nothing.                                   *)
LEMMA IfWrites ==
  ASSUME NEW r, Coded(r), NEW junk \in BOOLEAN, NEW S
  PROVE  Writes(r, IF_command(r, junk), S)
BY WritesNothing, ErrorWrites, OpenWrites DEF IF_command

(* IF's condition and its block write ordinary operations and jumps.         *)
LEMMA IfRestWrites ==
  ASSUME NEW r, Sound(r), Coded(r), NEW e \in Expressions, NEW S, Ordinary \cup JumpOps \subseteq S
  PROVE  Writes(r, IF_rest(r, e), S)
<1>1. PICK p : p = Evaluate(r, e) OBVIOUS
<1>2. Writes(r, p, S) BY <1>1, EvaluateWrites
<1>3. Coded(p) /\ FALSE \in BOOLEAN BY <1>2 DEF Writes
<1>4. PICK t : t = begin_block(p, "IF", FALSE, e) OBVIOUS
<1>5. Writes(p, t, S) BY <1>3, <1>4, BeginWrites, Zenon
<1>6. IF_rest(r, e) \in {r, Error(r, "syntax_invalid"), p, t}
  BY <1>1, <1>4 DEF IF_rest, Conditioned
<1> QED BY <1>2, <1>5, <1>6, WritesNothing, ErrorWrites, WritesTrans

(* Closing a branch writes a jump at most.                                   *)
LEMMA CloseBranchWrites ==
  ASSUME NEW r, Coded(r), NEW behind \in BOOLEAN, NEW S, JumpOps \subseteq S
  PROVE  Writes(r, CloseBranch(r, behind), S)
<1> DEFINE c     == Len(r.block_vect) - 1
           cond  == r.block_vect[c]
           ended == IF cond.label_end # NoLabel THEN r ELSE LabelBlock(r, c, FALSE)
           leapt == JmpTo(ended, ended.block_vect[c].label_end, FALSE)
<1>0. FALSE \in BOOLEAN OBVIOUS
<1>1. CloseBranch(r, behind) \in {Error(r, "SIGSEGV"), leapt, Error(r, "syntax_invalid"),
                                  PlaceEnd(r, cond.label_end), r}
  BY DEF CloseBranch
<1> HIDE DEF c, cond
<1>2. Writes(r, LabelBlock(r, c, FALSE), S) BY <1>0, LabelBlockWrites, Zenon
<1>3. Writes(r, ended, S) BY <1>2, WritesNothing
<1> HIDE DEF ended
<1>4. Coded(ended) BY <1>3 DEF Writes
<1>5. Writes(ended, leapt, S) BY <1>0, <1>4, JmpToWrites, Zenon
<1>6. Writes(r, leapt, S) BY <1>3, <1>5, WritesTrans
<1> HIDE DEF leapt
<1>7. Writes(r, PlaceEnd(r, cond.label_end), S) BY PlaceEndWrites
<1> QED BY <1>1, <1>6, <1>7, WritesNothing, ErrorWrites

(* Leaving a block writes a jump at most.                                    *)
LEMMA LeaveWrites ==
  ASSUME NEW r, Coded(r), NEW b, b.block_type \in BlockKind, NEW behind \in BOOLEAN, NEW S, JumpOps \subseteq S
  PROVE  Writes(r, LeaveBlock(r, b, behind), S)
<1>1. FALSE \in BOOLEAN OBVIOUS
<1>2. Writes(r, JmpTo(r, b.label_begin, FALSE), S) BY <1>1, JmpToWrites, Zenon
<1>3. LeaveBlock(r, b, behind) \in {JmpTo(r, b.label_begin, FALSE), CloseBranch(r, behind), r}
  BY DEF LeaveBlock, IsBranch
<1> QED BY <1>2, <1>3, CloseBranchWrites, WritesNothing

(* Placing the end's label writes nothing.                                   *)
LEMMA LabelEndWrites ==
  ASSUME NEW r, Coded(r), NEW b, NEW S PROVE Writes(r, LabelEnd(r, b), S)
BY PlaceEndWrites, WritesNothing DEF LabelEnd

(* Taking the block off the stack writes nothing.                            *)
LEMMA PopWrites ==
  ASSUME NEW r, Coded(r), NEW S PROVE Writes(r, Pop(r), S)
<1>1. Silent(r, Pop(r)) BY DEF Silent, Coded, Pop
<1> QED BY <1>1, SilentWrites

(* What a line may write besides its mark and a routine's RET.               *)
Loud == Op \ {"DBG", "RET"}

(* Ordinary operations and jumps are such.                                   *)
LEMMA LoudIs == Ordinary \cup JumpOps \subseteq Loud /\ Ordinary \subseteq Loud /\ JumpOps \subseteq Loud
BY DEF Loud, Ordinary, Op, PlainOps, IdOps, WordOps, WordByteOps, JumpOps

(* The routine being compiled ends: its RET is the last of its part.         *)
Finishes(s, q) ==
  /\ \E c : c.instr.op = "RET" /\ Extended(s.obj[TRUE], q.obj[TRUE], c)
  /\ q.obj[FALSE] = s.obj[FALSE] /\ Coded(q)
  /\ q.line_num = s.line_num /\ q.funcs_vect = s.funcs_vect
  /\ s.func_info # NULL /\ q.func_info = NULL /\ q.subs_body = FALSE
  /\ q.block_vect = <<>>
(* A line writes such operations only, or ends its routine behind them.      *)
Completes(r, q) == Writes(r, q, Loud) \/ \E s : Writes(r, s, Loud) /\ Finishes(s, q)

(* Dropping the last block ends the routine or writes nothing.               *)
LEMMA DropWrites ==
  ASSUME NEW r, Sound(r), Coded(r), Len(r.block_vect) > 0, NEW double_pop \in BOOLEAN
  PROVE  Completes(r, DropBlock(r, double_pop))
<1> DEFINE s == Pop(r)
           t == code_op(s, "RET", FALSE, 0, 0)
           u == Error(t, "no_error")
           q == EndSubContext(u)
<1>1. Keeps(r, s) /\ Writes(r, s, Loud) BY PopSound, PopWrites
<1>2. DropBlock(r, double_pop) =
        IF s.block_vect # <<>> THEN IF double_pop THEN Pop(s) ELSE s
        ELSE IF double_pop THEN Error(s, "syntax_invalid")
        ELSE IF r.func_info # NULL THEN q ELSE s
  BY Zenon DEF DropBlock
<1> HIDE DEF s
<1>3. Coded(s) BY <1>1 DEF Writes
<1>4. Writes(r, Pop(s), Loud) /\ Writes(r, Error(s, "syntax_invalid"), Loud)
  BY <1>1, <1>3, PopWrites, ErrorWrites, WritesTrans
<1>5. ASSUME s.block_vect = <<>>, r.func_info # NULL PROVE Finishes(s, q)
  <2>1. s.func_info # NULL /\ s.subs_body = TRUE
    <3>1. s.func_info = r.func_info /\ s.subs_body = r.subs_body BY <1>1 DEF Keeps, SameRoutine
    <3>2. r.subs_body <=> r.func_info # NULL BY DEF Sound, RoutineRefs
    <3>3. r.subs_body \in BOOLEAN BY DEF Coded
    <3> QED BY <1>5, <3>1, <3>2, <3>3
  <2>2. Puts(s, t, "RET", 0) BY <1>3, PutIs, Zenon
  <2>3. Writes(s, t, {"RET"}) BY <1>3, CodeWrites, Zenon
  <2>4. t.block_vect = s.block_vect /\ t.funcs_vect = s.funcs_vect BY DEF code_op, Put
  <2>11. t \in Result
    <3>1. "RET" \in Op /\ FALSE \in BOOLEAN /\ 0 \in Int BY DEF Op, PlainOps
    <3>2. Sound(s) BY <1>1 DEF Keeps
    <3>3. Appends(s, t) BY <3>1, <3>2, CodeOpSound, Zenon
    <3> QED BY <3>3 DEF Appends, Emits, Sound
  <2> HIDE DEF t
  <2>5. Writes(t, u, {"RET"}) /\ u.obj = t.obj /\ u.block_vect = t.block_vect /\ u.funcs_vect = t.funcs_vect
    <3>1. Coded(t) BY <2>3 DEF Writes
    <3>2. Writes(t, u, {"RET"}) BY <3>1, ErrorWrites
    <3>3. u.obj = t.obj /\ u.block_vect = t.block_vect /\ u.funcs_vect = t.funcs_vect
      BY <2>11 DEF Error, Result
    <3> QED BY <3>2, <3>3
  <2> HIDE DEF u
  <2>6. Coded(u) /\ u.line_num = s.line_num
    BY <2>3, <2>5 DEF Writes, SameEntries
  <2>7. /\ q.obj = u.obj /\ q.line_num = u.line_num /\ q.funcs_vect = u.funcs_vect /\ q.func_info = NULL
        /\ q.subs_body = FALSE /\ q.block_vect = u.block_vect /\ DOMAIN q = DOMAIN u
    BY <2>6 DEF EndSubContext, Coded
  <2> HIDE DEF q
  <2>8. Coded(q) BY <2>6, <2>7 DEF Coded
  <2>9. \E c : c.instr.op = "RET" /\ Extended(s.obj[TRUE], q.obj[TRUE], c)
    BY <2>1, <2>2, <2>5, <2>7 DEF Puts
  <2>10. q.obj[FALSE] = s.obj[FALSE]
    <3>1. FALSE \in BOOLEAN /\ (FALSE = TRUE) = FALSE OBVIOUS
    <3> QED BY <2>1, <2>2, <2>5, <2>7, <3>1 DEF Puts
  <2> QED BY <1>5, <2>1, <2>4, <2>5, <2>6, <2>7, <2>8, <2>9, <2>10 DEF Finishes
<1> HIDE DEF q
<1> QED BY <1>1, <1>2, <1>4, <1>5 DEF Completes

(* What is written before a routine's end counts to it.                      *)
LEMMA CompletesAfter ==
  ASSUME NEW r, Coded(r), NEW p, Writes(r, p, Loud), NEW q, Completes(p, q)
  PROVE  Completes(r, q)
BY WritesTrans DEF Completes

(* The end of a block writes, and may end the routine.                       *)
LEMMA EndBlockWrites ==
  ASSUME NEW r, Sound(r), Coded(r), Len(r.block_vect) > 0, NEW b, NEW behind \in BOOLEAN
  PROVE  Completes(r, EndBlock(r, b, behind))
<1> DEFINE l  == LabelEnd(r, b)
           dp == IsBranch(b) /\ ~behind
<1>1. EndBlock(r, b, behind) = IF IsBranch(b) /\ r.pe \in {"SIGSEGV", "syntax_invalid"} THEN r
                               ELSE DropBlock(l, dp)
  BY Zenon DEF EndBlock
<1>2. dp \in BOOLEAN BY DEF IsBranch
<1>3. Moves(r, l) /\ Writes(r, l, Loud) BY LabelEndSound, LabelEndWrites
<1> HIDE DEF l, dp
<1>4. Completes(r, r) BY WritesNothing DEF Completes
<1>5. Sound(l) /\ Coded(l) /\ Len(l.block_vect) > 0 BY <1>3 DEF Moves, Writes
<1>6. Completes(l, DropBlock(l, dp)) BY <1>2, <1>5, DropWrites
<1>7. Completes(r, DropBlock(l, dp)) BY <1>3, <1>6, CompletesAfter
<1> QED BY <1>1, <1>4, <1>7

(* So does BLOCK_END.                                                        *)
LEMMA BlockEndWrites ==
  ASSUME NEW r, Sound(r), Coded(r), NEW behind \in BOOLEAN
  PROVE  Completes(r, BLOCK_END(r, behind))
<1> DEFINE u == UnregisterLastBlockVars(r)
           b == Block(r)
           s == LeaveBlock(u, b, behind)
<1>1. BLOCK_END(r, behind) = IF r.block_vect = <<>> THEN Error(r, "syntax_invalid") ELSE EndBlock(s, b, behind)
  BY Zenon DEF BLOCK_END
<1>2. CASE r.block_vect = <<>>
  BY <1>1, <1>2, ErrorWrites DEF Completes
<1>3. CASE r.block_vect # <<>>
  <2>1. r.block_vect \in Seq(BlockType) BY DEF Sound, Result
  <2>2. Len(r.block_vect) > 0 /\ Len(r.block_vect) \in Nat BY <1>3, <2>1
  <2>3. b = r.block_vect[Len(r.block_vect)] BY DEF Block, Last
  <2>4. b \in BlockType /\ b.block_type \in BlockKind BY <2>2, <2>3, BlockIs
  <2>5. Sound(u) /\ u.block_vect = r.block_vect
    BY UnregisterSound DEF Unregisters, OnlyVars, SameBlocks
  <2>6. Writes(r, u, Loud) BY UnregisterWrites
  <2> HIDE DEF u, b
  <2>7. Coded(u) BY <2>6 DEF Writes
  <2>8. Moves(u, s) /\ Writes(u, s, Loud)
    <3>1. Moves(u, s) BY <2>2, <2>4, <2>5, LeaveSound
    <3>2. Writes(u, s, Loud) BY <2>4, <2>7, LoudIs, LeaveWrites
    <3> QED BY <3>1, <3>2
  <2> HIDE DEF s
  <2>9. Sound(s) /\ Coded(s) /\ Len(s.block_vect) > 0 BY <2>2, <2>5, <2>8 DEF Moves, Writes
  <2>10. Completes(s, EndBlock(s, b, behind)) BY <2>9, EndBlockWrites
  <2> QED BY <1>1, <1>3, <2>6, <2>7, <2>8, <2>10, CompletesAfter
<1> QED BY <1>2, <1>3

(* A loop's condition writes a jump at most.                                 *)
LEMMA ConditionedWrites ==
  ASSUME NEW r, Coded(r), NEW past_cmd, NEW early_opened \in BOOLEAN, NEW e, NEW S, JumpOps \subseteq S
  PROVE  Writes(r, Conditioned(r, past_cmd, early_opened, e), S)
BY BeginWrites, WritesNothing DEF Conditioned

(* What is behind a brace writes neither marks nor RETs.                     *)
LEMMA BehindWrites ==
  ASSUME NEW r, Sound(r), Coded(r), NEW behind, NEW e, NEW junk \in BOOLEAN,
         behind = "else_if" => e \in Expressions
  PROVE  Writes(r, BehindBrace(r, behind, e, junk), Loud)
<1>1. FALSE \in BOOLEAN OBVIOUS
<1> DEFINE b == begin_block(r, "ELSE", FALSE, "number")
           s == IF_command(r, junk)
           q == IF_rest(s, e)
<1>2. BehindBrace(r, behind, e, junk) = CASE Ok(r) /\ behind = "else" -> b
                                          [] Ok(r) /\ behind = "else_if" -> q [] OTHER -> r
  BY Zenon DEF BehindBrace
<1>3. Writes(r, b, Loud) BY <1>1, LoudIs, BeginWrites, Zenon
<1>4. ASSUME behind = "else_if" PROVE Writes(r, q, Loud)
  <2>1. Writes(r, s, Loud) /\ Sound(s) BY IfWrites, IfSound DEF Keeps
  <2> HIDE DEF s
  <2>2. Coded(s) BY <2>1 DEF Writes
  <2>3. Writes(s, q, Loud) BY <1>4, <2>1, <2>2, LoudIs, IfRestWrites
  <2> QED BY <2>1, <2>3, WritesTrans
<1> HIDE DEF b, q
<1>5. BehindBrace(r, behind, e, junk) = b \/ (behind = "else_if" /\ BehindBrace(r, behind, e, junk) = q)
      \/ BehindBrace(r, behind, e, junk) = r
  BY <1>2
<1> QED BY <1>3, <1>4, <1>5, WritesNothing

(* RETURN's own instruction is ordinary.                                     *)
LEMMA ReturnedWrites ==
  ASSUME NEW r, Coded(r), NEW S, Ordinary \subseteq S PROVE Writes(r, Returned(r), S)
<1>1. "RETVAL" \in S BY EmittedOrdinary DEF Emitted
<1>2. Writes(r, code_op(r, "RETVAL", FALSE, 0, 0), S) BY <1>1, CodeWrites, Zenon
<1> QED BY <1>2, WritesNothing, ErrorWrites DEF Returned

(* So is the dropping of a call's result.                                    *)
LEMMA DropResultWrites ==
  ASSUME NEW r, Coded(r), NEW S, Ordinary \subseteq S PROVE Writes(r, DropResult(r), S)
<1>1. "POP_TO_NOWHERE" \in S BY EmittedOrdinary DEF Emitted
<1>2. Writes(r, code_op(r, "POP_TO_NOWHERE", FALSE, 0, 0), S) BY <1>1, CodeWrites, Zenon
<1> QED BY <1>2, WritesNothing DEF DropResult

(* So is a break point.                                                      *)
LEMMA BreakPointWrites ==
  ASSUME NEW r, Coded(r), NEW S, Ordinary \subseteq S PROVE Writes(r, VmOp_BreakPoint(r), S)
<1>1. "BREAK" \in S BY EmittedOrdinary DEF Emitted
<1>2. Writes(r, code_op(r, "BREAK", FALSE, r.line_num, 0), S) BY <1>1, CodeWrites, Zenon
<1> QED BY <1>2, Zenon DEF VmOp_BreakPoint

(* A declaration with a value writes ordinary operations only.               *)
LEMMA WithValueWrites ==
  ASSUME NEW r, Sound(r), Coded(r), NEW e \in Expressions \cup {"none"}, NEW auto_size \in BOOLEAN,
         NEW is_object \in BOOLEAN, NEW flags, Ok(r) => Len(r.vars_vect) > 0, NEW S, Ordinary \subseteq S
  PROVE  Writes(r, WithValue(r, e, auto_size, is_object, flags), S)
<1>1. CASE ~Ok(r) \/ e = "none" BY <1>1, WritesNothing DEF WithValue
<1>2. CASE Ok(r) /\ e # "none"
  <2>1. Len(r.vars_vect) \in Nat BY NumbersAre
  <2>2. Len(r.vars_vect) \in 1..Len(r.vars_vect) /\ e \in Expressions BY <1>2, <2>1
  <2>3. Writes(r, Assigned(r, Len(r.vars_vect), e, auto_size, is_object, flags), S)
    BY <2>2, AssignedWrites
  <2> QED BY <1>2, <2>3 DEF WithValue
<1> QED BY <1>1, <1>2

(* Making the last variable a parameter writes nothing.                      *)
LEMMA AsParamWrites ==
  ASSUME NEW r, Sound(r), Coded(r), r.func_info # NULL, NEW S
  PROVE  Writes(r, AsParam(r), S)
<1> DEFINE i     == r.func_info
           old   == r.funcs_vect
           f     == [old[i] EXCEPT !.params = Append(old[i].params, Len(r.vars_vect))]
           funcs == [old EXCEPT ![i] = f]
           added == [r EXCEPT !.funcs_vect = funcs]
           full  == Len(ParamsOf(r)) + 1 >= FUNC_MAX_PARAMS
           q     == AsParam(r)
<1>1. q = IF ~Ok(r) THEN r ELSE IF full THEN Error(added, "object_max_number_exceeded") ELSE added
  BY DEF AsParam
<1> SUFFICES Writes(r, q, S)
  OBVIOUS
<1>2. i \in 1..Len(old) /\ old \in Seq(FuncType) BY DEF Sound, Result, RoutineRefs, NULL
<1>3. old[i] \in FuncType BY <1>2
<1>4. f.name = old[i].name /\ f.vm_code_offset = old[i].vm_code_offset BY <1>3 DEF FuncType
<1> HIDE DEF q, f, full
<1>5. DOMAIN funcs = 1..Len(old) /\ Len(old) \in Nat /\ Len(funcs) = Len(old)
      /\ \A k \in 1..Len(old) : funcs[k] = IF k = i THEN f ELSE old[k]
  BY <1>2
<1> HIDE DEF funcs
<1>6. added.funcs_vect = funcs /\ added.obj = r.obj /\ added.line_num = r.line_num /\ added.func_info = r.func_info
      /\ added.subs_body = r.subs_body /\ DOMAIN added = DOMAIN r
  BY DEF Coded
<1> HIDE DEF added
<1>7. Coded(added) BY <1>6 DEF Coded
<1>8. SameEntries(r, added) BY <1>4, <1>5, <1>6 DEF SameEntries
<1>9. Writes(r, added, S) BY <1>6, <1>7, <1>8 DEF Writes
<1>10. Writes(r, Error(added, "object_max_number_exceeded"), S) BY <1>7, <1>9, ErrorWrites, WritesTrans
<1> QED BY <1>1, <1>9, <1>10, WritesNothing

(* A parameter writes ordinary operations only.                              *)
LEMMA ParamWrites ==
  ASSUME NEW r, Sound(r), Coded(r), r.func_info # NULL \/ ~Ok(r), NEW name \in VarName, NEW S, Ordinary \subseteq S
  PROVE  Writes(r, Param(r, name), S)
<1> DEFINE d == DeclareVar(r, name, "vt_generic", -1)
<1>1. CASE ~Ok(r) BY <1>1, WritesNothing DEF Param
<1>2. CASE Ok(r)
  <2>1. Param(r, name) = AsParam(d) BY <1>2 DEF Param
  <2>2. "vt_generic" \in VarKind /\ -1 \in Int BY DEF VarKind
  <2>3. PICK m, b : /\ m = MemSize("vt_generic", -1) /\ b = (Elements("vt_generic", -1) > 0)
                    /\ Marks(r, d, "object_exist") \/ Declares(r, d, "vt_generic", m, b)
    BY <2>2, DeclareVarSound, Zenon
  <2>4. Writes(r, d, S) BY DeclareVarWrites, Zenon
  <2> HIDE DEF d
  <2>5. Sound(d) /\ SameRoutine(r, d)
    BY <2>3 DEF Marks, Emits, Kept, Declares, OnlyVars
  <2>6. d.func_info # NULL /\ Coded(d) BY <1>2, <2>4, <2>5 DEF SameRoutine, Writes
  <2>7. Writes(d, AsParam(d), S) BY <2>5, <2>6, AsParamWrites
  <2> QED BY <2>1, <2>4, <2>7, WritesTrans
<1> QED BY <1>1, <1>2

(* So do all of them.                                                        *)
LEMMA ParamsWrites ==
  ASSUME NEW r, Sound(r), Coded(r), r.func_info # NULL \/ ~Ok(r), NEW names \in Seq(VarName), NEW S, Ordinary \subseteq S
  PROVE  Writes(r, Params(r, names), S)
<1> DEFINE n == Len(names)
           W == WrittenFrom(r, S)
<1>1. PICK g : Enlists(g, r, names) BY ParamsAre
<1>2. g[0] \in W BY <1>1, WritesNothing DEF Enlists, WrittenFrom, Sound
<1>3. ASSUME NEW k \in 1..n, g[k - 1] \in W PROVE g[k] \in W
  <2>0. n \in Nat OBVIOUS
  <2>1. k - 1 \in 0..n /\ k \in 0..n BY <2>0
  <2>2. Admits(r, g[k - 1]) /\ Admits(r, g[k]) BY <1>1, <2>1 DEF Enlists
  <2>3. Writes(r, g[k - 1], S) /\ Coded(g[k - 1]) BY <1>3 DEF WrittenFrom, Writes
  <2>4. g[k] = Param(g[k - 1], names[k]) BY <1>1 DEF Enlists
  <2>5. Sound(g[k - 1]) /\ (g[k - 1].func_info # NULL \/ ~Ok(g[k - 1])) BY <2>2 DEF Admits, Adds
  <2>6. names[k] \in VarName OBVIOUS
  <2>7. Writes(g[k - 1], g[k], S) BY <2>3, <2>4, <2>5, <2>6, ParamWrites
  <2>8. Writes(r, g[k], S) BY <2>3, <2>7, WritesTrans
  <2>9. g[k] \in Result BY <2>2 DEF Admits, Adds, Sound
  <2> QED BY <2>8, <2>9 DEF WrittenFrom
<1>4. g[n] \in W
  <2>1. n \in Nat OBVIOUS
  <2> HIDE DEF n, W
  <2>2. \A k \in 0..n : g[k] \in W BY <2>1, <1>2, <1>3, UpTo
  <2> QED BY <2>1, <2>2
<1> QED BY <1>1, <1>4 DEF Enlists, WrittenFrom

(* So does taking the arguments.                                             *)
LEMMA TakenWrites ==
  ASSUME NEW r, Sound(r), Coded(r), NEW params \in Seq(Nat), Range(params) \subseteq 1..Len(r.vars_vect),
         NEW S, Ordinary \subseteq S
  PROVE  Writes(r, Taken(r, params), S)
<1> DEFINE n == Len(params)
           W == WrittenFrom(r, S)
<1>1. PICK g : Takes(g, r, params) BY TakenAre
<1>2. g[0] \in W BY <1>1, WritesNothing DEF Takes, WrittenFrom, Sound
<1>3. ASSUME NEW k \in 1..n, g[k - 1] \in W PROVE g[k] \in W
  <2>0. n \in Nat OBVIOUS
  <2>1. k - 1 \in 0..n /\ k \in 0..n BY <2>0
  <2>2. Emits(r, g[k - 1]) /\ Emits(r, g[k]) BY <1>1, <2>1 DEF Takes
  <2>3. Writes(r, g[k - 1], S) /\ Coded(g[k - 1]) BY <1>3 DEF WrittenFrom, Writes
  <2>4. PICK i : i = params[n + 1 - k] OBVIOUS
  <2>5. g[k] = VmOp_PopVar(g[k - 1], i, FALSE) /\ i \in 1..Len(r.vars_vect) BY <1>1, <2>4 DEF Takes
  <2>6. Sound(g[k - 1]) /\ i \in 1..Len(g[k - 1].vars_vect) /\ FALSE \in BOOLEAN
    BY <2>2, <2>5 DEF Emits, Kept, SameVars
  <2>7. Writes(g[k - 1], g[k], S) BY <2>3, <2>5, <2>6, PoppedWrites, Zenon
  <2>8. Writes(r, g[k], S) BY <2>3, <2>7, WritesTrans
  <2>9. g[k] \in Result BY <2>2 DEF Emits, Sound
  <2> QED BY <2>8, <2>9 DEF WrittenFrom
<1>4. g[n] \in W
  <2>1. n \in Nat OBVIOUS
  <2> HIDE DEF n, W
  <2>2. \A k \in 0..n : g[k] \in W BY <2>1, <1>2, <1>3, UpTo
  <2> QED BY <2>1, <2>2
<1> QED BY <1>1, <1>4 DEF Takes, WrittenFrom

(* A new routine begins where the routines' part is.                         *)
Enters(r, q, name) ==
  /\ Coded(q) /\ q.obj = r.obj /\ q.line_num = r.line_num /\ q.subs_body = TRUE
  /\ Len(q.funcs_vect) = Len(r.funcs_vect) + 1 /\ q.func_info = Len(q.funcs_vect)
  /\ \A f \in 1..Len(r.funcs_vect) : q.funcs_vect[f] = r.funcs_vect[f]
  /\ q.funcs_vect[Len(r.funcs_vect) + 1].name = name
  /\ q.funcs_vect[Len(r.funcs_vect) + 1].vm_code_offset = r.obj[TRUE].size

(* RegisterSub enters the routine where the routines' part ends.             *)
LEMMA BeginSubEnters ==
  ASSUME NEW r, Sound(r), Coded(r), NEW name, Ok(BeginSub(r, name))
  PROVE  Enters(r, BeginSub(r, name), name)
<1> DEFINE f     == [name |-> name, params |-> <<>>, vm_code_offset |-> r.obj[TRUE].size]
           funcs == Append(r.funcs_vect, f)
           info  == Len(r.funcs_vect) + 1
           known == Named(r.funcs_vect, name) # NULL
           q     == [r EXCEPT !.pe = "no_error", !.funcs_vect = funcs, !.func_info = info,
                         !.heap_memory_max_back = r.heap_memory_max, !.heap_memory_max = 0,
                         !.heap_pnt_back = r.heap_pnt, !.heap_pnt = 0, !.subs_body = TRUE]
<1>1. BeginSub(r, name) = IF known THEN Error(r, "object_exist") ELSE q BY DEF BeginSub
<1>2. ~Ok(Error(r, "object_exist")) BY DEF Ok, Error, Sound, Result
<1>3. BeginSub(r, name) = q BY <1>1, <1>2
<1>4. f.name = name /\ f.vm_code_offset = r.obj[TRUE].size OBVIOUS
<1> HIDE DEF f
<1>5. r.funcs_vect \in Seq(FuncType) BY DEF Sound, Result
<1>6. Len(funcs) = Len(r.funcs_vect) + 1 /\ funcs[Len(r.funcs_vect) + 1] = f
      /\ \A k \in 1..Len(r.funcs_vect) : funcs[k] = r.funcs_vect[k]
  BY <1>5
<1> HIDE DEF funcs
<1>7. /\ q.funcs_vect = funcs /\ q.func_info = info /\ q.subs_body = TRUE /\ q.obj = r.obj
      /\ q.line_num = r.line_num /\ DOMAIN q = DOMAIN r
  BY DEF Sound, Result
<1> HIDE DEF q, known
<1>8. Coded(q) BY <1>7 DEF Coded
<1> QED BY <1>3, <1>4, <1>6, <1>7, <1>8 DEF Enters

(* The body's beginning writes ordinary operations only.                     *)
LEMMA BodyWrites ==
  ASSUME NEW r, Sound(r), Coded(r), r.func_info # NULL \/ ~Ok(r),
         Ok(r) => Range(ParamsOf(r)) \subseteq DOMAIN r.vars_vect, NEW S, Ordinary \subseteq S
  PROVE  Writes(r, BeginBody(r, TRUE), S)
<1> DEFINE params == ParamsOf(r)
           s == Taken(r, params)
           b == begin_block(s, "PROC", TRUE, "number")
<1>1. BeginBody(r, TRUE) = IF Ok(r) THEN b ELSE r BY Zenon DEF BeginBody
<1>2. CASE ~Ok(r) BY <1>1, <1>2, WritesNothing
<1>3. CASE Ok(r)
  <2>1. r.func_info \in 1..Len(r.funcs_vect)
    <3>1. r.func_info \in Nat /\ r.func_info <= Len(r.funcs_vect) /\ Len(r.funcs_vect) \in Nat
      BY DEF Sound, Result, RoutineRefs
    <3> QED BY <1>3, <3>1 DEF NULL
  <2>2. params \in Seq(Nat) BY <2>1, FuncIs DEF ParamsOf
  <2>3. DOMAIN r.vars_vect = 1..Len(r.vars_vect)
    <3>1. r.vars_vect \in Seq(VarType) BY DEF Sound, Result
    <3> QED BY <3>1
  <2>4. Range(params) \subseteq 1..Len(r.vars_vect) BY <1>3, <2>3
  <2>5. b = s BY DEF begin_block
  <2> HIDE DEF params, b
  <2>6. Writes(r, s, S) BY <2>2, <2>4, TakenWrites
  <2> QED BY <1>1, <1>3, <2>5, <2>6
<1> QED BY <1>2, <1>3

(* A sound Result has what these lemmas look at.                             *)
LEMMA SoundCoded == ASSUME NEW r, Sound(r) PROVE Coded(r)
<1>1. r.subs_body \in BOOLEAN /\ r.obj \in [BOOLEAN -> PartType] BY DEF Sound, Result
<1>2. {"obj", "subs_body", "line_num", "func_info", "funcs_vect"} \subseteq DOMAIN r BY DEF Sound, Result
<1>3. ASSUME NEW a \in BOOLEAN PROVE CodePart(r.obj[a])
  <2>1. r.obj[a] \in PartType BY <1>1
  <2> QED BY <2>1 DEF PartType, CodePart
<1> QED BY <1>1, <1>2, <1>3 DEF Coded

(* The line is counted; and its number is put.                               *)
Counts(r, p) ==
  /\ Coded(p) /\ p.line_num = r.line_num + 1
  /\ p.func_info = r.func_info /\ p.subs_body = r.subs_body /\ p.funcs_vect = r.funcs_vect
  /\ p.obj = r.obj
(* The line's mark is put.                                                   *)
Notes(r, p) ==
  /\ Coded(p) /\ p.line_num = r.line_num + 1
  /\ p.func_info = r.func_info /\ p.subs_body = r.subs_body /\ p.funcs_vect = r.funcs_vect
  /\ Puts(r, p, "DBG", r.line_num + 1)

(* Counting the line puts nothing.                                           *)
LEMMA CountedIs == ASSUME Sound(result) PROVE Counts(result, Counted)
<1>1. NextLine(result, Counted) BY CountedSound
<1>2. Coded(Counted) BY <1>1, SoundCoded DEF NextLine, Keeps
<1>3. Counted.line_num = result.line_num + 1 /\ Counted.obj = result.obj BY DEF Counted, Sound, Result
<1> QED BY <1>1, <1>2, <1>3 DEF Counts, NextLine, Keeps, SameRoutine

(* Line counts it and puts its mark.                                         *)
LEMMA LineIs == ASSUME Sound(result) PROVE Notes(result, Line) /\ Sound(Line) /\ Coded(Line)
<1>1. Counts(result, Counted) BY CountedIs
<1>2. NextLine(result, Line) BY LineSound
<1>3. Sound(Line) BY <1>2 DEF NextLine, Keeps
<1>4. Coded(Line) BY <1>3, SoundCoded
<1>5. Line = code_op(Counted, "DBG", FALSE, Counted.line_num, 0) BY DEF Line, VmOp_DebugNewLine
<1> HIDE DEF Line, Counted
<1>6. Coded(Counted) BY <1>1 DEF Counts
<1>7. Puts(Counted, Line, "DBG", Counted.line_num) BY <1>5, <1>6, PutIs, Zenon
<1>8. Puts(result, Line, "DBG", result.line_num + 1) BY <1>1, <1>7 DEF Puts, Counts
<1>9. Writes(Counted, Line, {"DBG"}) BY <1>5, <1>6, CodeWrites, Zenon
<1>10. Line.line_num = result.line_num + 1 BY <1>1, <1>9 DEF Writes, SameEntries, Counts
<1>11. /\ Line.func_info = result.func_info /\ Line.subs_body = result.subs_body
       /\ Line.funcs_vect = result.funcs_vect
  BY <1>2 DEF NextLine, Keeps, SameRoutine
<1> QED BY <1>3, <1>4, <1>8, <1>10, <1>11 DEF Notes

(* A line writes, and a call's line writes its call.                         *)
Mentions(l, p, q) == Writes(p, q, Loud) /\ (l.kind = "Call" => CallsTo(p, q, l.name))
(* A line writes and its routine ends.                                       *)
Ends(p, q) == \E s : Writes(p, s, Loud) /\ Finishes(s, q)
(* A routine begins, and its line writes.                                    *)
Starts(p, q, name) == \E b : Enters(p, b, name) /\ Writes(b, q, Loud)
(* The line is counted, marked unless a label, and does what its kind does.  *)
Noted(l, r, q) ==
  \E p :
    \/ l.kind = "Label" /\ Counts(r, p) /\ Writes(p, q, Loud)
    \/ /\ l.kind # "Label" /\ Notes(r, p)
       /\ \/ l.kind # "Func" /\ Mentions(l, p, q)
          \/ l.kind = "Close" /\ Ends(p, q)
          \/ l.kind = "Func" /\ r.func_info = NULL /\ Starts(p, q, l.name)

(* Whatever blocks are open, the line is noted.                              *)
Records(l, r, q) ==
  \A L \in Nat : \A T : Orders(r, L, T) /\ InLine(l, L, T) /\ Ok(q) => Noted(l, r, q)

(* A line that only writes is noted.                                         *)
LEMMA PlainRecords ==
  ASSUME Sound(result), NEW l, l.kind \notin {"Label", "Func", "Call"}, NEW q, Writes(Line, q, Loud)
  PROVE  Records(l, result, q)
<1>1. Notes(result, Line) BY LineIs
<1> HIDE DEF Line
<1> QED BY <1>1 DEF Records, Noted, Mentions

(* A label is noted.                                                         *)
LEMMA LabelRecords ==
  ASSUME Sound(result), NEW l, l.kind = "Label", NEW name,
         NEW q, q = Error(RegisterLabel(Counted, name, TRUE), "no_error")
  PROVE  Records(l, result, q)
<1>1. Counts(result, Counted) BY CountedIs
<1>2. Coded(Counted) /\ TRUE \in BOOLEAN BY <1>1 DEF Counts
<1> HIDE DEF Counted
<1>3. PICK s : s = RegisterLabel(Counted, name, TRUE) OBVIOUS
<1>4. Writes(Counted, s, Loud) BY <1>2, <1>3, RegisterLabelWrites, Zenon
<1>5. Coded(s) BY <1>4 DEF Writes
<1>6. Writes(s, q, Loud) BY <1>3, <1>5, ErrorWrites
<1>7. Writes(Counted, q, Loud) BY <1>2, <1>4, <1>6, WritesTrans
<1> QED BY <1>1, <1>7 DEF Records, Noted

(* A GOTO is noted.                                                          *)
LEMMA GotoRecords ==
  ASSUME Sound(result), NEW l, l.kind = "Goto", NEW name,
         NEW q, q = LET known == RegisterLabel(Line, name, FALSE)
                    IN  VmOp_Jmp(known, Named(known.labels_vect, name), FALSE)
  PROVE  Records(l, result, q)
<1>1. Coded(Line) /\ FALSE \in BOOLEAN BY LineIs
<1>2. PICK s : s = RegisterLabel(Line, name, FALSE) OBVIOUS
<1>3. PICK i : i = Named(s.labels_vect, name) OBVIOUS
<1>4. q = VmOp_Jmp(s, i, FALSE) BY <1>2, <1>3
<1>5. Writes(Line, s, Loud) BY <1>1, <1>2, RegisterLabelWrites, Zenon
<1>6. Coded(s) BY <1>5 DEF Writes
<1>7. Writes(s, q, Loud) BY <1>1, <1>4, <1>6, LoudIs, JmpWrites, Zenon
<1>8. Writes(Line, q, Loud) BY <1>1, <1>5, <1>7, WritesTrans
<1> QED BY <1>8, PlainRecords

(* A declaration is noted.                                                   *)
LEMMA DeclareRecords ==
  ASSUME Sound(result), NEW l, l.kind = "Declare", NEW name \in VarNames, NEW d \in Declarations,
         NEW e \in Expressions \cup {"none"}, NEW q,
         q = LET auto   == d.array_size = 0
                 flags  == {"inline_array"} \cup (IF d.type = "vt_array_of_byte" THEN {} ELSE any_expr)
                 object == auto \/ (d.array_size < 0 /\ d.type = "vt_array_of_byte")
             IN  IF auto /\ e = "none" THEN Error(Line, "array_index_invalid")
                 ELSE WithValue(DeclareVar(Line, name, d.type, d.array_size), e, auto, object, flags)
  PROVE  Records(l, result, q)
<1> DEFINE auto   == d.array_size = 0
           flags  == {"inline_array"} \cup (IF d.type = "vt_array_of_byte" THEN {} ELSE any_expr)
           object == auto \/ (d.array_size < 0 /\ d.type = "vt_array_of_byte")
           s == DeclareVar(Line, name, d.type, d.array_size)
           w == WithValue(s, e, auto, object, flags)
           m == Error(Line, "array_index_invalid")
<1>1. q = IF auto /\ e = "none" THEN m ELSE w BY Zenon
<1>2. Coded(Line) /\ Sound(Line) BY LineIs
<1> HIDE DEF Line
<1>3. d.type \in VarKind /\ d.array_size \in Int /\ name \in VarName BY DeclarationIs DEF VarName
<1>4. \/ Marks(Line, s, "object_exist")
      \/ Declares(Line, s, d.type, MemSize(d.type, d.array_size), Elements(d.type, d.array_size) > 0)
  BY <1>2, <1>3, DeclareVarSound
<1>5. Writes(Line, s, Loud) BY <1>2, LoudIs, DeclareVarWrites
<1>6. Writes(Line, m, Loud) BY <1>2, ErrorWrites
<1> HIDE DEF s, m
<1>7. Sound(s) /\ Coded(s) BY <1>4, <1>5 DEF Marks, Declares, Emits, Writes
<1>8. Ok(s) => Len(s.vars_vect) > 0
  <2>1. Len(Line.vars_vect) \in Nat BY <1>2, NumbersAre
  <2> QED BY <1>4, <2>1 DEF Marks, Declares, Ok
<1>9. auto \in BOOLEAN /\ object \in BOOLEAN OBVIOUS
<1> HIDE DEF auto, object, flags
<1>10. Writes(s, w, Loud) BY <1>7, <1>8, <1>9, LoudIs, WithValueWrites
<1> HIDE DEF w
<1>11. Writes(Line, q, Loud) BY <1>1, <1>2, <1>5, <1>6, <1>10, WritesTrans
<1> QED BY <1>11, PlainRecords

(* An assignment is noted.                                                   *)
LEMMA AssignRecords ==
  ASSUME Sound(result), NEW l, l.kind = "Assign", NEW name \in VarNames, NEW e \in Expressions,
         NEW q, q = LET i      == Named(result.vars_vect, name)
                        object == IsArray(result.vars_vect[i])
                    IN  IF i = NULL THEN Error(Line, "object_unknown")
                        ELSE Assigned(Line, i, e, FALSE, object, IF object THEN any_array ELSE any_expr)
  PROVE  Records(l, result, q)
<1>1. PICK i : i = Named(result.vars_vect, name) OBVIOUS
<1> DEFINE object == IsArray(result.vars_vect[i])
           flags  == IF object THEN any_array ELSE any_expr
<1>2. q = IF i = NULL THEN Error(Line, "object_unknown") ELSE Assigned(Line, i, e, FALSE, object, flags)
  BY <1>1, Zenon
<1>3. Coded(Line) /\ Sound(Line) BY LineIs
<1>4. Line.vars_vect = result.vars_vect BY LineSound DEF NextLine, Keeps, SameVars
<1> HIDE DEF Line
<1>5. i \in 0..Len(result.vars_vect)
  <2>1. result.vars_vect \in Seq(VarType) BY DEF Sound, Result
  <2> QED BY <1>1, <2>1, NamedIs
<1>6. object \in BOOLEAN /\ FALSE \in BOOLEAN BY DEF IsArray
<1> HIDE DEF object, flags
<1>7. ASSUME i # NULL PROVE Writes(Line, Assigned(Line, i, e, FALSE, object, flags), Loud)
  <2>0. Len(result.vars_vect) \in Nat BY NumbersAre
  <2>1. i \in 1..Len(Line.vars_vect) BY <1>4, <1>5, <1>7, <2>0 DEF NULL
  <2>2. FALSE => i = Len(Line.vars_vect) OBVIOUS
  <2> QED BY <1>3, <1>6, <2>1, <2>2, LoudIs, AssignedWrites, Zenon
<1>8. Writes(Line, Error(Line, "object_unknown"), Loud) BY <1>3, ErrorWrites
<1>9. Writes(Line, q, Loud) BY <1>2, <1>7, <1>8, Zenon
<1> QED BY <1>9, PlainRecords

(* An IF is noted.                                                           *)
LEMMA IfRecords ==
  ASSUME Sound(result), NEW l, l.kind = "If", NEW e \in Expressions, NEW junk \in BOOLEAN,
         NEW q, q = IF_rest(IF_command(Line, junk), e)
  PROVE  Records(l, result, q)
<1>1. Coded(Line) /\ Sound(Line) BY LineIs
<1> HIDE DEF Line
<1>2. PICK s : s = IF_command(Line, junk) OBVIOUS
<1>3. Sound(s) /\ Writes(Line, s, Loud) BY <1>1, <1>2, IfSound, IfWrites DEF Keeps
<1>4. Coded(s) BY <1>3 DEF Writes
<1>5. Writes(s, q, Loud) BY <1>2, <1>3, <1>4, LoudIs, IfRestWrites
<1>6. Writes(Line, q, Loud) BY <1>1, <1>3, <1>5, WritesTrans
<1> QED BY <1>6, PlainRecords DEF Line

(* A WHILE is noted.                                                         *)
LEMMA WhileRecords ==
  ASSUME Sound(result), NEW l, l.kind = "While", NEW e \in Expressions,
         NEW q, q = LET opened == open_block(Line, "bt_loop")
                        begun  == LabelBlock(opened, Len(opened.block_vect), TRUE)
                    IN  Conditioned(Evaluate(begun, e), "WHILE", TRUE, e)
  PROVE  Records(l, result, q)
<1>1. Coded(Line) /\ Sound(Line) /\ TRUE \in BOOLEAN BY LineIs
<1> HIDE DEF Line
<1>2. PICK o : o = open_block(Line, "bt_loop") OBVIOUS
<1>3. PICK b : b = LabelBlock(o, Len(o.block_vect), TRUE) OBVIOUS
<1>4. PICK s : s = Evaluate(b, e) OBVIOUS
<1>5. q = Conditioned(s, "WHILE", TRUE, e) BY <1>2, <1>3, <1>4
<1>6. Sound(o) /\ Len(o.block_vect) \in Nat
  <2>1. "bt_loop" \in BlockKind BY DEF BlockKind
  <2>2. Opens(Line, o, "bt_loop") BY <1>1, <1>2, <2>1, OpenSound, Zenon
  <2>3. Sound(o) BY <2>2 DEF Opens
  <2> QED BY <2>3, NumbersAre
<1>7. Writes(Line, o, Loud) BY <1>1, <1>2, OpenWrites, Zenon
<1>8. Coded(o) BY <1>7 DEF Writes
<1>9. Sound(b)
  <2>1. Labelled(o, b, Len(o.block_vect), TRUE) BY <1>1, <1>3, <1>6, LabelBlockSound, Zenon
  <2> QED BY <2>1 DEF Labelled, Moves
<1>10. Writes(o, b, Loud) BY <1>1, <1>3, <1>8, LabelBlockWrites, Zenon
<1>11. Coded(b) BY <1>10 DEF Writes
<1>12. Writes(b, s, Loud) BY <1>4, <1>9, <1>11, LoudIs, EvaluateWrites
<1>13. Coded(s) BY <1>12 DEF Writes
<1>14. Writes(s, q, Loud) BY <1>1, <1>5, <1>13, LoudIs, ConditionedWrites, Zenon
<1>15. Writes(Line, b, Loud) BY <1>1, <1>7, <1>10, WritesTrans
<1>16. Writes(b, q, Loud) BY <1>11, <1>12, <1>14, WritesTrans
<1>17. Writes(Line, q, Loud) BY <1>1, <1>15, <1>16, WritesTrans
<1> QED BY <1>17, PlainRecords DEF Line

(* An opening brace is noted.                                                *)
LEMMA OpenRecords ==
  ASSUME Sound(result), NEW l, l.kind = "Open", NEW q, q = begin_block(Line, "NOP", FALSE, "number")
  PROVE  Records(l, result, q)
<1>1. Coded(Line) /\ FALSE \in BOOLEAN BY LineIs
<1>2. Writes(Line, q, Loud) BY <1>1, LoudIs, BeginWrites, Zenon
<1> QED BY <1>2, PlainRecords

(* A BREAK is noted.                                                         *)
LEMMA BreakRecords ==
  ASSUME Sound(result), NEW l, l.kind = "Break",
         NEW q, q = LET loops == {i \in DOMAIN result.block_vect : result.block_vect[i].block_type = "bt_loop"}
                    IN  IF loops = {} THEN Line
                        ELSE JmpTo(Line, Line.block_vect[Max(loops)].label_end, FALSE)
  PROVE  Records(l, result, q)
<1>1. Coded(Line) /\ FALSE \in BOOLEAN BY LineIs
<1>2. PICK m : m = Max({i \in DOMAIN result.block_vect : result.block_vect[i].block_type = "bt_loop"}) OBVIOUS
<1>3. PICK p : p = Line.block_vect[m].label_end OBVIOUS
<1>4. q = Line \/ q = JmpTo(Line, p, FALSE) BY <1>2, <1>3, Zenon
<1>5. Writes(Line, JmpTo(Line, p, FALSE), Loud) BY <1>1, LoudIs, JmpToWrites, Zenon
<1>6. Writes(Line, q, Loud) BY <1>1, <1>4, <1>5, WritesNothing
<1> QED BY <1>6, PlainRecords

(* A RETURN is noted.                                                        *)
LEMMA ReturnRecords ==
  ASSUME Sound(result), NEW l, l.kind = "Return", NEW e \in Expressions,
         NEW q, q = Returned(IF result.func_info = NULL THEN Evaluate(Line, e) ELSE Evaluated(Line, e))
  PROVE  Records(l, result, q)
<1>1. Coded(Line) /\ Sound(Line) BY LineIs
<1> HIDE DEF Line
<1>2. PICK s : s = IF result.func_info = NULL THEN Evaluate(Line, e) ELSE Evaluated(Line, e) OBVIOUS
<1>3. Writes(Line, s, Loud) BY <1>1, <1>2, LoudIs, EvaluateWrites, EvaluatedWrites
<1>4. Coded(s) BY <1>3 DEF Writes
<1>5. Writes(s, q, Loud) BY <1>2, <1>4, LoudIs, ReturnedWrites
<1>6. Writes(Line, q, Loud) BY <1>1, <1>3, <1>5, WritesTrans
<1> QED BY <1>6, PlainRecords DEF Line

(* A PRINT is noted.                                                         *)
LEMMA PrintRecords ==
  ASSUME Sound(result), NEW l, l.kind = "Print", NEW parts \in PrintLists,
         NEW q, q = VmOp_Spc_Cmds(Parts([r |-> Line, params_cnt |-> 0, value |-> 0], parts))
  PROVE  Records(l, result, q)
<1>1. Coded(Line) /\ Sound(Line) BY LineIs
<1> HIDE DEF Line
<1>2. PICK p : p = [r |-> Line, params_cnt |-> 0, value |-> 0] OBVIOUS
<1>3. Emits(Line, Line) /\ Line \in Result BY <1>1, EmitsNothing DEF Sound
<1>4. p \in PartOf(Line) /\ p.r = Line BY <1>2, <1>3 DEF PartOf
<1>5. parts \in Seq(Expressions)
  <2>1. PICK n \in PrintCounts : parts \in [1..n -> Expressions] BY DEF PrintLists
  <2>2. n \in Nat BY BlocksAssumption
  <2> QED BY <2>1, <2>2, SeqFrom
<1>6. PICK t : t = Parts(p, parts) OBVIOUS
<1>7. Writes(Line, t.r, Loud) BY <1>1, <1>4, <1>5, <1>6, LoudIs, PartsWrites
<1>8. Writes(Line, q, Loud) BY <1>1, <1>2, <1>6, <1>7, LoudIs, PrintWrites
<1> QED BY <1>8, PlainRecords DEF Line

(* A BRKPNT is noted.                                                        *)
LEMMA BrkpntRecords ==
  ASSUME Sound(result), NEW l, l.kind = "Brkpnt" PROVE Records(l, result, VmOp_BreakPoint(Line))
<1>1. Writes(Line, VmOp_BreakPoint(Line), Loud) BY LineIs, LoudIs, BreakPointWrites
<1> QED BY <1>1, PlainRecords

(* A STOP is noted.                                                          *)
LEMMA StopRecords ==
  ASSUME Sound(result), NEW l, l.kind = "Stop" PROVE Records(l, result, Error(Line, "stop"))
<1>1. Writes(Line, Error(Line, "stop"), Loud) BY LineIs, ErrorWrites
<1> QED BY <1>1, PlainRecords

(* A call stays when more is written.                                        *)
LEMMA CallsStay ==
  ASSUME NEW r, NEW p, NEW q, NEW S, Coded(r), Writes(r, p, S), Writes(p, q, S), NEW name, CallsTo(r, p, name)
  PROVE  CallsTo(r, q, name)
<1> DEFINE a == r.subs_body
<1>1. PICK f \in 1..Len(r.funcs_vect), c \in Range(p.obj[a].code) :
        /\ r.funcs_vect[f].name = name
        /\ c.instr.op = "CALL_PRG_FUNC" /\ c.instr.arg = r.funcs_vect[f].vm_code_offset
        /\ c.at \in Nat /\ r.obj[a].size <= c.at /\ c.at < p.obj[a].size
  BY DEF CallsTo
<1>2. a \in BOOLEAN /\ p.obj[a].size \in Nat /\ q.obj[a].size \in Nat BY DEF Coded, CodePart, Writes
<1>3. q.obj[a] = p.obj[a] \/ Grown(p.obj[a], q.obj[a], S) BY <1>2 DEF Writes
<1>4. Range(p.obj[a].code) \subseteq Range(q.obj[a].code) /\ p.obj[a].size <= q.obj[a].size
  BY <1>2, <1>3 DEF Grown
<1>5. c \in Range(q.obj[a].code) /\ c.at < q.obj[a].size BY <1>1, <1>2, <1>4
<1> QED BY <1>1, <1>5 DEF CallsTo

(* A call is noted.                                                          *)
LEMMA CallRecords ==
  ASSUME Sound(result), NEW name, NEW l, l.kind = "Call", l.name = name, NEW args \in ArgLists,
         NEW q, q = DropResult(CallSub(Line, name, args))
  PROVE  Records(l, result, q)
<1>1. Coded(Line) /\ Sound(Line) /\ Notes(result, Line) BY LineIs
<1> HIDE DEF Line
<1>2. PICK s : s = CallSub(Line, name, args) OBVIOUS
<1>3. PICK S : args \in Seq(S)
  <2>1. \A T : <<>> \in Seq(T) BY EmptyIsSeq
  <2>2. <<"number">> \in Seq({"number"}) BY OneSeq
  <2>3. \A x : <<x>> \in Seq({x}) BY OneSeq
  <2> QED BY <2>1, <2>2, <2>3 DEF ArgLists
<1>4. Writes(Line, s, Loud) /\ (Ok(s) => CallsTo(Line, s, name)) BY <1>1, <1>2, <1>3, LoudIs, CallSubWrites
<1>5. Coded(s) BY <1>4 DEF Writes
<1>6. Writes(s, q, Loud) BY <1>2, <1>5, LoudIs, DropResultWrites
<1>7. Writes(Line, q, Loud) BY <1>1, <1>4, <1>6, WritesTrans
<1>8. Ok(q) => Ok(s) BY <1>2 DEF DropResult
<1>9. Ok(q) => CallsTo(Line, q, name) BY <1>1, <1>4, <1>6, <1>8, CallsStay
<1> QED BY <1>1, <1>7, <1>9 DEF Records, Noted, Mentions

(* A closing brace is noted.                                                 *)
LEMMA CloseRecords ==
  ASSUME Sound(result), NEW l, l.kind = "Close", NEW behind \in {"nothing", "other"}, l.behind = behind,
         NEW e, NEW junk \in BOOLEAN,
         NEW q, q = BehindBrace(BLOCK_END(Line, behind # "nothing"), behind, e, junk)
  PROVE  Records(l, result, q)
<1>1. Coded(Line) /\ Sound(Line) /\ Notes(result, Line) BY LineIs
<1> HIDE DEF Line
<1>2. PICK more \in BOOLEAN : more = (behind # "nothing") OBVIOUS
<1>3. q = BLOCK_END(Line, more) BY <1>2, Zenon DEF BehindBrace
<1>4. Completes(Line, q) BY <1>1, <1>3, BlockEndWrites
<1>5. Mentions(l, Line, q) \/ Ends(Line, q) BY <1>4 DEF Completes, Ends, Mentions
<1> QED BY <1>1, <1>5 DEF Records, Noted

(* The brace before an ELSE ends no routine.                                 *)
LEMMA BranchWrites ==
  ASSUME Sound(result), NEW L \in Nat, L > 0, NEW T, Orders(result, L, T), T[L] \in Branches,
         NEW s, s = ClosedBehind, Ok(s)
  PROVE  Sound(s) /\ Coded(s) /\ Writes(Line, s, Loud)
<1>1. Coded(Line) /\ Sound(Line) /\ TRUE \in BOOLEAN BY LineIs
<1>2. Sound(s) /\ Len(s.block_vect) = Len(Line.block_vect) - 1 /\ Len(Line.block_vect) > 2
      /\ Len(Line.block_vect) \in Nat
  BY LeavesBranch
<1> HIDE DEF Line
<1>3. Completes(Line, s) BY <1>1, BlockEndWrites, Zenon DEF ClosedBehind
<1>4. Coded(s) BY <1>2, SoundCoded
<1>5. s.block_vect # <<>> BY <1>2
<1>6. Writes(Line, s, Loud) BY <1>3, <1>5 DEF Completes, Finishes
<1> QED BY <1>2, <1>4, <1>6

(* An ELSE is noted.                                                         *)
LEMMA ElseRecords ==
  ASSUME Sound(result), NEW l, l.kind = "Close", NEW behind \in {"else", "else_if"}, l.behind = behind,
         NEW e, behind = "else_if" => e \in Expressions, NEW junk \in BOOLEAN,
         NEW q, q = BehindBrace(ClosedBehind, behind, e, junk)
  PROVE  Records(l, result, q)
<1> SUFFICES ASSUME NEW L \in Nat, NEW T, Orders(result, L, T), InLine(l, L, T), Ok(q)
             PROVE  Noted(l, result, q)
  BY DEF Records
<1>1. L > 0 /\ T[L] \in Branches BY DEF InLine
<1>2. PICK s : s = ClosedBehind OBVIOUS
<1>3. Ok(s) BY <1>2 DEF BehindBrace
<1>4. Sound(s) /\ Coded(s) /\ Writes(Line, s, Loud) BY <1>1, <1>2, <1>3, BranchWrites
<1>5. Notes(result, Line) /\ Coded(Line) BY LineIs
<1> HIDE DEF Line
<1>6. Writes(s, q, Loud) BY <1>2, <1>4, BehindWrites
<1>7. Writes(Line, q, Loud) BY <1>4, <1>5, <1>6, WritesTrans
<1> QED BY <1>5, <1>7 DEF Noted, Mentions

(* A FUNC is noted.                                                          *)
LEMMA FuncRecords ==
  ASSUME Sound(result), NEW name \in FuncNames, NEW l, l.kind = "Func", l.name = name, NEW params \in ParamLists,
         NEW outside, outside = (result.func_info = NULL), NEW declared,
         declared = Params(IF outside THEN BeginSub(open_block(Line, "bt_proc"), name)
                           ELSE Param(Line, name), params),
         Ok(declared) => Range(ParamsOf(declared)) \subseteq DOMAIN declared.vars_vect,
         NEW q, q = BeginBody(declared, outside)
  PROVE  Records(l, result, q)
<1> SUFFICES ASSUME NEW L \in Nat, NEW T, Orders(result, L, T), InLine(l, L, T), Ok(q)
             PROVE  Noted(l, result, q)
  BY DEF Records
<1>1. Coded(Line) /\ Sound(Line) /\ Notes(result, Line) BY LineIs
<1>2. result.func_info = NULL
  <2>1. L = 0 BY DEF InLine
  <2>2. result.block_vect = <<>> BY <2>1, StackTop DEF Orders
  <2> QED BY <2>2 DEF Orders, VarsIn
<1> HIDE DEF Line
<1>3. PICK o : o = open_block(Line, "bt_proc") OBVIOUS
<1>4. PICK b : b = BeginSub(o, name) OBVIOUS
<1>5. outside = TRUE BY <1>2
<1>6. declared = Params(b, params) BY <1>3, <1>4, <1>5, Zenon
<1>7. q = BeginBody(declared, TRUE) BY <1>5
<1>8. Opens(Line, o, "bt_proc") /\ Sound(o)
  <2>1. "bt_proc" \in BlockKind BY DEF BlockKind
  <2>2. Opens(Line, o, "bt_proc") BY <1>1, <1>3, <2>1, OpenSound, Zenon
  <2> QED BY <2>2 DEF Opens
<1>9. Writes(Line, o, Loud) BY <1>1, <1>3, OpenWrites, Zenon
<1>10. Coded(o) /\ o.obj = Line.obj /\ o.line_num = Line.line_num /\ o.funcs_vect = Line.funcs_vect
  BY <1>8, <1>9 DEF Writes, Opens, SameRoutine
<1>11. Marks(o, b, "object_exist") \/ StartsRoutine(o, b) BY <1>4, <1>8, BeginSubSound
<1>12. params \in Seq(VarName)
  <2>1. <<>> \in Seq(VarName) /\ \A x \in VarName : <<x>> \in Seq(VarName)
    BY EmptyIsSeq, OneSeq, Zenon
  <2> QED BY <2>1 DEF ParamLists, VarName
<1>13. Sound(b) /\ (b.func_info # NULL \/ ~Ok(b))
  <2>1. Len(o.funcs_vect) \in Nat BY <1>8, NumbersAre
  <2> QED BY <1>11, <2>1 DEF Marks, Emits, Ok, StartsRoutine, NULL
<1>14. /\ Adds(b, declared) /\ (declared.func_info # NULL \/ ~Ok(declared))
       /\ Ok(declared) => Ok(b)
  BY <1>6, <1>12, <1>13, ParamsSound
<1>15. Sound(declared) BY <1>14 DEF Adds
<1>16. Ok(declared) /\ Ok(b) BY <1>7, <1>14 DEF BeginBody
<1>17. Enters(o, b, name) BY <1>4, <1>8, <1>10, <1>16, BeginSubEnters
<1>18. Enters(Line, b, name) BY <1>10, <1>17 DEF Enters
<1>19. Coded(b) /\ Coded(declared) BY <1>13, <1>15, SoundCoded
<1>20. Writes(b, declared, Loud) BY <1>6, <1>12, <1>13, <1>19, LoudIs, ParamsWrites
<1>21. Writes(declared, q, Loud) BY <1>7, <1>14, <1>15, <1>16, <1>19, LoudIs, BodyWrites
<1>22. Writes(b, q, Loud) BY <1>19, <1>20, <1>21, WritesTrans
<1> QED BY <1>1, <1>2, <1>18, <1>22 DEF Noted, Starts

(* Every line is noted. *)
LEMMA StatementRecords ==
  ASSUME Sound(result), Statement
  PROVE  \E l : source' = Append(source, l) /\ Records(l, result, result')
<1> DEFINE Reached == \E l : source' = Append(source, l) /\ Records(l, result, result')
<1> SUFFICES Reached
  OBVIOUS
<1>a. ASSUME NEW l, source' = Append(source, l), Records(l, result, result') PROVE Reached
  BY <1>a
<1> HIDE DEF Reached
<1>1. ASSUME NEW name \in LabelNames, Label(name) PROVE Reached
  BY <1>1, <1>a, LabelRecords DEF Label, Reads, Plain
<1>2. ASSUME NEW name \in LabelNames, Goto(name) PROVE Reached
  BY <1>2, <1>a, GotoRecords DEF Goto, Reads, Plain
<1>3. ASSUME NEW name \in VarNames, NEW d \in Declarations, NEW e \in Expressions \cup {"none"},
             Declare(name, d, e)
      PROVE  Reached
  <2> DEFINE l == [Plain EXCEPT !.kind = "Declare", !.name = name, !.value = e,
                                !.sizes = <<Bytes(d)>>, !.auto_size = (d.array_size = 0)]
  <2>1. /\ source' = Append(source, l)
        /\ result' = LET auto   == d.array_size = 0
                         flags  == {"inline_array"} \cup (IF d.type = "vt_array_of_byte" THEN {} ELSE any_expr)
                         object == auto \/ (d.array_size < 0 /\ d.type = "vt_array_of_byte")
                     IN  IF auto /\ e = "none" THEN Error(Line, "array_index_invalid")
                         ELSE WithValue(DeclareVar(Line, name, d.type, d.array_size), e, auto, object, flags)
    BY <1>3, Zenon DEF Declare, Reads
  <2>2. l.kind = "Declare" BY DEF Plain
  <2> HIDE DEF l
  <2>3. Records(l, result, result') BY <2>1, <2>2, DeclareRecords, Zenon
  <2> QED BY <1>a, <2>1, <2>3
<1>4. ASSUME NEW name \in VarNames, NEW e \in Expressions, Assign(name, e) PROVE Reached
  BY <1>4, <1>a, AssignRecords DEF Assign, Reads, Plain
<1>5. ASSUME NEW e \in Conditions, NEW junk \in BOOLEAN, If(e, junk) PROVE Reached
  <2>1. e \in Expressions BY DEF Conditions
  <2> QED BY <1>5, <1>a, <2>1, IfRecords DEF If, Reads, Plain
<1>6. ASSUME NEW e \in Conditions, NEW junk \in BOOLEAN, Close("else_if", e, junk) PROVE Reached
  <2>1. e \in Expressions BY DEF Conditions
  <2>2. PICK l : l = [Plain EXCEPT !.kind = "Close", !.behind = "else_if", !.value = e] OBVIOUS
  <2>3. ("else_if" # "nothing") = TRUE OBVIOUS
  <2>4. /\ source' = Append(source, l)
        /\ result' = BehindBrace(BLOCK_END(Line, "else_if" # "nothing"), "else_if", e, junk)
    BY <1>6, <2>2, Zenon DEF Close, Reads
  <2>5. result' = BehindBrace(ClosedBehind, "else_if", e, junk) BY <2>3, <2>4, Zenon DEF ClosedBehind
  <2>6. l.kind = "Close" /\ l.behind = "else_if" /\ "else_if" \in {"else", "else_if"} BY <2>2 DEF Plain
  <2>7. Records(l, result, result') BY <2>1, <2>5, <2>6, ElseRecords, Zenon
  <2> QED BY <1>a, <2>4, <2>7
<1>7. ASSUME NEW e \in Conditions, While(e) PROVE Reached
  <2>1. e \in Expressions BY DEF Conditions
  <2> QED BY <1>7, <1>a, <2>1, WhileRecords DEF While, Reads, Plain
<1>8. ASSUME NEW e \in Conditions, Return(e) PROVE Reached
  <2>1. e \in Expressions BY DEF Conditions
  <2> QED BY <1>8, <1>a, <2>1, ReturnRecords DEF Return, Reads, Plain
<1>9. ASSUME NEW behind \in Behinds \ {"else_if"}, Close(behind, "none", FALSE) PROVE Reached
  <2>1. PICK l : l = [Plain EXCEPT !.kind = "Close", !.behind = behind, !.value = "none"] OBVIOUS
  <2>2. /\ source' = Append(source, l)
        /\ result' = BehindBrace(BLOCK_END(Line, behind # "nothing"), behind, "none", FALSE)
    BY <1>9, <2>1, Zenon DEF Close, Reads
  <2>3. l.kind = "Close" /\ l.behind = behind BY <2>1 DEF Plain
  <2>4. FALSE \in BOOLEAN OBVIOUS
  <2>5. CASE behind = "else"
    <3>1. ("else" # "nothing") = TRUE OBVIOUS
    <3>2. result' = BehindBrace(ClosedBehind, "else", "none", FALSE)
      BY <2>2, <2>5, <3>1, Zenon DEF ClosedBehind
    <3>3. "else" \in {"else", "else_if"} /\ ("else" = "else_if" => "none" \in Expressions) OBVIOUS
    <3>4. Records(l, result, result') BY <2>3, <2>4, <2>5, <3>2, <3>3, ElseRecords, Zenon
    <3> QED BY <1>a, <2>2, <3>4
  <2>6. CASE behind # "else"
    <3>1. behind \in {"nothing", "other"} BY <2>6 DEF Behinds
    <3>2. Records(l, result, result') BY <2>2, <2>3, <2>4, <3>1, CloseRecords, Zenon
    <3> QED BY <1>a, <2>2, <3>2
  <2> QED BY <2>5, <2>6
<1>10. ASSUME NEW name \in FuncNames, NEW params \in ParamLists, Func(name, params) PROVE Reached
  <2> DEFINE l == [Plain EXCEPT !.kind = "Func", !.name = name, !.params = params,
                            !.sizes = [i \in DOMAIN params |-> FptBytes]]
             outside == result.func_info = NULL
             declared == Params(IF outside THEN BeginSub(open_block(Line, "bt_proc"), name)
                                ELSE Param(Line, name), params)
  <2>1. /\ source' = Append(source, l) /\ result' = BeginBody(declared, outside)
        /\ Ok(declared) => Range(ParamsOf(declared)) \subseteq DOMAIN declared.vars_vect
    BY <1>10, Zenon DEF Func, Reads
  <2>2. l.kind = "Func" /\ l.name = name BY DEF Plain
  <2> HIDE DEF l
  <2>3. Records(l, result, result') BY <2>1, <2>2, FuncRecords, Zenon
  <2> QED BY <1>a, <2>1, <2>3
<1>11. ASSUME NEW name \in FuncNames, NEW args \in ArgLists, Call(name, args) PROVE Reached
  <2>1. PICK l : l = [Plain EXCEPT !.kind = "Call", !.name = name, !.params = args] OBVIOUS
  <2>2. l.kind = "Call" /\ l.name = name BY <2>1 DEF Plain
  <2>3. source' = Append(source, l) /\ result' = DropResult(CallSub(Line, name, args))
    BY <1>11, <2>1, Zenon DEF Call, Reads
  <2>4. Records(l, result, result') BY <2>2, <2>3, CallRecords, Zenon
  <2> QED BY <1>a, <2>3, <2>4
<1>12. ASSUME NEW parts \in PrintLists, PRINT(parts) PROVE Reached
  BY <1>12, <1>a, PrintRecords DEF PRINT, Reads, Plain
<1>13. CASE Open BY <1>13, <1>a, OpenRecords DEF Open, Reads, Plain
<1>14. CASE Break BY <1>14, <1>a, BreakRecords DEF Break, Reads, Plain
<1>15. CASE Brkpnt BY <1>15, <1>a, BrkpntRecords DEF Brkpnt, Reads, Plain
<1>16. CASE Stop BY <1>16, <1>a, StopRecords DEF Stop, Reads, Plain
<1> QED BY <1>1, <1>2, <1>3, <1>4, <1>5, <1>6, <1>7, <1>8, <1>9, <1>10, <1>11, <1>12, <1>13,
           <1>14, <1>15, <1>16 DEF Statement

-----------------------------------------------------------------------------
(* What a line does, by the routine that was and is being compiled.          *)

(* The main part and the routines' part; the part of a line whose routine is *)
(* number h, 0 for none; the routine being compiled, and how many are done.  *)
Main(r) == r.obj[FALSE]
Subs(r) == r.obj[TRUE]
In(h, r) == IF h = 0 THEN Main(r) ELSE Subs(r)
Now(r)  == IF r.func_info = NULL THEN 0 ELSE Len(r.funcs_vect)
Done(r) == IF r.func_info = NULL THEN Len(r.funcs_vect) ELSE Len(r.funcs_vect) - 1

(* The instructions that are new.                                            *)
NewIn(p, t) == Range(t.code) \ Range(p.code)
(* The part p has become t: what was there is, what is new is behind it.     *)
Longer(p, t) ==
  /\ p.size \in Nat /\ t.size \in Nat /\ p.size <= t.size
  /\ Range(p.code) \subseteq Range(t.code)
  /\ \A c \in NewIn(p, t) : c.at \in Nat /\ p.size <= c.at /\ c.at < t.size
(* What is new is neither a mark nor a RET.                                  *)
QuietPart(p, t) == Longer(p, t) /\ \A c \in NewIn(p, t) : c.instr.op # "RET" /\ c.instr.op # "DBG"
(* What is new begins with line k's mark.                                    *)
NotedPart(p, t, k) ==
  /\ Longer(p, t) /\ p.size < t.size
  /\ \A c \in NewIn(p, t) : c.instr.op # "RET" /\ (c.instr.op = "DBG" => c.instr.arg = k /\ c.at = p.size)
  /\ \E c \in Range(t.code) : c.instr.op = "DBG" /\ c.instr.arg = k /\ c.at = p.size
(* What is new begins with line k's mark and ends with a RET.                *)
EndedPart(p, t, k) ==
  /\ Longer(p, t) /\ p.size < t.size - 1
  /\ \A c \in NewIn(p, t) : /\ c.instr.op = "RET" => c.at = t.size - 1
                            /\ c.instr.op # "RET" => c.at < t.size - 1
                            /\ c.instr.op = "DBG" => c.instr.arg = k /\ c.at = p.size
  /\ \E c \in Range(t.code) : c.instr.op = "DBG" /\ c.instr.arg = k /\ c.at = p.size
  /\ \E c \in Range(t.code) : c.instr.op = "RET" /\ c.at = t.size - 1

(* What a line writes besides is neither a mark nor a RET.                   *)
LEMMA LoudNot == ASSUME NEW op \in Loud PROVE op # "DBG" /\ op # "RET"
BY DEF Loud

(* Such writing is quiet.                                                    *)
LEMMA GrownQuiet ==
  ASSUME NEW p, p.size \in Nat, NEW t, t.size \in Nat, t = p \/ Grown(p, t, Loud)
  PROVE  QuietPart(p, t)
<1>1. CASE t = p BY <1>1 DEF QuietPart, Longer, NewIn
<1>2. CASE Grown(p, t, Loud)
  <2>1. Longer(p, t) BY <1>2 DEF Grown, Longer, NewIn
  <2>2. \A c \in NewIn(p, t) : c.instr.op \in Loud BY <1>2 DEF Grown, NewIn
  <2> QED BY <2>1, <2>2, LoudNot DEF QuietPart
<1> QED BY <1>1, <1>2

(* Line k's mark, then quiet writing.                                        *)
LEMMA PartNotes ==
  ASSUME NEW p, NEW t, NEW c, NEW k, Extended(p, t, c), c.instr.op = "DBG", c.instr.arg = k,
         NEW u, QuietPart(t, u)
  PROVE  NotedPart(p, u, k)
<1>1. CmdSize("DBG") \in 1..5 BY CmdSizeIs
<1>2. PICK m \in 1..5 : m = CmdSize("DBG") BY <1>1
<1>3. p.size \in Nat /\ c.at = p.size /\ t.size = p.size + m /\ Range(t.code) = Range(p.code) \cup {c}
  BY <1>2 DEF Extended
<1>4. t.size \in Nat /\ u.size \in Nat /\ t.size <= u.size /\ Range(t.code) \subseteq Range(u.code)
  BY DEF QuietPart, Longer
<1>5. ASSUME NEW d \in NewIn(p, u)
      PROVE  /\ d.at \in Nat /\ p.size <= d.at /\ d.at < u.size
             /\ d.instr.op # "RET" /\ (d.instr.op = "DBG" => d.instr.arg = k /\ d.at = p.size)
  <2>1. CASE d = c BY <1>3, <1>4, <2>1
  <2>2. CASE d # c
    <3>1. d \in NewIn(t, u) BY <1>3, <2>2 DEF NewIn
    <3>2. d.at \in Nat /\ t.size <= d.at /\ d.at < u.size /\ d.instr.op # "RET" /\ d.instr.op # "DBG"
      BY <3>1 DEF QuietPart, Longer
    <3> QED BY <1>3, <1>4, <3>2
  <2> QED BY <2>1, <2>2
<1>6. p.size < u.size /\ c \in Range(u.code) /\ Range(p.code) \subseteq Range(u.code) BY <1>3, <1>4
<1>7. Longer(p, u) BY <1>3, <1>4, <1>5, <1>6 DEF Longer
<1> QED BY <1>3, <1>5, <1>6, <1>7 DEF NotedPart

(* Line k's mark and code, then the RET.                                     *)
LEMMA PartEnds ==
  ASSUME NEW p, NEW t, NEW k, NotedPart(p, t, k), NEW u, NEW c, Extended(t, u, c), c.instr.op = "RET"
  PROVE  EndedPart(p, u, k)
<1>1. CmdSize("RET") = 1
  <2>1. "RET" \in PlainOps /\ "RET" \notin IdOps \cup WordOps \cup WordByteOps
    BY DEF PlainOps, IdOps, WordOps, WordByteOps
  <2> QED BY <2>1 DEF CmdSize
<1>2. t.size \in Nat /\ c.at = t.size /\ u.size = t.size + 1 /\ Range(u.code) = Range(t.code) \cup {c}
  BY <1>1 DEF Extended
<1>3. p.size \in Nat /\ p.size < t.size /\ Range(p.code) \subseteq Range(t.code)
  BY DEF NotedPart, Longer
<1>4. ASSUME NEW d \in NewIn(p, u)
      PROVE  /\ d.at \in Nat /\ p.size <= d.at /\ d.at < u.size
             /\ d.instr.op = "RET" => d.at = u.size - 1
             /\ d.instr.op # "RET" => d.at < u.size - 1
             /\ d.instr.op = "DBG" => d.instr.arg = k /\ d.at = p.size
  <2>1. CASE d = c BY <1>2, <1>3, <2>1
  <2>2. CASE d # c
    <3>1. d \in NewIn(p, t) BY <1>2, <2>2 DEF NewIn
    <3>2. /\ d.at \in Nat /\ p.size <= d.at /\ d.at < t.size /\ d.instr.op # "RET"
          /\ d.instr.op = "DBG" => d.instr.arg = k /\ d.at = p.size
      BY <3>1 DEF NotedPart, Longer
    <3> QED BY <1>2, <3>2
  <2> QED BY <2>1, <2>2
<1>5. Longer(p, u) /\ p.size < u.size - 1 BY <1>2, <1>3, <1>4 DEF Longer
<1>6. \E d \in Range(u.code) : d.instr.op = "DBG" /\ d.instr.arg = k /\ d.at = p.size
  BY <1>2 DEF NotedPart
<1>7. \E d \in Range(u.code) : d.instr.op = "RET" /\ d.at = u.size - 1 BY <1>2
<1> QED BY <1>4, <1>5, <1>6, <1>7 DEF EndedPart

(* What a line leaves, by the routine that was and is being compiled.        *)
Compiling(r) ==
  /\ Coded(r) /\ r.func_info \in 0..Len(r.funcs_vect) /\ Len(r.funcs_vect) \in Nat
  /\ r.func_info = NULL => r.subs_body = FALSE
  /\ r.func_info # NULL => r.subs_body = TRUE
  /\ \A f \in 1..Len(r.funcs_vect) : r.funcs_vect[f].vm_code_offset \in Nat

(* A sound Result is as a compilation leaves it.                             *)
LEMMA SoundCompiling == ASSUME NEW r, Sound(r) PROVE Compiling(r)
<1>1. Coded(r) BY SoundCoded
<1>2. r.func_info \in 0..Len(r.funcs_vect) /\ Len(r.funcs_vect) \in Nat BY DEF Sound, Result, RoutineRefs
<1>3. (r.subs_body <=> r.func_info # NULL) /\ r.subs_body \in BOOLEAN BY DEF Sound, RoutineRefs, Result
<1>4. \A f \in 1..Len(r.funcs_vect) : r.funcs_vect[f].vm_code_offset \in Nat BY FuncIs
<1> QED BY <1>1, <1>2, <1>3, <1>4 DEF Compiling

(* The routines known stay, with their names and entries.                    *)
SameFuncs(r, q) ==
  \A f \in 1..Len(r.funcs_vect) :
    /\ q.funcs_vect[f].name = r.funcs_vect[f].name
    /\ q.funcs_vect[f].vm_code_offset = r.funcs_vect[f].vm_code_offset
(* A label moves no code but the current part's, quietly.                    *)
OnLabel(r, q) ==
  /\ q.func_info = r.func_info /\ Len(q.funcs_vect) = Len(r.funcs_vect)
  /\ r.func_info = NULL => QuietPart(Main(r), Main(q)) /\ Subs(q) = Subs(r)
  /\ r.func_info # NULL => QuietPart(Subs(r), Subs(q)) /\ Main(q) = Main(r)
(* A line marks the current part.                                            *)
OnLine(r, q) ==
  /\ q.func_info = r.func_info /\ Len(q.funcs_vect) = Len(r.funcs_vect)
  /\ r.func_info = NULL => NotedPart(Main(r), Main(q), r.line_num + 1) /\ Subs(q) = Subs(r)
  /\ r.func_info # NULL => NotedPart(Subs(r), Subs(q), r.line_num + 1) /\ Main(q) = Main(r)
(* A line closes its routine.                                                *)
OnEnd(r, q) ==
  /\ r.func_info # NULL /\ q.func_info = NULL /\ q.block_vect = <<>> /\ Len(q.funcs_vect) = Len(r.funcs_vect)
  /\ EndedPart(Subs(r), Subs(q), r.line_num + 1) /\ Main(q) = Main(r)
(* A FUNC opens the next routine where the routines' part ends.              *)
OnFunc(r, q, name) ==
  /\ r.func_info = NULL /\ q.func_info = Len(r.funcs_vect) + 1
  /\ Len(q.funcs_vect) = Len(r.funcs_vect) + 1
  /\ q.funcs_vect[Len(r.funcs_vect) + 1].name = name
  /\ q.funcs_vect[Len(r.funcs_vect) + 1].vm_code_offset = Subs(r).size
  /\ NotedPart(Main(r), Main(q), r.line_num + 1) /\ QuietPart(Subs(r), Subs(q))
(* The call is behind the line's own mark.                                   *)
CallsFrom(r, q, name) ==
  \E f \in 1..Len(r.funcs_vect) :
    /\ r.funcs_vect[f].name = name
    /\ \E c \in Range(In(Now(r), q).code) :
         /\ c.instr.op = "CALL_PRG_FUNC" /\ c.instr.arg = r.funcs_vect[f].vm_code_offset
         /\ c.at \in Nat /\ In(Now(r), r).size < c.at /\ c.at < In(Now(r), q).size
(* What is known of a line's step.                                           *)
Reports(l, r, q) ==
  /\ q.line_num = r.line_num + 1 /\ SameFuncs(r, q)
  /\ \/ l.kind = "Label" /\ OnLabel(r, q)
     \/ l.kind \notin {"Label", "Func"} /\ OnLine(r, q) /\ (l.kind = "Call" => CallsFrom(r, q, l.name))
     \/ l.kind = "Close" /\ OnEnd(r, q)
     \/ l.kind = "Func" /\ OnFunc(r, q, l.name)

(* Quiet writing grows the current part only.                                *)
LEMMA QuietIs ==
  ASSUME NEW p, Coded(p), NEW q, Writes(p, q, Loud)
  PROVE  /\ p.subs_body = FALSE => QuietPart(Main(p), Main(q)) /\ Subs(q) = Subs(p)
         /\ p.subs_body = TRUE => QuietPart(Subs(p), Subs(q)) /\ Main(q) = Main(p)
<1>1. /\ p.obj[TRUE].size \in Nat /\ p.obj[FALSE].size \in Nat
      /\ q.obj[TRUE].size \in Nat /\ q.obj[FALSE].size \in Nat
  BY DEF Writes, Coded, CodePart
<1>2. TRUE \in BOOLEAN /\ FALSE \in BOOLEAN /\ TRUE # FALSE OBVIOUS
<1>3. ASSUME p.subs_body = FALSE
      PROVE  q.obj[TRUE] = p.obj[TRUE]
             /\ (q.obj[FALSE] = p.obj[FALSE] \/ Grown(p.obj[FALSE], q.obj[FALSE], Loud))
  BY <1>2, <1>3, Zenon DEF Writes
<1>4. ASSUME p.subs_body = TRUE
      PROVE  q.obj[FALSE] = p.obj[FALSE]
             /\ (q.obj[TRUE] = p.obj[TRUE] \/ Grown(p.obj[TRUE], q.obj[TRUE], Loud))
  BY <1>2, <1>4, Zenon DEF Writes
<1> QED BY <1>1, <1>3, <1>4, GrownQuiet DEF Main, Subs

(* The line's mark, and what follows it.                                     *)
LEMMA NotedIs ==
  ASSUME NEW r, Compiling(r), NEW p, Notes(r, p), NEW q, Writes(p, q, Loud)
  PROVE  /\ Coded(p)
         /\ r.func_info = NULL => NotedPart(Main(r), Main(q), r.line_num + 1) /\ Subs(q) = Subs(r)
         /\ r.func_info # NULL => NotedPart(Subs(r), Subs(q), r.line_num + 1) /\ Main(q) = Main(r)
<1> DEFINE k == r.line_num + 1
<1>1. Coded(p) /\ p.subs_body = r.subs_body /\ Puts(r, p, "DBG", k) BY DEF Notes
<1>2. PICK c : /\ c.instr.op = "DBG" /\ c.instr.arg = k
               /\ Extended(r.obj[r.subs_body], p.obj[r.subs_body], c)
               /\ \A a \in BOOLEAN : a = r.subs_body \/ p.obj[a] = r.obj[a]
  BY <1>1, Zenon DEF Puts
<1> HIDE DEF k
<1>3. TRUE \in BOOLEAN /\ FALSE \in BOOLEAN /\ TRUE # FALSE OBVIOUS
<1>4. ASSUME r.func_info = NULL
      PROVE  NotedPart(Main(r), Main(q), k) /\ Subs(q) = Subs(r)
  <2>1. r.subs_body = FALSE BY <1>4 DEF Compiling
  <2>2. Extended(r.obj[FALSE], p.obj[FALSE], c) /\ p.obj[TRUE] = r.obj[TRUE]
    BY <1>2, <1>3, <2>1, Zenon
  <2>3. QuietPart(Main(p), Main(q)) /\ Subs(q) = Subs(p) BY <1>1, <2>1, QuietIs, Zenon
  <2>4. Extended(Main(r), Main(p), c) /\ Subs(p) = Subs(r) BY <2>2 DEF Main, Subs
  <2>5. NotedPart(Main(r), Main(q), k) BY <1>2, <2>3, <2>4, PartNotes, Zenon
  <2> QED BY <2>3, <2>4, <2>5
<1>5. ASSUME r.func_info # NULL
      PROVE  NotedPart(Subs(r), Subs(q), k) /\ Main(q) = Main(r)
  <2>1. r.subs_body = TRUE BY <1>5 DEF Compiling
  <2>2. Extended(r.obj[TRUE], p.obj[TRUE], c) /\ p.obj[FALSE] = r.obj[FALSE]
    BY <1>2, <1>3, <2>1, Zenon
  <2>3. QuietPart(Subs(p), Subs(q)) /\ Main(q) = Main(p) BY <1>1, <2>1, QuietIs, Zenon
  <2>4. Extended(Subs(r), Subs(p), c) /\ Main(p) = Main(r) BY <2>2 DEF Main, Subs
  <2>5. NotedPart(Subs(r), Subs(q), k) BY <1>2, <2>3, <2>4, PartNotes, Zenon
  <2> QED BY <2>3, <2>4, <2>5
<1> QED BY <1>1, <1>4, <1>5 DEF k

(* The routines known stay.                                                  *)
LEMMA FuncsKept ==
  ASSUME NEW r, NEW p, NEW q, p.funcs_vect = r.funcs_vect, SameEntries(p, q)
  PROVE  SameFuncs(r, q) /\ Len(q.funcs_vect) = Len(r.funcs_vect)
BY DEF SameFuncs, SameEntries

(* What is known of a label's step.                                          *)
LEMMA ReportsLabel ==
  ASSUME NEW l, l.kind = "Label", NEW r, Compiling(r), NEW p, Counts(r, p), NEW q, Writes(p, q, Loud)
  PROVE  Reports(l, r, q)
<1>1. /\ Coded(p) /\ p.line_num = r.line_num + 1
      /\ p.func_info = r.func_info /\ p.subs_body = r.subs_body /\ p.funcs_vect = r.funcs_vect
      /\ Main(p) = Main(r) /\ Subs(p) = Subs(r)
  BY DEF Counts, Main, Subs
<1>2. SameEntries(p, q) /\ q.line_num = r.line_num + 1 /\ q.func_info = r.func_info
  BY <1>1 DEF Writes, SameEntries
<1>3. SameFuncs(r, q) /\ Len(q.funcs_vect) = Len(r.funcs_vect) BY <1>1, <1>2, FuncsKept
<1>4. /\ r.func_info = NULL => QuietPart(Main(r), Main(q)) /\ Subs(q) = Subs(r)
      /\ r.func_info # NULL => QuietPart(Subs(r), Subs(q)) /\ Main(q) = Main(r)
  BY <1>1, QuietIs DEF Compiling
<1>5. OnLabel(r, q) BY <1>2, <1>3, <1>4 DEF OnLabel
<1> QED BY <1>2, <1>3, <1>5 DEF Reports

(* A call's line leaves the call behind its mark.                            *)
LEMMA CallsReported ==
  ASSUME NEW r, Compiling(r), NEW p, Notes(r, p), NEW q, Writes(p, q, Loud), NEW name, CallsTo(p, q, name)
  PROVE  CallsFrom(r, q, name)
<1>1. p.subs_body = r.subs_body /\ p.funcs_vect = r.funcs_vect /\ Puts(r, p, "DBG", r.line_num + 1) /\ Coded(p)
  BY DEF Notes
<1>2. PICK f \in 1..Len(r.funcs_vect) :
        /\ r.funcs_vect[f].name = name
        /\ \E c \in Range(q.obj[r.subs_body].code) :
             /\ c.instr.op = "CALL_PRG_FUNC" /\ c.instr.arg = r.funcs_vect[f].vm_code_offset
             /\ c.at \in Nat /\ p.obj[r.subs_body].size <= c.at /\ c.at < q.obj[r.subs_body].size
  BY <1>1 DEF CallsTo
<1>3. PICK c \in Range(q.obj[r.subs_body].code) :
        /\ c.instr.op = "CALL_PRG_FUNC" /\ c.instr.arg = r.funcs_vect[f].vm_code_offset
        /\ c.at \in Nat /\ p.obj[r.subs_body].size <= c.at /\ c.at < q.obj[r.subs_body].size
  BY <1>2
<1>4. r.obj[r.subs_body].size \in Nat /\ r.obj[r.subs_body].size < p.obj[r.subs_body].size
      /\ p.obj[r.subs_body].size \in Nat
  <2>1. PICK d : d.instr.op = "DBG" /\ Extended(r.obj[r.subs_body], p.obj[r.subs_body], d)
    BY <1>1, Zenon DEF Puts
  <2>2. CmdSize("DBG") \in 1..5 BY CmdSizeIs
  <2> QED BY <2>1, <2>2 DEF Extended
<1>5. q.obj[r.subs_body].size \in Nat
  <2>1. r.subs_body \in BOOLEAN BY DEF Compiling, Coded
  <2> QED BY <2>1 DEF Writes, Coded, CodePart
<1>6. r.obj[r.subs_body].size < c.at BY <1>3, <1>4
<1>7. In(Now(r), q) = q.obj[r.subs_body] /\ In(Now(r), r) = r.obj[r.subs_body]
  <2>1. CASE r.func_info = NULL BY <2>1 DEF In, Now, Main, Compiling
  <2>2. CASE r.func_info # NULL
    <3>1. Len(r.funcs_vect) # 0 /\ r.subs_body = TRUE BY <2>2 DEF Compiling, NULL
    <3> QED BY <2>2, <3>1 DEF In, Now, Subs
  <2> QED BY <2>1, <2>2
<1> QED BY <1>2, <1>3, <1>6, <1>7 DEF CallsFrom

(* What is known of another line's step.                                     *)
LEMMA ReportsLine ==
  ASSUME NEW l, l.kind \notin {"Label", "Func"}, NEW r, Compiling(r), NEW p, Notes(r, p), NEW q, Mentions(l, p, q)
  PROVE  Reports(l, r, q)
<1>1. Writes(p, q, Loud) BY DEF Mentions
<1>2. p.line_num = r.line_num + 1 /\ p.func_info = r.func_info /\ p.funcs_vect = r.funcs_vect
  BY DEF Notes
<1>3. SameEntries(p, q) /\ q.line_num = r.line_num + 1 /\ q.func_info = r.func_info
  BY <1>1, <1>2 DEF Writes, SameEntries
<1>4. SameFuncs(r, q) /\ Len(q.funcs_vect) = Len(r.funcs_vect) BY <1>2, <1>3, FuncsKept
<1>5. OnLine(r, q) BY <1>1, <1>3, <1>4, NotedIs DEF OnLine
<1>6. l.kind = "Call" => CallsFrom(r, q, l.name) BY <1>1, CallsReported DEF Mentions
<1> QED BY <1>3, <1>4, <1>5, <1>6 DEF Reports

(* What is known of a line that ends its routine.                            *)
LEMMA ReportsEnd ==
  ASSUME NEW l, l.kind = "Close", NEW r, Compiling(r), NEW p, Notes(r, p), NEW q, Ends(p, q)
  PROVE  Reports(l, r, q)
<1>1. PICK s : Writes(p, s, Loud) /\ Finishes(s, q) BY DEF Ends
<1>2. p.line_num = r.line_num + 1 /\ p.func_info = r.func_info /\ p.funcs_vect = r.funcs_vect
  BY DEF Notes
<1>3. /\ SameEntries(p, s) /\ s.line_num = r.line_num + 1 /\ s.func_info = r.func_info
      /\ q.line_num = s.line_num /\ q.funcs_vect = s.funcs_vect /\ s.func_info # NULL
      /\ q.func_info = NULL /\ q.block_vect = <<>> /\ q.obj[FALSE] = s.obj[FALSE]
  BY <1>1, <1>2 DEF Writes, SameEntries, Finishes
<1>4. SameFuncs(r, s) /\ Len(s.funcs_vect) = Len(r.funcs_vect) BY <1>2, <1>3, FuncsKept
<1>5. SameFuncs(r, q) /\ Len(q.funcs_vect) = Len(r.funcs_vect) BY <1>3, <1>4 DEF SameFuncs
<1>6. NotedPart(Subs(r), Subs(s), r.line_num + 1) /\ Main(s) = Main(r)
  BY <1>1, <1>3, NotedIs
<1>7. PICK c : c.instr.op = "RET" /\ Extended(Subs(s), Subs(q), c)
  BY <1>1 DEF Finishes, Subs
<1>8. EndedPart(Subs(r), Subs(q), r.line_num + 1)
  BY <1>6, <1>7, PartEnds
<1>9. OnEnd(r, q) BY <1>3, <1>5, <1>6, <1>8 DEF OnEnd, Main
<1> QED BY <1>3, <1>5, <1>9 DEF Reports

(* What is known of a FUNC's step.                                           *)
LEMMA ReportsFunc ==
  ASSUME NEW l, l.kind = "Func", NEW r, Compiling(r), r.func_info = NULL, NEW p, Notes(r, p),
         NEW q, Starts(p, q, l.name)
  PROVE  Reports(l, r, q)
<1>1. PICK b : Enters(p, b, l.name) /\ Writes(b, q, Loud) BY DEF Starts
<1>2. p.line_num = r.line_num + 1 /\ p.funcs_vect = r.funcs_vect /\ Coded(p)
  BY DEF Notes
<1>3. PICK n \in Nat : n = Len(r.funcs_vect) BY DEF Compiling
<1>4. /\ Coded(b) /\ b.obj = p.obj /\ b.line_num = r.line_num + 1 /\ b.subs_body = TRUE
      /\ Len(b.funcs_vect) = n + 1 /\ b.func_info = n + 1
      /\ \A f \in 1..n : b.funcs_vect[f] = r.funcs_vect[f]
      /\ b.funcs_vect[n + 1].name = l.name
      /\ b.funcs_vect[n + 1].vm_code_offset = p.obj[TRUE].size
  BY <1>1, <1>2, <1>3 DEF Enters
<1>5. /\ q.line_num = r.line_num + 1 /\ q.func_info = n + 1 /\ Len(q.funcs_vect) = n + 1
      /\ \A f \in 1..(n + 1) : /\ q.funcs_vect[f].name = b.funcs_vect[f].name
                               /\ q.funcs_vect[f].vm_code_offset = b.funcs_vect[f].vm_code_offset
  BY <1>1, <1>4 DEF Writes, SameEntries
<1>6. SameFuncs(r, q)
  <2> SUFFICES ASSUME NEW f \in 1..n
               PROVE  /\ q.funcs_vect[f].name = r.funcs_vect[f].name
                      /\ q.funcs_vect[f].vm_code_offset = r.funcs_vect[f].vm_code_offset
    BY <1>3 DEF SameFuncs
  <2>1. f \in 1..(n + 1) BY <1>3
  <2> QED BY <1>4, <1>5, <2>1
<1>7. n + 1 \in 1..(n + 1) BY <1>3
<1>8. Writes(p, p, Loud) BY <1>2, WritesNothing
<1>9. NotedPart(Main(r), Main(p), r.line_num + 1) /\ Subs(p) = Subs(r) BY <1>8, NotedIs
<1>10. QuietPart(Subs(b), Subs(q)) /\ Main(q) = Main(b) BY <1>1, <1>4, QuietIs, Zenon
<1>11. Subs(b) = Subs(p) /\ Main(b) = Main(p) BY <1>4 DEF Main, Subs
<1>12. q.funcs_vect[n + 1].name = l.name /\ q.funcs_vect[n + 1].vm_code_offset = Subs(r).size
  BY <1>4, <1>5, <1>7, <1>9 DEF Subs
<1>13. OnFunc(r, q, l.name) BY <1>3, <1>5, <1>9, <1>10, <1>11, <1>12 DEF OnFunc
<1> QED BY <1>5, <1>6, <1>13 DEF Reports

(* What is known of any line that is noted.                                  *)
LEMMA NotedReports ==
  ASSUME NEW l, NEW r, Compiling(r), NEW q, Noted(l, r, q)
  PROVE  Reports(l, r, q)
<1>1. PICK p :
        \/ l.kind = "Label" /\ Counts(r, p) /\ Writes(p, q, Loud)
        \/ /\ l.kind # "Label" /\ Notes(r, p)
           /\ \/ l.kind # "Func" /\ Mentions(l, p, q)
              \/ l.kind = "Close" /\ Ends(p, q)
              \/ l.kind = "Func" /\ r.func_info = NULL /\ Starts(p, q, l.name)
  BY Zenon DEF Noted
<1>2. CASE l.kind = "Label" /\ Counts(r, p) /\ Writes(p, q, Loud) BY <1>2, ReportsLabel
<1>3. CASE l.kind # "Label" /\ Notes(r, p) /\ l.kind # "Func" /\ Mentions(l, p, q) BY <1>3, ReportsLine
<1>4. CASE l.kind = "Close" /\ Notes(r, p) /\ Ends(p, q) BY <1>4, ReportsEnd
<1>5. CASE l.kind = "Func" /\ Notes(r, p) /\ r.func_info = NULL /\ Starts(p, q, l.name) BY <1>5, ReportsFunc
<1> QED BY <1>1, <1>2, <1>3, <1>4, <1>5

-----------------------------------------------------------------------------
(* The chart of what was compiled, line by line.                             *)

(* Line k's mark.                                                            *)
Mark(p, k, a) == \E c \in Range(p.code) : c.instr.op = "DBG" /\ c.instr.arg = k /\ c.at = a

(* What a line does to the parts, whichever it is.                           *)
MovesOn(l, r, q) ==
  /\ Longer(Main(r), Main(q)) /\ Longer(Subs(r), Subs(q))
  /\ \A c \in NewIn(Main(r), Main(q)) :
       /\ c.instr.op # "RET"
       /\ c.instr.op = "DBG" =>
            c.instr.arg = r.line_num + 1 /\ c.at = Main(r).size /\ Now(r) = 0 /\ l.kind # "Label"
  /\ \A c \in NewIn(Subs(r), Subs(q)) :
       c.instr.op = "DBG" =>
         c.instr.arg = r.line_num + 1 /\ c.at = Subs(r).size /\ Now(r) # 0 /\ l.kind # "Label"
  /\ l.kind # "Label" => /\ Mark(In(Now(r), q), r.line_num + 1, In(Now(r), r).size)
                         /\ In(Now(r), r).size < In(Now(r), q).size
  /\ l.kind = "Call" => CallsFrom(r, q, l.name)
(* The line neither opens nor closes a routine.                              *)
Goes(r, q) ==
  /\ q.func_info = r.func_info /\ Len(q.funcs_vect) = Len(r.funcs_vect)
  /\ r.func_info = NULL => Subs(q) = Subs(r)
  /\ \A c \in NewIn(Subs(r), Subs(q)) : c.instr.op # "RET"

(* A part that stays grows by nothing.                                       *)
LEMMA LongerSelf == ASSUME NEW p, p.size \in Nat PROVE Longer(p, p) /\ NewIn(p, p) = {}
BY DEF Longer, NewIn

(* The current part is the routines' just when one is being compiled.        *)
LEMMA NowIs ==
  ASSUME NEW r, Compiling(r)
  PROVE  /\ r.func_info = NULL => Now(r) = 0 /\ (\A q : In(Now(r), q) = Main(q))
         /\ r.func_info # NULL => Now(r) # 0 /\ (\A q : In(Now(r), q) = Subs(q))
         /\ Now(r) \in 0..Len(r.funcs_vect)
BY DEF Compiling, Now, In, NULL

(* What a marked part has.                                                   *)
LEMMA NotedMoves ==
  ASSUME NEW p, NEW t, NEW k, NotedPart(p, t, k)
  PROVE  /\ Longer(p, t) /\ p.size < t.size /\ Mark(t, k, p.size)
         /\ \A c \in NewIn(p, t) : c.instr.op # "RET" /\ (c.instr.op = "DBG" => c.instr.arg = k /\ c.at = p.size)
BY DEF NotedPart, Mark

(* What an ended part has.                                                   *)
LEMMA EndedMoves ==
  ASSUME NEW p, NEW t, NEW k, EndedPart(p, t, k)
  PROVE  /\ Longer(p, t) /\ p.size < t.size /\ Mark(t, k, p.size)
         /\ \A c \in NewIn(p, t) : c.instr.op = "DBG" => c.instr.arg = k /\ c.at = p.size
BY DEF EndedPart, Mark, Longer

(* What a quiet part has.                                                    *)
LEMMA QuietMoves ==
  ASSUME NEW p, NEW t, QuietPart(p, t)
  PROVE  Longer(p, t) /\ \A c \in NewIn(p, t) : c.instr.op # "RET" /\ c.instr.op # "DBG"
BY DEF QuietPart

(* A line's step moves the parts, whichever step it is.                      *)
LEMMA ReportsMove ==
  ASSUME NEW l, NEW r, Compiling(r), NEW q, Reports(l, r, q)
  PROVE  MovesOn(l, r, q) /\ (Goes(r, q) \/ OnEnd(r, q) \/ OnFunc(r, q, l.name))
<1> DEFINE k == r.line_num + 1
<1>1. Main(r).size \in Nat /\ Subs(r).size \in Nat
  BY DEF Main, Subs, Compiling, Coded, CodePart
<1>2. Longer(Main(r), Main(r)) /\ NewIn(Main(r), Main(r)) = {}
      /\ Longer(Subs(r), Subs(r)) /\ NewIn(Subs(r), Subs(r)) = {}
  BY <1>1, LongerSelf
<1>3. CASE l.kind = "Label" /\ OnLabel(r, q)
  <2>1. CASE r.func_info = NULL
    <3>1. QuietPart(Main(r), Main(q)) /\ Subs(q) = Subs(r) BY <1>3, <2>1 DEF OnLabel
    <3> QED BY <1>2, <1>3, <2>1, <3>1, QuietMoves DEF MovesOn, Goes, OnLabel
  <2>2. CASE r.func_info # NULL
    <3>1. QuietPart(Subs(r), Subs(q)) /\ Main(q) = Main(r) BY <1>3, <2>2 DEF OnLabel
    <3> QED BY <1>2, <1>3, <2>2, <3>1, QuietMoves DEF MovesOn, Goes, OnLabel
  <2> QED BY <2>1, <2>2
<1>4. CASE l.kind \notin {"Label", "Func"} /\ OnLine(r, q) /\ (l.kind = "Call" => CallsFrom(r, q, l.name))
  <2>1. CASE r.func_info = NULL
    <3>1. NotedPart(Main(r), Main(q), k) /\ Subs(q) = Subs(r) BY <1>4, <2>1 DEF OnLine
    <3>2. Now(r) = 0 /\ In(Now(r), q) = Main(q) /\ In(Now(r), r) = Main(r) BY <2>1, NowIs
    <3>3. MovesOn(l, r, q) BY <1>2, <1>4, <3>1, <3>2, NotedMoves DEF MovesOn
    <3> QED BY <1>2, <1>4, <2>1, <3>1, <3>3 DEF Goes, OnLine
  <2>2. CASE r.func_info # NULL
    <3>1. NotedPart(Subs(r), Subs(q), k) /\ Main(q) = Main(r) BY <1>4, <2>2 DEF OnLine
    <3>2. Now(r) # 0 /\ In(Now(r), q) = Subs(q) /\ In(Now(r), r) = Subs(r) BY <2>2, NowIs
    <3>3. MovesOn(l, r, q) BY <1>2, <1>4, <3>1, <3>2, NotedMoves DEF MovesOn
    <3> QED BY <1>2, <1>4, <2>2, <3>1, <3>3, NotedMoves DEF Goes, OnLine
  <2> QED BY <2>1, <2>2
<1>5. CASE l.kind = "Close" /\ OnEnd(r, q)
  <2>1. EndedPart(Subs(r), Subs(q), k) /\ Main(q) = Main(r) /\ r.func_info # NULL BY <1>5 DEF OnEnd
  <2>2. Now(r) # 0 /\ In(Now(r), q) = Subs(q) /\ In(Now(r), r) = Subs(r) BY <2>1, NowIs
  <2> QED BY <1>2, <1>5, <2>1, <2>2, EndedMoves DEF MovesOn
<1>6. CASE l.kind = "Func" /\ OnFunc(r, q, l.name)
  <2>1. NotedPart(Main(r), Main(q), k) /\ QuietPart(Subs(r), Subs(q)) /\ r.func_info = NULL BY <1>6 DEF OnFunc
  <2>2. Now(r) = 0 /\ In(Now(r), q) = Main(q) /\ In(Now(r), r) = Main(r) BY <2>1, NowIs
  <2> QED BY <1>2, <1>6, <2>1, <2>2, NotedMoves, QuietMoves DEF MovesOn
<1> QED BY <1>3, <1>4, <1>5, <1>6 DEF Reports

-----------------------------------------------------------------------------
(* The chart of what was compiled: routine m of the image begins at          *)
(* start[m] of the routines' part, line k is in routine home[k] (0: the main *)
(* part) and its mark is at at[k] of that part, and fun[f] is the line of    *)
(* the f-th FUNC.                                                            *)
Bounds(r, start) ==
  /\ start[1] = 0
  /\ \A m \in 1..(Done(r) + 1) : start[m] \in Nat
  /\ \A i, j \in 1..(Done(r) + 1) : i < j => start[i] < start[j]
  /\ start[Done(r) + 1] <= Subs(r).size
  /\ r.func_info = NULL => start[Done(r) + 1] = Subs(r).size
  /\ r.func_info # NULL => r.func_info = Len(r.funcs_vect)
  /\ \A f \in 1..Len(r.funcs_vect) : r.funcs_vect[f].vm_code_offset = start[f]
(* The RET at a.                                                             *)
IsReturn(c, a) == c.instr.op = "RET" /\ c.at = a
(* The RETs are the last of the routines, and of nothing else.               *)
ReturnsAt(r, start) ==
  /\ \A c \in Range(Main(r).code) : c.instr.op # "RET"
  /\ \A c \in Range(Subs(r).code) : c.instr.op = "RET" => \E m \in 1..Done(r) : c.at = start[m + 1] - 1
  /\ \A m \in 1..Done(r) : \E c \in Range(Subs(r).code) : IsReturn(c, start[m + 1] - 1)
(* Every line is in a routine, with its mark in its part.                    *)
Located(r, s, n, home, at) ==
  \A k \in 1..n :
    /\ home[k] \in 0..Len(r.funcs_vect) /\ at[k] \in Nat
    /\ s[k].kind # "Label" => Mark(In(home[k], r), k, at[k]) /\ at[k] < In(home[k], r).size
(* A mark is its line's.                                                     *)
MarkOf(c, s, n, at) ==
  c.instr.op = "DBG" => c.instr.arg \in 1..n /\ s[c.instr.arg].kind # "Label" /\ c.at = at[c.instr.arg]
(* Every mark is of a line of its part.                                      *)
Marked(r, s, n, home, at) ==
  /\ \A c \in Range(Main(r).code) : MarkOf(c, s, n, at) /\ (c.instr.op = "DBG" => home[c.instr.arg] = 0)
  /\ \A c \in Range(Subs(r).code) : MarkOf(c, s, n, at) /\ (c.instr.op = "DBG" => home[c.instr.arg] # 0)
(* A routine's lines are between its beginning and its RET.                  *)
Within(r, s, n, home, at, start) ==
  \A k \in 1..n :
    s[k].kind # "Label" /\ home[k] # 0 =>
      start[home[k]] <= at[k] /\ (home[k] <= Done(r) => at[k] < start[home[k] + 1] - 1)
(* c is before the next line of its part.                                    *)
BeforeNext(c, s, n, home, at, k) ==
  \A j \in (k + 1)..n : s[j].kind # "Label" /\ (home[j] = 0 <=> home[k] = 0) => c.at < at[j]
(* The call of routine f of line k, in its place.                            *)
CallAt(c, r, s, n, home, at, k, f) ==
  /\ c.instr.op = "CALL_PRG_FUNC" /\ c.instr.arg = r.funcs_vect[f].vm_code_offset
  /\ c.at \in Nat /\ at[k] < c.at /\ c.at < In(home[k], r).size
  /\ BeforeNext(c, s, n, home, at, k)
(* Every call's line has its call.                                           *)
Called(r, s, n, home, at) ==
  \A k \in 1..n :
    s[k].kind = "Call" =>
      \E f \in 1..Len(r.funcs_vect) :
        /\ r.funcs_vect[f].name = s[k].name
        /\ \E c \in Range(In(home[k], r).code) : CallAt(c, r, s, n, home, at, k, f)
(* The routines are the FUNCs of the source, in its order.                   *)
Rolls(r, s, n, fun) ==
  /\ \A f \in 1..Len(r.funcs_vect) :
       fun[f] \in 1..n /\ s[fun[f]].kind = "Func" /\ s[fun[f]].name = r.funcs_vect[f].name
  /\ \A i, j \in 1..Len(r.funcs_vect) : i < j => fun[i] < fun[j]
  /\ \A k \in 1..n : s[k].kind = "Func" => \E f \in 1..Len(r.funcs_vect) : fun[f] = k

(* One more line, and one more entry.                                        *)
AddsOne(s, t, n, x) == (\A k \in 1..n : t[k] = s[k]) /\ t[n + 1] = x

(* A line's place stays, and the new one has its own.                        *)
LEMMA LocatedGrows ==
  ASSUME NEW l, NEW r, Compiling(r), NEW q, Compiling(q), MovesOn(l, r, q), Len(r.funcs_vect) <= Len(q.funcs_vect),
         NEW n \in Nat, n = r.line_num, NEW s, NEW t, AddsOne(s, t, n, l),
         NEW home, NEW homes, AddsOne(home, homes, n, Now(r)),
         NEW at, NEW ats, AddsOne(at, ats, n, In(Now(r), r).size),
         Located(r, s, n, home, at)
  PROVE  Located(q, t, n + 1, homes, ats)
<1>1. /\ Longer(Main(r), Main(q)) /\ Longer(Subs(r), Subs(q))
      /\ l.kind # "Label" => /\ Mark(In(Now(r), q), n + 1, In(Now(r), r).size)
                             /\ In(Now(r), r).size < In(Now(r), q).size
  BY DEF MovesOn
<1>2. Now(r) \in 0..Len(r.funcs_vect) /\ Len(r.funcs_vect) \in Nat /\ Len(q.funcs_vect) \in Nat
  BY NowIs DEF Compiling
<1>3. In(Now(r), r).size \in Nat BY <1>1 DEF Longer, In
<1> SUFFICES ASSUME NEW k \in 1..(n + 1)
             PROVE  /\ homes[k] \in 0..Len(q.funcs_vect) /\ ats[k] \in Nat
                    /\ t[k].kind # "Label" =>
                         Mark(In(homes[k], q), k, ats[k]) /\ ats[k] < In(homes[k], q).size
  BY DEF Located
<1>4. CASE k = n + 1
  <2>1. homes[k] = Now(r) /\ ats[k] = In(Now(r), r).size /\ t[k] = l BY <1>4 DEF AddsOne
  <2> QED BY <1>1, <1>2, <1>3, <1>4, <2>1
<1>5. CASE k # n + 1
  <2>1. k \in 1..n BY <1>5
  <2>2. homes[k] = home[k] /\ ats[k] = at[k] /\ t[k] = s[k] BY <2>1 DEF AddsOne
  <2>3. home[k] \in 0..Len(r.funcs_vect) /\ at[k] \in Nat BY <2>1 DEF Located
  <2>4. ASSUME s[k].kind # "Label"
        PROVE  Mark(In(home[k], q), k, at[k]) /\ at[k] < In(home[k], q).size
    <3>1. Mark(In(home[k], r), k, at[k]) /\ at[k] < In(home[k], r).size BY <2>1, <2>4 DEF Located
    <3>2. Longer(In(home[k], r), In(home[k], q)) BY <1>1 DEF In
    <3> QED BY <2>3, <3>1, <3>2 DEF Mark, Longer
  <2> QED BY <1>2, <2>2, <2>3, <2>4
<1> QED BY <1>4, <1>5

(* A mark stays its line's, and the new one is the new line's.               *)
LEMMA MarkedGrows ==
  ASSUME NEW l, NEW r, Compiling(r), NEW q, Compiling(q), MovesOn(l, r, q),
         NEW n \in Nat, n = r.line_num, NEW s, NEW t, AddsOne(s, t, n, l),
         NEW home, NEW homes, AddsOne(home, homes, n, Now(r)),
         NEW at, NEW ats, AddsOne(at, ats, n, In(Now(r), r).size),
         Marked(r, s, n, home, at)
  PROVE  Marked(q, t, n + 1, homes, ats)
<1>1. /\ \A c \in NewIn(Main(r), Main(q)) : c.instr.op = "DBG" =>
           c.instr.arg = n + 1 /\ c.at = Main(r).size /\ Now(r) = 0 /\ l.kind # "Label"
      /\ \A c \in NewIn(Subs(r), Subs(q)) : c.instr.op = "DBG" =>
           c.instr.arg = n + 1 /\ c.at = Subs(r).size /\ Now(r) # 0 /\ l.kind # "Label"
  BY DEF MovesOn
<1>2. homes[n + 1] = Now(r) /\ ats[n + 1] = In(Now(r), r).size /\ t[n + 1] = l /\ n + 1 \in 1..(n + 1)
  BY DEF AddsOne
<1>3. \A k \in 1..n : homes[k] = home[k] /\ ats[k] = at[k] /\ t[k] = s[k] /\ k \in 1..(n + 1) BY DEF AddsOne
<1>4. ASSUME NEW c \in Range(Main(q).code), c.instr.op = "DBG"
      PROVE  /\ c.instr.arg \in 1..(n + 1) /\ t[c.instr.arg].kind # "Label" /\ c.at = ats[c.instr.arg]
             /\ homes[c.instr.arg] = 0
  <2>1. CASE c \in NewIn(Main(r), Main(q)) BY <1>1, <1>2, <1>4, <2>1 DEF In
  <2>2. CASE c \notin NewIn(Main(r), Main(q))
    <3>1. c \in Range(Main(r).code) BY <2>2 DEF NewIn
    <3>2. c.instr.arg \in 1..n /\ s[c.instr.arg].kind # "Label" /\ c.at = at[c.instr.arg] /\ home[c.instr.arg] = 0
      BY <1>4, <3>1 DEF Marked, MarkOf
    <3> QED BY <1>3, <3>2
  <2> QED BY <2>1, <2>2
<1>5. ASSUME NEW c \in Range(Subs(q).code), c.instr.op = "DBG"
      PROVE  /\ c.instr.arg \in 1..(n + 1) /\ t[c.instr.arg].kind # "Label" /\ c.at = ats[c.instr.arg]
             /\ homes[c.instr.arg] # 0
  <2>1. CASE c \in NewIn(Subs(r), Subs(q)) BY <1>1, <1>2, <1>5, <2>1 DEF In
  <2>2. CASE c \notin NewIn(Subs(r), Subs(q))
    <3>1. c \in Range(Subs(r).code) BY <2>2 DEF NewIn
    <3>2. c.instr.arg \in 1..n /\ s[c.instr.arg].kind # "Label" /\ c.at = at[c.instr.arg] /\ home[c.instr.arg] # 0
      BY <1>5, <3>1 DEF Marked, MarkOf
    <3> QED BY <1>3, <3>2
  <2> QED BY <2>1, <2>2
<1> QED BY <1>4, <1>5 DEF Marked, MarkOf

(* A call stays before the next line, and the new line has its own.          *)
LEMMA CalledGrows ==
  ASSUME NEW l, NEW r, Compiling(r), NEW q, Compiling(q), MovesOn(l, r, q), SameFuncs(r, q),
         Len(r.funcs_vect) <= Len(q.funcs_vect),
         NEW n \in Nat, n = r.line_num, NEW s, NEW t, AddsOne(s, t, n, l),
         NEW home, NEW homes, AddsOne(home, homes, n, Now(r)),
         NEW at, NEW ats, AddsOne(at, ats, n, In(Now(r), r).size),
         Called(r, s, n, home, at)
  PROVE  Called(q, t, n + 1, homes, ats)
<1>1. homes[n + 1] = Now(r) /\ ats[n + 1] = In(Now(r), r).size /\ t[n + 1] = l /\ n + 1 \in 1..(n + 1)
  BY DEF AddsOne
<1>2. \A k \in 1..n : homes[k] = home[k] /\ ats[k] = at[k] /\ t[k] = s[k] /\ k \in 1..(n + 1) BY DEF AddsOne
<1>3. Len(r.funcs_vect) \in Nat /\ Len(q.funcs_vect) \in Nat BY DEF Compiling
<1> SUFFICES ASSUME NEW k \in 1..(n + 1), t[k].kind = "Call"
             PROVE  \E f \in 1..Len(q.funcs_vect) :
                      /\ q.funcs_vect[f].name = t[k].name
                      /\ \E c \in Range(In(homes[k], q).code) : CallAt(c, q, t, n + 1, homes, ats, k, f)
  BY DEF Called
<1>4. CASE k = n + 1
  <2>1. CallsFrom(r, q, l.name) BY <1>1, <1>4 DEF MovesOn
  <2>2. PICK f \in 1..Len(r.funcs_vect) :
          /\ r.funcs_vect[f].name = l.name
          /\ \E c \in Range(In(Now(r), q).code) :
               /\ c.instr.op = "CALL_PRG_FUNC" /\ c.instr.arg = r.funcs_vect[f].vm_code_offset
               /\ c.at \in Nat /\ In(Now(r), r).size < c.at /\ c.at < In(Now(r), q).size
    BY <2>1 DEF CallsFrom
  <2>3. PICK c \in Range(In(Now(r), q).code) :
               /\ c.instr.op = "CALL_PRG_FUNC" /\ c.instr.arg = r.funcs_vect[f].vm_code_offset
               /\ c.at \in Nat /\ In(Now(r), r).size < c.at /\ c.at < In(Now(r), q).size
    BY <2>2
  <2>4. f \in 1..Len(q.funcs_vect) BY <1>3
  <2>5. q.funcs_vect[f].name = l.name /\ q.funcs_vect[f].vm_code_offset = r.funcs_vect[f].vm_code_offset
    BY <2>2 DEF SameFuncs
  <2>6. BeforeNext(c, t, n + 1, homes, ats, k) BY <1>4 DEF BeforeNext
  <2>7. CallAt(c, q, t, n + 1, homes, ats, k, f) BY <1>1, <1>4, <2>3, <2>5, <2>6 DEF CallAt
  <2> QED BY <1>1, <1>4, <2>4, <2>5, <2>7
<1>5. CASE k # n + 1
  <2>1. k \in 1..n BY <1>5
  <2>2. homes[k] = home[k] /\ ats[k] = at[k] /\ t[k] = s[k] BY <1>2, <2>1
  <2>3. PICK f \in 1..Len(r.funcs_vect) :
          /\ r.funcs_vect[f].name = s[k].name
          /\ \E c \in Range(In(home[k], r).code) : CallAt(c, r, s, n, home, at, k, f)
    BY <2>1, <2>2 DEF Called
  <2>4. PICK c \in Range(In(home[k], r).code) : CallAt(c, r, s, n, home, at, k, f) BY <2>3
  <2>5. /\ c.instr.op = "CALL_PRG_FUNC" /\ c.instr.arg = r.funcs_vect[f].vm_code_offset
        /\ c.at \in Nat /\ at[k] < c.at /\ c.at < In(home[k], r).size
        /\ BeforeNext(c, s, n, home, at, k)
    BY <2>4 DEF CallAt
  <2>6. f \in 1..Len(q.funcs_vect) BY <1>3
  <2>7. q.funcs_vect[f].name = s[k].name /\ q.funcs_vect[f].vm_code_offset = r.funcs_vect[f].vm_code_offset
    BY <2>3 DEF SameFuncs
  <2>8. Longer(In(home[k], r), In(home[k], q)) BY DEF In, MovesOn
  <2>9. c \in Range(In(home[k], q).code) /\ c.at < In(home[k], q).size BY <2>5, <2>8 DEF Longer
  <2>10. BeforeNext(c, t, n + 1, homes, ats, k)
    <3> SUFFICES ASSUME NEW j \in (k + 1)..(n + 1), t[j].kind # "Label", homes[j] = 0 <=> homes[k] = 0
                 PROVE  c.at < ats[j]
      BY DEF BeforeNext
    <3>1. CASE j = n + 1
      <4>1. Now(r) = 0 <=> home[k] = 0 BY <1>1, <2>2, <3>1
      <4>2. In(Now(r), r) = In(home[k], r) BY <4>1 DEF In
      <4> QED BY <1>1, <2>5, <3>1, <4>2
    <3>2. CASE j # n + 1
      <4>1. j \in (k + 1)..n /\ j \in 1..n BY <2>1, <3>2
      <4>2. homes[j] = home[j] /\ ats[j] = at[j] /\ t[j] = s[j] BY <1>2, <4>1
      <4>3. s[j].kind # "Label" /\ (home[j] = 0 <=> home[k] = 0) BY <2>2, <4>2
      <4>4. c.at < at[j] BY <2>5, <4>1, <4>3 DEF BeforeNext
      <4> QED BY <4>2, <4>4
    <3> QED BY <3>1, <3>2
  <2>11. CallAt(c, q, t, n + 1, homes, ats, k, f) BY <2>2, <2>5, <2>7, <2>9, <2>10 DEF CallAt
  <2> QED BY <2>2, <2>6, <2>7, <2>9, <2>11
<1> QED BY <1>4, <1>5

(* The routines stay those of the FUNCs.                                     *)
LEMMA RollsGrow ==
  ASSUME NEW l, NEW r, Compiling(r), NEW q, Compiling(q), SameFuncs(r, q),
         NEW n \in Nat, NEW s, NEW t, AddsOne(s, t, n, l),
         NEW fun, Rolls(r, s, n, fun),
         \/ l.kind # "Func" /\ Len(q.funcs_vect) = Len(r.funcs_vect)
         \/ l.kind = "Func" /\ OnFunc(r, q, l.name)
  PROVE  \E funs : /\ Rolls(q, t, n + 1, funs)
                   /\ \A f \in 1..Len(r.funcs_vect) : funs[f] = fun[f]
                   /\ l.kind = "Func" => funs[Len(q.funcs_vect)] = n + 1
<1>1. PICK m \in Nat : m = Len(r.funcs_vect) BY DEF Compiling
<1>2. \A k \in 1..n : t[k] = s[k] /\ k \in 1..(n + 1) BY DEF AddsOne
<1>3. t[n + 1] = l /\ n + 1 \in 1..(n + 1) BY DEF AddsOne
<1>4. /\ \A f \in 1..m : /\ fun[f] \in 1..n /\ s[fun[f]].kind = "Func"
                         /\ s[fun[f]].name = q.funcs_vect[f].name
      /\ \A i, j \in 1..m : i < j => fun[i] < fun[j]
      /\ \A k \in 1..n : s[k].kind = "Func" => \E f \in 1..m : fun[f] = k
  BY <1>1 DEF Rolls, SameFuncs
<1>5. CASE l.kind # "Func" /\ Len(q.funcs_vect) = Len(r.funcs_vect)
  <2>1. \A k \in 1..(n + 1) : t[k].kind = "Func" => \E f \in 1..m : fun[f] = k
    <3> SUFFICES ASSUME NEW k \in 1..(n + 1), t[k].kind = "Func" PROVE \E f \in 1..m : fun[f] = k
      OBVIOUS
    <3>1. k # n + 1 BY <1>3, <1>5
    <3>2. k \in 1..n BY <3>1
    <3> QED BY <1>2, <1>4, <3>2
  <2>2. Rolls(q, t, n + 1, fun) BY <1>1, <1>2, <1>4, <1>5, <2>1 DEF Rolls
  <2> QED BY <1>5, <2>2
<1>6. CASE l.kind = "Func" /\ OnFunc(r, q, l.name)
  <2> DEFINE funs == [f \in 1..(m + 1) |-> IF f = m + 1 THEN n + 1 ELSE fun[f]]
  <2>1. Len(q.funcs_vect) = m + 1 /\ q.funcs_vect[m + 1].name = l.name BY <1>1, <1>6 DEF OnFunc
  <2>2. (\A f \in 1..m : funs[f] = fun[f]) /\ funs[m + 1] = n + 1 BY <1>1
  <2> HIDE DEF funs
  <2>3. ASSUME NEW f \in 1..(m + 1)
        PROVE  /\ funs[f] \in 1..(n + 1) /\ t[funs[f]].kind = "Func"
               /\ t[funs[f]].name = q.funcs_vect[f].name
    <3>1. CASE f = m + 1 BY <1>3, <1>6, <2>1, <2>2, <3>1
    <3>2. CASE f # m + 1
      <4>1. f \in 1..m BY <1>1, <3>2
      <4> QED BY <1>2, <1>4, <2>2, <4>1
    <3> QED BY <3>1, <3>2
  <2>4. ASSUME NEW i \in 1..(m + 1), NEW j \in 1..(m + 1), i < j PROVE funs[i] < funs[j]
    <3>1. i \in 1..m BY <1>1, <2>4
    <3>2. funs[i] = fun[i] /\ fun[i] \in 1..n BY <1>4, <2>2, <3>1
    <3>3. CASE j = m + 1 BY <2>2, <3>2, <3>3
    <3>4. CASE j # m + 1
      <4>1. j \in 1..m BY <1>1, <3>4
      <4> QED BY <1>4, <2>2, <2>4, <3>1, <4>1
    <3> QED BY <3>3, <3>4
  <2>5. ASSUME NEW k \in 1..(n + 1), t[k].kind = "Func" PROVE \E f \in 1..(m + 1) : funs[f] = k
    <3>1. CASE k = n + 1 BY <1>1, <2>2, <3>1
    <3>2. CASE k # n + 1
      <4>1. k \in 1..n BY <3>2
      <4>2. PICK f \in 1..m : fun[f] = k BY <1>2, <1>4, <2>5, <4>1
      <4> QED BY <1>1, <2>2, <4>2
    <3> QED BY <3>1, <3>2
  <2>6. Rolls(q, t, n + 1, funs) BY <2>1, <2>3, <2>4, <2>5 DEF Rolls
  <2> QED BY <1>1, <2>1, <2>2, <2>6
<1> QED BY <1>5, <1>6

-----------------------------------------------------------------------------
(* The chart grows with a line.                                              *)

(* How many routines are done.                                               *)
DoneIs(r) ==
  /\ Done(r) \in Nat /\ Len(r.funcs_vect) \in Nat
  /\ r.func_info = NULL => Done(r) = Len(r.funcs_vect)
  /\ r.func_info # NULL => Len(r.funcs_vect) = Done(r) + 1 /\ Now(r) = Len(r.funcs_vect)

(* The one being compiled is the last.                                       *)
LEMMA DoneHolds == ASSUME NEW r, Compiling(r) PROVE DoneIs(r)
<1>1. r.func_info \in 0..Len(r.funcs_vect) /\ Len(r.funcs_vect) \in Nat BY DEF Compiling
<1>2. CASE r.func_info = NULL BY <1>1, <1>2 DEF DoneIs, Done
<1>3. CASE r.func_info # NULL
  <2>1. Len(r.funcs_vect) > 0 BY <1>1, <1>3 DEF NULL
  <2> QED BY <1>1, <1>3, <2>1 DEF DoneIs, Done, Now
<1> QED BY <1>2, <1>3

(* Line k of a routine is behind where the routine began, and inside the     *)
(* routine's part.                                                           *)
Inside(r, q, t, homes, ats, start, k) ==
  t[k].kind # "Label" /\ homes[k] # 0 =>
    /\ start[homes[k]] <= ats[k]
    /\ homes[k] \in 1..(Done(r) + 1)
    /\ ats[k] < Subs(q).size
    /\ homes[k] <= Done(r) => ats[k] < start[homes[k] + 1] - 1
(* The routine of the new line, if any, began before it.                     *)
LEMMA WithinGrows ==
  ASSUME NEW l, NEW r, Compiling(r), NEW q, MovesOn(l, r, q),
         NEW n \in Nat, n = r.line_num, NEW s, NEW t, AddsOne(s, t, n, l),
         NEW home, NEW homes, AddsOne(home, homes, n, Now(r)),
         NEW at, NEW ats, AddsOne(at, ats, n, In(Now(r), r).size),
         NEW start, Bounds(r, start), Located(r, s, n, home, at), Within(r, s, n, home, at, start)
  PROVE  \A k \in 1..(n + 1) : Inside(r, q, t, homes, ats, start, k)
<1> SUFFICES ASSUME NEW k \in 1..(n + 1), t[k].kind # "Label", homes[k] # 0
             PROVE  /\ start[homes[k]] <= ats[k]
                    /\ homes[k] \in 1..(Done(r) + 1)
                    /\ ats[k] < Subs(q).size
                    /\ homes[k] <= Done(r) => ats[k] < start[homes[k] + 1] - 1
  BY DEF Inside
<1>1. PICK d \in Nat : d = Done(r) BY DoneHolds DEF DoneIs
<1>2. Len(r.funcs_vect) \in Nat /\ Len(r.funcs_vect) <= d + 1 BY <1>1, DoneHolds DEF DoneIs
<1>3. Longer(Subs(r), Subs(q)) BY DEF MovesOn
<1>4. CASE k = n + 1
  <2>1. homes[k] = Now(r) /\ ats[k] = In(Now(r), r).size /\ t[k] = l BY <1>4 DEF AddsOne
  <2>2. r.func_info # NULL BY <2>1, NowIs
  <2>3. Now(r) = d + 1 BY <1>1, <2>2, DoneHolds DEF DoneIs
  <2>4. ats[k] = Subs(r).size /\ In(Now(r), q) = Subs(q) BY <2>1, <2>2, NowIs
  <2>5. start[d + 1] <= Subs(r).size BY <1>1 DEF Bounds
  <2>6. Subs(r).size < Subs(q).size BY <2>1, <2>2, NowIs DEF MovesOn
  <2> QED BY <1>1, <2>1, <2>3, <2>4, <2>5, <2>6
<1>5. CASE k # n + 1
  <2>1. k \in 1..n BY <1>5
  <2>2. homes[k] = home[k] /\ ats[k] = at[k] /\ t[k] = s[k] BY <2>1 DEF AddsOne
  <2>3. home[k] \in 0..Len(r.funcs_vect) /\ at[k] \in Nat /\ at[k] < In(home[k], r).size
    BY <2>1, <2>2 DEF Located
  <2>4. at[k] < Subs(r).size BY <2>2, <2>3 DEF In
  <2>5. start[home[k]] <= at[k] /\ (home[k] <= Done(r) => at[k] < start[home[k] + 1] - 1)
    BY <2>1, <2>2 DEF Within
  <2>6. at[k] < Subs(q).size BY <1>3, <2>3, <2>4 DEF Longer
  <2> QED BY <1>1, <1>2, <2>2, <2>3, <2>5, <2>6
<1> QED BY <1>4, <1>5

(* A line that closes no routine leaves their bounds.                        *)
LEMMA RunsOn ==
  ASSUME NEW l, NEW r, Compiling(r), NEW q, Compiling(q), MovesOn(l, r, q), SameFuncs(r, q),
         Goes(r, q) \/ OnFunc(r, q, l.name),
         NEW start, Bounds(r, start), ReturnsAt(r, start)
  PROVE  Done(q) = Done(r) /\ Bounds(q, start) /\ ReturnsAt(q, start)
<1>1. PICK d \in Nat : d = Done(r) BY DoneHolds DEF DoneIs
<1>2. Done(q) = d
  <2>1. CASE Goes(r, q) BY <1>1, <2>1 DEF Goes, Done
  <2>2. CASE OnFunc(r, q, l.name)
    <3>1. d = Len(r.funcs_vect) BY <1>1, <2>2, DoneHolds DEF OnFunc, DoneIs
    <3>2. q.func_info # NULL /\ Len(q.funcs_vect) = d + 1 BY <1>1, <2>2, <3>1 DEF OnFunc, NULL
    <3>3. d + 1 = Done(q) + 1 /\ Done(q) \in Nat BY <3>2, DoneHolds DEF DoneIs
    <3> QED BY <3>3
  <2> QED BY <2>1, <2>2
<1>3. Longer(Subs(r), Subs(q)) /\ Longer(Main(r), Main(q)) BY DEF MovesOn
<1>4. \A c \in NewIn(Subs(r), Subs(q)) : c.instr.op # "RET"
  BY DEF Goes, OnFunc, QuietPart
<1>5. \A c \in NewIn(Main(r), Main(q)) : c.instr.op # "RET" BY DEF MovesOn
<1>6. ReturnsAt(q, start)
  <2>1. \A c \in Range(Main(q).code) : c.instr.op # "RET" BY <1>5 DEF ReturnsAt, NewIn
  <2>2. ASSUME NEW c \in Range(Subs(q).code), c.instr.op = "RET"
        PROVE  \E m \in 1..d : c.at = start[m + 1] - 1
    <3>1. c \in Range(Subs(r).code) BY <1>4, <2>2 DEF NewIn
    <3> QED BY <1>1, <2>2, <3>1 DEF ReturnsAt
  <2>3. \A m \in 1..d : \E c \in Range(Subs(q).code) : IsReturn(c, start[m + 1] - 1)
    BY <1>1, <1>3 DEF ReturnsAt, Longer
  <2> QED BY <1>2, <2>1, <2>2, <2>3 DEF ReturnsAt
<1>7. /\ start[1] = 0
      /\ \A m \in 1..(d + 1) : start[m] \in Nat
      /\ \A i, j \in 1..(d + 1) : i < j => start[i] < start[j]
      /\ start[d + 1] <= Subs(r).size
      /\ r.func_info = NULL => start[d + 1] = Subs(r).size
      /\ r.func_info # NULL => r.func_info = Len(r.funcs_vect)
      /\ \A f \in 1..Len(r.funcs_vect) : r.funcs_vect[f].vm_code_offset = start[f]
  BY <1>1 DEF Bounds
<1>8. start[d + 1] <= Subs(q).size
  <2>1. d + 1 \in 1..(d + 1) BY <1>1
  <2>2. start[d + 1] \in Nat BY <1>7, <2>1
  <2> QED BY <1>3, <1>7, <2>2 DEF Longer
<1>9. \A f \in 1..Len(r.funcs_vect) : q.funcs_vect[f].vm_code_offset = start[f]
  BY <1>7 DEF SameFuncs
<1>10. CASE Goes(r, q)
  <2>1. /\ q.func_info = r.func_info /\ Len(q.funcs_vect) = Len(r.funcs_vect)
        /\ r.func_info = NULL => Subs(q) = Subs(r)
    BY <1>10 DEF Goes
  <2>2. Bounds(q, start) BY <1>2, <1>7, <1>8, <1>9, <2>1 DEF Bounds
  <2> QED BY <1>1, <1>2, <1>6, <2>2
<1>11. CASE OnFunc(r, q, l.name)
  <2>1. PICK m \in Nat : m = Len(r.funcs_vect) BY DEF Compiling
  <2>2. /\ r.func_info = NULL /\ q.func_info = m + 1 /\ Len(q.funcs_vect) = m + 1
        /\ q.funcs_vect[m + 1].vm_code_offset = Subs(r).size
    BY <1>11, <2>1 DEF OnFunc
  <2>3. d = m BY <1>1, <2>1, <2>2, DoneHolds DEF DoneIs
  <2>4. q.funcs_vect[m + 1].vm_code_offset = start[m + 1] BY <1>7, <2>2, <2>3
  <2>5. ASSUME NEW f \in 1..(m + 1) PROVE q.funcs_vect[f].vm_code_offset = start[f]
    <3>1. CASE f = m + 1 BY <2>4, <3>1
    <3>2. CASE f # m + 1
      <4>1. f \in 1..m BY <2>1, <3>2
      <4> QED BY <1>9, <2>1, <4>1
    <3> QED BY <3>1, <3>2
  <2>6. q.func_info # NULL /\ q.func_info = Len(q.funcs_vect) BY <2>1, <2>2 DEF NULL
  <2>7. Bounds(q, start) BY <1>2, <1>7, <1>8, <2>2, <2>5, <2>6 DEF Bounds
  <2> QED BY <1>1, <1>2, <1>6, <2>7
<1> QED BY <1>10, <1>11

(* A line that closes a routine gives it its bound.                          *)
LEMMA RunsOut ==
  ASSUME NEW l, NEW r, Compiling(r), NEW q, Compiling(q), MovesOn(l, r, q), SameFuncs(r, q), OnEnd(r, q),
         NEW start, Bounds(r, start), ReturnsAt(r, start)
  PROVE  /\ Done(q) = Done(r) + 1
         /\ \E up : /\ Bounds(q, up) /\ ReturnsAt(q, up)
                    /\ \A m \in 1..(Done(r) + 1) : up[m] = start[m]
                    /\ up[Done(r) + 2] = Subs(q).size
<1>1. PICK d \in Nat : d = Done(r) BY DoneHolds DEF DoneIs
<1>2. /\ Len(r.funcs_vect) = d + 1 /\ Len(q.funcs_vect) = d + 1 /\ q.func_info = NULL
  BY <1>1, DoneHolds DEF OnEnd, DoneIs
<1>3. Done(q) = d + 1 BY <1>2, DoneHolds DEF DoneIs
<1> DEFINE up == [m \in 1..(d + 2) |-> IF m = d + 2 THEN Subs(q).size ELSE start[m]]
<1>4. (\A m \in 1..(d + 1) : up[m] = start[m]) /\ up[d + 2] = Subs(q).size BY <1>1
<1> HIDE DEF up
<1>5. /\ start[1] = 0
      /\ \A m \in 1..(d + 1) : start[m] \in Nat
      /\ \A i, j \in 1..(d + 1) : i < j => start[i] < start[j]
      /\ start[d + 1] <= Subs(r).size
      /\ \A f \in 1..(d + 1) : r.funcs_vect[f].vm_code_offset = start[f]
  BY <1>1, <1>2 DEF Bounds
<1>6. /\ Subs(r).size \in Nat /\ Subs(q).size \in Nat /\ Subs(r).size < Subs(q).size - 1
      /\ Range(Subs(r).code) \subseteq Range(Subs(q).code) /\ Main(q) = Main(r)
      /\ \A c \in NewIn(Subs(r), Subs(q)) : c.instr.op = "RET" => c.at = Subs(q).size - 1
      /\ \E c \in Range(Subs(q).code) : c.instr.op = "RET" /\ c.at = Subs(q).size - 1
  BY DEF OnEnd, EndedPart, Longer
<1>7. ASSUME NEW i \in 1..(d + 1) PROVE up[i] = start[i] /\ start[i] \in Nat /\ start[i] <= start[d + 1]
  <2>1. d + 1 \in 1..(d + 1) BY <1>1
  <2>2. start[i] \in Nat /\ start[d + 1] \in Nat BY <1>5, <2>1
  <2>3. CASE i = d + 1 BY <1>4, <2>2, <2>3
  <2>4. CASE i # d + 1
    <3>1. i < d + 1 BY <1>1, <2>4
    <3>2. start[i] < start[d + 1] BY <1>5, <2>1, <3>1
    <3> QED BY <1>4, <2>2, <3>2
  <2> QED BY <2>3, <2>4
<1>8. ASSUME NEW m \in 1..(d + 2) PROVE up[m] \in Nat
  <2>1. CASE m = d + 2 BY <1>4, <1>6, <2>1
  <2>2. CASE m # d + 2
    <3>1. m \in 1..(d + 1) BY <1>1, <2>2
    <3> QED BY <1>7, <3>1
  <2> QED BY <2>1, <2>2
<1>9. ASSUME NEW i \in 1..(d + 2), NEW j \in 1..(d + 2), i < j PROVE up[i] < up[j]
  <2>1. i \in 1..(d + 1) BY <1>1, <1>9
  <2>2. CASE j = d + 2
    <3>1. d + 1 \in 1..(d + 1) BY <1>1
    <3>2. start[d + 1] \in Nat BY <1>5, <3>1
    <3> QED BY <1>4, <1>5, <1>6, <1>7, <2>1, <2>2, <3>2
  <2>3. CASE j # d + 2
    <3>1. j \in 1..(d + 1) BY <1>1, <2>3
    <3> QED BY <1>5, <1>7, <1>9, <2>1, <3>1
  <2> QED BY <2>2, <2>3
<1>10. \A f \in 1..(d + 1) : q.funcs_vect[f].vm_code_offset = up[f]
  BY <1>2, <1>4, <1>5 DEF SameFuncs
<1>11. Bounds(q, up)
  <2>1. d + 1 + 1 = d + 2 /\ 1 \in 1..(d + 1) BY <1>1
  <2>2. up[1] = 0 BY <1>5, <1>7, <2>1
  <2>3. up[d + 2] <= Subs(q).size BY <1>4, <1>6
  <2> QED BY <1>2, <1>3, <1>4, <1>8, <1>9, <1>10, <2>1, <2>2, <2>3 DEF Bounds
<1>12. ReturnsAt(q, up)
  <2>1. \A c \in Range(Main(q).code) : c.instr.op # "RET" BY <1>6 DEF ReturnsAt
  <2>2. ASSUME NEW c \in Range(Subs(q).code), c.instr.op = "RET"
        PROVE  \E m \in 1..(d + 1) : c.at = up[m + 1] - 1
    <3>1. CASE c \in NewIn(Subs(r), Subs(q))
      <4>1. c.at = up[d + 2] - 1 BY <1>4, <1>6, <2>2, <3>1
      <4>2. d + 1 \in 1..(d + 1) /\ d + 1 + 1 = d + 2 BY <1>1
      <4> QED BY <4>1, <4>2
    <3>2. CASE c \notin NewIn(Subs(r), Subs(q))
      <4>1. c \in Range(Subs(r).code) BY <3>2 DEF NewIn
      <4>2. PICK m \in 1..d : c.at = start[m + 1] - 1 BY <1>1, <2>2, <4>1 DEF ReturnsAt
      <4>3. m + 1 \in 1..(d + 1) /\ m \in 1..(d + 1) BY <1>1
      <4> QED BY <1>4, <4>2, <4>3
    <3> QED BY <3>1, <3>2
  <2>3. ASSUME NEW m \in 1..(d + 1)
        PROVE  \E c \in Range(Subs(q).code) : IsReturn(c, up[m + 1] - 1)
    <3>1. CASE m = d + 1
      <4>1. m + 1 = d + 2 BY <1>1, <3>1
      <4> QED BY <1>4, <1>6, <4>1 DEF IsReturn
    <3>2. CASE m # d + 1
      <4>1. m \in 1..d /\ m + 1 \in 1..(d + 1) BY <1>1, <3>2
      <4>2. PICK c \in Range(Subs(r).code) : IsReturn(c, start[m + 1] - 1) BY <1>1, <4>1 DEF ReturnsAt
      <4> QED BY <1>4, <1>6, <4>1, <4>2
    <3> QED BY <3>1, <3>2
  <2> QED BY <1>3, <2>1, <2>2, <2>3 DEF ReturnsAt
<1> QED BY <1>1, <1>3, <1>4, <1>11, <1>12

-----------------------------------------------------------------------------
(* The chart, but for the routines of the source's lines.                    *)
Chart(r, s, n, home, at, start, fun) ==
  /\ r.line_num = n
  /\ Bounds(r, start) /\ ReturnsAt(r, start)
  /\ Located(r, s, n, home, at) /\ Marked(r, s, n, home, at) /\ Within(r, s, n, home, at, start)
  /\ Called(r, s, n, home, at) /\ Rolls(r, s, n, fun)

(* The line is charted, and the FUNC's line is the routine's.                *)
Follow(l, r, q, t, n, homes, ats, fun, up, funs) ==
  /\ Chart(q, t, n + 1, homes, ats, up, funs)
  /\ \A f \in 1..Len(r.funcs_vect) : funs[f] = fun[f]
  /\ l.kind = "Func" => funs[Len(q.funcs_vect)] = n + 1

(* A line's step extends the chart.                                          *)
LEMMA ChartGrows ==
  ASSUME NEW l, NEW r, Compiling(r), NEW q, Compiling(q), Reports(l, r, q),
         NEW n \in Nat, NEW s, NEW t, AddsOne(s, t, n, l),
         NEW home, NEW at, NEW start, NEW fun, Chart(r, s, n, home, at, start, fun),
         NEW homes, AddsOne(home, homes, n, Now(r)),
         NEW ats, AddsOne(at, ats, n, In(Now(r), r).size)
  PROVE  \E up, funs : Follow(l, r, q, t, n, homes, ats, fun, up, funs)
<1>1. MovesOn(l, r, q) /\ (Goes(r, q) \/ OnEnd(r, q) \/ OnFunc(r, q, l.name)) BY ReportsMove
<1>2. SameFuncs(r, q) /\ q.line_num = n + 1 /\ n = r.line_num BY DEF Reports, Chart
<1>3. Len(r.funcs_vect) \in Nat /\ Len(q.funcs_vect) \in Nat /\ Len(r.funcs_vect) <= Len(q.funcs_vect)
  BY <1>1 DEF Compiling, Goes, OnEnd, OnFunc
<1>4. /\ Bounds(r, start) /\ ReturnsAt(r, start)
      /\ Located(r, s, n, home, at) /\ Marked(r, s, n, home, at) /\ Within(r, s, n, home, at, start)
      /\ Called(r, s, n, home, at) /\ Rolls(r, s, n, fun)
  BY DEF Chart
<1>5. Located(q, t, n + 1, homes, ats) BY <1>1, <1>2, <1>3, <1>4, LocatedGrows
<1>6. Marked(q, t, n + 1, homes, ats) BY <1>1, <1>2, <1>4, MarkedGrows
<1>7. Called(q, t, n + 1, homes, ats) BY <1>1, <1>2, <1>3, <1>4, CalledGrows
<1>8. \/ l.kind # "Func" /\ Len(q.funcs_vect) = Len(r.funcs_vect)
      \/ l.kind = "Func" /\ OnFunc(r, q, l.name)
  BY DEF Reports, OnLabel, OnLine, OnEnd
<1>9. PICK funs : /\ Rolls(q, t, n + 1, funs)
                  /\ \A f \in 1..Len(r.funcs_vect) : funs[f] = fun[f]
                  /\ l.kind = "Func" => funs[Len(q.funcs_vect)] = n + 1
  BY <1>2, <1>4, <1>8, RollsGrow
<1>10. \A k \in 1..(n + 1) : Inside(r, q, t, homes, ats, start, k)
  BY <1>1, <1>2, <1>4, WithinGrows
<1>11. PICK d \in Nat : d = Done(r) BY DoneHolds DEF DoneIs
<1>12. CASE Goes(r, q) \/ OnFunc(r, q, l.name)
  <2>1. Done(q) = Done(r) /\ Bounds(q, start) /\ ReturnsAt(q, start) BY <1>1, <1>2, <1>4, <1>12, RunsOn
  <2>2. Within(q, t, n + 1, homes, ats, start) BY <1>10, <2>1 DEF Within, Inside
  <2>3. Chart(q, t, n + 1, homes, ats, start, funs) BY <1>2, <1>5, <1>6, <1>7, <1>9, <2>1, <2>2 DEF Chart
  <2> QED BY <1>9, <2>3 DEF Follow
<1>13. CASE OnEnd(r, q)
  <2>1. Done(q) = d + 1 BY <1>1, <1>2, <1>4, <1>11, <1>13, RunsOut
  <2>2. PICK up : /\ Bounds(q, up) /\ ReturnsAt(q, up)
                  /\ \A m \in 1..(d + 1) : up[m] = start[m]
                  /\ up[d + 2] = Subs(q).size
    BY <1>1, <1>2, <1>4, <1>11, <1>13, RunsOut
  <2>3. ASSUME NEW k \in 1..(n + 1), t[k].kind # "Label", homes[k] # 0
        PROVE  up[homes[k]] <= ats[k] /\ (homes[k] <= d + 1 => ats[k] < up[homes[k] + 1] - 1)
    <3>1. /\ start[homes[k]] <= ats[k]
          /\ homes[k] \in 1..(d + 1)
          /\ ats[k] < Subs(q).size
          /\ homes[k] <= d => ats[k] < start[homes[k] + 1] - 1
      BY <1>10, <1>11, <2>3 DEF Inside
    <3>2. up[homes[k]] <= ats[k] BY <2>2, <3>1
    <3>3. CASE homes[k] = d + 1
      <4>1. homes[k] + 1 = d + 2 BY <1>11, <3>3
      <4>2. ats[k] < Subs(q).size - 1
        <5>1. EndedPart(Subs(r), Subs(q), n + 1) /\ Longer(Subs(r), Subs(q)) BY <1>2, <1>13 DEF OnEnd, EndedPart
        <5>2. Mark(In(homes[k], q), k, ats[k]) /\ ats[k] \in Nat BY <1>5, <2>3 DEF Located
        <5>3. PICK c \in Range(Subs(q).code) : c.instr.op = "DBG" /\ c.at = ats[k]
          BY <5>2, <2>3 DEF Mark, In
        <5>4. CASE c \in NewIn(Subs(r), Subs(q))
          <6>1. c.at < Subs(q).size - 1 BY <5>1, <5>3, <5>4 DEF EndedPart
          <6> QED BY <5>3, <6>1
        <5>5. CASE c \notin NewIn(Subs(r), Subs(q))
          <6>1. c \in Range(Subs(r).code) BY <5>5 DEF NewIn
          <6>2. c.instr.arg \in 1..n /\ c.at = at[c.instr.arg] /\ home[c.instr.arg] # 0
                /\ s[c.instr.arg].kind # "Label"
            BY <1>4, <5>3, <6>1 DEF Marked, MarkOf
          <6>3. at[c.instr.arg] < Subs(r).size BY <1>4, <6>2 DEF Located, In
          <6> QED BY <5>1, <5>2, <5>3, <6>2, <6>3 DEF EndedPart, Longer
        <5> QED BY <5>4, <5>5
      <4> QED BY <2>2, <3>2, <4>1, <4>2
    <3>4. CASE homes[k] # d + 1
      <4>1. homes[k] <= d /\ homes[k] + 1 \in 1..(d + 1) BY <1>11, <3>1, <3>4
      <4> QED BY <2>2, <3>1, <3>2, <4>1
    <3> QED BY <3>3, <3>4
  <2>4. Within(q, t, n + 1, homes, ats, up) BY <2>1, <2>3 DEF Within
  <2>5. Chart(q, t, n + 1, homes, ats, up, funs) BY <1>2, <1>5, <1>6, <1>7, <1>9, <2>2, <2>4 DEF Chart
  <2> QED BY <1>9, <2>5 DEF Follow
<1> QED BY <1>1, <1>12, <1>13

-----------------------------------------------------------------------------
(* There is always a chart.                                                  *)

(* Nothing is compiled yet.                                                  *)
LEMMA ChartFirst ==
  ASSUME NEW r, r.line_num = 0, r.func_info = NULL, r.funcs_vect = <<>>,
         r.obj[TRUE] = [size |-> 0, code |-> <<>>], r.obj[FALSE] = [size |-> 0, code |-> <<>>],
         NEW s, NEW home, NEW at, NEW fun
  PROVE  Chart(r, s, 0, home, at, [m \in {1} |-> 0], fun)
<1> DEFINE start == [m \in {1} |-> 0]
<1>1. start[1] = 0 OBVIOUS
<1> HIDE DEF start
<1>2. Len(r.funcs_vect) = 0 /\ Done(r) = 0 /\ Now(r) = 0 BY DEF Done, Now
<1>3. Subs(r).size = 0 /\ Subs(r).code = <<>> /\ Main(r).code = <<>> BY DEF Subs, Main
<1>4. Range(Subs(r).code) = {} /\ Range(Main(r).code) = {} BY <1>3 DEF Range
<1>5. \A m \in 1..1 : m = 1 OBVIOUS
<1>6. \A m \in 1..0 : FALSE OBVIOUS
<1>7. Bounds(r, start) BY <1>1, <1>2, <1>3, <1>5, <1>6 DEF Bounds
<1>8. ReturnsAt(r, start) BY <1>2, <1>4, <1>6 DEF ReturnsAt
<1>9. Located(r, s, 0, home, at) /\ Within(r, s, 0, home, at, start) /\ Called(r, s, 0, home, at)
  BY <1>6 DEF Located, Within, Called
<1>10. Marked(r, s, 0, home, at) BY <1>4 DEF Marked
<1>11. Rolls(r, s, 0, fun) BY <1>2, <1>6 DEF Rolls
<1> QED BY <1>7, <1>8, <1>9, <1>10, <1>11 DEF Chart, start

(* Code that is neither a mark nor a RET changes nothing in the chart.       *)
LEMMA ChartStays ==
  ASSUME NEW r, Compiling(r), NEW q, Compiling(q), q.line_num = r.line_num,
         q.func_info = r.func_info, SameFuncs(r, q), Len(q.funcs_vect) = Len(r.funcs_vect),
         QuietPart(Main(r), Main(q)), QuietPart(Subs(r), Subs(q)), r.func_info = NULL => Subs(q) = Subs(r),
         NEW n \in Nat, NEW s, NEW home, NEW at, NEW start, NEW fun, Chart(r, s, n, home, at, start, fun)
  PROVE  Chart(q, s, n, home, at, start, fun)
<1>1. Longer(Main(r), Main(q)) /\ Longer(Subs(r), Subs(q)) BY DEF QuietPart
<1>2. Goes(r, q) BY DEF Goes, QuietPart
<1>3. PICK l : l.kind = "Label"
  <2>1. [kind |-> "Label"].kind = "Label" OBVIOUS
  <2> QED BY <2>1
<1>4. MovesOn(l, r, q) BY <1>1, <1>3 DEF MovesOn, QuietPart
<1>5. /\ Bounds(r, start) /\ ReturnsAt(r, start)
      /\ Located(r, s, n, home, at) /\ Marked(r, s, n, home, at) /\ Within(r, s, n, home, at, start)
      /\ Called(r, s, n, home, at) /\ Rolls(r, s, n, fun)
  BY DEF Chart
<1>6. Done(q) = Done(r) /\ Bounds(q, start) /\ ReturnsAt(q, start) BY <1>2, <1>4, <1>5, RunsOn
<1>8. \A h : Longer(In(h, r), In(h, q)) BY <1>1 DEF In
<1>9. Located(q, s, n, home, at)
  <2> SUFFICES ASSUME NEW k \in 1..n
               PROVE  /\ home[k] \in 0..Len(q.funcs_vect) /\ at[k] \in Nat
                      /\ s[k].kind # "Label" => Mark(In(home[k], q), k, at[k]) /\ at[k] < In(home[k], q).size
    BY DEF Located
  <2>1. home[k] \in 0..Len(r.funcs_vect) /\ at[k] \in Nat BY <1>5 DEF Located
  <2>2. ASSUME s[k].kind # "Label"
        PROVE  Mark(In(home[k], q), k, at[k]) /\ at[k] < In(home[k], q).size
    <3>1. Mark(In(home[k], r), k, at[k]) /\ at[k] < In(home[k], r).size BY <1>5, <2>2 DEF Located
    <3>2. Longer(In(home[k], r), In(home[k], q)) BY <1>8
    <3> QED BY <2>1, <3>1, <3>2 DEF Mark, Longer
  <2> QED BY <2>1, <2>2
<1>10. Marked(q, s, n, home, at)
  <2>1. \A c \in Range(Main(q).code) : c.instr.op = "DBG" => c \in Range(Main(r).code)
    BY DEF QuietPart, NewIn
  <2>2. \A c \in Range(Subs(q).code) : c.instr.op = "DBG" => c \in Range(Subs(r).code)
    BY DEF QuietPart, NewIn
  <2> QED BY <1>5, <2>1, <2>2 DEF Marked, MarkOf
<1>11. Within(q, s, n, home, at, start) BY <1>5, <1>6 DEF Within
<1>12. Called(q, s, n, home, at)
  <2> SUFFICES ASSUME NEW k \in 1..n, s[k].kind = "Call"
               PROVE  \E f \in 1..Len(q.funcs_vect) :
                        /\ q.funcs_vect[f].name = s[k].name
                        /\ \E c \in Range(In(home[k], q).code) : CallAt(c, q, s, n, home, at, k, f)
    BY DEF Called
  <2>1. PICK f \in 1..Len(r.funcs_vect) :
          /\ r.funcs_vect[f].name = s[k].name
          /\ \E c \in Range(In(home[k], r).code) : CallAt(c, r, s, n, home, at, k, f)
    BY <1>5 DEF Called
  <2>2. PICK c \in Range(In(home[k], r).code) : CallAt(c, r, s, n, home, at, k, f) BY <2>1
  <2>3. /\ c.instr.op = "CALL_PRG_FUNC" /\ c.instr.arg = r.funcs_vect[f].vm_code_offset
        /\ c.at \in Nat /\ at[k] < c.at /\ c.at < In(home[k], r).size
        /\ BeforeNext(c, s, n, home, at, k)
    BY <2>2 DEF CallAt
  <2>4. Longer(In(home[k], r), In(home[k], q)) BY <1>8
  <2>5. c \in Range(In(home[k], q).code) /\ c.at < In(home[k], q).size BY <2>3, <2>4 DEF Longer
  <2>6. q.funcs_vect[f].name = s[k].name /\ q.funcs_vect[f].vm_code_offset = r.funcs_vect[f].vm_code_offset
    BY <2>1 DEF SameFuncs
  <2>7. CallAt(c, q, s, n, home, at, k, f) BY <2>3, <2>5, <2>6 DEF CallAt
  <2> QED BY <2>5, <2>6, <2>7
<1>13. Rolls(q, s, n, fun) BY <1>5 DEF Rolls, SameFuncs
<1>14. q.line_num = n BY DEF Chart
<1> QED BY <1>6, <1>9, <1>10, <1>11, <1>12, <1>13, <1>14 DEF Chart

-----------------------------------------------------------------------------
(* The routines of the source's lines.                                       *)
RoutineOf(h, fun) == IF h = 0 THEN {} ELSE {fun[h]}
Rooms(n, home, fun) ==
  /\ \A k \in 1..n : Routine(k) = RoutineOf(home[k], fun)
  /\ Routine(n + 1) = RoutineOf(Now(result), fun)
(* There is a chart.                                                         *)
Charted ==
  \E n \in Nat : \E home, at, start, fun :
    n = Len(source) /\ Chart(result, source, n, home, at, start, fun) /\ Rooms(n, home, fun)

(* The routine of a line stays, and the next line's is known.                *)
LEMMA RoutineGrows ==
  ASSUME IsSource, NEW l, source' = Append(source, l), NEW CONSTANT n \in Nat, n = Len(source),
         l.kind = "Func" => Level(n) = 0
  PROVE  /\ \A k \in 1..(n + 1) : Routine(k)' = Routine(k)
         /\ ~(Level(n + 1)' >= 1) => Routine(n + 2)' = {}
         /\ Level(n + 1)' >= 1 /\ l.kind # "Func" => Routine(n + 2)' = Routine(n + 1)
         /\ Level(n + 1)' >= 1 /\ l.kind = "Func" => Routine(n + 2)' = {n + 1}
<1>1. /\ DOMAIN source = 1..n /\ DOMAIN source' = 1..(n + 1) /\ source'[n + 1] = l
      /\ \A k \in 1..n : source'[k] = source[k]
  BY SourceGrows
<1>2. \A k \in 0..n : Level(k) \in Int /\ Level(k)' = Level(k) BY LevelGrows
<1>3. ASSUME NEW CONSTANT k \in Int
      PROVE  /\ Routine(k) = {o \in 1..n : /\ source[o].kind = "Func" /\ o < k
                                           /\ \A j \in o..(k - 1) : Level(j) >= 1}
             /\ Routine(k)' = {o \in 1..(n + 1) : /\ source'[o].kind = "Func" /\ o < k
                                                  /\ \A j \in o..(k - 1) : Level(j)' >= 1}
  <2>1. Routine(k) = {o \in 1..n : /\ source[o].kind = "Func" /\ o < k
                                    /\ \A j \in o..(k - 1) : Level(j) >= 1}
    BY <1>1 DEF Routine, Of, Kind, Lines
  <2>2. Routine(k)' = {o \in 1..(n + 1) : /\ source'[o].kind = "Func" /\ o < k
                                           /\ \A j \in o..(k - 1) : Level(j)' >= 1}
    BY <1>1 DEF Routine, Of, Kind, Lines
  <2> QED BY <2>1, <2>2
<1>4. ASSUME NEW CONSTANT k \in 1..(n + 1) PROVE Routine(k)' = Routine(k)
  <2>1. \A o \in 1..(n + 1) : o < k => o \in 1..n OBVIOUS
  <2>2. \A o \in 1..n : \A j \in o..(k - 1) : j \in 0..n OBVIOUS
  <2>3. \A o \in 1..n : (\A j \in o..(k - 1) : Level(j)' >= 1) <=> (\A j \in o..(k - 1) : Level(j) >= 1)
    BY <1>2, <2>2
  <2>4. \A o : o \in Routine(k)' <=> o \in Routine(k)
    <3> TAKE o
    <3>1. o \in Routine(k) <=> /\ o \in 1..n /\ source[o].kind = "Func" /\ o < k
                              /\ \A j \in o..(k - 1) : Level(j) >= 1
      BY <1>3
    <3>2. o \in Routine(k)' <=> /\ o \in 1..(n + 1) /\ source'[o].kind = "Func" /\ o < k
                               /\ \A j \in o..(k - 1) : Level(j)' >= 1
      BY <1>3
    <3>3. o \in 1..n => o \in 1..(n + 1) OBVIOUS
    <3> QED BY <1>1, <2>1, <2>3, <3>1, <3>2, <3>3
  <2> QED BY <1>3, <2>4
<1>5. ASSUME ~(Level(n + 1)' >= 1) PROVE Routine(n + 2)' = {}
  <2>1. \A o \in 1..(n + 1) : n + 1 \in o..(n + 2 - 1) OBVIOUS
  <2>2. \A o \in 1..(n + 1) : ~(\A j \in o..(n + 2 - 1) : Level(j)' >= 1) BY <1>5, <2>1
  <2> QED BY <1>3, <2>2
<1>6. ASSUME Level(n + 1)' >= 1, l.kind # "Func" PROVE Routine(n + 2)' = Routine(n + 1)
  <2>1. \A o \in 1..(n + 1) : source'[o].kind = "Func" => o \in 1..n /\ o < n + 1
    BY <1>1, <1>6
  <2>2. \A o \in 1..n : o \in 1..(n + 1) /\ o < n + 2 /\ o < n + 1 OBVIOUS
  <2>3. \A o \in 1..n : \A j \in o..(n + 2 - 1) : j = n + 1 \/ (j \in 0..n /\ j \in o..(n + 1 - 1)) OBVIOUS
  <2>4. \A o \in 1..n : \A j \in o..(n + 1 - 1) : j \in o..(n + 2 - 1) /\ j \in 0..n OBVIOUS
  <2>5. \A o \in 1..n : (\A j \in o..(n + 2 - 1) : Level(j)' >= 1) <=> (\A j \in o..(n + 1 - 1) : Level(j) >= 1)
    BY <1>2, <1>6, <2>3, <2>4
  <2>6. \A o : o \in Routine(n + 2)' <=> o \in Routine(n + 1)
    <3> TAKE o
    <3>1. o \in Routine(n + 1) <=> /\ o \in 1..n /\ source[o].kind = "Func" /\ o < n + 1
                                  /\ \A j \in o..(n + 1 - 1) : Level(j) >= 1
      BY <1>3
    <3>2. o \in Routine(n + 2)' <=> /\ o \in 1..(n + 1) /\ source'[o].kind = "Func" /\ o < n + 2
                                   /\ \A j \in o..(n + 2 - 1) : Level(j)' >= 1
      BY <1>3
    <3> QED BY <1>1, <2>1, <2>2, <2>5, <3>1, <3>2
  <2> QED BY <1>3, <2>6
<1>7. ASSUME Level(n + 1)' >= 1, l.kind = "Func" PROVE Routine(n + 2)' = {n + 1}
  <2>1. Level(n)' = 0 BY <1>2, <1>7
  <2>2. \A o \in 1..n : n \in o..(n + 2 - 1) OBVIOUS
  <2>3. \A o \in 1..n : ~(\A j \in o..(n + 2 - 1) : Level(j)' >= 1) BY <2>1, <2>2
  <2>4. \A j \in (n + 1)..(n + 2 - 1) : j = n + 1 OBVIOUS
  <2>5. n + 1 \in 1..(n + 1) /\ n + 1 < n + 2 OBVIOUS
  <2>6. \A o \in 1..(n + 1) : o \in 1..n \/ o = n + 1 OBVIOUS
  <2> QED BY <1>1, <1>3, <1>7, <2>3, <2>4, <2>5, <2>6
<1> QED BY <1>4, <1>5, <1>6, <1>7

(* In order, no block is open just when no routine is being compiled.        *)
LEMMA OrdersOut ==
  ASSUME NEW r, NEW L \in Nat, NEW T, Orders(r, L, T)
  PROVE  (L = 0 => r.func_info = NULL) /\ (r.block_vect = <<>> => L = 0)
<1>1. Sound(r) /\ Stack(r, L, T) /\ VarsIn(r) BY DEF Orders
<1>2. L = 0 <=> r.block_vect = <<>> BY <1>1, StackTop
<1>3. r.func_info # NULL => r.block_vect # <<>> BY <1>1 DEF VarsIn
<1> QED BY <1>2, <1>3

(* There is one more entry.                                                  *)
LEMMA AddsExists == ASSUME NEW s, NEW n \in Nat, NEW x PROVE \E t : AddsOne(s, t, n, x)
<1> DEFINE t == [k \in 1..(n + 1) |-> IF k = n + 1 THEN x ELSE s[k]]
<1>1. AddsOne(s, t, n, x) BY DEF AddsOne
<1> QED BY <1>1

(* A statement's line reports, in order.                                     *)
LEMMA StatementReports ==
  ASSUME LayoutInv, Statement
  PROVE  \E l : /\ source' = Append(source, l)
                /\ InOrderNow' => InOrderNow /\ Reports(l, result, result')
                                  /\ (l.kind = "Func" => Level(Len(source)) = 0)
<1>1. Sound(result) /\ OutlineInv /\ IsSource BY DEF LayoutInv, SoundInv, OutlineInv
<1>2. PICK l : source' = Append(source, l) /\ Records(l, result, result')
  BY <1>1, StatementRecords
<1>3. ASSUME Orderly', SizesGiven', Ok(result')
      PROVE  InOrderNow /\ Reports(l, result, result') /\ (l.kind = "Func" => Level(Len(source)) = 0)
  <2>1. Orderly BY <1>1, <1>2, <1>3, OrderlyBefore
  <2>2. SizesGiven BY <1>1, <1>2, <1>3, SizesKept
  <2>3. Ok(result) BY DEF Statement, Label, Goto, Declare, Assign, If, Close, While, Return, Func, Call,
                          PRINT, Open, Break, Brkpnt, Stop, Reads
  <2>4. Placed BY <2>1, <2>2, <2>3 DEF LayoutInv, InOrderNow
  <2>5. PICK n \in Nat : n = Len(source) BY <1>1, <1>2, SourceGrows
  <2>6. PICK L \in Nat : \E op : L = Level(n) /\ Tops(op, L) /\ Orders(result, L, Kinds(op, L))
    BY <2>4, <2>5 DEF Placed
  <2>7. PICK op : L = Level(n) /\ Tops(op, L) /\ Orders(result, L, Kinds(op, L)) BY <2>6
  <2>8. LastInOrder(l, L, op)
    <3>1. Tops(op, Level(n)) BY <2>7
    <3>2. LastInOrder(l, Level(n), op) BY <1>1, <1>2, <1>3, <2>5, <3>1, LastLine
    <3> QED BY <2>7, <3>2
  <2>9. InLine(l, L, Kinds(op, L)) BY <2>8, OrderIs
  <2>10. Noted(l, result, result') BY <1>2, <1>3, <2>7, <2>9 DEF Records
  <2>11. Compiling(result) BY <1>1, SoundCompiling
  <2>12. Reports(l, result, result') BY <2>10, <2>11, NotedReports
  <2>13. l.kind = "Func" => Level(Len(source)) = 0 BY <2>5, <2>7, <2>8 DEF LastInOrder
  <2> QED BY <2>1, <2>2, <2>3, <2>12, <2>13 DEF InOrderNow
<1> QED BY <1>2, <1>3 DEF InOrderNow

(* A statement keeps the chart.                                              *)
LEMMA StatementCharts ==
  ASSUME LayoutInv, LayoutInv', Statement, InOrderNow => Charted, InOrderNow'
  PROVE  Charted'
<1>1. Sound(result) /\ Sound(result') /\ IsSource BY DEF LayoutInv, SoundInv, OutlineInv
<1>2. PICK l : /\ source' = Append(source, l) /\ InOrderNow /\ Reports(l, result, result')
               /\ (l.kind = "Func" => Level(Len(source)) = 0)
  BY StatementReports
<1>3. PICK n \in Nat : n = Len(source) BY <1>1, <1>2, SourceGrows
<1>4. PICK home, at, start, fun :
        Chart(result, source, n, home, at, start, fun) /\ Rooms(n, home, fun)
  BY <1>2, <1>3 DEF Charted
<1>5. Compiling(result) /\ Compiling(result') BY <1>1, SoundCompiling
<1>6. AddsOne(source, source', n, l) /\ Len(source') = n + 1 BY <1>1, <1>2, <1>3, SourceGrows DEF AddsOne
<1>7. PICK homes, ats : AddsOne(home, homes, n, Now(result)) /\ AddsOne(at, ats, n, In(Now(result), result).size)
  BY AddsExists
<1>8. PICK up, funs :
           /\ Chart(result', source', n + 1, homes, ats, up, funs)
           /\ \A f \in 1..Len(result.funcs_vect) : funs[f] = fun[f]
           /\ l.kind = "Func" => funs[Len(result'.funcs_vect)] = n + 1
  <2>1. PICK q, t : q = result' /\ t = source' OBVIOUS
  <2>2. PICK r, s : r = result /\ s = source OBVIOUS
  <2>3. /\ Compiling(r) /\ Compiling(q) /\ Reports(l, r, q) /\ n \in Nat /\ AddsOne(s, t, n, l)
        /\ Chart(r, s, n, home, at, start, fun)
        /\ AddsOne(home, homes, n, Now(r)) /\ AddsOne(at, ats, n, In(Now(r), r).size)
    BY <1>2, <1>4, <1>5, <1>6, <1>7, <2>1, <2>2
  <2>4. PICK up, funs : Follow(l, r, q, t, n, homes, ats, fun, up, funs) BY <2>3, ChartGrows, Zenon
  <2> QED BY <2>1, <2>2, <2>4 DEF Follow
<1>9. PICK m \in Nat : m = Len(result.funcs_vect) BY <1>5 DEF Compiling
<1>10. /\ \A k \in 1..n : home[k] \in 0..m
       /\ Now(result) \in 0..m
  BY <1>4, <1>5, <1>9, NowIs DEF Chart, Located
<1>11. ASSUME NEW CONSTANT h \in 0..m PROVE RoutineOf(h, funs) = RoutineOf(h, fun)
  <2>1. CASE h = 0 BY <2>1 DEF RoutineOf
  <2>2. CASE h # 0
    <3>1. h \in 1..m BY <1>9, <2>2
    <3>2. funs[h] = fun[h] BY <1>8, <1>9, <3>1
    <3> QED BY <3>2 DEF RoutineOf
  <2> QED BY <2>1, <2>2
<1>12. /\ \A k \in 1..n : Routine(k) = RoutineOf(home[k], fun)
       /\ Routine(n + 1) = RoutineOf(Now(result), fun)
  BY <1>4 DEF Rooms
<1>13. /\ \A k \in 1..(n + 1) : Routine(k)' = Routine(k)
       /\ ~(Level(n + 1)' >= 1) => Routine(n + 2)' = {}
       /\ Level(n + 1)' >= 1 /\ l.kind # "Func" => Routine(n + 2)' = Routine(n + 1)
       /\ Level(n + 1)' >= 1 /\ l.kind = "Func" => Routine(n + 2)' = {n + 1}
  BY <1>1, <1>2, <1>3, RoutineGrows
<1>14. /\ Level(n + 1)' \in Nat
       /\ Level(n + 1)' = 0 => result'.func_info = NULL
       /\ result'.block_vect = <<>> => Level(n + 1)' = 0
  <2>1. Placed' BY DEF LayoutInv
  <2>2. PICK L \in Nat : \E op : L = Level(n + 1)' /\ Tops(op, L)' /\ Orders(result', L, Kinds(op, L)')
    BY <1>6, <2>1 DEF Placed
  <2>3. PICK op : L = Level(n + 1)' /\ Orders(result', L, Kinds(op, L)') BY <2>2
  <2>4. (L = 0 => result'.func_info = NULL) /\ (result'.block_vect = <<>> => L = 0)
    BY <2>3, OrdersOut
  <2> QED BY <2>2, <2>3, <2>4
<1>15. \A k \in 1..(n + 1) : Routine(k)' = RoutineOf(homes[k], funs)
  <2> SUFFICES ASSUME NEW CONSTANT k \in 1..(n + 1) PROVE Routine(k)' = RoutineOf(homes[k], funs)
    OBVIOUS
  <2>1. CASE k = n + 1
    <3>1. homes[k] = Now(result) BY <1>7, <2>1 DEF AddsOne
    <3> QED BY <1>10, <1>11, <1>12, <1>13, <2>1, <3>1
  <2>2. CASE k # n + 1
    <3>1. k \in 1..n BY <2>2
    <3>2. homes[k] = home[k] BY <1>7, <3>1 DEF AddsOne
    <3> QED BY <1>10, <1>11, <1>12, <1>13, <3>1, <3>2
  <2> QED BY <2>1, <2>2
<1>16. Routine(n + 2)' = RoutineOf(Now(result'), funs)
  <2>1. CASE Level(n + 1)' = 0
    <3>1. Now(result') = 0 BY <1>14, <2>1 DEF Now
    <3>2. Routine(n + 2)' = {} BY <1>13, <2>1
    <3> QED BY <3>1, <3>2 DEF RoutineOf
  <2>2. CASE Level(n + 1)' # 0
    <3>1. Level(n + 1)' >= 1 BY <1>14, <2>2
    <3>2. CASE l.kind = "Func"
      <4>1. OnFunc(result, result', l.name) BY <1>2, <3>2 DEF Reports
      <4>2. result'.func_info # NULL /\ Len(result'.funcs_vect) = m + 1
        BY <1>9, <4>1 DEF OnFunc, NULL
      <4>3. Now(result') = m + 1 BY <4>2 DEF Now
      <4>4. funs[m + 1] = n + 1 BY <1>8, <3>2, <4>2
      <4>5. Routine(n + 2)' = {n + 1} BY <1>13, <3>1, <3>2
      <4>6. m + 1 # 0 BY <1>9
      <4> QED BY <4>3, <4>4, <4>5, <4>6 DEF RoutineOf
    <3>3. CASE l.kind # "Func"
      <4>1. ~OnEnd(result, result') BY <1>14, <2>2 DEF OnEnd
      <4>2. result'.func_info = result.func_info /\ Len(result'.funcs_vect) = m
        BY <1>2, <1>9, <3>3, <4>1 DEF Reports, OnLabel, OnLine
      <4>3. Now(result') = Now(result) BY <1>9, <4>2 DEF Now
      <4>4. Routine(n + 2)' = Routine(n + 1) BY <1>13, <3>1, <3>3
      <4> QED BY <1>10, <1>11, <1>12, <4>3, <4>4
    <3> QED BY <3>2, <3>3
  <2> QED BY <2>1, <2>2
<1>17. Rooms(n + 1, homes, funs)'
  <2>1. n + 1 + 1 = n + 2 OBVIOUS
  <2> QED BY <1>15, <1>16, <2>1 DEF Rooms
<1>18. n + 1 \in Nat OBVIOUS
<1> QED BY <1>6, <1>8, <1>17, <1>18 DEF Charted

-----------------------------------------------------------------------------
(* The invariant.                                                            *)

(* A line's routine is the source's.                                         *)
LEMMA RoutineSame ==
  ASSUME source' = source, NEW CONSTANT k
  PROVE  Routine(k)' = Routine(k)
BY SourceSame DEF Routine, Of, Kind, Lines

(* Writing outside the lines keeps the chart.                                *)
LEMMA ChartedSame ==
  ASSUME source' = source, Charted, Compiling(result), Compiling(result'),
         result' = result \/ Writes(result, result', Loud)
  PROVE  Charted'
<1>1. PICK n \in Nat : \E home, at, start, fun :
        n = Len(source) /\ Chart(result, source, n, home, at, start, fun) /\ Rooms(n, home, fun)
  BY DEF Charted
<1>2. PICK home, at, start, fun :
        n = Len(source) /\ Chart(result, source, n, home, at, start, fun) /\ Rooms(n, home, fun)
  BY <1>1
<1>3. PICK r, q, s : r = result /\ q = result' /\ s = source OBVIOUS
<1>4. Chart(q, s, n, home, at, start, fun) /\ Now(q) = Now(r)
  <2>1. CASE q = r BY <1>2, <1>3, <2>1
  <2>2. CASE Writes(r, q, Loud)
    <3>1. Coded(r) /\ Compiling(r) /\ Compiling(q) BY <1>3 DEF Compiling
    <3>2. SameEntries(r, q) /\ Coded(q) BY <2>2 DEF Writes
    <3>3. /\ q.line_num = r.line_num /\ q.func_info = r.func_info /\ SameFuncs(r, q)
          /\ Len(q.funcs_vect) = Len(r.funcs_vect)
      BY <3>2 DEF SameEntries, SameFuncs
    <3>4. /\ r.subs_body = FALSE => QuietPart(Main(r), Main(q)) /\ Subs(q) = Subs(r)
          /\ r.subs_body = TRUE => QuietPart(Subs(r), Subs(q)) /\ Main(q) = Main(r)
      BY <2>2, <3>1, QuietIs, Zenon
    <3>5. Main(r).size \in Nat /\ Subs(r).size \in Nat BY <3>1 DEF Coded, CodePart, Main, Subs
    <3>6. QuietPart(Main(r), Main(r)) /\ QuietPart(Subs(r), Subs(r)) BY <3>5, LongerSelf DEF QuietPart
    <3>7. (r.func_info = NULL => r.subs_body = FALSE) /\ (r.func_info # NULL => r.subs_body = TRUE)
      BY <3>1 DEF Compiling
    <3>8. /\ QuietPart(Main(r), Main(q)) /\ QuietPart(Subs(r), Subs(q))
          /\ r.func_info = NULL => Subs(q) = Subs(r)
      BY <3>4, <3>6, <3>7
    <3>9. Chart(r, s, n, home, at, start, fun) BY <1>2, <1>3
    <3>10. Chart(q, s, n, home, at, start, fun) BY <3>1, <3>3, <3>8, <3>9, ChartStays, Zenon
    <3> QED BY <3>3, <3>10 DEF Now
  <2> QED BY <1>3, <2>1, <2>2
<1>5. Chart(result', source', n, home, at, start, fun) /\ Now(result') = Now(result)
  BY <1>3, <1>4
<1>6. \A k \in 1..n : Routine(k) = RoutineOf(home[k], fun) BY <1>2 DEF Rooms
<1>7. Routine(n + 1) = RoutineOf(Now(result), fun) BY <1>2 DEF Rooms
<1>8. \A k \in 1..n : Routine(k)' = RoutineOf(home[k], fun)
  <2> SUFFICES ASSUME NEW CONSTANT k \in 1..n PROVE Routine(k)' = RoutineOf(home[k], fun)
    OBVIOUS
  <2> QED BY <1>6, RoutineSame
<1>9. Routine(n + 1)' = RoutineOf(Now(result'), fun)
  <2>1. PICK m \in Nat : m = n + 1 OBVIOUS
  <2>2. Routine(m)' = Routine(m) BY RoutineSame
  <2>3. Routine(m)' = RoutineOf(Now(result'), fun) BY <1>5, <1>7, <2>1, <2>2
  <2> QED BY <2>1, <2>3
<1>10. Rooms(n, home, fun)' BY <1>8, <1>9 DEF Rooms
<1> QED BY <1>2, <1>5, <1>10 DEF Charted

(* The END closes the main part.                                             *)
MainClosed(r) ==
  r.func_info = NULL =>
    /\ 0 < Main(r).size
    /\ \A c \in Range(Main(r).code) : c.instr.op = "CALL_PRG_FUNC" => c.at < Main(r).size - 1

(* VmOp_End closes the main part, and writes no mark.                        *)
LEMMA EndWrites ==
  ASSUME NEW r, Sound(r), NEW q, q = VmOp_End(r)
  PROVE  Writes(r, q, Loud) /\ MainClosed(q)
<1>1. Coded(r) /\ Compiling(r)
  <2>1. Coded(r) BY SoundCoded
  <2>2. Compiling(r) BY SoundCompiling
  <2> QED BY <2>1, <2>2
<1>2. "END" \in Loud BY DEF Loud, Op, PlainOps
<1>3. q = code_op(r, "END", FALSE, 0, 0) BY DEF VmOp_End
<1>4. Writes(r, q, Loud) BY <1>1, <1>2, <1>3, CodeWrites
<1>5. Puts(r, q, "END", 0) BY <1>1, <1>3, PutIs
<1>6. ASSUME q.func_info = NULL
      PROVE  /\ 0 < Main(q).size
             /\ \A c \in Range(Main(q).code) : c.instr.op = "CALL_PRG_FUNC" => c.at < Main(q).size - 1
  <2>1. r.func_info = NULL BY <1>4, <1>6 DEF Writes, SameEntries
  <2>2. r.subs_body = FALSE BY <1>1, <2>1 DEF Compiling
  <2>3. PICK e : e.instr.op = "END" /\ Extended(r.obj[r.subs_body], q.obj[r.subs_body], e)
    BY <1>5, Zenon DEF Puts
  <2>4. CmdSize("END") = 1
    <3>1. "END" \in PlainOps /\ "END" \notin IdOps \cup WordOps \cup WordByteOps
      BY DEF PlainOps, IdOps, WordOps, WordByteOps
    <3> QED BY <3>1 DEF CmdSize
  <2>5. /\ Main(r).size \in Nat /\ e.at = Main(r).size /\ Main(q).size = Main(r).size + 1
        /\ Range(Main(q).code) = Range(Main(r).code) \cup {e}
    BY <2>2, <2>3, <2>4 DEF Extended, Main
  <2>6. \A c \in Range(Main(r).code) : c.at \in Nat /\ c.at < Main(r).size
    <3>1. FALSE \in BOOLEAN OBVIOUS
    <3>2. \A i \in 1..Len(r.obj[FALSE].code) : r.obj[FALSE].code[i].at < r.obj[FALSE].size
      BY <3>1 DEF Sound, CodeRefs
    <3>3. r.obj[FALSE].code \in Seq(CodeType) BY <3>1 DEF Sound, Result, PartType
    <3> SUFFICES ASSUME NEW c \in Range(Main(r).code) PROVE c.at \in Nat /\ c.at < Main(r).size
      OBVIOUS
    <3>4. PICK i \in DOMAIN r.obj[FALSE].code : c = r.obj[FALSE].code[i] BY DEF Main, Range
    <3>5. i \in 1..Len(r.obj[FALSE].code) /\ c \in CodeType
      <4>1. PICK code \in Seq(CodeType) : code = r.obj[FALSE].code BY <3>3
      <4>2. i \in DOMAIN code /\ c = code[i] BY <3>4, <4>1
      <4>3. i \in 1..Len(code) /\ code[i] \in CodeType BY <4>2
      <4> QED BY <4>1, <4>2, <4>3
    <3>6. c.at \in Nat BY <3>5 DEF CodeType
    <3> QED BY <3>2, <3>4, <3>5, <3>6 DEF Main
  <2>7. ASSUME NEW c \in Range(Main(q).code), c.instr.op = "CALL_PRG_FUNC" PROVE c.at < Main(q).size - 1
    <3>1. c \in Range(Main(r).code) BY <2>3, <2>5, <2>7
    <3> QED BY <2>5, <2>6, <3>1
  <2> QED BY <2>5, <2>7
<1> QED BY <1>4, <1>6 DEF MainClosed

(* The invariant: in order there is a chart, and the image is the Result's.  *)
ImageInv ==
  /\ LayoutInv
  /\ InOrderNow => Charted
  /\ image # NoImage => image = Image(result) /\ Ok(result) /\ MainClosed(result)

(* It holds at the start.                                                    *)
LEMMA ImageInit == LInit => ImageInv
<1> SUFFICES ASSUME LInit PROVE ImageInv
  OBVIOUS
<1>1. LayoutInv BY LayoutInit
<1>2. Charted
  <2>1. source = <<>> /\ Len(source) = 0 /\ DOMAIN source = {} BY DEF LInit, Init
  <2>2. /\ result.line_num = 0 /\ result.func_info = NULL /\ result.funcs_vect = <<>>
        /\ result.obj = [area \in BOOLEAN |-> [size |-> 0, code |-> <<>>]]
    BY DEF LInit, Init
  <2>3. result.obj[TRUE] = [size |-> 0, code |-> <<>>] /\ result.obj[FALSE] = [size |-> 0, code |-> <<>>]
    BY <2>2
  <2>4. PICK start : start = [m \in {1} |-> 0] OBVIOUS
  <2>5. PICK home : home = <<>> OBVIOUS
  <2>6. Chart(result, source, 0, home, home, start, home) BY <2>2, <2>3, <2>4, ChartFirst, Zenon
  <2>7. Routine(0 + 1) = {} BY <2>1 DEF Routine, Of, Lines
  <2>8. Now(result) = 0 BY <2>2 DEF Now
  <2>9. \A k \in 1..0 : FALSE OBVIOUS
  <2>10. Rooms(0, home, home) BY <2>7, <2>8, <2>9 DEF Rooms, RoutineOf
  <2> QED BY <2>1, <2>6, <2>10 DEF Charted
<1>3. image = NoImage BY DEF LInit
<1> QED BY <1>1, <1>2, <1>3 DEF ImageInv

(* Every step keeps it.                                                      *)
LEMMA ImageStep == ImageInv /\ [LNext]_lvars => ImageInv'
<1> SUFFICES ASSUME ImageInv, [LNext]_lvars PROVE ImageInv'
  OBVIOUS
<1>1. LayoutInv /\ LayoutInv' BY LayoutStep DEF ImageInv
<1>2. Sound(result) /\ Sound(result') BY <1>1 DEF LayoutInv, SoundInv
<1>3. Compiling(result) /\ Compiling(result') BY <1>2, SoundCompiling
<1>4. CASE UNCHANGED lvars
  <2>1. result' = result /\ source' = source /\ image' = image BY <1>4 DEF lvars
  <2>2. (Orderly' <=> Orderly) /\ (SizesGiven' <=> SizesGiven) BY <2>1, SourceSame
  <2>3. InOrderNow' => Charted' BY <1>3, <2>1, <2>2, ChartedSame DEF ImageInv, InOrderNow
  <2> QED BY <1>1, <2>1, <2>3 DEF ImageInv
<1>5. CASE EndOfFile
  <2>1. source' = source /\ Ok(result) /\ result' = VmOp_End(result) /\ image' = Image(result')
    BY <1>5 DEF EndOfFile
  <2>2. (Orderly' <=> Orderly) /\ (SizesGiven' <=> SizesGiven) BY <2>1, SourceSame
  <2>3. Writes(result, result', Loud) /\ MainClosed(result')
    <3>1. PICK q : q = result' OBVIOUS
    <3>2. Writes(result, q, Loud) /\ MainClosed(q) BY <1>2, <2>1, <3>1, EndWrites, Zenon
    <3> QED BY <3>1, <3>2
  <2>4. InOrderNow' => Charted' BY <1>3, <2>1, <2>2, <2>3, ChartedSame DEF ImageInv, InOrderNow
  <2>5. Ok(result')
    <3>1. "END" \in Op /\ FALSE \in BOOLEAN /\ 0 \in Int BY DEF Op, PlainOps
    <3>2. Appends(result, code_op(result, "END", FALSE, 0, 0)) BY <1>2, <3>1, CodeOpSound, Zenon
    <3> QED BY <2>1, <3>2 DEF Appends, Emits, Kept, VmOp_End, Ok
  <2> QED BY <1>1, <2>1, <2>3, <2>4, <2>5 DEF ImageInv
<1>6. CASE image = NoImage /\ Statement /\ UNCHANGED image
  <2>1. InOrderNow' => Charted' BY <1>1, <1>6, StatementCharts DEF ImageInv
  <2> QED BY <1>1, <1>6, <2>1 DEF ImageInv
<1> QED BY <1>4, <1>5, <1>6 DEF LNext

-----------------------------------------------------------------------------
(* Ranks in a rising sequence, and the code of the image.                    *)

(* Of the values of a rising sequence, m are at most its m-th.               *)
Rising(g, n) == \A i \in 1..n : g[i] \in Nat /\ \A j \in 1..n : i < j => g[i] < g[j]

(* The first m values of a rising sequence are m.                            *)
LEMMA CountRising ==
  ASSUME NEW n \in Nat, NEW g, Rising(g, n), NEW R, R = {g[i] : i \in 1..n}, NEW m \in 0..n,
         NEW B, B = {g[i] : i \in 1..m}
  PROVE  Cardinality(B) = m
<1> DEFINE f == [i \in 1..m |-> g[i]]
<1>1. \A i \in 1..m : i \in 1..n OBVIOUS
<1>2. f \in [1..m -> B] OBVIOUS
<1>3. ASSUME NEW i \in 1..m, NEW j \in 1..m, f[i] = f[j] PROVE i = j
  <2>1. g[i] = g[j] BY <1>3
  <2>2. g[i] \in Nat /\ g[j] \in Nat /\ ~(g[i] < g[j]) /\ ~(g[j] < g[i]) BY <1>1, <2>1 DEF Rising
  <2>3. ~(i < j) /\ ~(j < i) BY <1>1, <2>2 DEF Rising
  <2> QED BY <2>3
<1>4. \A b \in B : \E i \in 1..m : f[i] = b OBVIOUS
<1>5. f \in Bijection(1..m, B) BY <1>2, <1>3, <1>4 DEF Bijection, Injection, Surjection, IsInjective
<1>6. ExistsBijection(1..m, B) BY <1>5 DEF ExistsBijection
<1> QED BY <1>6, FS_CountingElements

(* The m-th value is the one that m are at most.                             *)
Ranks(g, R, n) ==
  /\ Cardinality(R) = n
  /\ \A m \in 1..n : Cardinality({b \in R : b <= g[m]}) = m
  /\ \A m \in 1..n : (CHOOSE a \in R : Cardinality({b \in R : b <= a}) = m) = g[m]

(* So it is in a rising sequence.                                            *)
LEMMA RankRising ==
  ASSUME NEW n \in Nat, NEW g, Rising(g, n), NEW R, R = {g[i] : i \in 1..n}
  PROVE  Ranks(g, R, n)
<1>1. Cardinality(R) = n BY CountRising
<1>2. ASSUME NEW m \in 1..n PROVE Cardinality({b \in R : b <= g[m]}) = m
  <2> DEFINE B == {g[i] : i \in 1..m}
  <2>1. ASSUME NEW i \in 1..n PROVE g[i] <= g[m] <=> i <= m
    <3>1. g[i] \in Nat /\ g[m] \in Nat /\ (i < m => g[i] < g[m]) /\ (m < i => g[m] < g[i]) BY DEF Rising
    <3>2. CASE i = m BY <3>1, <3>2
    <3>3. CASE i < m BY <3>1, <3>3
    <3>4. CASE m < i BY <3>1, <3>4
    <3> QED BY <3>2, <3>3, <3>4
  <2>2. {b \in R : b <= g[m]} = B
    <3>1. ASSUME NEW b \in R, b <= g[m] PROVE b \in B
      <4>1. PICK i \in 1..n : b = g[i] OBVIOUS
      <4>2. i \in 1..m BY <2>1, <3>1, <4>1
      <4> QED BY <4>1, <4>2
    <3>2. ASSUME NEW b \in B PROVE b \in R /\ b <= g[m]
      <4>1. PICK i \in 1..m : b = g[i] OBVIOUS
      <4>2. i \in 1..n /\ i <= m OBVIOUS
      <4> QED BY <2>1, <4>1, <4>2
    <3> QED BY <3>1, <3>2
  <2> HIDE DEF B
  <2>3. Cardinality(B) = m
    <3>1. m \in 0..n OBVIOUS
    <3> QED BY <3>1, CountRising DEF B
  <2> QED BY <2>2, <2>3
<1>3. ASSUME NEW m \in 1..n
      PROVE  (CHOOSE a \in R : Cardinality({b \in R : b <= a}) = m) = g[m]
  <2>1. g[m] \in R /\ Cardinality({b \in R : b <= g[m]}) = m BY <1>2
  <2>2. \A a \in R : Cardinality({b \in R : b <= a}) = m => a = g[m]
    <3> TAKE a \in R
    <3> HAVE Cardinality({b \in R : b <= a}) = m
    <3>1. PICK i \in 1..n : a = g[i] OBVIOUS
    <3>2. Cardinality({b \in R : b <= g[i]}) = i BY <1>2
    <3> QED BY <3>1, <3>2
  <2> QED BY <2>1, <2>2
<1> QED BY <1>1, <1>2, <1>3 DEF Ranks

-----------------------------------------------------------------------------
(* The code of the image.                                                    *)
Copies(d, c, base) ==
  /\ d.instr.op = c.instr.op /\ d.at = c.at + base
  /\ c.instr.op \notin JumpOps => d.instr.arg = c.instr.arg

(* An instruction is of two fields, of which patching keeps the place.       *)
Entire(d) == d.at \in Nat /\ DOMAIN d = {"at", "instr"}

(* Patching the jumps keeps every instruction in its place.                  *)
LEMMA PatchedCopies ==
  ASSUME NEW r \in Result, NEW area \in BOOLEAN, NEW code, code = r.obj[area].code,
         NEW p, p = Patched(r, area)
  PROVE  /\ code \in Seq(CodeType) /\ Len(code) \in Nat /\ DOMAIN code = 1..Len(code)
         /\ DOMAIN p = 1..Len(code) /\ p = [k \in 1..Len(code) |-> p[k]]
         /\ \A k \in 1..Len(code) : Copies(p[k], code[k], 0) /\ Entire(p[k]) /\ code[k].at \in Nat
<1>1. code \in Seq(CodeType) BY DEF Result, PartType
<1>2. DOMAIN code = 1..Len(code) /\ Len(code) \in Nat /\ \A k \in 1..Len(code) : code[k] \in CodeType BY <1>1
<1> DEFINE fixed(c) == LET writers == Writers(r, area, c.at + 1)
                       IN  IF writers = {} \/ c.instr.op \notin JumpOps THEN c
                           ELSE [c EXCEPT !.instr.arg =
                                   Signed16(r.labels_vect[Max(writers)].code_offs - (c.at + 1) - 2)]
<1>3. p = [k \in DOMAIN code |-> fixed(code[k])] BY DEF Patched
<1>4. ASSUME NEW c \in CodeType
      PROVE  Copies(fixed(c), c, 0) /\ Entire(fixed(c)) /\ c.at \in Nat
  <2> DEFINE w == Writers(r, area, c.at + 1)
             a == Signed16(r.labels_vect[Max(w)].code_offs - (c.at + 1) - 2)
  <2>1. fixed(c) = IF w = {} \/ c.instr.op \notin JumpOps THEN c ELSE [c EXCEPT !.instr.arg = a]
    OBVIOUS
  <2> HIDE DEF fixed, w, a
  <2>2. c.at \in Nat /\ DOMAIN c = {"at", "instr"} /\ DOMAIN c.instr = {"op", "mod", "arg", "byte"}
    BY DEF CodeType
  <2>3. c.at + 0 = c.at BY <2>2
  <2>4. CASE w = {} \/ c.instr.op \notin JumpOps
    <3>1. fixed(c) = c BY <2>1, <2>4
    <3> QED BY <2>2, <2>3, <3>1 DEF Copies, Entire
  <2>5. CASE ~(w = {} \/ c.instr.op \notin JumpOps)
    <3>1. fixed(c) = [c EXCEPT !.instr.arg = a] BY <2>1, <2>5
    <3>2. fixed(c).at = c.at /\ fixed(c).instr.op = c.instr.op /\ DOMAIN fixed(c) = {"at", "instr"}
      BY <2>2, <3>1
    <3> QED BY <2>2, <2>3, <2>5, <3>2 DEF Copies, Entire
  <2> QED BY <2>4, <2>5
<1> HIDE DEF fixed
<1>5. DOMAIN p = 1..Len(code) /\ \A k \in 1..Len(code) : p[k] = fixed(code[k]) BY <1>2, <1>3
<1>6. p = [k \in 1..Len(code) |-> p[k]] BY <1>2, <1>3
<1> QED BY <1>1, <1>2, <1>4, <1>5, <1>6

(* Two sequences one behind the other.                                       *)
LEMMA RangeConcat ==
  ASSUME NEW s, NEW t, NEW m \in Nat, NEW n \in Nat, DOMAIN s = 1..m, DOMAIN t = 1..n,
         s = [k \in 1..m |-> s[k]], t = [k \in 1..n |-> t[k]]
  PROVE  Range(s \o t) = Range(s) \cup Range(t)
<1> DEFINE T == Range(s) \cup Range(t)
<1>1. s \in Seq(T) /\ t \in Seq(T)
  <2>1. s \in [1..m -> T] /\ t \in [1..n -> T] BY DEF Range
  <2> QED BY <2>1, SeqDef
<1>2. Len(s) = m /\ Len(t) = n BY <1>1, LenProperties
<1>3. /\ Len(s \o t) = m + n /\ s \o t \in Seq(T)
      /\ \A i \in 1..(m + n) : (s \o t)[i] = IF i <= m THEN s[i] ELSE t[i - m]
  <2> HIDE DEF T
  <2>1. /\ s \o t \in Seq(T) /\ Len(s \o t) = Len(s) + Len(t)
        /\ \A i \in 1..Len(s) + Len(t) : (s \o t)[i] = IF i <= Len(s) THEN s[i] ELSE t[i - Len(s)]
    BY <1>1, ConcatProperties, Zenon
  <2> QED BY <1>2, <2>1
<1>4. DOMAIN (s \o t) = 1..(m + n) BY <1>3
<1> HIDE DEF T
<1>5. ASSUME NEW x \in Range(s \o t) PROVE x \in Range(s) \cup Range(t)
  <2>1. PICK i \in 1..(m + n) : x = (s \o t)[i] BY <1>4 DEF Range
  <2>2. CASE i <= m BY <1>3, <2>1, <2>2 DEF Range
  <2>3. CASE ~(i <= m)
    <3>1. i - m \in 1..n /\ x = t[i - m] BY <1>3, <2>1, <2>3
    <3> QED BY <3>1 DEF Range
  <2> QED BY <2>2, <2>3
<1>6. ASSUME NEW x \in Range(s) PROVE x \in Range(s \o t)
  <2>1. PICK i \in 1..m : x = s[i] BY DEF Range
  <2>2. i \in 1..(m + n) /\ i <= m OBVIOUS
  <2> QED BY <1>3, <1>4, <2>1, <2>2 DEF Range
<1>7. ASSUME NEW x \in Range(t) PROVE x \in Range(s \o t)
  <2>1. PICK i \in 1..n : x = t[i] BY DEF Range
  <2>2. PICK j \in Nat : j = i + m OBVIOUS
  <2>3. j \in 1..(m + n) /\ ~(j <= m) /\ j - m = i BY <2>2
  <2>4. (s \o t)[j] = x BY <1>3, <2>1, <2>3
  <2> QED BY <1>4, <2>3, <2>4 DEF Range
<1> QED BY <1>5, <1>6, <1>7

(* The image is the routines' part, and behind it the main part.             *)
LEMMA ImageCopies ==
  ASSUME NEW r \in Result
  PROVE  /\ \A d \in Range(Image(r).code) :
              \/ \E c \in Range(Subs(r).code) : Copies(d, c, 0)
              \/ \E c \in Range(Main(r).code) : Copies(d, c, Subs(r).size)
         /\ \A c \in Range(Subs(r).code) : \E d \in Range(Image(r).code) : Copies(d, c, 0)
         /\ \A c \in Range(Main(r).code) : \E d \in Range(Image(r).code) : Copies(d, c, Subs(r).size)
<1> DEFINE p == Patched(r, TRUE)
           u == Patched(r, FALSE)
           base == Subs(r).size
           v == Shifted(u, base)
<1>1. TRUE \in BOOLEAN /\ FALSE \in BOOLEAN OBVIOUS
<1>2. Image(r).code = p \o v BY DEF Image, Subs
<1>3. base \in Nat BY <1>1 DEF Result, PartType, Subs
<1> HIDE DEF p, u, base
<1>4. PICK code, rest : code = r.obj[TRUE].code /\ rest = r.obj[FALSE].code OBVIOUS
<1>5. /\ Len(code) \in Nat /\ DOMAIN code = 1..Len(code)
      /\ DOMAIN p = 1..Len(code) /\ p = [k \in 1..Len(code) |-> p[k]]
      /\ \A k \in 1..Len(code) : Copies(p[k], code[k], 0)
  BY <1>1, <1>4, PatchedCopies, Zenon DEF p
<1>6. /\ Len(rest) \in Nat /\ DOMAIN rest = 1..Len(rest)
      /\ DOMAIN u = 1..Len(rest)
      /\ \A k \in 1..Len(rest) : Copies(u[k], rest[k], 0) /\ Entire(u[k]) /\ rest[k].at \in Nat
  BY <1>1, <1>4, PatchedCopies, Zenon DEF u
<1>7. PICK m \in Nat : m = Len(code) BY <1>5
<1>8. PICK n \in Nat : n = Len(rest) BY <1>6
<1>9. v = [k \in 1..n |-> [u[k] EXCEPT !.at = @ + base]] BY <1>6, <1>8 DEF Shifted
<1> HIDE DEF v
<1>10. DOMAIN v = 1..n /\ v = [k \in 1..n |-> v[k]] BY <1>9
<1>11. \A k \in 1..n : Copies(v[k], rest[k], base)
  <2> SUFFICES ASSUME NEW k \in 1..n PROVE Copies(v[k], rest[k], base)
    OBVIOUS
  <2>1. v[k] = [u[k] EXCEPT !.at = @ + base] BY <1>9
  <2>2. Copies(u[k], rest[k], 0) /\ Entire(u[k]) /\ rest[k].at \in Nat BY <1>6, <1>8
  <2>3. v[k].at = u[k].at + base /\ v[k].instr = u[k].instr BY <2>1, <2>2 DEF Entire
  <2> QED BY <2>2, <2>3 DEF Copies
<1>12. Range(Image(r).code) = Range(p) \cup Range(v)
  <2>1. DOMAIN p = 1..m /\ p = [k \in 1..m |-> p[k]] BY <1>5, <1>7
  <2> QED BY <1>2, <1>10, <2>1, RangeConcat
<1>13. /\ \A d \in Range(p) : \E k \in 1..m : d = p[k]
       /\ \A k \in 1..m : p[k] \in Range(p) /\ code[k] \in Range(Subs(r).code)
       /\ \A c \in Range(Subs(r).code) : \E k \in 1..m : c = code[k]
  BY <1>4, <1>5, <1>7 DEF Range, Subs
<1>14. /\ \A d \in Range(v) : \E k \in 1..n : d = v[k]
       /\ \A k \in 1..n : v[k] \in Range(v) /\ rest[k] \in Range(Main(r).code)
       /\ \A c \in Range(Main(r).code) : \E k \in 1..n : c = rest[k]
  BY <1>4, <1>6, <1>8, <1>10 DEF Range, Main
<1>15. \A k \in 1..m : Copies(p[k], code[k], 0) BY <1>5, <1>7
<1>16. \A d \in Range(Image(r).code) :
         \/ \E c \in Range(Subs(r).code) : Copies(d, c, 0)
         \/ \E c \in Range(Main(r).code) : Copies(d, c, base)
  BY <1>11, <1>12, <1>13, <1>14, <1>15
<1>17. \A c \in Range(Subs(r).code) : \E d \in Range(Image(r).code) : Copies(d, c, 0)
  BY <1>12, <1>13, <1>15
<1>18. \A c \in Range(Main(r).code) : \E d \in Range(Image(r).code) : Copies(d, c, base)
  BY <1>11, <1>12, <1>14
<1> QED BY <1>16, <1>17, <1>18 DEF base

-----------------------------------------------------------------------------
(* A complete image is whole.                                                *)

(* The header's 16 bits hold the sizes of the code.                          *)
CodeFits == Subs(result).size + Main(result).size < 65536

(* A whole image, and its chart.                                             *)
Whole(n, home, at, start, fun) ==
  /\ Sound(result) /\ DOMAIN source = 1..n /\ Len(source) = n
  /\ Chart(result, source, n, home, at, start, fun) /\ Rooms(n, home, fun)
  /\ image = Image(result) /\ result.func_info = NULL /\ MainClosed(result) /\ CodeFits
(* Where in the image is what is at place a of the part of routine h.        *)
Spot(h, a) == IF h = 0 THEN a + Subs(result).size ELSE a

(* The sizes of a whole image are the header's.                              *)
LEMMA WholeSizes ==
  ASSUME NEW n \in Nat, NEW home, NEW at, NEW start, NEW fun, Whole(n, home, at, start, fun)
  PROVE  /\ Subs(result).size \in Nat /\ Main(result).size \in Nat /\ 0 < Main(result).size
         /\ image.entry_point = Subs(result).size
         /\ image.size = Subs(result).size + Main(result).size
         /\ CmdSize("END") = 1 /\ CmdSize("RET") = 1
         /\ Done(result) = Len(result.funcs_vect) /\ Len(result.funcs_vect) \in Nat
<1>1. Compiling(result) BY SoundCompiling DEF Whole
<1>2. Subs(result).size \in Nat /\ Main(result).size \in Nat
  BY <1>1 DEF Compiling, Coded, CodePart, Subs, Main
<1>3. 0 < Main(result).size BY DEF Whole, MainClosed
<1>4. PICK x \in Nat : x = Subs(result).size BY <1>2
<1>5. PICK y \in Nat : y = Main(result).size BY <1>2
<1>6. x + y < 65536
  <2>1. CodeFits BY DEF Whole
  <2>2. Subs(result).size + Main(result).size < 65536 BY <2>1 DEF CodeFits
  <2> QED BY <1>4, <1>5, <2>2
<1>7. image.entry_point = Bits16(x) /\ image.size = Bits16(x + y)
  BY <1>4, <1>5 DEF Whole, Image, Subs, Main
<1>8. Bits16(x) = x /\ Bits16(x + y) = x + y BY <1>6 DEF Bits16
<1>9. "END" \in PlainOps /\ "END" \notin IdOps \cup WordOps \cup WordByteOps
      /\ "RET" \in PlainOps /\ "RET" \notin IdOps \cup WordOps \cup WordByteOps
  BY DEF PlainOps, IdOps, WordOps, WordByteOps
<1>10. CmdSize("END") = 1 /\ CmdSize("RET") = 1 BY <1>9 DEF CmdSize
<1>11. Done(result) = Len(result.funcs_vect) /\ Len(result.funcs_vect) \in Nat
  BY <1>1 DEF Whole, Done, Compiling
<1> QED BY <1>2, <1>3, <1>4, <1>5, <1>7, <1>8, <1>10, <1>11

(* Its RETs end the routines, its marks are the lines' own.                  *)
LEMMA WholeCode ==
  ASSUME NEW n \in Nat, NEW home, NEW at, NEW start, NEW fun, Whole(n, home, at, start, fun)
  PROVE  /\ \A d \in Range(image.code) :
              d.instr.op = "RET" => \E m \in 1..Done(result) : d.at = start[m + 1] - 1
         /\ \A m \in 1..Done(result) :
              \E d \in Range(image.code) : d.instr.op = "RET" /\ d.at = start[m + 1] - 1
         /\ \A d \in Range(image.code) :
              d.instr.op = "DBG" => d.instr.arg \in 1..n /\ d.at = Spot(home[d.instr.arg], at[d.instr.arg])
         /\ \A k \in 1..n : source[k].kind # "Label" =>
              \E d \in Range(image.code) : d.instr.op = "DBG" /\ d.instr.arg = k
<1> DEFINE base == Subs(result).size
           I == Range(image.code)
<1>1. result \in Result /\ image = Image(result) BY DEF Whole, Sound
<1>2. /\ \A d \in I : \/ \E c \in Range(Subs(result).code) : Copies(d, c, 0)
                      \/ \E c \in Range(Main(result).code) : Copies(d, c, base)
      /\ \A c \in Range(Subs(result).code) : \E d \in I : Copies(d, c, 0)
      /\ \A c \in Range(Main(result).code) : \E d \in I : Copies(d, c, base)
  BY <1>1, ImageCopies
<1> HIDE DEF I, base
<1>3. "RET" \notin JumpOps /\ "DBG" \notin JumpOps BY DEF JumpOps
<1>4. /\ ReturnsAt(result, start) /\ Located(result, source, n, home, at) /\ Marked(result, source, n, home, at)
      /\ Bounds(result, start)
  BY DEF Whole, Chart
<1>5. PICK d \in Nat : d = Done(result)
  BY WholeSizes
<1>6. \A m \in 1..d : start[m + 1] \in Nat
  <2>1. \A m \in 1..(d + 1) : start[m] \in Nat BY <1>4, <1>5 DEF Bounds
  <2>2. \A m \in 1..d : m + 1 \in 1..(d + 1) BY <1>5
  <2> QED BY <2>1, <2>2
<1>7. \A k \in 1..n : at[k] \in Nat BY <1>4 DEF Located
<1>8. ASSUME NEW e \in I, e.instr.op = "RET" PROVE \E m \in 1..d : e.at = start[m + 1] - 1
  <2>1. CASE \E c \in Range(Subs(result).code) : Copies(e, c, 0)
    <3>1. PICK c \in Range(Subs(result).code) : Copies(e, c, 0) BY <2>1
    <3>2. PICK m \in 1..d : c.at = start[m + 1] - 1 BY <1>4, <1>5, <1>8, <3>1 DEF Copies, ReturnsAt
    <3>3. e.at = start[m + 1] - 1 BY <1>6, <3>1, <3>2 DEF Copies
    <3> QED BY <3>3
  <2>2. CASE \E c \in Range(Main(result).code) : Copies(e, c, base)
    BY <1>4, <1>8, <2>2 DEF Copies, ReturnsAt
  <2> QED BY <1>2, <2>1, <2>2
<1>9. ASSUME NEW m \in 1..d PROVE \E e \in I : e.instr.op = "RET" /\ e.at = start[m + 1] - 1
  <2>1. PICK c \in Range(Subs(result).code) : c.instr.op = "RET" /\ c.at = start[m + 1] - 1
    BY <1>4, <1>5 DEF ReturnsAt, IsReturn
  <2>2. PICK e \in I : Copies(e, c, 0) BY <1>2
  <2> QED BY <1>6, <2>1, <2>2 DEF Copies
<1>10. ASSUME NEW e \in I, e.instr.op = "DBG"
       PROVE  e.instr.arg \in 1..n /\ e.at = Spot(home[e.instr.arg], at[e.instr.arg])
  <2>1. CASE \E c \in Range(Subs(result).code) : Copies(e, c, 0)
    <3>1. PICK c \in Range(Subs(result).code) : Copies(e, c, 0) BY <2>1
    <3>2. c.instr.op = "DBG" /\ e.instr.arg = c.instr.arg /\ e.at = c.at + 0 BY <1>3, <1>10, <3>1 DEF Copies
    <3>3. c.instr.arg \in 1..n /\ c.at = at[c.instr.arg] /\ home[c.instr.arg] # 0
      BY <1>4, <3>2 DEF Marked, MarkOf
    <3> QED BY <1>7, <3>2, <3>3 DEF Spot
  <2>2. CASE \E c \in Range(Main(result).code) : Copies(e, c, base)
    <3>1. PICK c \in Range(Main(result).code) : Copies(e, c, base) BY <2>2
    <3>2. c.instr.op = "DBG" /\ e.instr.arg = c.instr.arg /\ e.at = c.at + base BY <1>3, <1>10, <3>1 DEF Copies
    <3>3. c.instr.arg \in 1..n /\ c.at = at[c.instr.arg] /\ home[c.instr.arg] = 0
      BY <1>4, <3>2 DEF Marked, MarkOf
    <3> QED BY <3>2, <3>3 DEF Spot, base
  <2> QED BY <1>2, <2>1, <2>2
<1>11. ASSUME NEW k \in 1..n, source[k].kind # "Label"
       PROVE  \E e \in I : e.instr.op = "DBG" /\ e.instr.arg = k
  <2>1. Mark(In(home[k], result), k, at[k]) BY <1>4, <1>11 DEF Located
  <2>2. PICK c \in Range(In(home[k], result).code) : c.instr.op = "DBG" /\ c.instr.arg = k
    BY <2>1 DEF Mark
  <2>3. c \in Range(Main(result).code) \/ c \in Range(Subs(result).code) BY DEF In
  <2>4. PICK e \in I : Copies(e, c, 0) \/ Copies(e, c, base) BY <1>2, <2>3
  <2> QED BY <1>3, <2>2, <2>4 DEF Copies
<1> QED BY <1>5, <1>8, <1>9, <1>10, <1>11 DEF I

(* A line is where the chart says.                                           *)
LEMMA LineIsAt ==
  ASSUME NEW n \in Nat, NEW home, NEW at, NEW start, NEW fun, Whole(n, home, at, start, fun),
         NEW k \in 1..n, source[k].kind # "Label"
  PROVE  LineAt(k) = Spot(home[k], at[k])
<1>1. PICK d \in Range(image.code) : d.instr.op = "DBG" /\ d.instr.arg = k BY WholeCode
<1>2. \A c \in Range(image.code) : c.instr.op = "DBG" /\ c.instr.arg = k => c.at = Spot(home[k], at[k])
  BY WholeCode
<1> DEFINE c == CHOOSE x \in Range(image.code) : x.instr.op = "DBG" /\ x.instr.arg = k
<1>3. c \in Range(image.code) /\ c.instr.op = "DBG" /\ c.instr.arg = k BY <1>1
<1>4. LineAt(k) = c.at BY DEF LineAt
<1> QED BY <1>2, <1>3, <1>4

(* The m-th RET ends routine m, which begins behind the one before.          *)
LEMMA RetsAre ==
  ASSUME NEW n \in Nat, NEW home, NEW at, NEW start, NEW fun, Whole(n, home, at, start, fun)
  PROVE  /\ Cardinality(Rets) = Done(result)
         /\ \A m \in 1..Done(result) :
              /\ NthRet(m) = start[m + 1] - 1 /\ Entry(m) = start[m]
              /\ start[m] \in Nat /\ start[m + 1] \in Nat
<1>1. PICK d \in Nat : d = Done(result) BY WholeSizes
<1>2. CmdSize("RET") = 1 BY WholeSizes
<1>3. Bounds(result, start) BY DEF Whole, Chart
<1>4. /\ start[1] = 0 /\ \A m \in 1..(d + 1) : start[m] \in Nat
      /\ \A i, j \in 1..(d + 1) : i < j => start[i] < start[j]
  BY <1>1, <1>3 DEF Bounds
<1> DEFINE g == [m \in 1..d |-> start[m + 1] - 1]
           R == {g[m] : m \in 1..d}
<1>5. \A m \in 1..d : g[m] = start[m + 1] - 1 OBVIOUS
<1> HIDE DEF g
<1>6. Rising(g, d)
  <2> SUFFICES ASSUME NEW i \in 1..d PROVE g[i] \in Nat /\ \A j \in 1..d : i < j => g[i] < g[j]
    BY DEF Rising
  <2>1. i + 1 \in 1..(d + 1) /\ 1 \in 1..(d + 1) /\ 1 < i + 1 BY <1>1
  <2>2. start[i + 1] \in Nat /\ 0 < start[i + 1] BY <1>4, <2>1
  <2>3. g[i] \in Nat BY <1>5, <2>2
  <2>4. ASSUME NEW j \in 1..d, i < j PROVE g[i] < g[j]
    <3>1. j + 1 \in 1..(d + 1) /\ i + 1 < j + 1 BY <1>1, <2>4
    <3>2. start[i + 1] < start[j + 1] /\ start[j + 1] \in Nat BY <1>4, <2>1, <3>1
    <3> QED BY <1>5, <2>2, <3>2
  <2> QED BY <2>3, <2>4
<1>7. Rets = R
  <2>1. /\ \A e \in Range(image.code) :
             e.instr.op = "RET" => \E m \in 1..d : e.at = start[m + 1] - 1
        /\ \A m \in 1..d : \E e \in Range(image.code) : e.instr.op = "RET" /\ e.at = start[m + 1] - 1
    BY <1>1, WholeCode
  <2>2. \A a : a \in Rets <=> \E e \in Range(image.code) : e.instr.op = "RET" /\ a = e.at
    BY DEF Rets
  <2>3. \A a : a \in R <=> \E m \in 1..d : a = g[m] OBVIOUS
  <2> QED BY <1>5, <2>1, <2>2, <2>3
<1>11. R = {g[i] : i \in 1..d} OBVIOUS
<1> HIDE DEF R
<1>12. Ranks(g, R, d) BY <1>6, <1>11, RankRising, Zenon
<1>8. /\ Cardinality(R) = d
      /\ \A m \in 1..d : (CHOOSE a \in R : Cardinality({b \in R : b <= a}) = m) = g[m]
  BY <1>12, Zenon DEF Ranks
<1>9. \A m \in 1..d : NthRet(m) = g[m] BY <1>7, <1>8 DEF NthRet
<1>10. ASSUME NEW m \in 1..d
       PROVE  /\ NthRet(m) = start[m + 1] - 1 /\ Entry(m) = start[m]
              /\ start[m] \in Nat /\ start[m + 1] \in Nat
  <2>1. m \in 1..(d + 1) /\ m + 1 \in 1..(d + 1) BY <1>1
  <2>2. start[m] \in Nat /\ start[m + 1] \in Nat BY <1>4, <2>1
  <2>3. Entry(m) = start[m]
    <3>1. CASE m = 1 BY <1>4, <3>1 DEF Entry
    <3>2. CASE m # 1
      <4>1. m - 1 \in 1..d /\ m - 1 + 1 = m BY <1>1, <3>2
      <4>2. NthRet(m - 1) = start[m] - 1 BY <1>5, <1>9, <4>1
      <4>3. Entry(m) = NthRet(m - 1) + 1 BY <1>2, <3>2 DEF Entry
      <4> QED BY <2>2, <4>2, <4>3
    <3> QED BY <3>1, <3>2
  <2> QED BY <1>5, <1>9, <2>2, <2>3
<1> QED BY <1>1, <1>7, <1>8, <1>10

(* The f-th FUNC of the source is the f-th routine.                          *)
LEMMA FuncsAre ==
  ASSUME NEW n \in Nat, NEW home, NEW at, NEW start, NEW fun, Whole(n, home, at, start, fun)
  PROVE  /\ Cardinality(Of("Func")) = Len(result.funcs_vect)
         /\ \A f \in 1..Len(result.funcs_vect) : Number(fun[f]) = f /\ fun[f] \in Of("Func") /\ fun[f] \in 1..n
<1>1. PICK d \in Nat : d = Len(result.funcs_vect) BY WholeSizes
<1>2. /\ \A f \in 1..d : fun[f] \in 1..n /\ source[fun[f]].kind = "Func"
      /\ \A i, j \in 1..d : i < j => fun[i] < fun[j]
      /\ \A k \in 1..n : source[k].kind = "Func" => \E f \in 1..d : fun[f] = k
  BY <1>1 DEF Whole, Chart, Rolls
<1>3. Rising(fun, d) BY <1>2 DEF Rising
<1> DEFINE R == {fun[f] : f \in 1..d}
<1>4. Of("Func") = R
  <2>1. \A k : k \in Of("Func") <=> k \in 1..n /\ source[k].kind = "Func"
    BY DEF Of, Kind, Lines, Whole
  <2>2. \A k : k \in R <=> \E f \in 1..d : k = fun[f] OBVIOUS
  <2> QED BY <1>2, <2>1, <2>2
<1>6. \A f \in 1..d : fun[f] \in R OBVIOUS
<1>7. R = {fun[i] : i \in 1..d} OBVIOUS
<1> HIDE DEF R
<1>8. Ranks(fun, R, d) BY <1>3, <1>7, RankRising, Zenon
<1>5. Cardinality(R) = d /\ \A m \in 1..d : Cardinality({b \in R : b <= fun[m]}) = m
  BY <1>8, Zenon DEF Ranks
<1> QED BY <1>1, <1>2, <1>4, <1>5, <1>6 DEF Number

(* A line is in the routine the source says.                                 *)
LEMMA LinesWhole ==
  ASSUME NEW n \in Nat, NEW home, NEW at, NEW start, NEW fun, Whole(n, home, at, start, fun),
         NEW k \in 1..n, source[k].kind # "Label"
  PROVE  IF Routine(k) = {} THEN LineAt(k) >= image.entry_point
         ELSE LET m == Number(Max(Routine(k)))
              IN  LineAt(k) >= Entry(m) /\ LineAt(k) < NthRet(m)
<1>1. PICK d \in Nat : d = Done(result) /\ d = Len(result.funcs_vect) BY WholeSizes
<1>2. /\ home[k] \in 0..d /\ at[k] \in Nat
      /\ home[k] # 0 => start[home[k]] <= at[k] /\ at[k] < start[home[k] + 1] - 1
  BY <1>1 DEF Whole, Chart, Located, Within
<1>3. Routine(k) = RoutineOf(home[k], fun) BY DEF Whole, Rooms
<1>4. LineAt(k) = Spot(home[k], at[k]) BY LineIsAt
<1>5. CASE home[k] = 0
  <2>1. Routine(k) = {} BY <1>3, <1>5 DEF RoutineOf
  <2>2. LineAt(k) = at[k] + Subs(result).size BY <1>4, <1>5 DEF Spot
  <2>3. image.entry_point = Subs(result).size /\ Subs(result).size \in Nat BY WholeSizes
  <2>4. LineAt(k) >= image.entry_point BY <1>2, <2>2, <2>3
  <2> QED BY <2>1, <2>4
<1>6. CASE home[k] # 0
  <2>1. home[k] \in 1..d BY <1>1, <1>2, <1>6
  <2>2. Number(fun[home[k]]) = home[k] /\ fun[home[k]] \in 1..n BY <1>1, <2>1, FuncsAre
  <2>3. Routine(k) = {fun[home[k]]} BY <1>3, <1>6 DEF RoutineOf
  <2>4. Max(Routine(k)) = fun[home[k]]
    <3>1. Routine(k) \subseteq 0..n /\ Routine(k) # {} BY <2>2, <2>3
    <3>2. Max(Routine(k)) \in Routine(k) BY <3>1, MaxIs
    <3> QED BY <2>3, <3>2
  <2>5. NthRet(home[k]) = start[home[k] + 1] - 1 /\ Entry(home[k]) = start[home[k]]
        /\ start[home[k]] \in Nat /\ start[home[k] + 1] \in Nat
    BY <1>1, <2>1, RetsAre
  <2>6. LineAt(k) = at[k] BY <1>4, <1>6 DEF Spot
  <2>7. LineAt(k) >= Entry(home[k]) /\ LineAt(k) < NthRet(home[k]) BY <1>2, <1>6, <2>5, <2>6
  <2>8. Routine(k) # {} BY <2>3
  <2> QED BY <2>2, <2>4, <2>7, <2>8
<1> QED BY <1>5, <1>6

(* A call is behind its line's mark and before the next line's.              *)
LEMMA CallBefore ==
  ASSUME NEW n \in Nat, NEW home, NEW at, NEW start, NEW fun, Whole(n, home, at, start, fun),
         NEW k \in 1..n, source[k].kind = "Call", NEW c, c \in Range(In(home[k], result).code),
         NEW f, CallAt(c, result, source, n, home, at, k, f)
  PROVE  LineAt(k) < Spot(home[k], c.at) /\ Spot(home[k], c.at) < After(k)
<1>1. /\ c.instr.op = "CALL_PRG_FUNC"
      /\ c.at \in Nat /\ at[k] < c.at /\ c.at < In(home[k], result).size
      /\ BeforeNext(c, source, n, home, at, k)
  BY DEF CallAt
<1>2. /\ Subs(result).size \in Nat /\ Main(result).size \in Nat /\ 0 < Main(result).size
      /\ image.size = Subs(result).size + Main(result).size
      /\ CmdSize("END") = 1
  BY WholeSizes
<1>3. PICK x \in Nat : x = Subs(result).size BY <1>2
<1>4. PICK y \in Nat : y = Main(result).size BY <1>2
<1>5. \A j \in 1..n : home[j] \in Nat /\ at[j] \in Nat BY DEF Whole, Chart, Located
<1>6. LineAt(k) = Spot(home[k], at[k]) BY LineIsAt
<1>7. LineAt(k) < Spot(home[k], c.at) BY <1>1, <1>3, <1>5, <1>6 DEF Spot
<1> DEFINE T == {j \in Lines \ Of("Label") : j > k /\ Routine(j) = Routine(k)} \cup {TheEnd}
<1>8. Lines = 1..n /\ TheEnd = n + 1 BY DEF Lines, TheEnd, Whole
<1>9. LineBehind(k) \in T
  <2>1. T \subseteq Nat /\ T # {} BY <1>8
  <2> QED BY <2>1, MinIs DEF LineBehind
<1>10. CASE LineBehind(k) = TheEnd
  <2>1. After(k) = x + y - 1 BY <1>2, <1>3, <1>4, <1>10 DEF After
  <2>2. CASE home[k] = 0
    <3>1. c \in Range(Main(result).code) BY <2>2 DEF In
    <3>2. c.at < y - 1 BY <1>1, <1>4, <3>1 DEF Whole, MainClosed
    <3>3. Spot(home[k], c.at) = c.at + x BY <1>3, <2>2 DEF Spot
    <3> QED BY <1>1, <1>7, <2>1, <3>2, <3>3
  <2>3. CASE home[k] # 0
    <3>1. Spot(home[k], c.at) = c.at /\ c.at < x BY <1>1, <1>3, <2>3 DEF Spot, In
    <3> QED BY <1>1, <1>2, <1>4, <1>7, <2>1, <3>1
  <2> QED BY <2>2, <2>3
<1>11. CASE LineBehind(k) # TheEnd
  <2>1. PICK j : j = LineBehind(k) OBVIOUS
  <2>2. j \in 1..n /\ j > k /\ Routine(j) = Routine(k) /\ source[j].kind # "Label"
    BY <1>8, <1>9, <1>11, <2>1 DEF Of, Kind
  <2>3. After(k) = LineAt(j) BY <1>11, <2>1 DEF After
  <2>4. home[j] = 0 <=> home[k] = 0
    <3>1. Routine(j) = RoutineOf(home[j], fun) /\ Routine(k) = RoutineOf(home[k], fun)
      BY <2>2 DEF Whole, Rooms
    <3>2. RoutineOf(home[j], fun) = {} <=> home[j] = 0 BY DEF RoutineOf
    <3>3. RoutineOf(home[k], fun) = {} <=> home[k] = 0 BY DEF RoutineOf
    <3> QED BY <2>2, <3>1, <3>2, <3>3
  <2>5. j \in (k + 1)..n BY <2>2
  <2>6. c.at < at[j] BY <1>1, <2>2, <2>4, <2>5 DEF BeforeNext
  <2>7. LineAt(j) = Spot(home[j], at[j]) BY <2>2, LineIsAt
  <2>8. Spot(home[k], c.at) < Spot(home[j], at[j]) BY <1>1, <1>3, <1>5, <2>2, <2>4, <2>6 DEF Spot
  <2> QED BY <1>7, <2>3, <2>7, <2>8
<1> QED BY <1>10, <1>11

(* A call leads to the entry of the routine it names.                        *)
LEMMA CallsWhole ==
  ASSUME NEW n \in Nat, NEW home, NEW at, NEW start, NEW fun, Whole(n, home, at, start, fun),
         NEW k \in 1..n, source[k].kind = "Call"
  PROVE  \E d \in Range(image.code) :
           /\ d.instr.op = "CALL_PRG_FUNC"
           /\ d.at > LineAt(k) /\ d.at < After(k)
           /\ \E o \in Of("Func") : source[o].name = source[k].name /\ d.instr.arg = Entry(Number(o))
<1>1. Called(result, source, n, home, at) /\ Rolls(result, source, n, fun) /\ Bounds(result, start)
  BY DEF Whole, Chart
<1>2. PICK f \in 1..Len(result.funcs_vect) :
        /\ result.funcs_vect[f].name = source[k].name
        /\ \E c \in Range(In(home[k], result).code) : CallAt(c, result, source, n, home, at, k, f)
  BY <1>1 DEF Called
<1>3. PICK c \in Range(In(home[k], result).code) : CallAt(c, result, source, n, home, at, k, f) BY <1>2
<1>4. /\ c.instr.op = "CALL_PRG_FUNC" /\ c.instr.arg = result.funcs_vect[f].vm_code_offset /\ c.at \in Nat
  BY <1>3 DEF CallAt
<1>5. LineAt(k) < Spot(home[k], c.at) /\ Spot(home[k], c.at) < After(k) BY <1>3, CallBefore
<1>6. PICK d \in Range(image.code) : Copies(d, c, IF home[k] = 0 THEN Subs(result).size ELSE 0)
  <2>1. result \in Result /\ image = Image(result) BY DEF Whole, Sound
  <2>2. CASE home[k] = 0
    <3>1. c \in Range(Main(result).code) BY <2>2 DEF In
    <3>2. \E d \in Range(Image(result).code) : Copies(d, c, Subs(result).size) BY <2>1, <3>1, ImageCopies
    <3> QED BY <2>1, <2>2, <3>2
  <2>3. CASE home[k] # 0
    <3>1. c \in Range(Subs(result).code) BY <2>3 DEF In
    <3>2. \E d \in Range(Image(result).code) : Copies(d, c, 0) BY <2>1, <3>1, ImageCopies
    <3> QED BY <2>1, <2>3, <3>2
  <2> QED BY <2>2, <2>3
<1>7. d.instr.op = "CALL_PRG_FUNC" /\ d.instr.arg = c.instr.arg /\ d.at = Spot(home[k], c.at)
  BY <1>4, <1>6 DEF Copies, Spot, JumpOps
<1>8. Number(fun[f]) = f /\ fun[f] \in Of("Func")
  <2>1. \A g \in 1..Len(result.funcs_vect) : Number(fun[g]) = g /\ fun[g] \in Of("Func") /\ fun[g] \in 1..n
    BY FuncsAre, Zenon
  <2> QED BY <1>2, <2>1
<1>9. source[fun[f]].name = source[k].name BY <1>1, <1>2 DEF Rolls
<1>10. Entry(f) = start[f]
  <2>1. f \in 1..Done(result) BY WholeSizes
  <2> QED BY <2>1, RetsAre
<1>11. result.funcs_vect[f].vm_code_offset = start[f] BY <1>1 DEF Bounds
<1>12. Spot(home[k], c.at) > LineAt(k)
  <2>1. LineAt(k) = Spot(home[k], at[k]) /\ at[k] \in Nat BY LineIsAt DEF Whole, Chart, Located
  <2>2. Subs(result).size \in Nat BY WholeSizes
  <2>3. LineAt(k) \in Nat /\ Spot(home[k], c.at) \in Nat BY <1>4, <2>1, <2>2 DEF Spot
  <2> QED BY <1>5, <2>3
<1> QED BY <1>4, <1>5, <1>7, <1>8, <1>9, <1>10, <1>11, <1>12

(* The invariant gives the property.                                         *)
LEMMA ImageWhole == ImageInv => (SizesGiven /\ CodeFits => RoutinesWhole)
<1> SUFFICES ASSUME ImageInv, SizesGiven, CodeFits, Complete PROVE RoutinesWhole
  BY DEF RoutinesWhole
<1>1. /\ LayoutInv /\ image = Image(result) /\ Ok(result) /\ MainClosed(result)
      /\ Orderly /\ Level(Len(source)) = 0
  BY DEF ImageInv, Complete
<1>2. Placed /\ Charted /\ Sound(result) /\ IsSource
  BY <1>1 DEF ImageInv, InOrderNow, LayoutInv, SoundInv, OutlineInv
<1>3. result.func_info = NULL
  <2>1. PICK L \in Nat : \E op : L = Level(Len(source)) /\ Tops(op, L) /\ Orders(result, L, Kinds(op, L))
    BY <1>2 DEF Placed
  <2>2. PICK op : L = Level(Len(source)) /\ Orders(result, L, Kinds(op, L)) BY <2>1
  <2> QED BY <1>1, <2>2, OrdersOut
<1>4. PICK n \in Nat : \E home, at, start, fun :
        n = Len(source) /\ Chart(result, source, n, home, at, start, fun) /\ Rooms(n, home, fun)
  BY <1>2 DEF Charted
<1>5. PICK home, at, start, fun :
        n = Len(source) /\ Chart(result, source, n, home, at, start, fun) /\ Rooms(n, home, fun)
  BY <1>4
<1>6. DOMAIN source = 1..n /\ Len(source) = n BY <1>2, <1>5 DEF IsSource
<1>7. Whole(n, home, at, start, fun) BY <1>1, <1>2, <1>3, <1>5, <1>6 DEF Whole
<1>8. Cardinality(Rets) = Cardinality(Of("Func")) BY <1>7, RetsAre, FuncsAre, WholeSizes
<1>9. \A k \in Lines \ Of("Label") : k \in 1..n /\ source[k].kind # "Label" BY <1>6 DEF Lines, Of, Kind
<1>10. \A k \in Of("Call") : k \in 1..n /\ source[k].kind = "Call" BY <1>6 DEF Lines, Of, Kind
<1>11. \A k \in Lines \ Of("Label") :
         IF Routine(k) = {} THEN LineAt(k) >= image.entry_point
         ELSE LET m == Number(Max(Routine(k)))
              IN  LineAt(k) >= Entry(m) /\ LineAt(k) < NthRet(m)
  BY <1>7, <1>9, LinesWhole
<1>12. \A k \in Of("Call") :
         \E d \in Range(image.code) :
           /\ d.instr.op = "CALL_PRG_FUNC"
           /\ d.at > LineAt(k) /\ d.at < After(k)
           /\ \E o \in Of("Func") : source[o].name = source[k].name /\ d.instr.arg = Entry(Number(o))
  BY <1>7, <1>10, CallsWhole
<1> QED BY <1>8, <1>11, <1>12 DEF RoutinesWhole

(* RegisterSub enters a routine where the routines' part ends, EndSubContext *)
(* ends it with the part's only new RET, every line's code is put behind its *)
(* mark in the part of its routine, VmOp_CallPrg takes the entry of the      *)
(* routine named, and SaveCode copies the routines' part before the main     *)
(* part. So in every complete image a routine's lines are between its entry  *)
(* and its RET, the main part's behind the entry point, and each call is     *)
(* among its own line's code and leads to the entry of the routine it names. *)
(* Every variable is to have a size, and the code to fit the header's        *)
(* 16-bit sizes.                                                             *)
THEOREM RoutinesStayWhole == LSpec => [](SizesGiven /\ CodeFits => RoutinesWhole)
<1>1. LInit => ImageInv BY ImageInit
<1>2. ImageInv /\ [LNext]_lvars => ImageInv' BY ImageStep
<1>3. ImageInv => (SizesGiven /\ CodeFits => RoutinesWhole) BY ImageWhole
<1> QED BY <1>1, <1>2, <1>3, PTL DEF LSpec
=============================================================================
