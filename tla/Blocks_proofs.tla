---------------------------- MODULE Blocks_proofs ---------------------------
(***************************************************************************)
(* The compiler's record: its form, what its references lead to, and what  *)
(* each of the generator's and the registries' functions does to it        *)
(* (vm_code.c, parser_reg.c).  A function that counts down a list is a     *)
(* recursive function here, and is followed by induction over the natural  *)
(* numbers, which the library's theorems only offer for operators: the     *)
(* first lemmas state it for sets.                                         *)
(***************************************************************************)
EXTENDS Blocks, SequenceTheorems, WellFoundedInduction, TLAPS

-----------------------------------------------------------------------------
(* Natural numbers.                                                          *)

(* A nonempty set of natural numbers has a least element.                    *)
LEMMA LeastElement ==
  ASSUME NEW T, T \subseteq Nat, T # {}
  PROVE  \E x \in T : \A y \in T : x <= y
<1>1. PICK x \in T : \A y \in T : ~(<<y, x>> \in OpToRel(<, Nat))
  BY NatLessThanWellFounded, WFMin
<1>2. ASSUME NEW y \in T PROVE x <= y
  <2>1. x \in Nat /\ y \in Nat
    OBVIOUS
  <2>2. CASE y < x
    <3>1. <<y, x>> \in OpToRel(<, Nat)
      BY <2>1, <2>2 DEF OpToRel
    <3> QED BY <3>1, <1>1
  <2> QED BY <2>1, <2>2
<1> QED BY <1>2

(* Induction over the natural numbers, for the set of those that have a      *)
(* property.                                                                 *)
LEMMA SetInduction ==
  ASSUME NEW S, 0 \in S, \A n \in Nat : n \in S => n + 1 \in S
  PROVE  \A n \in Nat : n \in S
<1> DEFINE T == {n \in Nat : n \notin S}
<1> SUFFICES ASSUME T # {} PROVE FALSE
  OBVIOUS
<1>1. PICK x \in T : \A y \in T : x <= y
  <2>1. T \subseteq Nat
    OBVIOUS
  <2> HIDE DEF T
  <2> QED BY <2>1, LeastElement
<1>2. x \in Nat /\ x # 0 /\ x \notin S
  OBVIOUS
<1>3. x - 1 \in Nat /\ x - 1 < x /\ x = (x - 1) + 1
  BY <1>2
<1>4. x - 1 \in T
  BY <1>2, <1>3
<1> QED BY <1>1, <1>3, <1>4

(* A nonempty set of natural numbers with a bound has a greatest element.    *)
LEMMA GreatestElement ==
  ASSUME NEW n \in Nat, NEW T, T \subseteq 0..n, T # {}
  PROVE  \E x \in T : \A y \in T : y <= x
<1> DEFINE U == {m \in 0..n : n - m \in T}
<1>1. U \subseteq Nat
  OBVIOUS
<1>2. U # {}
  <2>1. PICK t \in T : t \in 0..n
    OBVIOUS
  <2>2. n - t \in 0..n /\ n - (n - t) = t
    BY <2>1
  <2> QED BY <2>1, <2>2
<1>3. PICK m \in U : \A k \in U : m <= k
  <2> HIDE DEF U
  <2> QED BY <1>1, <1>2, LeastElement
<1>4. n - m \in T
  OBVIOUS
<1>5. ASSUME NEW y \in T PROVE y <= n - m
  <2>1. y \in 0..n /\ n - y \in 0..n /\ n - (n - y) = y
    OBVIOUS
  <2>2. n - y \in U
    BY <2>1
  <2> QED BY <1>3, <2>1, <2>2
<1> QED BY <1>4, <1>5

(* Min of such a set is its least element.                                   *)
LEMMA MinIs ==
  ASSUME NEW T, T \subseteq Nat, T # {}
  PROVE  Min(T) \in T /\ \A y \in T : Min(T) <= y
BY LeastElement DEF Min

(* Max of such a set is its greatest element.                                *)
LEMMA MaxIs ==
  ASSUME NEW n \in Nat, NEW T, T \subseteq 0..n, T # {}
  PROVE  Max(T) \in T /\ \A y \in T : y <= Max(T)
<1>1. PICK x \in T : \A y \in T : y <= x
  BY GreatestElement
<1>2. \A y \in T : x >= y
  <2>1. \A y \in T : y \in Nat
    OBVIOUS
  <2> QED BY <1>1, <2>1
<1>3. Max(T) \in T /\ \A y \in T : Max(T) >= y
  BY <1>2 DEF Max
<1>4. \A y \in T : y \in Nat
  OBVIOUS
<1> QED BY <1>3, <1>4

-----------------------------------------------------------------------------
(* What holds at the first place of a function on 0..n, and at a place when *)
(* it holds at the one before, holds at all.                                *)
LEMMA UpTo ==
  ASSUME NEW n \in Nat, NEW h, NEW S, h[0] \in S,
         \A k \in 1..n : h[k - 1] \in S => h[k] \in S
  PROVE  \A k \in 0..n : h[k] \in S
<1> DEFINE T == {k \in Nat : k <= n => h[k] \in S}
<1>1. 0 \in T
  OBVIOUS
<1>2. ASSUME NEW k \in Nat, k \in T PROVE k + 1 \in T
  <2> SUFFICES ASSUME k + 1 <= n PROVE h[k + 1] \in S
    OBVIOUS
  <2>1. k + 1 \in 1..n /\ (k + 1) - 1 = k /\ h[k] \in S
    BY <1>2
  <2> QED BY <2>1
<1>3. \A k \in Nat : k \in T
  <2> HIDE DEF T
  <2> QED BY <1>1, <1>2, SetInduction
<1> QED BY <1>3

(* A function on 0..n is given by its first value and by how each value     *)
(* follows from the one before: F takes that value and the place.           *)
Follows(g, a, n, F) == g[0] = a /\ \A k \in 1..n : g[k] = F[<<g[k - 1], k>>]

(* A function on 0..n may be given by its first value and a step from each   *)
(* value to the next.                                                        *)
LEMMA RecursionExists ==
  ASSUME NEW S, NEW a \in S, NEW n \in Nat, NEW F \in [S \X (1..n) -> S]
  PROVE  \E g \in [0..n -> S] : Follows(g, a, n, F)
<1> DEFINE Has(m) == \E g \in [0..m -> S] : g[0] = a /\ \A k \in 1..m : g[k] = F[<<g[k - 1], k>>]
           T == {m \in Nat : m <= n => Has(m)}
<1>1. 0 \in T
  <2> DEFINE g == [k \in 0..0 |-> a]
  <2>1. g \in [0..0 -> S] /\ g[0] = a /\ \A k \in 1..0 : g[k] = F[<<g[k - 1], k>>]
    OBVIOUS
  <2> HIDE DEF g
  <2> QED BY <2>1
<1>2. ASSUME NEW m \in Nat, m \in T PROVE m + 1 \in T
  <2> SUFFICES ASSUME m + 1 <= n PROVE Has(m + 1)
    OBVIOUS
  <2>1. PICK g \in [0..m -> S] : g[0] = a /\ \A k \in 1..m : g[k] = F[<<g[k - 1], k>>]
    BY <1>2
  <2> DEFINE v == F[<<g[m], m + 1>>]
             h == [k \in 0..(m + 1) |-> IF k = m + 1 THEN v ELSE g[k]]
  <2>2. v \in S
    <3>1. g[m] \in S /\ m + 1 \in 1..n BY <2>1
    <3>2. <<g[m], m + 1>> \in S \X (1..n) BY <3>1
    <3> QED BY <3>2
  <2> HIDE DEF v
  <2>3. h \in [0..(m + 1) -> S]
    BY <2>1, <2>2
  <2>4. h[0] = a
    BY <2>1
  <2>5. \A k \in 1..m : h[k] = g[k] /\ h[k - 1] = g[k - 1]
    OBVIOUS
  <2>6. h[m + 1] = v /\ h[m] = g[m] /\ (m + 1) - 1 = m
    OBVIOUS
  <2> HIDE DEF h
  <2>7. ASSUME NEW k \in 1..(m + 1) PROVE h[k] = F[<<h[k - 1], k>>]
    <3>1. CASE k = m + 1
      <4>1. h[k] = F[<<g[m], m + 1>>] BY <3>1, <2>6 DEF v
      <4>2. h[k - 1] = g[m] BY <3>1, <2>6
      <4> QED BY <3>1, <4>1, <4>2
    <3>2. CASE k # m + 1
      <4>1. k \in 1..m BY <3>2
      <4> QED BY <4>1, <2>1, <2>5
    <3> QED BY <3>1, <3>2
  <2> QED BY <2>3, <2>4, <2>7
<1>3. \A m \in Nat : m \in T
  <2> HIDE DEF T
  <2> QED BY <1>1, <1>2, SetInduction
<1>4. n \in T
  <2> HIDE DEF T
  <2> QED BY <1>3
<1>5. Has(n)
  <2> HIDE DEF Has
  <2> QED BY <1>4
<1> QED BY <1>5 DEF Follows

-----------------------------------------------------------------------------
(* The form of the record.                                                   *)

(* The errors a line may end with, STOP and the crash included.              *)
ParseError ==
  {"no_error", "object_exist", "object_unknown", "object_max_number_exceeded", "label_invalid",
   "syntax_invalid", "expression_invalid", "parameters_mismatch", "array_index_invalid",
   "stack_corrupted", "SIGSEGV", "stop"}
(* The kinds of blocks.                                                      *)
BlockKind == {"bt_none", "bt_proc", "bt_condition", "bt_if", "bt_else", "bt_loop"}
(* The kinds of variables.                                                   *)
VarKind == {"vt_generic", "vt_array_of_byte", "vt_array_of_generic"}

(* A label a block refers to (0: none), and the enlargements of its vector   *)
(* since the reference was made.                                             *)
Pointer == [label: Nat, steps: Int]
(* An entry of block_vect.                                                   *)
BlockType == [block_type: BlockKind, label_begin: Pointer, label_end: Pointer]
(* An entry of labels_vect.                                                  *)
LabelType == [name: LabelNames \cup {AutoName}, code_offs: Int, subs_body: BOOLEAN,
              jmps: Seq(Nat), func_info: Nat]
(* A routine inside a routine is read as a parameter: its name is a variable's. *)
VarName == VarNames \cup FuncNames
(* An entry of vars_vect.                                                    *)
VarType == [name: VarName, type: VarKind,
            elm_count: Int, mem_size: Int, mem_offs: Int, in_block: Nat, subs_body: BOOLEAN]
(* An entry of funcs_vect.                                                   *)
FuncType == [name: FuncNames, params: Seq(Nat), vm_code_offset: Nat]
(* An instruction and where it is.                                           *)
CodeType == [at: Nat, instr: [op: Op, mod: BOOLEAN, arg: Int, byte: Int]]
(* The code of the routines, or of the main part.                            *)
PartType == [size: Nat, code: Seq(CodeType)]

(* The form of what the compiler keeps.                                      *)
Result ==
  [line_num: Nat, pe: ParseError, lost: BOOLEAN, block_id: Nat,
   block_vect: Seq(BlockType), labels_vect: Seq(LabelType), vars_vect: Seq(VarType),
   funcs_vect: Seq(FuncType), func_info: Nat, subs_body: BOOLEAN,
   const_memory: Nat, heap_pnt: Int, heap_pnt_back: Int,
   heap_memory_max: Nat, heap_memory_max_back: Nat, heap_memory_max_funcs: Nat,
   obj: [BOOLEAN -> PartType]]

(* References lead to what exists. *)
BlockRefs(r) ==
  \A i \in 1..Len(r.block_vect) : /\ r.block_vect[i].label_begin.label <= Len(r.labels_vect)
                                  /\ r.block_vect[i].label_end.label <= Len(r.labels_vect)
(* A label has room for its jumps, they are in code already there, and its   *)
(* routine exists.                                                           *)
LabelRefs(r) ==
  \A i \in 1..Len(r.labels_vect) :
    /\ Len(r.labels_vect[i].jmps) <= LINKS_BY_LABEL_MAX
    /\ \A n \in 1..Len(r.labels_vect[i].jmps) :
         \E a \in BOOLEAN : r.labels_vect[i].jmps[n] < r.obj[a].size
    /\ r.labels_vect[i].func_info <= Len(r.funcs_vect)
(* Instructions are within the code.                                         *)
CodeRefs(r) ==
  \A a \in BOOLEAN : \A i \in 1..Len(r.obj[a].code) : r.obj[a].code[i].at < r.obj[a].size
(* A routine that is being compiled exists, and the code goes to the         *)
(* routines' part.                                                           *)
RoutineRefs(r) ==
  /\ r.func_info <= Len(r.funcs_vect)
  /\ r.subs_body <=> r.func_info # NULL

(* The compiler's vectors and numbers have the right form and refer to what  *)
(* exists.                                                                   *)
Sound(r) ==
  /\ r \in Result
  /\ BlockRefs(r) /\ LabelRefs(r) /\ CodeRefs(r) /\ RoutineRefs(r)

(* What instructions leave alone. *)
SameVars(r, q) ==
  /\ q.vars_vect = r.vars_vect
  /\ q.heap_pnt = r.heap_pnt
  /\ q.heap_memory_max = r.heap_memory_max
(* The routine that is being compiled, and what is set aside for it.         *)
SameRoutine(r, q) ==
  /\ q.funcs_vect = r.funcs_vect
  /\ q.func_info = r.func_info
  /\ q.subs_body = r.subs_body
  /\ q.heap_pnt_back = r.heap_pnt_back
  /\ q.heap_memory_max_back = r.heap_memory_max_back
  /\ q.heap_memory_max_funcs = r.heap_memory_max_funcs
(* The open blocks, and the line.                                            *)
SameBlocks(r, q) ==
  /\ q.block_vect = r.block_vect
  /\ q.block_id = r.block_id
  /\ q.line_num = r.line_num
(* The labels, but for the jumps to them.                                    *)
SameLabels(r, q) ==
  /\ Len(q.labels_vect) = Len(r.labels_vect)
  /\ \A i \in 1..Len(r.labels_vect) :
       /\ q.labels_vect[i].name = r.labels_vect[i].name
       /\ q.labels_vect[i].code_offs = r.labels_vect[i].code_offs
       /\ q.labels_vect[i].func_info = r.labels_vect[i].func_info

(* Nothing changes but code, jumps and the error.                            *)
Kept(r, q) == SameVars(r, q) /\ SameRoutine(r, q) /\ SameBlocks(r, q) /\ SameLabels(r, q)

(* Some code is put, or an error found: all else stays.                      *)
Emits(r, q) == Sound(q) /\ Kept(r, q) /\ q.lost = r.lost

-----------------------------------------------------------------------------
(* What each function does to it.                                            *)

(* A function on 1..n is a sequence of length n.                             *)
LEMMA SeqFrom ==
  ASSUME NEW S, NEW n \in Nat, NEW t, t \in [1..n -> S]
  PROVE  t \in Seq(S) /\ Len(t) = n
<1>1. t \in Seq(S) BY SeqDef
<1>2. DOMAIN t = 1..n OBVIOUS
<1> QED BY <1>1, <1>2

(* What the parts of a result are.                                           *)
LEMMA ResultFields ==
  ASSUME NEW r \in Result
  PROVE  /\ r.line_num \in Nat /\ r.pe \in ParseError /\ r.lost \in BOOLEAN /\ r.block_id \in Nat
         /\ r.block_vect \in Seq(BlockType) /\ r.labels_vect \in Seq(LabelType)
         /\ r.vars_vect \in Seq(VarType) /\ r.funcs_vect \in Seq(FuncType)
         /\ r.func_info \in Nat /\ r.subs_body \in BOOLEAN /\ r.const_memory \in Nat
         /\ r.heap_pnt \in Int /\ r.heap_pnt_back \in Int
         /\ r.heap_memory_max \in Nat /\ r.heap_memory_max_back \in Nat
         /\ r.heap_memory_max_funcs \in Nat
         /\ r.obj \in [BOOLEAN -> PartType]
BY DEF Result

(* What stays may stay twice.                                                *)
LEMMA KeptAll == ASSUME NEW r \in Result PROVE Kept(r, r)
BY DEF Kept, SameVars, SameRoutine, SameBlocks, SameLabels

(* What stays in each of two steps stays.                                    *)
LEMMA KeptTrans ==
  ASSUME NEW r, NEW p, NEW q, Kept(r, p), Kept(p, q) PROVE Kept(r, q)
BY DEF Kept, SameVars, SameRoutine, SameBlocks, SameLabels

(* Putting code twice is putting code.                                       *)
LEMMA EmitsTrans ==
  ASSUME NEW r, NEW p, NEW q, Emits(r, p), Emits(p, q) PROVE Emits(r, q)
BY KeptTrans DEF Emits

(* And so is putting none.                                                   *)
LEMMA EmitsNothing == ASSUME NEW r, Sound(r) PROVE Emits(r, r)
BY KeptAll DEF Emits, Sound

(* An error is found, nothing else happens.                                  *)
Marks(r, q, pe) == Emits(r, q) /\ q.pe = pe /\ q.obj = r.obj /\ q.labels_vect = r.labels_vect

(* Error only marks the line.                                                *)
LEMMA ErrorSound ==
  ASSUME NEW r, Sound(r), NEW pe \in ParseError
  PROVE  Marks(r, Error(r, pe), pe)
<1>1. r \in Result /\ Error(r, pe) \in Result
  BY DEF Sound, Error, Result
<1>2. Error(r, pe).pe = pe /\ Error(r, pe).lost = r.lost /\ Kept(r, Error(r, pe))
  BY <1>1 DEF Error, Kept, SameVars, SameRoutine, SameBlocks, SameLabels, Result
<1>3. /\ Error(r, pe).block_vect = r.block_vect /\ Error(r, pe).labels_vect = r.labels_vect
      /\ Error(r, pe).obj = r.obj /\ Error(r, pe).funcs_vect = r.funcs_vect
      /\ Error(r, pe).func_info = r.func_info /\ Error(r, pe).subs_body = r.subs_body
  BY <1>1 DEF Error, Result
<1>4. Sound(Error(r, pe))
  BY <1>1, <1>3 DEF Sound, BlockRefs, LabelRefs, CodeRefs, RoutineRefs
<1> QED BY <1>2, <1>3, <1>4 DEF Emits, Marks

(* The code grows by some bytes.                                             *)
Grows(r, q, bytes) ==
  /\ q \in Result /\ CodeRefs(q) /\ Kept(r, q)
  /\ q.pe = r.pe /\ q.lost = r.lost /\ q.labels_vect = r.labels_vect
  /\ q.const_memory = r.const_memory
  /\ q.obj[r.subs_body].size = r.obj[r.subs_body].size + bytes
  /\ \A b \in BOOLEAN : q.obj[b].size >= r.obj[b].size

(* Put makes the code longer by the instruction's bytes.                     *)
LEMMA PutPart ==
  ASSUME NEW r \in Result, CodeRefs(r), NEW bytes \in Nat \ {0}, NEW op \in Op, NEW mod \in BOOLEAN,
         NEW arg \in Int, NEW byte \in Int
  PROVE  Grows(r, Put(r, bytes, op, mod, arg, byte), bytes)
<1> DEFINE a   == r.subs_body
           old == r.obj[a]
           c   == [at |-> old.size, instr |-> [op |-> op, mod |-> mod, arg |-> arg, byte |-> byte]]
           new == [size |-> old.size + bytes, code |-> Append(old.code, c)]
           obj == [r.obj EXCEPT ![a] = new]
           q   == Put(r, bytes, op, mod, arg, byte)
<1>1. a \in BOOLEAN /\ r.obj \in [BOOLEAN -> PartType]
  BY DEF Result
<1>2. old \in PartType /\ old.size \in Nat /\ old.code \in Seq(CodeType)
  BY <1>1 DEF PartType
<1>3. c \in CodeType BY <1>2 DEF CodeType
<1>5. q = [r EXCEPT !.obj = obj]
  BY <1>1 DEF Put
<1> HIDE DEF c, old, q, obj, a
<1>4. new \in PartType /\ new.size = old.size + bytes /\ new.code = Append(old.code, c)
  <2>1. Append(old.code, c) \in Seq(CodeType) BY <1>2, <1>3
  <2>2. old.size + bytes \in Nat BY <1>2
  <2> QED BY <2>1, <2>2 DEF PartType
<1> HIDE DEF new
<1>6. obj \in [BOOLEAN -> PartType] /\ obj[a] = new /\ \A b \in BOOLEAN : b # a => obj[b] = r.obj[b]
  BY <1>1, <1>4 DEF obj
<1>7. /\ q \in Result /\ q.obj = obj /\ q.pe = r.pe /\ q.lost = r.lost
      /\ q.const_memory = r.const_memory /\ q.labels_vect = r.labels_vect
  BY <1>5, <1>6 DEF Result
<1>8. Kept(r, q)
  BY <1>5 DEF Kept, SameVars, SameRoutine, SameBlocks, SameLabels, Result
<1>9. \A b \in BOOLEAN : obj[b].size >= r.obj[b].size
  <2> SUFFICES ASSUME NEW b \in BOOLEAN
               PROVE  obj[b].size >= r.obj[b].size
    OBVIOUS
  <2>1. r.obj[b] \in PartType BY <1>1
  <2>2. r.obj[b].size \in Nat BY <2>1 DEF PartType
  <2>3. b = a => r.obj[b] = old BY DEF old, a
  <2> QED BY <1>2, <1>4, <1>6, <2>2, <2>3
<1>10. CodeRefs(q)
  <2> SUFFICES ASSUME NEW b \in BOOLEAN, NEW i \in 1..Len(obj[b].code)
               PROVE  obj[b].code[i].at < obj[b].size
    BY <1>7 DEF CodeRefs
  <2>1. CASE b # a
    BY <2>1, <1>6 DEF CodeRefs
  <2>2. CASE b = a /\ i = Len(old.code) + 1
    <3>1. obj[b].code[i] = c BY <2>2, <1>2, <1>3, <1>4, <1>6
    <3>2. obj[b] = new BY <1>6, <2>2, Zenon
    <3>3. c.at = old.size BY DEF c
    <3>4. c.at = old.size /\ obj[b].size = old.size + bytes BY <1>4, <3>2, <3>3
    <3> QED BY <3>1, <3>4, <1>2
  <2>3. CASE b = a /\ i # Len(old.code) + 1
    <3>5. obj[b].code = Append(old.code, c) BY <2>3, <1>4, <1>6
    <3> HIDE DEF obj
    <3>1. i \in 1..Len(old.code) /\ obj[b].code[i] = old.code[i]
      BY <3>5, <2>3, <1>2, <1>3
    <3>2. old.code[i] \in CodeType BY <3>1, <1>2
    <3>3. old.code[i].at \in Nat BY <3>2 DEF CodeType
    <3>4. old.code[i].at < old.size
      BY <3>1, <1>1 DEF CodeRefs, old, a
    <3> QED BY <3>1, <3>3, <3>4, <1>2, <1>4, <1>6, <2>3
  <2> QED BY <2>1, <2>2, <2>3
<1> QED BY <1>4, <1>6, <1>7, <1>8, <1>9, <1>10 DEF q, old, a, Grows

(* A jump into a part that grows stays inside. *)
LEMMA RefsGrow ==
  ASSUME NEW r, Sound(r), NEW q \in Result, Kept(r, q), q.labels_vect = r.labels_vect, CodeRefs(q),
         \A b \in BOOLEAN : q.obj[b].size >= r.obj[b].size
  PROVE  Sound(q)
<1>1. r \in Result /\ r.labels_vect \in Seq(LabelType) BY DEF Sound, Result
<1>2. BlockRefs(q) /\ RoutineRefs(q)
  BY DEF BlockRefs, RoutineRefs, Kept, SameBlocks, SameRoutine, Sound
<1>3. LabelRefs(q)
  <2> SUFFICES ASSUME NEW i \in 1..Len(r.labels_vect)
               PROVE  /\ Len(r.labels_vect[i].jmps) <= LINKS_BY_LABEL_MAX
                      /\ \A n \in 1..Len(r.labels_vect[i].jmps) :
                           \E b \in BOOLEAN : r.labels_vect[i].jmps[n] < q.obj[b].size
                      /\ r.labels_vect[i].func_info <= Len(q.funcs_vect)
    BY DEF LabelRefs
  <2>1. r.labels_vect[i] \in LabelType BY <1>1
  <2>2. r.labels_vect[i].jmps \in Seq(Nat) BY <2>1 DEF LabelType
  <2>3. \A n \in 1..Len(r.labels_vect[i].jmps) : r.labels_vect[i].jmps[n] \in Nat BY <2>2
  <2>4. /\ Len(r.labels_vect[i].jmps) <= LINKS_BY_LABEL_MAX
        /\ \A n \in 1..Len(r.labels_vect[i].jmps) :
             \E b \in BOOLEAN : r.labels_vect[i].jmps[n] < r.obj[b].size
        /\ r.labels_vect[i].func_info <= Len(r.funcs_vect)
    BY DEF Sound, LabelRefs
  <2>5. \A b \in BOOLEAN : q.obj[b].size \in Nat /\ r.obj[b].size \in Nat
    BY <1>1 DEF Result, PartType
  <2>6. ASSUME NEW n \in 1..Len(r.labels_vect[i].jmps)
        PROVE  \E b \in BOOLEAN : r.labels_vect[i].jmps[n] < q.obj[b].size
    <3>1. PICK b \in BOOLEAN : r.labels_vect[i].jmps[n] < r.obj[b].size BY <2>4
    <3>2. r.labels_vect[i].jmps[n] < q.obj[b].size BY <3>1, <2>3, <2>5
    <3> QED BY <3>2
  <2> QED BY <2>4, <2>6 DEF Kept, SameRoutine
<1> QED BY <1>2, <1>3 DEF Sound

(* The code grows; nothing else changes, the labels included.                *)
Appends(r, q) ==
  /\ Emits(r, q) /\ q.pe = r.pe /\ q.labels_vect = r.labels_vect
  /\ q.obj[r.subs_body].size > r.obj[r.subs_body].size
  /\ q.const_memory = r.const_memory

(* Put appends to the code.                                                  *)
LEMMA PutSound ==
  ASSUME NEW r, Sound(r), NEW bytes \in Nat \ {0}, NEW op \in Op, NEW mod \in BOOLEAN,
         NEW arg \in Int, NEW byte \in Int
  PROVE  Appends(r, Put(r, bytes, op, mod, arg, byte))
<1> DEFINE q == Put(r, bytes, op, mod, arg, byte)
<1>1. r \in Result /\ CodeRefs(r) BY DEF Sound
<1>2. Grows(r, q, bytes) BY <1>1, PutPart
<1> HIDE DEF q
<1>3. Sound(q) BY <1>2, RefsGrow DEF Grows
<1>4. r.obj[r.subs_body].size \in Nat BY <1>1, ResultFields DEF PartType
<1>5. Appends(r, q) BY <1>2, <1>3, <1>4 DEF Emits, Appends, Grows
<1> QED BY <1>5 DEF q

(* Every instruction has a length.                                           *)
LEMMA CmdSizeIs ==
  ASSUME NEW op
  PROVE  /\ CmdSize(op) \in 1..5
         /\ op \in WordOps /\ op \notin PlainOps \cup IdOps \cup WordByteOps => CmdSize(op) = 3
<1> DEFINE p == op \in PlainOps
           i == op \in IdOps
           w == op \in WordOps
           b == op \in WordByteOps
<1>1. CmdSize(op) = CASE p -> 1 [] i -> 2 [] w -> 3 [] b -> 4 [] OTHER -> 5
  BY DEF CmdSize
<1>2. ASSUME op \in WordOps, op \notin PlainOps \cup IdOps \cup WordByteOps PROVE CmdSize(op) = 3
  BY <1>2 DEF CmdSize
<1>3. (CASE p -> 1 [] i -> 2 [] w -> 3 [] b -> 4 [] OTHER -> 5) \in 1..5
  <2> HIDE DEF p, i, w, b
  <2> QED OBVIOUS
<1> QED BY <1>1, <1>2, <1>3

(* code_op appends to the code (vm_code.c).                                  *)
LEMMA CodeOpSound ==
  ASSUME NEW r, Sound(r), NEW op \in Op, NEW mod \in BOOLEAN, NEW arg \in Int, NEW byte \in Int
  PROVE  Appends(r, code_op(r, op, mod, arg, byte))
<1>1. CmdSize(op) \in Nat \ {0} BY CmdSizeIs
<1>2. code_op(r, op, mod, arg, byte) = Put(r, CmdSize(op), op, mod, arg, byte)
  BY DEF code_op
<1> QED BY <1>1, <1>2, PutSound

-----------------------------------------------------------------------------
(* One label more. *)
Labels(r, q, name, create) ==
  LET n == Len(r.labels_vect) + 1
  IN  /\ Sound(q) /\ SameVars(r, q) /\ SameRoutine(r, q) /\ SameBlocks(r, q)
      /\ q.lost = r.lost /\ q.pe = "no_error" /\ q.obj = r.obj
      /\ Len(q.labels_vect) = n
      /\ \A i \in 1..Len(r.labels_vect) : q.labels_vect[i] = r.labels_vect[i]
      /\ q.labels_vect[n].name = name /\ q.labels_vect[n].func_info = r.func_info
      /\ ~create => q.labels_vect[n].code_offs = -1

(* NewLabel puts a label behind the others.                                  *)
LEMMA NewLabelSound ==
  ASSUME NEW r, Sound(r), NEW name \in LabelNames \cup {AutoName}, NEW create \in BOOLEAN
  PROVE  Labels(r, NewLabel(r, name, create), name, create)
<1> DEFINE l == [name |-> name, code_offs |-> IF create THEN GetCodeOffset(r) ELSE -1,
                 subs_body |-> FALSE, jmps |-> <<>>, func_info |-> r.func_info]
           q == NewLabel(r, name, create)
           labels == Append(r.labels_vect, l)
           n == Len(r.labels_vect) + 1
<1>1. r \in Result BY DEF Sound
<1>2. GetCodeOffset(r) \in Nat /\ r.func_info \in Nat
  BY <1>1, ResultFields DEF GetCodeOffset, PartType
<1>3. l \in LabelType /\ l.name = name /\ l.func_info = r.func_info /\ l.jmps = <<>>
      /\ (~create => l.code_offs = -1)
  BY <1>2 DEF LabelType
<1>4. q = [r EXCEPT !.pe = "no_error", !.labels_vect = labels]
  BY DEF NewLabel
<1>5. r.labels_vect \in Seq(LabelType) BY <1>1 DEF Result
<1> HIDE DEF l, q
<1>6. labels \in Seq(LabelType) /\ Len(labels) = n /\ n \in Nat /\ labels[n] = l
      /\ \A i \in 1..Len(r.labels_vect) : labels[i] = r.labels_vect[i]
  BY <1>3, <1>5
<1> HIDE DEF labels
<1>7. q \in Result /\ q.labels_vect = labels /\ q.lost = r.lost /\ q.pe = "no_error" /\ q.obj = r.obj
      /\ SameVars(r, q) /\ SameRoutine(r, q) /\ SameBlocks(r, q)
  <2>1. q \in Result BY <1>1, <1>4, <1>6 DEF Result, ParseError
  <2>2. q.labels_vect = labels /\ q.lost = r.lost /\ q.pe = "no_error" /\ q.obj = r.obj
    BY <1>1, <1>4 DEF Result
  <2>3. SameVars(r, q) /\ SameRoutine(r, q) /\ SameBlocks(r, q)
    BY <1>1, <1>4 DEF Result, SameVars, SameRoutine, SameBlocks
  <2> QED BY <2>1, <2>2, <2>3
<1>8. BlockRefs(q)
  <2> SUFFICES ASSUME NEW i \in 1..Len(r.block_vect)
               PROVE  /\ r.block_vect[i].label_begin.label <= n
                      /\ r.block_vect[i].label_end.label <= n
    BY <1>6, <1>7 DEF BlockRefs, SameBlocks
  <2>1. r.block_vect[i] \in BlockType BY <1>1 DEF Result
  <2>2. r.block_vect[i].label_begin.label \in Nat /\ r.block_vect[i].label_end.label \in Nat
    BY <2>1 DEF BlockType, Pointer
  <2> QED BY <2>2, <1>5 DEF Sound, BlockRefs
<1>9. LabelRefs(q)
  <2> SUFFICES ASSUME NEW i \in 1..n
               PROVE  /\ Len(labels[i].jmps) <= LINKS_BY_LABEL_MAX
                      /\ \A k \in 1..Len(labels[i].jmps) :
                           \E a \in BOOLEAN : labels[i].jmps[k] < r.obj[a].size
                      /\ labels[i].func_info <= Len(r.funcs_vect)
    BY <1>6, <1>7 DEF LabelRefs, SameRoutine
  <2>1. CASE i = n
    BY <2>1, <1>3, <1>6, BlocksAssumption DEF Sound, RoutineRefs
  <2>2. CASE i # n
    <3>1. i \in 1..Len(r.labels_vect) /\ labels[i] = r.labels_vect[i] BY <2>2, <1>5, <1>6
    <3> QED BY <3>1 DEF Sound, LabelRefs
  <2> QED BY <2>1, <2>2
<1>10. CodeRefs(q) /\ RoutineRefs(q)
  BY <1>7 DEF CodeRefs, RoutineRefs, Sound, SameRoutine
<1> QED BY <1>3, <1>6, <1>7, <1>8, <1>9, <1>10 DEF Sound, q, Labels

(* Label i of r gets its place in the code, or it is refused. *)
PlacesLabel(r, q, i) ==
  /\ q.lost = r.lost /\ q.obj = r.obj
  /\ q.pe \in {"no_error", "object_exist"}
  /\ \/ q.pe = "no_error"
     \/ ~(r.labels_vect[i].code_offs = -1 /\ r.labels_vect[i].func_info = r.func_info)
  /\ Sound(q) /\ SameVars(r, q) /\ SameRoutine(r, q) /\ SameBlocks(r, q)
  /\ Len(q.labels_vect) = Len(r.labels_vect)
  /\ \A k \in 1..Len(r.labels_vect) :
       /\ q.labels_vect[k].name = r.labels_vect[k].name
       /\ q.labels_vect[k].func_info = r.labels_vect[k].func_info
       /\ k # i => q.labels_vect[k] = r.labels_vect[k]

(* PlaceLabel gives a label its place in the code.                           *)
LEMMA PlaceLabelSound ==
  ASSUME NEW r, Sound(r), NEW i
  PROVE  PlacesLabel(r, PlaceLabel(r, i), i)
<1> DEFINE q == PlaceLabel(r, i)
           kept == r.labels_vect[i].code_offs >= 0 \/ r.labels_vect[i].func_info # r.func_info
           place == GetCodeOffset(r)
           labels == [r.labels_vect EXCEPT ![i].code_offs = place]
<1>1. r \in Result /\ r.labels_vect \in Seq(LabelType) BY DEF Sound, Result
<1>2. place \in Nat
  BY <1>1, ResultFields DEF GetCodeOffset, PartType
<1>3. CASE kept
  <2>1. q = Error(r, "object_exist") BY <1>3 DEF PlaceLabel
  <2> HIDE DEF q
  <2>2. Emits(r, q) /\ q.labels_vect = r.labels_vect /\ q.pe = "object_exist" /\ q.obj = r.obj
    BY <2>1, ErrorSound DEF ParseError, Marks
  <2> QED BY <2>2, <1>3 DEF Emits, Kept, PlacesLabel, q
<1>4. CASE ~kept
  <2>1. q = [r EXCEPT !.pe = "no_error", !.labels_vect = labels] BY <1>4 DEF PlaceLabel
  <2>2. \A k \in 1..Len(r.labels_vect) : r.labels_vect[k] \in LabelType BY <1>1
  <2>3. /\ DOMAIN labels = 1..Len(r.labels_vect) /\ Len(labels) = Len(r.labels_vect)
        /\ labels \in Seq(LabelType)
        /\ \A k \in 1..Len(r.labels_vect) : k # i => labels[k] = r.labels_vect[k]
        /\ \A k \in 1..Len(r.labels_vect) :
             k = i => labels[k] = [r.labels_vect[k] EXCEPT !.code_offs = place]
    <3>1. \A k \in 1..Len(r.labels_vect) :
            [r.labels_vect[k] EXCEPT !.code_offs = place] \in LabelType
      BY <2>2, <1>2, SMTT(30) DEF LabelType
    <3> HIDE DEF place
    <3>2. DOMAIN labels = 1..Len(r.labels_vect) /\ Len(r.labels_vect) \in Nat BY <1>1
    <3>3. \A k \in 1..Len(r.labels_vect) : k # i => labels[k] = r.labels_vect[k] BY <1>1
    <3>4. \A k \in 1..Len(r.labels_vect) :
             k = i => labels[k] = [r.labels_vect[k] EXCEPT !.code_offs = place] BY <1>1
    <3>5. labels \in [1..Len(r.labels_vect) -> LabelType] BY <3>1, <3>2, <3>3, <3>4, <2>2
    <3> HIDE DEF labels
    <3>6. labels \in Seq(LabelType) BY <3>2, <3>5, SeqDef
    <3> QED BY <3>2, <3>3, <3>4, <3>6
  <2> HIDE DEF labels, place, q
  <2>4. \A k \in 1..Len(r.labels_vect) :
          /\ labels[k].name = r.labels_vect[k].name
          /\ labels[k].func_info = r.labels_vect[k].func_info
          /\ labels[k].jmps = r.labels_vect[k].jmps
    BY <2>2, <2>3 DEF LabelType
  <2>5. q \in Result /\ q.labels_vect = labels /\ q.lost = r.lost /\ q.pe = "no_error" /\ q.obj = r.obj
        /\ SameVars(r, q) /\ SameRoutine(r, q) /\ SameBlocks(r, q)
    <3>1. q \in Result BY <1>1, <2>1, <2>3 DEF Result, ParseError
    <3>2. q.labels_vect = labels /\ q.lost = r.lost /\ q.pe = "no_error" /\ q.obj = r.obj
      BY <1>1, <2>1 DEF Result
    <3>3. SameVars(r, q) /\ SameRoutine(r, q) /\ SameBlocks(r, q)
      BY <1>1, <2>1 DEF Result, SameVars, SameRoutine, SameBlocks
    <3> QED BY <3>1, <3>2, <3>3
  <2>6. BlockRefs(q) /\ CodeRefs(q) /\ RoutineRefs(q)
    BY <2>3, <2>5 DEF BlockRefs, CodeRefs, RoutineRefs, Sound, SameRoutine, SameBlocks
  <2>7. LabelRefs(q)
    BY <2>3, <2>4, <2>5 DEF LabelRefs, Sound, SameRoutine
  <2> QED BY <2>3, <2>4, <2>5, <2>6, <2>7 DEF PlacesLabel, Sound, q
<1> QED BY <1>3, <1>4

-----------------------------------------------------------------------------
(* Named finds an element of that name, or none has it.                      *)
LEMMA NamedIs ==
  ASSUME NEW S, NEW vect \in Seq(S), NEW name
  PROVE  /\ Named(vect, name) \in 0..Len(vect)
         /\ Named(vect, name) # NULL => vect[Named(vect, name)].name = name
         /\ Named(vect, name) = NULL => \A k \in 1..Len(vect) : vect[k].name # name
<1> DEFINE I == {k \in 1..Len(vect) : vect[k].name = name}
<1>1. Named(vect, name) = IF I # {} THEN Min(I) ELSE 0
  BY DEF Named, SelectInSeq
<1>2. I \subseteq Nat /\ I \subseteq 1..Len(vect) /\ 0 \notin I OBVIOUS
<1>3. CASE I = {}
  BY <1>1, <1>3 DEF NULL
<1>4. CASE I # {}
  <2> DEFINE m == Min(I)
  <2> HIDE DEF I
  <2>1. m \in I BY <1>2, <1>4, MinIs
  <2>2. Named(vect, name) = m BY <1>1, <1>4
  <2> HIDE DEF m
  <2>3. m \in 1..Len(vect) /\ vect[m].name = name BY <2>1 DEF I
  <2> QED BY <2>2, <2>3 DEF NULL
<1> QED BY <1>3, <1>4

(* What is done through a pointer stays done, unless it leads nowhere. *)
Reaches(r, p, done, q) ==
  /\ Sound(q) /\ Kept(done, q) /\ q.pe = done.pe /\ q.obj = done.obj
  /\ q.labels_vect = done.labels_vect
  /\ q.lost = (done.lost \/ Dangling(r, p))

(* A reference leads to its label, or is lost.                               *)
LEMMA ThroughSound ==
  ASSUME NEW r, NEW p, NEW done, Sound(done)
  PROVE  Reaches(r, p, done, Through(r, p, done))
<1> DEFINE q == Through(r, p, done)
           lost == done.lost \/ Dangling(r, p)
<1>1. done \in Result BY DEF Sound
<1>2. lost \in BOOLEAN BY <1>1 DEF Dangling, Result
<1>3. q = [done EXCEPT !.lost = lost] BY DEF Through
<1> HIDE DEF q, lost
<1>4. q \in Result BY <1>1, <1>2, <1>3 DEF Result
<1>5. q.lost = lost /\ q.pe = done.pe /\ q.obj = done.obj /\ q.labels_vect = done.labels_vect
  BY <1>1, <1>3 DEF Result
<1>6. Kept(done, q)
  BY <1>1, <1>3 DEF Kept, SameVars, SameRoutine, SameBlocks, SameLabels, Result
<1>7. BlockRefs(q) /\ LabelRefs(q) /\ CodeRefs(q) /\ RoutineRefs(q)
  BY <1>5, <1>6 DEF BlockRefs, LabelRefs, CodeRefs, RoutineRefs, Sound, Kept, SameBlocks, SameRoutine
<1> QED BY <1>4, <1>5, <1>6, <1>7 DEF Sound, q, lost, Reaches

(* A jump is put, or the label has no room for it.                           *)
Jumped(r, q) == Emits(r, q) /\ q.pe \in {"no_error", "label_invalid"}

(* VmOp_Jmp puts a jump and notes it at its label (vm_code.c).               *)
LEMMA JmpSound ==
  ASSUME NEW r, Sound(r), NEW i \in Nat, NEW use_condition \in BOOLEAN
  PROVE  Jumped(r, VmOp_Jmp(r, i, use_condition))
<1> DEFINE op     == IF use_condition THEN "JMP_POP_CMPZ" ELSE "JMP"
           full   == Len(r.labels_vect[i].jmps) >= LINKS_BY_LABEL_MAX
           place  == GetCodeOffset(r) + 1
           e      == [r.labels_vect[i] EXCEPT !.subs_body = r.subs_body]
           old    == r.labels_vect
           labels == [old EXCEPT ![i] = e]
           f      == [labels[i] EXCEPT !.jmps = Append(labels[i].jmps, place)]
           linked == [labels EXCEPT ![i] = f]
           marked == [r EXCEPT !.labels_vect[i].subs_body = r.subs_body]
           jumps  == [marked EXCEPT !.labels_vect[i].jmps = Append(@, place)]
           n      == Len(r.labels_vect)
           q      == VmOp_Jmp(r, i, use_condition)
<1> SUFFICES Emits(r, q) /\ q.pe \in {"no_error", "label_invalid"}
  BY DEF Jumped
<1>0. {1, 3} \subseteq Nat \ {0} /\ FALSE \in BOOLEAN /\ i \in Int /\ 0 \in Int OBVIOUS
<1>1. r \in Result /\ r.labels_vect \in Seq(LabelType) /\ n \in Nat /\ r.subs_body \in BOOLEAN
  BY DEF Sound, Result
<1>2. place \in Nat /\ place = r.obj[r.subs_body].size + 1 /\ r.obj[r.subs_body].size \in Nat
  BY <1>1, ResultFields DEF GetCodeOffset, PartType
<1>3. op \in Op /\ CmdSize(op) = 3
  <2>1. op \in WordOps /\ op \notin PlainOps \cup IdOps \cup WordByteOps
    BY DEF PlainOps, IdOps, WordOps, WordByteOps
  <2> QED BY <2>1, CmdSizeIs DEF Op
<1>4. \A k \in 1..n : r.labels_vect[k] \in LabelType BY <1>1
<1>5. i \in 1..n => /\ e \in LabelType
                    /\ e.name = r.labels_vect[i].name
                    /\ e.code_offs = r.labels_vect[i].code_offs
                    /\ e.func_info = r.labels_vect[i].func_info
                    /\ e.jmps = r.labels_vect[i].jmps
  BY <1>1, <1>4 DEF LabelType
<1>7. marked = [r EXCEPT !.labels_vect = labels] BY <1>1
<1>8. marked \in Result => jumps = [marked EXCEPT !.labels_vect =
                             [marked.labels_vect EXCEPT ![i] =
                                [marked.labels_vect[i] EXCEPT !.jmps =
                                   Append(marked.labels_vect[i].jmps, place)]]]
  OBVIOUS
<1> HIDE DEF e
<1>9. /\ labels \in Seq(LabelType) /\ Len(labels) = n
      /\ \A k \in 1..n : labels[k] = IF k = i THEN e ELSE r.labels_vect[k]
  <2>1. old \in [1..n -> LabelType] BY <1>1
  <2>2. labels \in [1..n -> LabelType] /\ \A k \in 1..n : labels[k] = IF k = i THEN e ELSE old[k]
    BY <1>5, <2>1
  <2> HIDE DEF labels, n
  <2> QED BY <1>1, <2>2, SeqFrom
<1> HIDE DEF labels, marked, jumps, place, op
<1>10. \A k \in 1..n : /\ labels[k] \in LabelType
                       /\ labels[k].name = r.labels_vect[k].name
                       /\ labels[k].code_offs = r.labels_vect[k].code_offs
                       /\ labels[k].func_info = r.labels_vect[k].func_info
                       /\ labels[k].jmps = r.labels_vect[k].jmps
  BY <1>4, <1>5, <1>9
<1>11. i \in 1..n => labels[i].jmps \in Seq(Nat) /\ Append(labels[i].jmps, place) \in Seq(Nat)
  BY <1>10, <1>2 DEF LabelType
<1>12. i \in 1..n => /\ f \in LabelType
                     /\ f.name = labels[i].name
                     /\ f.code_offs = labels[i].code_offs
                     /\ f.func_info = labels[i].func_info
                     /\ f.jmps = Append(labels[i].jmps, place)
  BY <1>10, <1>11 DEF LabelType
<1> HIDE DEF f
<1>13. /\ linked \in Seq(LabelType) /\ Len(linked) = n
       /\ \A k \in 1..n : linked[k] = IF k = i THEN f ELSE labels[k]
  <2>1. labels \in [1..n -> LabelType] BY <1>9
  <2>2. linked \in [1..n -> LabelType] /\ \A k \in 1..n : linked[k] = IF k = i THEN f ELSE labels[k]
    BY <1>12, <2>1
  <2> HIDE DEF linked, n
  <2> QED BY <1>1, <2>2, SeqFrom
<1>14. marked \in Result /\ marked.labels_vect = labels
  BY <1>1, <1>7, <1>9 DEF Result
<1>15. jumps = [marked EXCEPT !.labels_vect = linked]
  BY <1>8, <1>14 DEF f
<1> HIDE DEF linked
<1>16. jumps \in Result /\ jumps.labels_vect = linked
  BY <1>13, <1>14, <1>15 DEF Result
<1>17. /\ marked.pe = r.pe /\ marked.lost = r.lost /\ marked.obj = r.obj
       /\ SameVars(r, marked) /\ SameRoutine(r, marked) /\ SameBlocks(r, marked)
  BY <1>1, <1>7 DEF Result, SameVars, SameRoutine, SameBlocks
<1>18. /\ jumps.pe = marked.pe /\ jumps.lost = marked.lost /\ jumps.obj = marked.obj
       /\ SameVars(marked, jumps) /\ SameRoutine(marked, jumps) /\ SameBlocks(marked, jumps)
  BY <1>14, <1>15 DEF Result, SameVars, SameRoutine, SameBlocks
<1>19. SameLabels(r, marked) /\ SameLabels(marked, jumps)
  <2>1. SameLabels(r, marked) BY <1>9, <1>10, <1>14 DEF SameLabels
  <2>2. SameLabels(marked, jumps) BY <1>9, <1>12, <1>13, <1>14, <1>16 DEF SameLabels
  <2> QED BY <2>1, <2>2
<1>20. Kept(r, marked) /\ Kept(r, jumps)
  BY <1>17, <1>18, <1>19, KeptTrans DEF Kept
<1>21. CodeRefs(marked) /\ CodeRefs(jumps)
  BY <1>17, <1>18 DEF CodeRefs, Sound
<1>22. Sound(marked)
  <2>1. BlockRefs(marked) /\ RoutineRefs(marked)
    BY <1>9, <1>14, <1>17 DEF BlockRefs, RoutineRefs, Sound, SameBlocks, SameRoutine
  <2>2. LabelRefs(marked)
    BY <1>9, <1>10, <1>14, <1>17 DEF LabelRefs, Sound, SameRoutine
  <2> QED BY <1>14, <1>21, <2>1, <2>2 DEF Sound
<1>23. q = IF full THEN Error(Put(marked, 1, op, FALSE, i, 0), "label_invalid")
           ELSE Error(code_op(jumps, op, FALSE, i, 0), "no_error")
  BY DEF VmOp_Jmp, marked, jumps, op, place
<1> HIDE DEF q
<1>24. CASE full
  <2>1. Emits(marked, Put(marked, 1, op, FALSE, i, 0))
    <3>1. 1 \in Nat \ {0} OBVIOUS
    <3>2. Appends(marked, Put(marked, 1, op, FALSE, i, 0))
      BY <1>0, <1>3, <1>22, <3>1, PutSound, Zenon
    <3> QED BY <3>2 DEF Appends
  <2>2. Emits(marked, q) /\ q.pe = "label_invalid"
    <3>1. Sound(Put(marked, 1, op, FALSE, i, 0)) BY <2>1 DEF Emits
    <3>2. "label_invalid" \in ParseError BY DEF ParseError
    <3>3. q = Error(Put(marked, 1, op, FALSE, i, 0), "label_invalid") BY <1>23, <1>24
    <3>4. Marks(Put(marked, 1, op, FALSE, i, 0), q, "label_invalid")
      BY <3>1, <3>2, <3>3, ErrorSound, Zenon
    <3> QED BY <2>1, <3>4, EmitsTrans DEF Marks
  <2> QED BY <2>2, <1>17, <1>20, KeptTrans DEF Emits
<1>25. CASE ~full
  <2> DEFINE p == Put(jumps, 3, op, FALSE, i, 0)
  <2>1. q = Error(p, "no_error")
    BY <1>3, <1>23, <1>25 DEF code_op
  <2>2. /\ p \in Result /\ CodeRefs(p) /\ Kept(jumps, p) /\ p.pe = jumps.pe /\ p.lost = jumps.lost
        /\ p.labels_vect = linked
        /\ p.obj[jumps.subs_body].size = jumps.obj[jumps.subs_body].size + 3
        /\ \A b \in BOOLEAN : p.obj[b].size >= jumps.obj[b].size
    <3>1. 3 \in Nat \ {0} OBVIOUS
    <3>2. jumps \in Result /\ CodeRefs(jumps) /\ op \in Op BY <1>3, <1>16, <1>21
    <3>3. /\ p \in Result /\ CodeRefs(p) /\ Kept(jumps, p) /\ p.pe = jumps.pe /\ p.lost = jumps.lost
          /\ p.labels_vect = jumps.labels_vect
          /\ p.obj[jumps.subs_body].size = jumps.obj[jumps.subs_body].size + 3
          /\ \A b \in BOOLEAN : p.obj[b].size >= jumps.obj[b].size
      <4>1. FALSE \in BOOLEAN /\ i \in Int /\ 0 \in Int BY <1>0
      <4>2. Grows(jumps, p, 3) BY <4>1, <3>1, <3>2, PutPart, Zenon
      <4> QED BY <4>2 DEF Grows
    <3> QED BY <1>16, <3>3
  <2> HIDE DEF p
  <2>3. /\ jumps.subs_body = r.subs_body /\ jumps.obj = r.obj /\ Kept(r, p)
        /\ Len(p.labels_vect) = n
    BY <1>13, <1>17, <1>18, <1>20, <2>2, KeptTrans DEF SameRoutine
  <2>4. place < p.obj[r.subs_body].size
    BY <1>2, <2>2, <2>3
  <2>5. BlockRefs(p) /\ RoutineRefs(p)
    BY <2>3 DEF BlockRefs, RoutineRefs, Sound, Kept, SameBlocks, SameRoutine, n
  <2>6. LabelRefs(p)
    <3> SUFFICES ASSUME NEW k \in 1..n
                 PROVE  /\ Len(linked[k].jmps) <= LINKS_BY_LABEL_MAX
                        /\ \A m \in 1..Len(linked[k].jmps) :
                             \E b \in BOOLEAN : linked[k].jmps[m] < p.obj[b].size
                        /\ linked[k].func_info <= Len(p.funcs_vect)
      BY <2>2, <2>3 DEF LabelRefs
    <3>1. /\ Len(labels[k].jmps) <= LINKS_BY_LABEL_MAX
          /\ \A m \in 1..Len(labels[k].jmps) :
               \E b \in BOOLEAN : labels[k].jmps[m] < r.obj[b].size
          /\ labels[k].func_info <= Len(r.funcs_vect)
      BY <1>9, <1>14, <1>17, <1>22 DEF Sound, LabelRefs, SameRoutine
    <3>2. linked[k].func_info <= Len(p.funcs_vect)
      BY <3>1, <2>3, <1>12, <1>13 DEF Kept, SameRoutine
    <3>3. labels[k].jmps \in Seq(Nat) BY <1>10 DEF LabelType
    <3>4. \A b \in BOOLEAN : p.obj[b].size >= r.obj[b].size /\ p.obj[b].size \in Nat
                             /\ r.obj[b].size \in Nat
      BY <2>2, <2>3, <1>1 DEF Result, PartType
    <3>5. \A m \in 1..Len(labels[k].jmps) : \E b \in BOOLEAN : labels[k].jmps[m] < p.obj[b].size
      <4> SUFFICES ASSUME NEW m \in 1..Len(labels[k].jmps)
                   PROVE  \E b \in BOOLEAN : labels[k].jmps[m] < p.obj[b].size
        OBVIOUS
      <4>1. labels[k].jmps[m] \in Nat BY <3>3
      <4>2. PICK b \in BOOLEAN : labels[k].jmps[m] < r.obj[b].size BY <3>1
      <4>3. labels[k].jmps[m] < p.obj[b].size BY <4>1, <4>2, <3>4
      <4> QED BY <4>3
    <3>6. CASE k # i
      BY <3>1, <3>2, <3>5, <3>6, <1>13
    <3>7. CASE k = i
      <4>1. linked[k].jmps = Append(labels[k].jmps, place) BY <3>7, <1>12, <1>13
      <4>2. Len(labels[k].jmps) < LINKS_BY_LABEL_MAX
        BY <3>3, <3>7, <1>10, <1>25, BlocksAssumption
      <4>3. /\ Len(linked[k].jmps) = Len(labels[k].jmps) + 1
            /\ linked[k].jmps[Len(labels[k].jmps) + 1] = place
            /\ \A m \in 1..Len(labels[k].jmps) : linked[k].jmps[m] = labels[k].jmps[m]
        BY <4>1, <3>3, <1>2
      <4>4. Len(labels[k].jmps) \in Nat BY <3>3
      <4>5. ASSUME NEW m \in 1..Len(linked[k].jmps)
            PROVE  \E b \in BOOLEAN : linked[k].jmps[m] < p.obj[b].size
        <5>1. CASE m = Len(labels[k].jmps) + 1
          BY <5>1, <4>3, <2>4, <1>1
        <5>2. CASE m # Len(labels[k].jmps) + 1
          <6>1. m \in 1..Len(labels[k].jmps) BY <5>2, <4>3, <4>4
          <6> QED BY <6>1, <4>3, <3>5
        <5> QED BY <5>1, <5>2
      <4> QED BY <4>2, <4>3, <4>4, <4>5, <3>2, BlocksAssumption
    <3> QED BY <3>6, <3>7
  <2>7. Sound(p) /\ p.lost = r.lost BY <1>17, <1>18, <2>2, <2>5, <2>6 DEF Sound
  <2>8. Emits(p, q) /\ q.pe = "no_error" BY <2>1, <2>7, ErrorSound DEF ParseError, Marks
  <2> QED BY <2>3, <2>7, <2>8, KeptTrans DEF Emits
<1> QED BY <1>24, <1>25

(* A label of the source is found or made; those of blocks stay as they are. *)
Registers(r, q) ==
  /\ Sound(q) /\ SameVars(r, q) /\ SameRoutine(r, q) /\ SameBlocks(r, q)
  /\ q.lost = r.lost /\ q.obj = r.obj
  /\ Len(q.labels_vect) >= Len(r.labels_vect)
  /\ \A i \in 1..Len(r.labels_vect) :
       r.labels_vect[i].name = AutoName => q.labels_vect[i] = r.labels_vect[i]

(* RegisterLabel makes the label, defines it, or finds it defined.           *)
LEMMA RegisterLabelSound ==
  ASSUME NEW r, Sound(r), NEW name \in LabelNames, NEW create \in BOOLEAN
  PROVE  Registers(r, RegisterLabel(r, name, create))
<1> DEFINE i == Named(r.labels_vect, name)
           q == RegisterLabel(r, name, create)
<1>1. r.labels_vect \in Seq(LabelType) /\ Len(r.labels_vect) \in Nat BY DEF Sound, Result
<1>2. /\ i \in 0..Len(r.labels_vect)
      /\ i # NULL => r.labels_vect[i].name = name
  BY <1>1, NamedIs
<1>3. name # AutoName BY BlocksAssumption
<1>4. q = IF i = NULL THEN NewLabel(r, name, create)
          ELSE IF create THEN PlaceLabel(r, i) ELSE Error(r, "no_error")
  BY DEF RegisterLabel
<1> SUFFICES Registers(r, q)
  OBVIOUS
<1> HIDE DEF q, i
<1>5. CASE i = NULL
  <2>1. Labels(r, q, name, create) BY <1>4, <1>5, NewLabelSound
  <2> QED BY <2>1, <1>1 DEF Registers, Labels
<1>6. CASE i # NULL /\ create
  <2>1. PlacesLabel(r, q, i) BY <1>4, <1>6, PlaceLabelSound
  <2>2. \A k \in 1..Len(r.labels_vect) :
          r.labels_vect[k].name = AutoName => q.labels_vect[k] = r.labels_vect[k]
    BY <2>1, <1>2, <1>3, <1>6 DEF PlacesLabel
  <2> QED BY <2>1, <2>2, <1>1 DEF Registers, PlacesLabel
<1>7. CASE i # NULL /\ ~create
  <2>1. "no_error" \in ParseError BY DEF ParseError
  <2>2. Marks(r, q, "no_error") BY <1>4, <1>7, <2>1, ErrorSound
  <2> QED BY <2>2, <1>1 DEF Registers, Marks, Emits, Kept
<1> QED BY <1>5, <1>6, <1>7

-----------------------------------------------------------------------------
(* Only variables and their heap change.                                     *)
OnlyVars(r, q) ==
  /\ SameRoutine(r, q) /\ SameBlocks(r, q) /\ q.labels_vect = r.labels_vect /\ q.lost = r.lost

(* Then references still lead to what exists.                                *)
LEMMA OnlyVarsSound ==
  ASSUME NEW r, Sound(r), NEW q \in Result, OnlyVars(r, q), q.obj = r.obj
  PROVE  Sound(q)
BY DEF Sound, OnlyVars, SameRoutine, SameBlocks, BlockRefs, LabelRefs, CodeRefs, RoutineRefs

(* A variable's size is a number.                                            *)
LEMMA MemSizeIs ==
  ASSUME NEW type \in VarKind, NEW size \in Int
  PROVE  MemSize(type, size) \in Int
BY DEF MemSize, VarKind, FptBytes

(* The heap's extent grows to its pointer.                                   *)
Greatest(m, n) == IF n > m THEN n ELSE m

(* Variable i gets the place behind the others. *)
Allocates(r, q, i) ==
  /\ Sound(q) /\ OnlyVars(r, q) /\ q.pe = r.pe
  /\ Len(q.vars_vect) = Len(r.vars_vect)
  /\ \A k \in 1..Len(r.vars_vect) :
       q.vars_vect[k] = IF k = i THEN [r.vars_vect[i] EXCEPT !.mem_offs = r.heap_pnt]
                        ELSE r.vars_vect[k]
  /\ q.heap_pnt = r.heap_pnt + r.vars_vect[i].mem_size
  /\ q.heap_memory_max = Greatest(r.heap_memory_max, q.heap_pnt)

(* Allocate puts a variable behind those that live.                          *)
LEMMA AllocateSound ==
  ASSUME NEW r, Sound(r), NEW i \in 1..Len(r.vars_vect)
  PROVE  Allocates(r, Allocate(r, i), i)
<1> DEFINE v    == r.vars_vect[i]
           top  == r.heap_pnt + v.mem_size
           max  == IF top > r.heap_memory_max THEN top ELSE r.heap_memory_max
           op   == IF v.type = "vt_array_of_byte" THEN "INIT_bVAR" ELSE "INIT_gVAR"
           old  == r.vars_vect
           e    == [v EXCEPT !.mem_offs = r.heap_pnt]
           vars == [old EXCEPT ![i] = e]
           p    == [r EXCEPT !.vars_vect = vars, !.heap_pnt = top, !.heap_memory_max = max]
           byte == IF IsArray(v) THEN v.elm_count ELSE 0
           n    == Len(r.vars_vect)
           q    == Allocate(r, i)
<1>1. /\ r \in Result /\ old \in Seq(VarType) /\ n \in Nat /\ old \in [1..n -> VarType]
      /\ r.heap_pnt \in Int /\ r.heap_memory_max \in Nat
  BY DEF Sound, Result
<1>2. v \in VarType BY <1>1
<1>3. v.mem_size \in Int /\ v.elm_count \in Int /\ v.subs_body \in BOOLEAN
  BY <1>2 DEF VarType
<1>4. e \in VarType BY <1>1, <1>2 DEF VarType
<1>5. op \in Op BY DEF Op, WordByteOps
<1>6. byte \in Int BY <1>3
<1>7. q = code_op(p, op, v.subs_body, r.heap_pnt, byte)
  BY DEF Allocate
<1> SUFFICES Allocates(r, q, i)
  OBVIOUS
<1> HIDE DEF q, op, byte, v
<1>8. top \in Int /\ max \in Nat BY <1>1, <1>3
<1> HIDE DEF e
<1>9. vars \in [1..n -> VarType] /\ \A k \in 1..n : vars[k] = IF k = i THEN e ELSE old[k]
  BY <1>1, <1>4
<1> HIDE DEF vars
<1>10. vars \in Seq(VarType) /\ Len(vars) = n BY <1>1, <1>9, SeqFrom
<1> HIDE DEF top, max
<1>11. p \in Result BY <1>1, <1>8, <1>10 DEF Result
<1>12. p.vars_vect = vars /\ p.heap_pnt = top /\ p.heap_memory_max = max /\ p.pe = r.pe /\ p.obj = r.obj
  BY <1>1 DEF Result
<1>13. OnlyVars(r, p) BY <1>1 DEF Result, OnlyVars, SameRoutine, SameBlocks
<1> HIDE DEF p
<1>14. Sound(p) BY <1>11, <1>12, <1>13, OnlyVarsSound
<1>15. Appends(p, q)
  <2>1. r.heap_pnt \in Int /\ v.subs_body \in BOOLEAN BY <1>1, <1>3
  <2> QED BY <1>5, <1>6, <1>7, <1>14, <2>1, CodeOpSound, Zenon
<1>16. Sound(q) /\ OnlyVars(r, q) /\ q.pe = r.pe
  BY <1>12, <1>13, <1>15 DEF Appends, Emits, Kept, OnlyVars, SameRoutine, SameBlocks
<1>17. q.vars_vect = vars /\ q.heap_pnt = top /\ q.heap_memory_max = max
  BY <1>12, <1>15 DEF Appends, Emits, Kept, SameVars
<1> QED BY <1>9, <1>10, <1>16, <1>17 DEF Allocates, Greatest, top, max, e, v

(* One variable more, in the innermost block; `placed` says whether its size *)
(* is known, so that it has a place.                                         *)
Declares(r, q, type, size, placed) ==
  LET n == Len(r.vars_vect) + 1
  IN  /\ Sound(q) /\ OnlyVars(r, q) /\ q.pe = "no_error"
      /\ Len(q.vars_vect) = n
      /\ \A k \in 1..Len(r.vars_vect) : q.vars_vect[k] = r.vars_vect[k]
      /\ q.vars_vect[n].type = type /\ q.vars_vect[n].mem_size = size
      /\ q.vars_vect[n].in_block = Len(r.block_vect)
      /\ q.vars_vect[n].subs_body = r.subs_body
      /\ placed => /\ q.vars_vect[n].mem_offs = r.heap_pnt
                   /\ q.heap_pnt = r.heap_pnt + size
                   /\ q.heap_memory_max = Greatest(r.heap_memory_max, q.heap_pnt)
      /\ ~placed => q.heap_pnt = r.heap_pnt /\ q.heap_memory_max = r.heap_memory_max

(* How many elements a declaration asks for.                                 *)
Elements(type, array_size) == IF type = "vt_generic" THEN 1 ELSE array_size

(* DeclareVar puts a variable behind the others and gives it its place,      *)
(* unless the name is taken.                                                 *)
LEMMA DeclareVarSound ==
  ASSUME NEW r, Sound(r), NEW name \in VarName, NEW type \in VarKind, NEW array_size \in Int
  PROVE  LET q == DeclareVar(r, name, type, array_size)
         IN  \/ Marks(r, q, "object_exist")
             \/ Declares(r, q, type, MemSize(type, array_size), Elements(type, array_size) > 0)
<1> DEFINE elements == Elements(type, array_size)
           size  == MemSize(type, array_size)
           v     == [name |-> name, type |-> type, elm_count |-> elements,
                     mem_size |-> size, mem_offs |-> 0,
                     in_block |-> Len(r.block_vect), subs_body |-> r.subs_body]
           n     == Len(r.vars_vect)
           vars  == Append(r.vars_vect, v)
           added == [r EXCEPT !.pe = "no_error", !.vars_vect = vars]
           q     == DeclareVar(r, name, type, array_size)
<1>1. /\ r \in Result /\ r.vars_vect \in Seq(VarType) /\ n \in Nat
      /\ r.subs_body \in BOOLEAN /\ Len(r.block_vect) \in Nat
      /\ r.heap_pnt \in Int /\ r.heap_memory_max \in Nat
  BY DEF Sound, Result
<1>2. size \in Int /\ elements \in Int BY MemSizeIs DEF Elements
<1>3. q = IF Named(r.vars_vect, name) # NULL THEN Error(r, "object_exist")
          ELSE IF elements > 0 THEN Allocate(added, Len(added.vars_vect)) ELSE added
  BY DEF DeclareVar, Elements
<1> SUFFICES \/ Marks(r, q, "object_exist")
             \/ Declares(r, q, type, size, elements > 0)
  OBVIOUS
<1> HIDE DEF q, elements, size
<1>4. v \in VarType BY <1>1, <1>2 DEF VarType
<1>4b. /\ v.type = type /\ v.mem_size = size /\ v.in_block = Len(r.block_vect)
       /\ v.subs_body = r.subs_body
  OBVIOUS
<1> HIDE DEF v
<1>5. /\ vars \in Seq(VarType) /\ Len(vars) = n + 1 /\ vars[n + 1] = v
      /\ \A k \in 1..n : vars[k] = r.vars_vect[k]
  BY <1>1, <1>4
<1> HIDE DEF vars
<1>6. added \in Result BY <1>1, <1>5 DEF Result, ParseError
<1>7. /\ added.vars_vect = vars /\ added.heap_pnt = r.heap_pnt /\ added.pe = "no_error"
      /\ added.heap_memory_max = r.heap_memory_max /\ added.obj = r.obj
  BY <1>1 DEF Result
<1>8. OnlyVars(r, added) BY <1>1 DEF Result, OnlyVars, SameRoutine, SameBlocks
<1> HIDE DEF added
<1>9. Sound(added) BY <1>6, <1>7, <1>8, OnlyVarsSound
<1>10. CASE Named(r.vars_vect, name) # NULL
  <2>1. "object_exist" \in ParseError BY DEF ParseError
  <2> QED BY <2>1, <1>3, <1>10, ErrorSound
<1>11. CASE Named(r.vars_vect, name) = NULL /\ ~(elements > 0)
  <2>1. q = added BY <1>3, <1>11
  <2>2. Declares(r, added, type, size, FALSE)
    BY <1>4b, <1>5, <1>7, <1>8, <1>9 DEF Declares
  <2> QED BY <2>1, <2>2, <1>11 DEF Declares
<1>12. CASE Named(r.vars_vect, name) = NULL /\ elements > 0
  <2>1. q = Allocate(added, n + 1) BY <1>3, <1>5, <1>7, <1>12
  <2>2. n + 1 \in 1..Len(added.vars_vect) BY <1>1, <1>5, <1>7
  <2>3. Allocates(added, q, n + 1) BY <2>1, <2>2, <1>9, AllocateSound
  <2>4. Sound(q) /\ OnlyVars(r, q) /\ q.pe = "no_error"
    BY <2>3, <1>7, <1>8 DEF Allocates, OnlyVars, SameRoutine, SameBlocks
  <2>5. /\ Len(q.vars_vect) = n + 1
        /\ \A k \in 1..n : q.vars_vect[k] = r.vars_vect[k]
        /\ q.vars_vect[n + 1] = [v EXCEPT !.mem_offs = r.heap_pnt]
        /\ q.heap_pnt = r.heap_pnt + size
        /\ q.heap_memory_max = Greatest(r.heap_memory_max, q.heap_pnt)
    <3>1. /\ Len(q.vars_vect) = n + 1
          /\ \A k \in 1..(n + 1) :
               q.vars_vect[k] = IF k = n + 1 THEN [v EXCEPT !.mem_offs = r.heap_pnt] ELSE vars[k]
      BY <2>3, <1>5, <1>7 DEF Allocates
    <3>2. /\ q.heap_pnt = r.heap_pnt + size
          /\ q.heap_memory_max = Greatest(r.heap_memory_max, q.heap_pnt)
      BY <2>3, <1>4b, <1>5, <1>7 DEF Allocates
    <3>3. \A k \in 1..n : k \in 1..(n + 1) /\ k # n + 1 BY <1>1
    <3>4. n + 1 \in 1..(n + 1) BY <1>1
    <3> QED BY <3>1, <3>2, <3>3, <3>4, <1>5
  <2>6. /\ q.vars_vect[n + 1].type = type /\ q.vars_vect[n + 1].mem_size = size
        /\ q.vars_vect[n + 1].in_block = Len(r.block_vect)
        /\ q.vars_vect[n + 1].subs_body = r.subs_body
        /\ q.vars_vect[n + 1].mem_offs = r.heap_pnt
    BY <2>5, <1>4, <1>4b DEF VarType
  <2> QED BY <2>4, <2>5, <2>6, <1>12 DEF Declares
<1> QED BY <1>10, <1>11, <1>12

(* The last variable gets its size and its place, if it is not too large.    *)
Resizes(r, q, size) ==
  LET n == Len(r.vars_vect)
  IN  /\ Sound(q) /\ OnlyVars(r, q) /\ q.pe = r.pe
      /\ Len(q.vars_vect) = n
      /\ \A k \in 1..(n - 1) : q.vars_vect[k] = r.vars_vect[k]
      /\ q.vars_vect[n].type = r.vars_vect[n].type
      /\ q.vars_vect[n].mem_size = size
      /\ q.vars_vect[n].in_block = r.vars_vect[n].in_block
      /\ q.vars_vect[n].subs_body = r.vars_vect[n].subs_body
      /\ q.vars_vect[n].mem_offs = r.heap_pnt
      /\ q.heap_pnt = r.heap_pnt + size
      /\ q.heap_memory_max = Greatest(r.heap_memory_max, q.heap_pnt)

(* FixArraySize gives the last variable its size and its place.              *)
LEMMA FixArraySizeSound ==
  ASSUME NEW r, Sound(r), Len(r.vars_vect) > 0, NEW array_size \in Int
  PROVE  LET q == FixArraySize(r, Len(r.vars_vect), array_size)
         IN  \/ Marks(r, q, "syntax_invalid")
             \/ Resizes(r, q, MemSize(r.vars_vect[Len(r.vars_vect)].type, array_size))
<1> DEFINE n     == Len(r.vars_vect)
           v     == r.vars_vect[n]
           size  == MemSize(v.type, array_size)
           e     == [v EXCEPT !.elm_count = array_size, !.mem_size = size]
           old   == r.vars_vect
           vars  == [old EXCEPT ![n] = e]
           sized == [r EXCEPT !.vars_vect = vars]
           vars1 == [old EXCEPT ![n].elm_count = array_size]
           vars2 == [vars1 EXCEPT ![n].mem_size = size]
           p     == [r EXCEPT !.vars_vect = vars1]
           q     == FixArraySize(r, n, array_size)
<1>1. /\ r \in Result /\ old \in Seq(VarType) /\ n \in Nat /\ n > 0 /\ old \in [1..n -> VarType]
      /\ r.heap_pnt \in Int /\ r.heap_memory_max \in Nat
  BY DEF Sound, Result
<1>2. v \in VarType /\ v.type \in VarKind
  <2>1. v \in VarType BY <1>1
  <2> QED BY <2>1 DEF VarType
<1>3. size \in Int BY <1>2, MemSizeIs
<1>4. q = IF size > 255 THEN Error(r, "syntax_invalid") ELSE Allocate(sized, n)
  <2>1. vars1[n] = [v EXCEPT !.elm_count = array_size] BY <1>1
  <2>2. vars2 = vars BY <1>1
  <2>3. p.vars_vect = vars1 BY <1>1 DEF Result
  <2>4. [p EXCEPT !.vars_vect[n].mem_size = size] = [p EXCEPT !.vars_vect = vars2]
    <3> HIDE DEF vars1, p
    <3> QED BY <2>3
  <2>5. [p EXCEPT !.vars_vect = vars2] = [r EXCEPT !.vars_vect = vars2]
    <3> HIDE DEF vars1, vars2
    <3> QED BY <1>1 DEF Result
  <2>6. [r EXCEPT !.vars_vect[n].elm_count = array_size, !.vars_vect[n].mem_size = size] = sized
    BY <2>2, <2>4, <2>5
  <2> QED BY <2>6 DEF FixArraySize
<1> SUFFICES \/ Marks(r, q, "syntax_invalid")
             \/ Resizes(r, q, size)
  OBVIOUS
<1> HIDE DEF q, size
<1>5. /\ e \in VarType /\ e.type = v.type /\ e.mem_size = size /\ e.in_block = v.in_block
      /\ e.subs_body = v.subs_body
  BY <1>2, <1>3 DEF VarType
<1> HIDE DEF e
<1>6. vars \in [1..n -> VarType] /\ \A k \in 1..n : vars[k] = IF k = n THEN e ELSE old[k]
  BY <1>1, <1>5
<1> HIDE DEF vars
<1>7. vars \in Seq(VarType) /\ Len(vars) = n BY <1>1, <1>6, SeqFrom
<1>8. sized \in Result BY <1>1, <1>7 DEF Result
<1>9. /\ sized.vars_vect = vars /\ sized.heap_pnt = r.heap_pnt /\ sized.pe = r.pe
      /\ sized.heap_memory_max = r.heap_memory_max /\ sized.obj = r.obj
  BY <1>1 DEF Result
<1>10. OnlyVars(r, sized) BY <1>1 DEF Result, OnlyVars, SameRoutine, SameBlocks
<1> HIDE DEF sized
<1>11. Sound(sized) BY <1>8, <1>9, <1>10, OnlyVarsSound
<1>12. CASE size > 255
  <2>1. "syntax_invalid" \in ParseError BY DEF ParseError
  <2> QED BY <2>1, <1>4, <1>12, ErrorSound
<1>13. CASE ~(size > 255)
  <2>1. n \in 1..Len(sized.vars_vect) BY <1>1, <1>7, <1>9
  <2>2. Allocates(sized, q, n) BY <2>1, <1>4, <1>11, <1>13, AllocateSound
  <2>3. Sound(q) /\ OnlyVars(r, q) /\ q.pe = r.pe
    BY <2>2, <1>9, <1>10 DEF Allocates, OnlyVars, SameRoutine, SameBlocks
  <2>4. vars[n] = e /\ \A k \in 1..(n - 1) : vars[k] = old[k]
    BY <1>1, <1>6
  <2>5. /\ Len(q.vars_vect) = n
        /\ \A k \in 1..n : q.vars_vect[k] = IF k = n THEN [e EXCEPT !.mem_offs = r.heap_pnt] ELSE vars[k]
        /\ q.heap_pnt = r.heap_pnt + size
        /\ q.heap_memory_max = Greatest(r.heap_memory_max, q.heap_pnt)
    BY <2>2, <2>4, <1>5, <1>7, <1>9 DEF Allocates
  <2>6. /\ q.vars_vect[n] = [e EXCEPT !.mem_offs = r.heap_pnt]
        /\ \A k \in 1..(n - 1) : q.vars_vect[k] = old[k]
    BY <2>4, <2>5, <1>1
  <2>7. /\ q.vars_vect[n].type = v.type /\ q.vars_vect[n].mem_size = size
        /\ q.vars_vect[n].in_block = v.in_block /\ q.vars_vect[n].subs_body = v.subs_body
        /\ q.vars_vect[n].mem_offs = r.heap_pnt
    BY <2>6, <1>5 DEF VarType
  <2> QED BY <2>3, <2>5, <2>6, <2>7 DEF Resizes
<1> QED BY <1>12, <1>13

(* The last `count` variables, those of the innermost block, give back their *)
(* bytes one by one; left[k] is the heap pointer behind the k-th.            *)
Returns(r, left, count) ==
  LET n == Len(r.vars_vect)
  IN  /\ count \in 0..n
      /\ left \in [0..n -> Int]
      /\ left[0] = r.heap_pnt
      /\ \A k \in 1..n : left[k] = left[k - 1] - r.vars_vect[n - k + 1].mem_size
      /\ \A i \in (n - count + 1)..n : r.vars_vect[i].in_block = Len(r.block_vect)
      /\ count < n => r.vars_vect[n - count].in_block # Len(r.block_vect)

(* The last variables are gone and the heap pointer is where the first of    *)
(* them was, or an assertion fails.                                          *)
Unregisters(r, q, left, count) ==
  LET n == Len(r.vars_vect)
  IN  /\ Sound(q) /\ OnlyVars(r, q) /\ q.obj = r.obj
      /\ q.heap_memory_max = r.heap_memory_max
      /\ \/ /\ q.pe = "no_error"
            /\ q.heap_pnt = left[count]
            /\ q.vars_vect = SubSeq(r.vars_vect, 1, n - count)
         \/ /\ q.pe = "stack_corrupted"
            /\ \E k \in 1..count : left[k] < 0

(* The heap pointer after each variable that goes.                           *)
LEMMA LeftExists ==
  ASSUME NEW r \in Result
  PROVE  LET n == Len(r.vars_vect)
         IN  \E left : left = [k \in 0..n |-> IF k = 0 THEN r.heap_pnt
                                              ELSE left[k - 1] - r.vars_vect[n - k + 1].mem_size]
<1> DEFINE n == Len(r.vars_vect)
           F == [x \in Int \X (1..n) |-> x[1] - r.vars_vect[n - x[2] + 1].mem_size]
<1>1. r.vars_vect \in Seq(VarType) /\ n \in Nat /\ r.heap_pnt \in Int BY DEF Result
<1>2. \A k \in 1..n : r.vars_vect[n - k + 1].mem_size \in Int
  <2> SUFFICES ASSUME NEW k \in 1..n PROVE r.vars_vect[n - k + 1].mem_size \in Int
    OBVIOUS
  <2>1. r.vars_vect[n - k + 1] \in VarType BY <1>1
  <2> QED BY <2>1 DEF VarType
<1>3. F \in [Int \X (1..n) -> Int] BY <1>2
<1>4. PICK g \in [0..n -> Int] : Follows(g, r.heap_pnt, n, F)
  <2>1. r.heap_pnt \in Int /\ n \in Nat BY <1>1
  <2>2. F \in [Int \X (1..n) -> Int] BY <1>3
  <2> HIDE DEF F, n
  <2> QED BY <2>1, <2>2, RecursionExists, Zenon
<1>5. \A k \in 1..n : g[k] = g[k - 1] - r.vars_vect[n - k + 1].mem_size
  <2> SUFFICES ASSUME NEW k \in 1..n PROVE g[k] = g[k - 1] - r.vars_vect[n - k + 1].mem_size
    OBVIOUS
  <2>1. <<g[k - 1], k>> \in Int \X (1..n) BY <1>1, SMTT(30)
  <2> QED BY <2>1, <1>4 DEF Follows
<1>6. g = [k \in 0..n |-> IF k = 0 THEN r.heap_pnt ELSE g[k - 1] - r.vars_vect[n - k + 1].mem_size]
  <2> HIDE DEF F
  <2> SUFFICES ASSUME NEW k \in 0..n
               PROVE  g[k] = IF k = 0 THEN r.heap_pnt ELSE g[k - 1] - r.vars_vect[n - k + 1].mem_size
    OBVIOUS
  <2>1. k # 0 => k \in 1..n BY <1>1
  <2> QED BY <1>4, <1>5, <2>1 DEF Follows
<1> QED BY <1>6

(* UnregisterLastBlockVars takes the variables of the innermost block        *)
(* (parser_reg.c).                                                           *)
LEMMA UnregisterSound ==
  ASSUME NEW r, Sound(r)
  PROVE  \E left, count : /\ Returns(r, left, count)
                          /\ Unregisters(r, UnregisterLastBlockVars(r), left, count)
<1> DEFINE n       == Len(r.vars_vect)
           size(k) == r.vars_vect[n - k + 1].mem_size
           mine(k) == \A i \in (n - k + 1)..n : r.vars_vect[i].in_block = Len(r.block_vect)
           left    == CHOOSE g : g = [k \in 0..n |-> IF k = 0 THEN r.heap_pnt ELSE g[k - 1] - size(k)]
           count   == Max({k \in 0..n : mine(k)})
           popped  == Max({k \in 0..count : \A j \in 1..k : left[j] >= 0})
           q       == UnregisterLastBlockVars(r)
<1>1. /\ r \in Result /\ r.vars_vect \in Seq(VarType) /\ n \in Nat /\ r.heap_pnt \in Int
      /\ r.heap_memory_max \in Nat
  BY DEF Sound, Result
<1>2. q = IF popped = count
          THEN [r EXCEPT !.pe = "no_error", !.heap_pnt = left[count],
                         !.vars_vect = SubSeq(r.vars_vect, 1, n - count)]
          ELSE [r EXCEPT !.pe = "stack_corrupted", !.heap_pnt = left[popped + 1],
                         !.vars_vect = SubSeq(r.vars_vect, 1, n - popped)]
  BY Zenon DEF UnregisterLastBlockVars
<1> HIDE DEF q
<1>3. left = [k \in 0..n |-> IF k = 0 THEN r.heap_pnt ELSE left[k - 1] - size(k)]
  BY <1>1, LeftExists
<1> HIDE DEF left
<1>4. \A k \in 1..n : size(k) \in Int
  <2> SUFFICES ASSUME NEW k \in 1..n PROVE r.vars_vect[n - k + 1].mem_size \in Int
    OBVIOUS
  <2>1. r.vars_vect[n - k + 1] \in VarType BY <1>1
  <2> QED BY <2>1 DEF VarType
<1>5. left[0] = r.heap_pnt /\ \A k \in 1..n : left[k] = left[k - 1] - size(k)
  <2> HIDE DEF size
  <2>1. left[0] = r.heap_pnt BY <1>1, <1>3
  <2>2. ASSUME NEW k \in 1..n PROVE left[k] = left[k - 1] - size(k)
    <3>1. k \in 0..n /\ k # 0 BY <1>1
    <3> QED BY <3>1, <1>3
  <2> QED BY <2>1, <2>2
<1>6. \A k \in 0..n : left[k] \in Int
  <2>1. \A k \in 1..n : left[k - 1] \in Int => left[k] \in Int
    BY <1>4, <1>5, SMTT(30)
  <2> HIDE DEF n, size
  <2> QED BY <1>1, <1>5, <2>1, UpTo
<1>7. left \in [0..n -> Int]
  <2> HIDE DEF size
  <2>1. DOMAIN left = 0..n /\ left = [k \in DOMAIN left |-> left[k]] BY <1>3
  <2> QED BY <2>1, <1>6
<1>8. /\ count \in 0..n /\ mine(count)
      /\ \A k \in 0..n : mine(k) => k <= count
  <2> DEFINE T == {k \in 0..n : mine(k)}
  <2>1. T \subseteq 0..n /\ 0 \in T BY <1>1
  <2> HIDE DEF T
  <2>2. Max(T) \in T /\ \A y \in T : y <= Max(T) BY <1>1, <2>1, MaxIs
  <2> QED BY <2>2 DEF T
<1>9. count < n => r.vars_vect[n - count].in_block # Len(r.block_vect)
  <2> SUFFICES ASSUME count < n, r.vars_vect[n - count].in_block = Len(r.block_vect)
               PROVE  FALSE
    OBVIOUS
  <2> HIDE DEF count
  <2>1. mine(count + 1)
    <3> SUFFICES ASSUME NEW i \in (n - (count + 1) + 1)..n
                 PROVE  r.vars_vect[i].in_block = Len(r.block_vect)
      OBVIOUS
    <3>2. n \in Nat /\ count \in 0..n BY <1>1, <1>8
    <3>3. i \in Int /\ n - (count + 1) + 1 <= i /\ i <= n BY <3>2
    <3> HIDE DEF n
    <3>1. i = n - count \/ i \in (n - count + 1)..n BY <3>2, <3>3
    <3> QED BY <3>1, <1>8
  <2>2. count + 1 \in 0..n /\ ~(count + 1 <= count) BY <1>1, <1>8
  <2> HIDE DEF mine
  <2> QED BY <2>1, <2>2, <1>8
<1>10. Returns(r, left, count)
  BY <1>5, <1>7, <1>8, <1>9 DEF Returns
<1> HIDE DEF count
<1>11. /\ popped \in 0..count /\ \A j \in 1..popped : left[j] >= 0
       /\ \A k \in 0..count : (\A j \in 1..k : left[j] >= 0) => k <= popped
  <2> DEFINE T == {k \in 0..count : \A j \in 1..k : left[j] >= 0}
  <2>1. T \subseteq 0..count /\ 0 \in T /\ count \in Nat BY <1>8
  <2> HIDE DEF T
  <2>2. Max(T) \in T /\ \A y \in T : y <= Max(T) BY <2>1, MaxIs
  <2> QED BY <2>2 DEF T
<1> HIDE DEF popped
<1>12. \A m \in 0..n : SubSeq(r.vars_vect, 1, m) \in Seq(VarType)
  BY <1>1
<1>13. CASE popped = count
  <2> DEFINE pnt  == left[count]
             vars == SubSeq(r.vars_vect, 1, n - count)
  <2>1. pnt \in Int /\ vars \in Seq(VarType) BY <1>1, <1>6, <1>8, <1>12
  <2>2. q = [r EXCEPT !.pe = "no_error", !.heap_pnt = pnt, !.vars_vect = vars]
    BY <1>2, <1>13
  <2> HIDE DEF pnt, vars
  <2>3. q \in Result BY <1>1, <2>1, <2>2 DEF Result, ParseError
  <2>4. /\ q.pe = "no_error" /\ q.heap_pnt = pnt /\ q.vars_vect = vars /\ q.obj = r.obj
        /\ q.heap_memory_max = r.heap_memory_max
    BY <1>1, <2>2 DEF Result
  <2>5. OnlyVars(r, q) BY <1>1, <2>2 DEF Result, OnlyVars, SameRoutine, SameBlocks
  <2>6. Sound(q) BY <2>3, <2>4, <2>5, OnlyVarsSound
  <2>7. Unregisters(r, q, left, count) BY <2>4, <2>5, <2>6 DEF Unregisters, pnt, vars
  <2> QED BY <2>7, <1>10 DEF q
<1>14. CASE popped # count
  <2> DEFINE pnt  == left[popped + 1]
             vars == SubSeq(r.vars_vect, 1, n - popped)
  <2>0. popped + 1 \in 1..count BY <1>8, <1>11, <1>14
  <2>1. pnt \in Int /\ vars \in Seq(VarType) BY <2>0, <1>1, <1>6, <1>8, <1>11, <1>12
  <2>2. q = [r EXCEPT !.pe = "stack_corrupted", !.heap_pnt = pnt, !.vars_vect = vars]
    BY <1>2, <1>14
  <2>8. \E k \in 1..count : left[k] < 0
    <3> SUFFICES ASSUME \A k \in 1..count : ~(left[k] < 0) PROVE FALSE
      OBVIOUS
    <3>1. \A k \in 1..count : left[k] >= 0 BY <1>6, <1>8
    <3>2. count <= popped BY <3>1, <1>8, <1>11
    <3> QED BY <3>2, <2>0, <1>8, <1>11
  <2> HIDE DEF pnt, vars
  <2>3. q \in Result BY <1>1, <2>1, <2>2 DEF Result, ParseError
  <2>4. /\ q.pe = "stack_corrupted" /\ q.obj = r.obj
        /\ q.heap_memory_max = r.heap_memory_max
    BY <1>1, <2>2 DEF Result
  <2>5. OnlyVars(r, q) BY <1>1, <2>2 DEF Result, OnlyVars, SameRoutine, SameBlocks
  <2>6. Sound(q) BY <2>3, <2>4, <2>5, OnlyVarsSound
  <2>7. Unregisters(r, q, left, count) BY <2>4, <2>5, <2>6, <2>8 DEF Unregisters
  <2> QED BY <2>7, <1>10 DEF q
<1> QED BY <1>13, <1>14

-----------------------------------------------------------------------------
(* What a variable's fields are.                                             *)
LEMMA VarIs ==
  ASSUME NEW r, Sound(r), NEW i \in 1..Len(r.vars_vect)
  PROVE  /\ r.vars_vect[i] \in VarType
         /\ r.vars_vect[i].type \in VarKind /\ r.vars_vect[i].subs_body \in BOOLEAN
         /\ r.vars_vect[i].mem_offs \in Int /\ r.vars_vect[i].mem_size \in Int
         /\ r.vars_vect[i].in_block \in Nat
<1>1. r.vars_vect \in Seq(VarType) BY DEF Sound, Result
<1>2. r.vars_vect[i] \in VarType BY <1>1
<1> QED BY <1>2 DEF VarType

(* VmOp_PopVar puts one instruction.                                         *)
LEMMA PopVarSound ==
  ASSUME NEW r, Sound(r), NEW i \in 1..Len(r.vars_vect), NEW is_object \in BOOLEAN
  PROVE  Appends(r, VmOp_PopVar(r, i, is_object))
<1> DEFINE v  == r.vars_vect[i]
           op == CASE v.type = "vt_generic"          -> "POP_VAR"
                   [] v.type = "vt_array_of_byte"    -> IF is_object THEN "COPY_TO_bARRAY"
                                                        ELSE "POP_bARRAY_BY_IDX"
                   [] v.type = "vt_array_of_generic" -> IF is_object THEN "COPY_TO_gARRAY"
                                                        ELSE "POP_gARRAY_BY_IDX"
<1>1. v.type \in VarKind /\ v.subs_body \in BOOLEAN /\ v.mem_offs \in Int BY VarIs
<1>2. op \in {"POP_VAR", "COPY_TO_bARRAY", "POP_bARRAY_BY_IDX", "COPY_TO_gARRAY", "POP_gARRAY_BY_IDX"}
  BY <1>1 DEF VarKind
<1>3. VmOp_PopVar(r, i, is_object) = code_op(r, op, v.subs_body, v.mem_offs, 0)
  BY DEF VmOp_PopVar
<1> HIDE DEF op, v
<1>4. op \in Op BY <1>2 DEF Op, WordOps
<1>5. 0 \in Int OBVIOUS
<1> QED BY <1>1, <1>3, <1>4, <1>5, CodeOpSound, Zenon

(* A variable is pushed, or found unknown.                                   *)
LEMMA PushVarSound ==
  ASSUME NEW r, Sound(r), NEW x
  PROVE  Emits(r, PushVar(r, x))
<1> DEFINE i == Named(r.vars_vect, x)
           v == r.vars_vect[i]
           q == PushVar(r, x)
<1>1. r.vars_vect \in Seq(VarType) BY DEF Sound, Result
<1>2. i \in 0..Len(r.vars_vect) BY <1>1, NamedIs
<1>3. q = IF i = NULL THEN Error(r, "object_unknown")
          ELSE IF IsArray(v) THEN Error(r, "expression_invalid")
          ELSE code_op(r, "PUSH_VAR", v.subs_body, v.mem_offs, 0)
  BY DEF PushVar
<1> SUFFICES Emits(r, q)
  OBVIOUS
<1>4. {"object_unknown", "expression_invalid"} \subseteq ParseError BY DEF ParseError
<1>5. i # NULL => i \in 1..Len(r.vars_vect) BY <1>1, <1>2 DEF NULL
<1>6. i # NULL => v.subs_body \in BOOLEAN /\ v.mem_offs \in Int BY <1>5, VarIs
<1>7. "PUSH_VAR" \in Op /\ 0 \in Int BY DEF Op, WordOps
<1> HIDE DEF q, i, v
<1>8. CASE i = NULL
  <2>1. q = Error(r, "object_unknown") BY <1>3, <1>8
  <2>2. "object_unknown" \in ParseError BY <1>4
  <2> QED BY <2>1, <2>2, ErrorSound DEF Marks
<1>9. CASE i # NULL /\ IsArray(v)
  <2>1. q = Error(r, "expression_invalid") BY <1>3, <1>9
  <2>2. "expression_invalid" \in ParseError BY <1>4
  <2> QED BY <2>1, <2>2, ErrorSound DEF Marks
<1>10. CASE i # NULL /\ ~IsArray(v)
  <2>1. Appends(r, code_op(r, "PUSH_VAR", v.subs_body, v.mem_offs, 0))
    BY <1>6, <1>7, <1>10, CodeOpSound, Zenon
  <2> QED BY <2>1, <1>3, <1>10 DEF Appends
<1> QED BY <1>8, <1>9, <1>10

(* A number is pushed.                                                       *)
LEMMA NumberSound ==
  ASSUME NEW r, Sound(r) PROVE Appends(r, VmOp_ArgNum(r))
<1>1. "PUSH_NUM" \in Op /\ FALSE \in BOOLEAN /\ FptOne \in Int /\ 0 \in Int BY DEF Op, FptOne
<1> QED BY <1>1, CodeOpSound, Zenon DEF VmOp_ArgNum

(* An argument is evaluated onto the stack.                                  *)
LEMMA ArgumentSound ==
  ASSUME NEW r, Sound(r), NEW e
  PROVE  Emits(r, Argument(r, e))
<1>1. CASE ~Ok(r)
  BY <1>1, EmitsNothing DEF Argument
<1>2. CASE Ok(r) /\ e = "number"
  BY <1>2, NumberSound DEF Argument, Appends
<1>3. CASE Ok(r) /\ e # "number"
  BY <1>3, PushVarSound DEF Argument
<1> QED BY <1>1, <1>2, <1>3

(* All arguments of a call are, one after the other.                         *)
Pushes(g, r, args) ==
  LET n == Len(args)
  IN  /\ g[0] = r /\ g[n] = Pushed(r, args)
      /\ \A k \in 1..n : g[k] = Argument(g[k - 1], args[k])
      /\ \A k \in 0..n : Emits(r, g[k])

(* There is such a row: what Pushed folds, step by step.                     *)
LEMMA PushedIs ==
  ASSUME NEW r, Sound(r), NEW args, Len(args) \in Nat
  PROVE  \E g : Pushes(g, r, args)
<1> DEFINE S == {q \in Result : Emits(r, q)}
           n == Len(args)
           F == [x \in S \X (1..n) |-> Argument(x[1], args[x[2]])]
           after == CHOOSE g : g = [k \in 0..n |-> IF k = 0 THEN r ELSE Argument(g[k - 1], args[k])]
<1>1. r \in S BY EmitsNothing DEF Sound
<1>2. ASSUME NEW q \in S, NEW e PROVE Argument(q, e) \in S
  <2>1. Emits(r, q) /\ Sound(q) BY DEF Emits
  <2>2. Emits(q, Argument(q, e)) BY <2>1, ArgumentSound
  <2>3. Emits(r, Argument(q, e)) BY <2>1, <2>2, EmitsTrans
  <2> QED BY <2>2, <2>3 DEF Emits, Sound
<1>3. F \in [S \X (1..n) -> S]
  <2> HIDE DEF S
  <2> QED BY <1>2
<1> HIDE DEF S
<1>4. PICK g \in [0..n -> S] : Follows(g, r, n, F)
  <2> HIDE DEF F
  <2> QED BY <1>1, <1>3, RecursionExists, Zenon
<1>5. g = [k \in 0..n |-> IF k = 0 THEN r ELSE Argument(g[k - 1], args[k])]
  <2> SUFFICES ASSUME NEW k \in 0..n
               PROVE  g[k] = IF k = 0 THEN r ELSE Argument(g[k - 1], args[k])
    OBVIOUS
  <2>1. CASE k = 0 BY <2>1, <1>4 DEF Follows
  <2>2. CASE k # 0
    <3>1. k \in 1..n /\ k - 1 \in 0..n BY <2>2
    <3>2. g[k] = F[<<g[k - 1], k>>] BY <3>1, <1>4 DEF Follows
    <3>3. <<g[k - 1], k>> \in S \X (1..n) BY <3>1
    <3> QED BY <2>2, <3>2, <3>3
  <2> QED BY <2>1, <2>2
<1>6. after = [k \in 0..n |-> IF k = 0 THEN r ELSE Argument(after[k - 1], args[k])]
  <2> HIDE DEF n
  <2> QED BY <1>5
<1>7. Pushed(r, args) = after[n] BY Zenon DEF Pushed
<1> HIDE DEF after
<1>8. after[0] \in S BY <1>1, <1>6
<1>9. \A k \in 1..n : after[k - 1] \in S => after[k] \in S
  <2> SUFFICES ASSUME NEW k \in 1..n, after[k - 1] \in S PROVE after[k] \in S
    OBVIOUS
  <2>1. k \in 0..n /\ k # 0 OBVIOUS
  <2>2. after[k] = Argument(after[k - 1], args[k]) BY <2>1, <1>6
  <2> QED BY <2>2, <1>2
<1>10. \A k \in 0..n : after[k] \in S
  <2> HIDE DEF n
  <2>1. n \in Nat BY DEF n
  <2> QED BY <2>1, <1>8, <1>9, UpTo
<1>11. \A k \in 1..n : after[k] = Argument(after[k - 1], args[k]) BY <1>6
<1> QED BY <1>6, <1>7, <1>10, <1>11 DEF S, Pushes

(* So the arguments emit code, and nothing else changes.                     *)
LEMMA PushedSound ==
  ASSUME NEW r, Sound(r), NEW args, Len(args) \in Nat
  PROVE  Emits(r, Pushed(r, args))
<1>1. PICK g : Pushes(g, r, args) BY PushedIs
<1> QED BY <1>1 DEF Pushes
=============================================================================
