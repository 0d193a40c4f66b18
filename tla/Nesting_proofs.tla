--------------------------- MODULE Nesting_proofs ---------------------------
(***************************************************************************)
(* The compiler and the outline of its source: type correctness for every  *)
(* source, and for a source whose braces are in order the implementation   *)
(* of Scopes.  The invariant relates the compiler's stack of blocks to the *)
(* blocks the source has open, which the outline knows from counting       *)
(* braces.                                                                 *)
(***************************************************************************)
EXTENDS Places_proofs, FiniteSetTheorems

-----------------------------------------------------------------------------
(* The compiler is sound.                                                    *)

(* The compiler begins sound.                                                *)
LEMMA InitSound == Init => Sound(result)
<1> SUFFICES ASSUME Init PROVE Sound(result)
  OBVIOUS
<1>1. result \in Result
  <2>1. "no_error" \in ParseError BY DEF ParseError
  <2>2. [area \in BOOLEAN |-> [size |-> 0, code |-> <<>>]] \in [BOOLEAN -> PartType]
    <3>1. <<>> \in Seq(CodeType) BY EmptyIsSeq, Zenon
    <3> QED BY <3>1 DEF PartType
  <2>3. /\ <<>> \in Seq(BlockType) /\ <<>> \in Seq(LabelType)
        /\ <<>> \in Seq(VarType) /\ <<>> \in Seq(FuncType)
    BY EmptyIsSeq, Zenon
  <2> QED BY <2>1, <2>2, <2>3 DEF Init, Result, NULL
<1>2. /\ result.block_vect = <<>> /\ result.labels_vect = <<>>
      /\ result.func_info = 0 /\ result.subs_body = FALSE
      /\ \A a \in BOOLEAN : result.obj[a].code = <<>>
      /\ result.funcs_vect = <<>>
  BY DEF Init, NULL
<1> QED BY <1>1, <1>2 DEF Sound, BlockRefs, LabelRefs, CodeRefs, RoutineRefs, NULL

(* Every line keeps it so.                                                   *)
LEMMA StatementSound == Sound(result) /\ Statement => Sound(result')
<1> SUFFICES ASSUME Sound(result), Statement PROVE Sound(result')
  OBVIOUS
<1>1. ASSUME NEW name \in LabelNames, Label(name) PROVE Sound(result')
  BY <1>1, LabelLine DEF Label, Reads, Steady, Stays
<1>2. ASSUME NEW name \in LabelNames, Goto(name) PROVE Sound(result')
  BY <1>2, GotoLine DEF Goto, Reads, Steady, Stays
<1>3. ASSUME NEW name \in VarNames, NEW d \in Declarations, NEW e \in Expressions \cup {"none"},
             Declare(name, d, e)
      PROVE  Sound(result')
  BY <1>3, DeclareLine DEF Declare, Reads, Stays
<1>4. ASSUME NEW name \in VarNames, NEW e \in Expressions, Assign(name, e) PROVE Sound(result')
  BY <1>4, AssignLine DEF Assign, Reads, Steady, Stays
<1>5. ASSUME NEW e \in Conditions, NEW junk \in BOOLEAN, If(e, junk) PROVE Sound(result')
  BY <1>5, IfLine DEF If, Reads, Keeps, Conditions
<1>6. ASSUME NEW e \in Conditions, NEW junk \in BOOLEAN, Close("else_if", e, junk) PROVE Sound(result')
  <2> DEFINE behind == "else_if"
             s == BLOCK_END(Line, behind # "nothing")
  <2>1. behind = "else_if" => e \in Expressions BY DEF Conditions
  <2>2. result' = BehindBrace(s, behind, e, junk) BY <1>6 DEF Close, Reads
  <2> HIDE DEF behind
  <2>3. Keeps(s, BehindBrace(s, behind, e, junk)) BY <2>1, CloseLine
  <2> QED BY <2>2, <2>3 DEF Keeps
<1>7. ASSUME NEW e \in Conditions, While(e) PROVE Sound(result')
  BY <1>7, WhileLine DEF While, Reads, Keeps, Conditions
<1>8. ASSUME NEW e \in Conditions, Return(e) PROVE Sound(result')
  BY <1>8, ReturnLine DEF Return, Reads, Steady, Stays, Conditions
<1>9. ASSUME NEW behind \in Behinds \ {"else_if"}, Close(behind, "none", FALSE) PROVE Sound(result')
  <2>1. FALSE \in BOOLEAN OBVIOUS
  <2> QED BY <1>9, <2>1, CloseLine DEF Close, Reads, Keeps
<1>10. ASSUME NEW name \in FuncNames, NEW params \in ParamLists, Func(name, params) PROVE Sound(result')
  BY <1>10, FuncLine DEF Func, Reads
<1>11. ASSUME NEW name \in FuncNames, NEW args \in ArgLists, Call(name, args) PROVE Sound(result')
  BY <1>11, CallLine DEF Call, Reads, Steady, Stays
<1>12. ASSUME NEW parts \in PrintLists, PRINT(parts) PROVE Sound(result')
  BY <1>12, PrintLine DEF PRINT, Reads, Steady, Stays
<1>13. CASE Open BY <1>13, OpenLine DEF Open, Reads, Keeps
<1>14. CASE Break BY <1>14, BreakLine DEF Break, Reads, Steady, Stays
<1>15. CASE Brkpnt BY <1>15, BrkpntLine DEF Brkpnt, Reads, Steady, Stays
<1>16. CASE Stop BY <1>16, StopLine DEF Stop, Reads, Steady, Stays
<1> QED BY <1>1, <1>2, <1>3, <1>4, <1>5, <1>6, <1>7, <1>8, <1>9, <1>10, <1>11, <1>12, <1>13,
           <1>14, <1>15, <1>16 DEF Statement

(* The end of the source changes blocks, variables and routines as little as *)
(* code does.                                                                *)
LEMMA EndSound == ASSUME Sound(result) PROVE Steady(result, VmOp_End(result))
<1>1. "END" \in Op /\ FALSE \in BOOLEAN /\ 0 \in Int BY DEF Op, PlainOps
<1>2. Appends(result, code_op(result, "END", FALSE, 0, 0)) BY <1>1, CodeOpSound, Zenon
<1> QED BY <1>2, EmitsSteady DEF Appends, VmOp_End

(* The inductive invariant of type correctness.                              *)
SoundInv == Sound(result)

(* Every step keeps the compiler sound.                                      *)
LEMMA StepSound == SoundInv /\ [LNext]_lvars => SoundInv'
<1> SUFFICES ASSUME SoundInv, [LNext]_lvars PROVE Sound(result')
  BY DEF SoundInv
<1>1. CASE UNCHANGED lvars BY <1>1 DEF lvars, SoundInv
<1>2. CASE EndOfFile
  BY <1>2, EndSound DEF EndOfFile, Steady, Stays, SoundInv
<1>3. CASE Statement BY <1>3, StatementSound DEF SoundInv
<1> QED BY <1>1, <1>2, <1>3 DEF LNext

(* That is more than TypeOK asks.                                            *)
LEMMA SoundTypes == SoundInv => TypeOK
<1> SUFFICES ASSUME Sound(result) PROVE TypeOK
  BY DEF SoundInv
<1>1. /\ result \in Result
      /\ BlockRefs(result) /\ LabelRefs(result) /\ CodeRefs(result) /\ RoutineRefs(result)
  BY DEF Sound
<1>2. /\ result.block_vect \in Seq(BlockType) /\ result.labels_vect \in Seq(LabelType)
      /\ result.funcs_vect \in Seq(FuncType) /\ result.obj \in [BOOLEAN -> PartType]
      /\ result.func_info \in Nat
      /\ result.heap_memory_max \in Nat /\ result.heap_memory_max_funcs \in Nat
  BY <1>1, ResultFields
<1>3. /\ Len(result.labels_vect) \in Nat /\ Len(result.funcs_vect) \in Nat
      /\ result.func_info \in 0..Len(result.funcs_vect)
  BY <1>1, <1>2 DEF RoutineRefs
<1>4. \A b \in Range(result.block_vect) :
        {b.label_begin.label, b.label_end.label} \subseteq 0..Len(result.labels_vect)
  <2> SUFFICES ASSUME NEW i \in DOMAIN result.block_vect
               PROVE  {result.block_vect[i].label_begin.label, result.block_vect[i].label_end.label}
                        \subseteq 0..Len(result.labels_vect)
    BY DEF Range
  <2>1. i \in 1..Len(result.block_vect) BY <1>2
  <2>2. /\ result.block_vect[i].label_begin \in Pointer
        /\ result.block_vect[i].label_end \in Pointer
    BY <2>1, BlockIs
  <2> QED BY <1>1, <1>3, <2>1, <2>2 DEF BlockRefs, Pointer
<1>5. \A l \in Range(result.labels_vect) :
        /\ Len(l.jmps) <= LINKS_BY_LABEL_MAX
        /\ \A n \in Range(l.jmps) : n < result.obj[TRUE].size \/ n < result.obj[FALSE].size
        /\ l.func_info \in 0..Len(result.funcs_vect)
  <2> SUFFICES ASSUME NEW i \in DOMAIN result.labels_vect, NEW l, l = result.labels_vect[i]
               PROVE  /\ Len(l.jmps) <= LINKS_BY_LABEL_MAX
                      /\ \A n \in Range(l.jmps) :
                           n < result.obj[TRUE].size \/ n < result.obj[FALSE].size
                      /\ l.func_info \in 0..Len(result.funcs_vect)
    BY DEF Range
  <2>1. i \in 1..Len(result.labels_vect) BY <1>2
  <2>2. l \in LabelType BY <1>2, <2>1
  <2>3. l.jmps \in Seq(Nat) /\ l.func_info \in Nat BY <2>2 DEF LabelType
  <2>4. /\ Len(l.jmps) <= LINKS_BY_LABEL_MAX
        /\ \A n \in 1..Len(l.jmps) : \E a \in BOOLEAN : l.jmps[n] < result.obj[a].size
        /\ l.func_info <= Len(result.funcs_vect)
    BY <1>1, <2>1 DEF LabelRefs
  <2>5. \A n \in Range(l.jmps) : n < result.obj[TRUE].size \/ n < result.obj[FALSE].size
    <3> SUFFICES ASSUME NEW n \in DOMAIN l.jmps
                 PROVE  l.jmps[n] < result.obj[TRUE].size \/ l.jmps[n] < result.obj[FALSE].size
      BY DEF Range
    <3>1. n \in 1..Len(l.jmps) BY <2>3
    <3>2. PICK a \in BOOLEAN : l.jmps[n] < result.obj[a].size BY <2>4, <3>1
    <3>3. a = TRUE \/ a = FALSE OBVIOUS
    <3> QED BY <3>2, <3>3
  <2>6. l.func_info \in 0..Len(result.funcs_vect) BY <1>3, <2>3, <2>4
  <2>7. Len(l.jmps) <= LINKS_BY_LABEL_MAX BY <2>4
  <2> HIDE DEF Range
  <2> QED BY <2>5, <2>6, <2>7, Zenon
<1>6. \A a \in BOOLEAN : \A c \in Range(result.obj[a].code) : c.at < result.obj[a].size
  <2> SUFFICES ASSUME NEW a \in BOOLEAN, NEW i \in DOMAIN result.obj[a].code
               PROVE  result.obj[a].code[i].at < result.obj[a].size
    BY DEF Range
  <2>1. result.obj[a] \in PartType BY <1>2
  <2>2. i \in 1..Len(result.obj[a].code) BY <2>1 DEF PartType
  <2> QED BY <1>1, <2>2 DEF CodeRefs
<1> QED BY <1>2, <1>3, <1>4, <1>5, <1>6 DEF TypeOK

(* Whatever the source, the compiler's vectors and numbers are of the right  *)
(* form and refer to what exists (parser_gen.c, parser_reg.c, vm_code.c).    *)
THEOREM CompilerTyped == LSpec => []TypeOK
<1>1. LInit => SoundInv BY InitSound DEF LInit, SoundInv
<1> QED BY <1>1, StepSound, SoundTypes, PTL DEF LSpec

-----------------------------------------------------------------------------
(* The outline of a source that grows.                                       *)

(* The source is a sequence of lines, whatever they are.                     *)
IsSource == \E S : source \in Seq(S)

(* The line opens a block.                                                   *)
OpensLine(l) ==
  \/ l.kind \in {"If", "While", "Open", "Func"}
  \/ l.kind = "Close" /\ l.behind \in {"else", "else_if"}

(* One line more leaves the others as they are.                              *)
LEMMA SourceGrows ==
  ASSUME IsSource, NEW l, source' = Append(source, l)
  PROVE  /\ Len(source) \in Nat /\ Len(source') = Len(source) + 1
         /\ DOMAIN source = 1..Len(source) /\ DOMAIN source' = 1..(Len(source) + 1)
         /\ \A k \in 1..Len(source) : source'[k] = source[k]
         /\ source'[Len(source) + 1] = l
         /\ IsSource'
<1>1. PICK S : source \in Seq(S) BY DEF IsSource
<1>2. source \in Seq(S \cup {l})
  <2>1. /\ Len(source) \in Nat /\ DOMAIN source = 1..Len(source)
        /\ \A k \in 1..Len(source) : source[k] \in S
    BY <1>1
  <2>2. source \in [1..Len(source) -> S] BY <1>1
  <2>3. source \in [1..Len(source) -> S \cup {l}] BY <2>2
  <2> QED BY <2>1, <2>3, SeqDef, Zenon
<1>3. l \in S \cup {l} OBVIOUS
<1>4. Append(source, l) \in Seq(S \cup {l}) BY <1>2, <1>3
<1>5. IsSource' BY <1>4 DEF IsSource
<1> HIDE DEF IsSource
<1> QED BY <1>2, <1>3, <1>4, <1>5

(* The lines that open and those that close, by what is on them.             *)
LEMMA OpeningIs ==
  ASSUME IsSource
  PROVE  /\ Opening = {k \in 1..Len(source) : OpensLine(source[k])}
         /\ Closing = {k \in 1..Len(source) : source[k].kind = "Close"}
<1>1. DOMAIN source = 1..Len(source) BY DEF IsSource
<1> QED BY <1>1 DEF Opening, Closing, Branching, Of, Kind, Lines, OpensLine

(* One line more: what opens and closes blocks, and the level behind it.     *)
LEMMA OpeningGrows ==
  ASSUME IsSource, NEW l, source' = Append(source, l)
  PROVE  LET N == Len(source) + 1
         IN  /\ Opening' = Opening \cup {k \in {N} : OpensLine(l)}
             /\ Closing' = Closing \cup {k \in {N} : l.kind = "Close"}
             /\ Opening \subseteq 1..Len(source) /\ Closing \subseteq 1..Len(source)
<1> DEFINE N == Len(source) + 1
<1>1. /\ Len(source) \in Nat /\ DOMAIN source = 1..Len(source) /\ DOMAIN source' = 1..N
      /\ \A k \in 1..Len(source) : source'[k] = source[k]
      /\ source'[N] = l
  BY SourceGrows
<1>2. 1..N = (1..Len(source)) \cup {N} /\ N \notin 1..Len(source) BY <1>1
<1>3. Opening = {k \in 1..Len(source) : OpensLine(source[k])} /\
      Closing = {k \in 1..Len(source) : source[k].kind = "Close"}
  BY OpeningIs
<1>4. Opening' = {k \in 1..N : OpensLine(source'[k])} /\
      Closing' = {k \in 1..N : source'[k].kind = "Close"}
  BY <1>1 DEF Opening, Closing, Branching, Of, Kind, Lines, OpensLine
<1> HIDE DEF N
<1>5. Opening' = Opening \cup {k \in {N} : OpensLine(l)} BY <1>1, <1>2, <1>3, <1>4
<1>6. Closing' = Closing \cup {k \in {N} : l.kind = "Close"} BY <1>1, <1>2, <1>3, <1>4
<1>7. Opening \subseteq 1..Len(source) /\ Closing \subseteq 1..Len(source) BY <1>3
<1> QED BY <1>5, <1>6, <1>7 DEF N

(* How many elements up to k a set of line numbers has.                      *)
LEMMA CountUpTo ==
  ASSUME NEW n \in Nat, NEW S, S \subseteq 1..n, NEW k \in Int
  PROVE  /\ IsFiniteSet({o \in S : o <= k}) /\ Cardinality({o \in S : o <= k}) \in Nat
         /\ IsFiniteSet(S) /\ Cardinality(S) \in Nat
<1>1. IsFiniteSet(1..n) BY FS_Interval
<1>2. IsFiniteSet(S) BY <1>1, FS_Subset
<1>3. IsFiniteSet({o \in S : o <= k})
  <2>1. {o \in S : o <= k} \in SUBSET S OBVIOUS
  <2> QED BY <1>2, <2>1, FS_Subset
<1> QED BY <1>2, <1>3, FS_CardinalityType

(* A line opens or closes one block, or none.                                *)
Count(b) == IF b THEN 1 ELSE 0
(* One more is counted behind line n + 1, and nothing before it.             *)
CountsOnly(n, S, T, b) ==
  /\ \A k \in 0..n : {o \in T : o <= k} = {o \in S : o <= k}
  /\ Cardinality({o \in T : o <= n + 1}) = Cardinality({o \in S : o <= n}) + Count(b)

(* It is so for a set that grows by that line.                               *)
LEMMA CountGrows ==
  ASSUME NEW n \in Nat, NEW S, S \subseteq 1..n, NEW b \in BOOLEAN,
         NEW T, T = S \cup {k \in {n + 1} : b}
  PROVE  CountsOnly(n, S, T, b)
<1>1. \A k \in 0..n : {o \in T : o <= k} = {o \in S : o <= k} OBVIOUS
<1>2. {o \in S : o <= n} = S /\ {o \in T : o <= n + 1} = T
  <2>1. (\A o \in S : o <= n) /\ (\A o \in T : o <= n + 1) OBVIOUS
  <2> QED BY <2>1, Zenon
<1>3. IsFiniteSet(S) /\ Cardinality(S) \in Nat
  <2>1. n \in Int OBVIOUS
  <2> QED BY <2>1, CountUpTo
<1>4. CASE b
  <2>1. T = S \cup {n + 1} /\ n + 1 \notin S BY <1>4
  <2>2. Cardinality(T) = Cardinality(S) + 1 BY <1>3, <2>1, FS_AddElement
  <2> QED BY <1>1, <1>2, <1>4, <2>2 DEF Count, CountsOnly
<1>5. CASE ~b
  <2>1. T = S BY <1>5
  <2> QED BY <1>1, <1>2, <1>3, <1>5, <2>1 DEF Count, CountsOnly
<1> QED BY <1>4, <1>5

(* The level behind the new line, and before it.                             *)
LEMMA LevelGrows ==
  ASSUME IsSource, NEW l, source' = Append(source, l), NEW CONSTANT n \in Nat, n = Len(source)
  PROVE  /\ \A k \in 0..n : Level(k) \in Int /\ Level(k)' = Level(k)
         /\ Level(n + 1)' = Level(n) + Count(OpensLine(l)) - Count(l.kind = "Close")
<1>1. /\ n \in Nat
      /\ Opening' = Opening \cup {k \in {n + 1} : OpensLine(l)}
      /\ Closing' = Closing \cup {k \in {n + 1} : l.kind = "Close"}
      /\ Opening \subseteq 1..n /\ Closing \subseteq 1..n
  BY SourceGrows, OpeningGrows
<1>2. OpensLine(l) \in BOOLEAN /\ (l.kind = "Close") \in BOOLEAN BY DEF OpensLine
<1>3. PICK b, c \in BOOLEAN : (b <=> OpensLine(l)) /\ (c <=> l.kind = "Close")
  BY <1>2
<1>4. /\ Opening' = Opening \cup {k \in {n + 1} : b}
      /\ Closing' = Closing \cup {k \in {n + 1} : c}
      /\ Count(OpensLine(l)) = Count(b) /\ Count(l.kind = "Close") = Count(c)
  BY <1>1, <1>3 DEF Count
<1>5. CountsOnly(n, Opening, Opening', b)
  BY <1>1, <1>3, <1>4, CountGrows, Zenon
<1>6. CountsOnly(n, Closing, Closing', c)
  BY <1>1, <1>3, <1>4, CountGrows, Zenon
<1>7. \A k \in 0..n : Cardinality({o \in Opening : o <= k}) \in Nat /\ Cardinality({o \in Closing : o <= k}) \in Nat
  <2> SUFFICES ASSUME NEW k \in 0..n
               PROVE  Cardinality({o \in Opening : o <= k}) \in Nat /\ Cardinality({o \in Closing : o <= k}) \in Nat
    OBVIOUS
  <2>1. k \in Int BY <1>1
  <2> QED BY <1>1, <2>1, CountUpTo
<1>8. \A k \in 0..n : Level(k) \in Int /\ Level(k)' = Level(k)
  <2> SUFFICES ASSUME NEW k \in 0..n PROVE Level(k) \in Int /\ Level(k)' = Level(k)
    OBVIOUS
  <2>1. Level(k)' = Cardinality({o \in Opening' : o <= k}) - Cardinality({c1 \in Closing' : c1 <= k})
    BY DEF Level
  <2>2. /\ {o \in Opening' : o <= k} = {o \in Opening : o <= k}
        /\ {c1 \in Closing' : c1 <= k} = {c1 \in Closing : c1 <= k}
    BY <1>5, <1>6, Zenon DEF CountsOnly
  <2>3. Cardinality({o \in Opening : o <= k}) \in Nat /\ Cardinality({c1 \in Closing : c1 <= k}) \in Nat
    BY <1>7
  <2>4. Level(k) = Cardinality({o \in Opening : o <= k}) - Cardinality({c1 \in Closing : c1 <= k})
    BY DEF Level
  <2>5. Level(k)' = Level(k) BY <2>1, <2>2, <2>4, Zenon
  <2>6. Level(k) \in Int BY <2>3, <2>4
  <2> QED BY <2>5, <2>6
<1>9. Level(n + 1)' = Level(n) + Count(OpensLine(l)) - Count(l.kind = "Close")
  <2>1. n \in 0..n BY <1>1
  <2>2. Count(b) \in Nat /\ Count(c) \in Nat BY DEF Count
  <2>3. Level(n + 1)' = Cardinality({o \in Opening' : o <= n + 1}) - Cardinality({k \in Closing' : k <= n + 1})
    BY DEF Level
  <2>4. Level(n) = Cardinality({o \in Opening : o <= n}) - Cardinality({k \in Closing : k <= n})
    BY DEF Level
  <2>5. /\ Cardinality({o \in Opening' : o <= n + 1}) = Cardinality({o \in Opening : o <= n}) + Count(b)
        /\ Cardinality({k \in Closing' : k <= n + 1}) = Cardinality({k \in Closing : k <= n}) + Count(c)
    BY <1>5, <1>6, Zenon DEF CountsOnly
  <2>6. Cardinality({o \in Opening : o <= n}) \in Nat /\ Cardinality({k \in Closing : k <= n}) \in Nat
    BY <1>7, <2>1
  <2> QED BY <1>4, <2>2, <2>3, <2>4, <2>5, <2>6
<1> QED BY <1>8, <1>9

(* Around every line each open block has a line that opened it.              *)
OutlineInv ==
  /\ IsSource
  /\ \A k \in 0..Len(source) : \A m \in 1..Level(k) : \E o \in Opening : o <= k /\ Level(o) = m

(* What line k closes or follows: the last line that opened that level.      *)
LEMMA OpenerGrows ==
  ASSUME OutlineInv, NEW l, source' = Append(source, l), NEW CONSTANT n \in Nat, n = Len(source),
         NEW CONSTANT k \in 1..(n + 1), Level(k - 1) >= 1
  PROVE  \E o \in Opening :
           /\ Opener(k)' = o /\ o \in 1..n /\ o < k /\ Level(o) = Level(k - 1)
           /\ \A p \in Opening : p < k /\ Level(p) = Level(k - 1) => p <= o
           /\ k <= n => Opener(k) = o
<1>1. IsSource BY DEF OutlineInv
<1>2. /\ \A j \in 0..n : Level(j) \in Int /\ Level(j)' = Level(j)
  BY <1>1, LevelGrows
<1>3. /\ Opening' = Opening \cup {j \in {n + 1} : OpensLine(l)}
      /\ Opening \subseteq 1..n
  BY <1>1, OpeningGrows
<1> DEFINE S == {o \in Opening : o < k /\ Level(o) = Level(k - 1)}
<1>4. k - 1 \in 0..n /\ k - 1 \in Nat OBVIOUS
<1>5. {o \in Opening' : o < k /\ Level(o)' = Level(k - 1)'} = S
  <2>1. \A o \in Opening' : o < k => o \in Opening BY <1>3
  <2>2. \A o \in Opening : o \in Opening' /\ o \in 0..n BY <1>3
  <2> QED BY <1>2, <1>4, <2>1, <2>2
<1>6. S # {}
  <2>1. Level(k - 1) \in 1..Level(k - 1) BY <1>2, <1>4
  <2>2. PICK o \in Opening : o <= k - 1 /\ Level(o) = Level(k - 1) BY <1>4, <2>1 DEF OutlineInv
  <2>3. o < k BY <1>3, <1>4, <2>2
  <2> QED BY <2>2, <2>3
<1>7. S \subseteq 0..n
  <2>1. \A j \in 1..n : j \in 0..n OBVIOUS
  <2>2. \A o \in S : o \in Opening OBVIOUS
  <2> HIDE DEF S
  <2> QED BY <1>3, <2>1, <2>2, Zenon
<1> HIDE DEF S
<1>8. Max(S) \in S /\ \A y \in S : y <= Max(S) BY <1>6, <1>7, MaxIs
<1>9. Opener(k)' = Max(S)
  <2>1. Opener(k)' = Max({o \in Opening' : o < k /\ Level(o)' = Level(k - 1)'}) BY DEF Opener
  <2> QED BY <1>5, <2>1
<1>10. Opener(k) = Max(S) BY DEF Opener, S
<1>11. Max(S) \in Opening /\ Max(S) < k /\ Level(Max(S)) = Level(k - 1) BY <1>8 DEF S
<1>12. \A p \in Opening : p < k /\ Level(p) = Level(k - 1) => p <= Max(S) BY <1>8 DEF S
<1> QED BY <1>3, <1>9, <1>10, <1>11, <1>12

(* Lines that were in order stay so.                                         *)
LEMMA OrderlyKept ==
  ASSUME OutlineInv, NEW l, source' = Append(source, l), NEW CONSTANT n \in Nat, n = Len(source),
         NEW CONSTANT k \in 1..n, OrderlyLine(k)'
  PROVE  OrderlyLine(k)
<1>1. IsSource BY DEF OutlineInv
<1>2. \A j \in 0..n : Level(j) \in Int /\ Level(j)' = Level(j) BY <1>1, LevelGrows
<1>3. /\ DOMAIN source = 1..n /\ DOMAIN source' = 1..(n + 1)
      /\ \A j \in 1..n : source'[j] = source[j]
  BY <1>1, SourceGrows
<1>4. k - 1 \in 0..n /\ k \in 0..n /\ k \in 1..(n + 1) OBVIOUS
<1>5. /\ (k \in Closing)' <=> k \in Closing
      /\ (k \in Branching)' <=> k \in Branching
      /\ Kind(k)' = Kind(k) /\ source'[k] = source[k]
  BY <1>3, <1>4 DEF Closing, Branching, Of, Kind, Lines
<1>6. Level(k - 1)' = Level(k - 1) /\ Level(k)' = Level(k) /\ Level(k - 1) \in Int BY <1>2, <1>4
<1>7. Level(k - 1) >= 1 => (IfBranch(Opener(k))' <=> IfBranch(Opener(k)))
                           /\ (Branch(Opener(k))' <=> Branch(Opener(k)))
  <2> SUFFICES ASSUME Level(k - 1) >= 1
               PROVE  /\ IfBranch(Opener(k))' <=> IfBranch(Opener(k))
                      /\ Branch(Opener(k))' <=> Branch(Opener(k))
    OBVIOUS
  <2>1. PICK o \in 1..n : Opener(k)' = o /\ Opener(k) = o
    BY <1>4, OpenerGrows
  <2>2. source'[o] = source[o] BY <1>3
  <2> QED BY <2>1, <2>2 DEF IfBranch, Branch, Kind
<1>8. k \in Branching => k \in Closing BY DEF Branching
<1>9. k \in Closing => Level(k - 1) >= 1 BY <1>5, <1>6 DEF OrderlyLine
<1>10. /\ k \in Branching => IfBranch(Opener(k))
       /\ k \in Closing /\ source[k].behind = "other" => ~Branch(Opener(k))
  BY <1>5, <1>7, <1>8, <1>9, Zenon DEF OrderlyLine
<1>11. /\ Kind(k) = "If" \/ (k \in Closing /\ source[k].behind = "else_if")
            => Level(k - 1) >= 1 /\ source[k].value # "number"
       /\ k \in Branching => Level(k) >= 2
       /\ Kind(k) = "Func" => Level(k - 1) = 0
  BY <1>5, <1>6, Zenon DEF OrderlyLine
<1> QED BY <1>9, <1>10, <1>11, Zenon DEF OrderlyLine

(* Line o opened the innermost block of level m.                             *)
IsTop(o, m) == o \in Opening /\ Level(o) = m /\ \A p \in Opening : Level(p) = m => p <= o
(* op names them, level by level.                                            *)
Tops(op, L) == \A m \in 1..L : IsTop(op[m], m)

(* A source in order was in order a line before.                             *)
LEMMA OrderlyBefore ==
  ASSUME OutlineInv, NEW l, source' = Append(source, l), Orderly'
  PROVE  Orderly
<1>1. PICK n \in Nat : n = Len(source) BY SourceGrows DEF OutlineInv
<1>2. DOMAIN source = 1..n /\ DOMAIN source' = 1..(n + 1) BY <1>1, SourceGrows DEF OutlineInv
<1> SUFFICES ASSUME NEW CONSTANT k \in 1..n PROVE OrderlyLine(k)
  BY <1>2 DEF Orderly, Lines
<1>3. OrderlyLine(k)'
  <2>1. k \in Lines' BY <1>2 DEF Lines
  <2> QED BY <2>1 DEF Orderly
<1> QED BY <1>1, <1>3, OrderlyKept

(* What the last line must be like, L the level before it and op the lines   *)
(* that opened the blocks.                                                   *)
LastInOrder(l, L, op) ==
  /\ l.kind = "Close" => L >= 1
  /\ l.kind = "Close" /\ l.behind \in {"else", "else_if"} => IfBranch(op[L]) /\ L >= 2
  /\ l.kind = "Close" /\ l.behind = "other" => ~Branch(op[L])
  /\ l.kind = "If" \/ (l.kind = "Close" /\ l.behind = "else_if") => L >= 1 /\ l.value # "number"
  /\ l.kind = "Func" => L = 0

(* The last line of a source in order is.                                    *)
LEMMA LastLine ==
  ASSUME OutlineInv, NEW l, source' = Append(source, l), NEW CONSTANT n \in Nat, n = Len(source),
         Orderly', NEW op, Tops(op, Level(n))
  PROVE  LastInOrder(l, Level(n), op)
<1> DEFINE N == n + 1
           L == Level(n)
<1>1. IsSource BY DEF OutlineInv
<1>2. /\ \A j \in 0..n : Level(j) \in Int /\ Level(j)' = Level(j)
      /\ Level(N)' = L + Count(OpensLine(l)) - Count(l.kind = "Close")
  BY <1>1, LevelGrows
<1>3. /\ DOMAIN source = 1..n /\ DOMAIN source' = 1..N
      /\ \A j \in 1..n : source'[j] = source[j]
      /\ source'[N] = l
  BY <1>1, SourceGrows
<1>4. N \in 1..N /\ N - 1 = n /\ n \in 0..n OBVIOUS
<1>5. OrderlyLine(N)'
  <2>1. N \in Lines' BY <1>3, <1>4 DEF Lines
  <2> QED BY <2>1 DEF Orderly
<1>6. /\ (N \in Closing)' <=> l.kind = "Close"
      /\ (N \in Branching)' <=> l.kind = "Close" /\ l.behind \in {"else", "else_if"}
      /\ Kind(N)' = l.kind
  BY <1>3, <1>4 DEF Closing, Branching, Of, Kind, Lines
<1>7. Level(N - 1)' = L /\ L \in Int BY <1>2, <1>4
<1> HIDE DEF N, L
<1>8. l.kind = "Close" => L >= 1 BY <1>5, <1>6, <1>7 DEF OrderlyLine
<1>9. l.kind = "If" \/ (l.kind = "Close" /\ l.behind = "else_if") => L >= 1 /\ l.value # "number"
  BY <1>3, <1>5, <1>6, <1>7 DEF OrderlyLine
<1>10. l.kind = "Func" => L = 0 BY <1>5, <1>6, <1>7 DEF OrderlyLine
<1>11. l.kind = "Close" /\ l.behind \in {"else", "else_if"} => L >= 2
  <2> SUFFICES ASSUME l.kind = "Close", l.behind \in {"else", "else_if"} PROVE L >= 2
    OBVIOUS
  <2>1. OpensLine(l) BY DEF OpensLine
  <2>2. Count(OpensLine(l)) = 1 /\ Count(l.kind = "Close") = 1 BY <2>1 DEF Count
  <2>3. Level(N)' >= 2 BY <1>5, <1>6, Zenon DEF OrderlyLine
  <2> QED BY <1>2, <1>7, <2>2, <2>3
<1>12. ASSUME l.kind = "Close"
       PROVE  /\ l.behind \in {"else", "else_if"} => IfBranch(op[L])
              /\ l.behind = "other" => ~Branch(op[L])
  <2>1. Level(N - 1) >= 1 BY <1>4, <1>8, <1>12 DEF L
  <2>2. PICK o \in Opening : /\ Opener(N)' = o /\ o \in 1..n /\ Level(o) = Level(N - 1)
                             /\ \A p \in Opening : p < N /\ Level(p) = Level(N - 1) => p <= o
    <3>1. N \in 1..(n + 1) BY <1>4 DEF N
    <3> QED BY <2>1, <3>1, OpenerGrows
  <2>3. op[L] = o
    <3>1. IsTop(op[L], L)
      <4>1. L \in 1..L BY <1>7, <1>8, <1>12
      <4> QED BY <4>1 DEF Tops, L
    <3>2. op[L] \in Opening /\ Level(op[L]) = L /\ o <= op[L] BY <1>4, <2>2, <3>1 DEF IsTop, L
    <3>3. op[L] \in 1..n BY <1>1, <3>2, OpeningGrows
    <3>4. op[L] <= o BY <1>4, <2>2, <3>2, <3>3 DEF N, L
    <3> QED BY <2>2, <3>2, <3>3, <3>4
  <2>4. source'[o] = source[o] BY <1>3, <2>2
  <2>5. (IfBranch(Opener(N))' <=> IfBranch(o)) /\ (Branch(Opener(N))' <=> Branch(o))
    BY <2>2, <2>4 DEF IfBranch, Branch, Kind
  <2> QED BY <1>3, <1>5, <1>6, <1>12, <2>3, <2>5 DEF OrderlyLine
<1> QED BY <1>8, <1>9, <1>10, <1>11, <1>12 DEF LastInOrder, L

(* A line more keeps that.                                                   *)
LEMMA OutlineKept ==
  ASSUME OutlineInv, NEW l, source' = Append(source, l)
  PROVE  OutlineInv'
<1>1. PICK n \in Nat : n = Len(source) BY SourceGrows DEF OutlineInv
<1>2. IsSource /\ IsSource' /\ Len(source') = n + 1 BY <1>1, SourceGrows DEF OutlineInv
<1>3. /\ \A j \in 0..n : Level(j) \in Int /\ Level(j)' = Level(j)
      /\ Level(n + 1)' = Level(n) + Count(OpensLine(l)) - Count(l.kind = "Close")
  BY <1>1, <1>2, LevelGrows
<1>4. /\ Opening' = Opening \cup {j \in {n + 1} : OpensLine(l)}
      /\ Opening \subseteq 1..n
  BY <1>1, <1>2, OpeningGrows
<1>5. ASSUME NEW CONSTANT k \in 0..n, NEW CONSTANT m \in 1..Level(k)'
      PROVE  \E o \in Opening' : o <= k /\ Level(o)' = m
  <2>1. m \in 1..Level(k) BY <1>3
  <2>2. PICK o \in Opening : o <= k /\ Level(o) = m BY <1>1, <2>1 DEF OutlineInv
  <2>3. o \in 0..n BY <1>4
  <2> QED BY <1>3, <1>4, <2>2, <2>3
<1>6. ASSUME NEW CONSTANT m \in 1..Level(n + 1)'
      PROVE  \E o \in Opening' : o <= n + 1 /\ Level(o)' = m
  <2>1. n \in 0..n /\ Level(n) \in Int BY <1>3
  <2>2. CASE m <= Level(n)
    <3>1. m \in 1..Level(n)' BY <1>3, <2>1, <2>2
    <3>2. PICK o \in Opening' : o <= n /\ Level(o)' = m BY <1>5, <2>1, <3>1
    <3>3. o \in 1..(n + 1) BY <1>4
    <3>4. o <= n + 1 BY <3>3
    <3> QED BY <3>2, <3>4
  <2>3. CASE m > Level(n)
    <3>1. Count(OpensLine(l)) \in {0, 1} /\ Count(l.kind = "Close") \in {0, 1} BY DEF Count
    <3>2. Count(OpensLine(l)) = 1 /\ Level(n + 1)' = m BY <1>3, <2>1, <2>3, <3>1
    <3>3. n + 1 \in Opening' BY <1>4, <3>2 DEF Count
    <3> QED BY <3>2, <3>3
  <2> QED BY <2>1, <2>2, <2>3
<1>7. \A k \in 0..(n + 1) : k \in 0..n \/ k = n + 1 OBVIOUS
<1>8. \A k \in 0..(n + 1) : \A m \in 1..Level(k)' : \E o \in Opening' : o <= k /\ Level(o)' = m
  BY <1>5, <1>6, <1>7
<1> QED BY <1>2, <1>8 DEF OutlineInv

(* The line that opened a block stays the last one, until another opens its  *)
(* level.                                                                    *)
LEMMA TopKept ==
  ASSUME IsSource, NEW l, source' = Append(source, l), NEW CONSTANT n \in Nat, n = Len(source),
         NEW CONSTANT o, NEW CONSTANT m, IsTop(o, m),
         OpensLine(l) => Level(n + 1)' # m
  PROVE  IsTop(o, m)' /\ o \in 1..n
<1>1. \A j \in 0..n : Level(j)' = Level(j) BY LevelGrows
<1>2. /\ Opening' = Opening \cup {j \in {n + 1} : OpensLine(l)}
      /\ Opening \subseteq 1..n
  BY OpeningGrows
<1>3. \A p \in Opening : p \in 0..n /\ p \in Opening' BY <1>2
<1>4. o \in Opening' /\ Level(o)' = m /\ o \in 1..n BY <1>1, <1>2, <1>3 DEF IsTop
<1>5. ASSUME NEW CONSTANT p \in Opening', Level(p)' = m PROVE p <= o
  <2>1. p \in Opening BY <1>2, <1>5
  <2>2. Level(p) = m BY <1>1, <1>3, <1>5, <2>1
  <2> QED BY <2>1, <2>2 DEF IsTop
<1> QED BY <1>4, <1>5 DEF IsTop

(* A line that opens a block is the last one at its level.                   *)
LEMMA TopNew ==
  ASSUME IsSource, NEW l, source' = Append(source, l), NEW CONSTANT n \in Nat, n = Len(source),
         OpensLine(l), NEW CONSTANT m, m = Level(n + 1)'
  PROVE  IsTop(n + 1, m)'
<1>1. Opening' = Opening \cup {n + 1} /\ Opening \subseteq 1..n
  BY OpeningGrows
<1>2. \A p \in Opening' : p <= n + 1 BY <1>1
<1> QED BY <1>1, <1>2 DEF IsTop

(* The open blocks behind a line: it opens one, closes one, does both or     *)
(* neither.                                                                  *)
OpenBehind(l, n, L, op, up) ==
  /\ OpensLine(l) /\ l.kind # "Close" => up[L + 1] = n + 1 /\ \A m \in 1..L : up[m] = op[m]
  /\ OpensLine(l) /\ l.kind = "Close" => up[L] = n + 1 /\ \A m \in 1..(L - 1) : up[m] = op[m]
  /\ ~OpensLine(l) => up = op

(* The lines that opened the open blocks, a line later.                      *)
LEMMA TopsGrow ==
  ASSUME IsSource, NEW l, source' = Append(source, l), NEW CONSTANT n \in Nat, n = Len(source),
         NEW CONSTANT L \in Nat, L = Level(n), NEW CONSTANT op, Tops(op, L),
         NEW CONSTANT K \in Nat, K = L + Count(OpensLine(l)) - Count(l.kind = "Close")
  PROVE  /\ Level(n + 1)' = K
         /\ \E up : OpenBehind(l, n, L, op, up) /\ Tops(up, K)' /\ \A m \in 1..L : op[m] \in 1..n
<1>1. Level(n + 1)' = K BY LevelGrows
<1>2. \A m \in 1..L : op[m] \in 1..n
  BY OpeningGrows DEF Tops, IsTop
<1>3. ASSUME OpensLine(l), l.kind # "Close"
      PROVE  \E up : OpenBehind(l, n, L, op, up) /\ Tops(up, K)'
  <2>1. K = L + 1 BY <1>3 DEF Count
  <2> DEFINE up == [m \in 1..K |-> IF m = K THEN n + 1 ELSE op[m]]
  <2>2. up[L + 1] = n + 1 /\ \A m \in 1..L : up[m] = op[m] BY <2>1
  <2> HIDE DEF up
  <2>3. ASSUME NEW CONSTANT m \in 1..K PROVE IsTop(up[m], m)'
    <3>1. CASE m = K BY <1>1, <1>3, <2>1, <2>2, <3>1, TopNew
    <3>2. CASE m # K
      <4>1. m \in 1..L BY <2>1, <3>2
      <4>2. IsTop(op[m], m) BY <4>1 DEF Tops
      <4>3. IsTop(op[m], m)' BY <1>1, <3>2, <4>2, TopKept
      <4> QED BY <2>2, <4>1, <4>3
    <3> QED BY <3>1, <3>2
  <2>4. Tops(up, K)' BY <2>3 DEF Tops
  <2>5. OpenBehind(l, n, L, op, up) BY <1>3, <2>2 DEF OpenBehind
  <2> QED BY <2>4, <2>5
<1>4. ASSUME OpensLine(l), l.kind = "Close"
      PROVE  \E up : OpenBehind(l, n, L, op, up) /\ Tops(up, K)'
  <2>1. K = L BY <1>4 DEF Count
  <2> DEFINE up == [m \in 0..K |-> IF m = K THEN n + 1 ELSE op[m]]
  <2>2. up[L] = n + 1 /\ \A m \in 1..(L - 1) : up[m] = op[m] BY <2>1
  <2> HIDE DEF up
  <2>3. ASSUME NEW CONSTANT m \in 1..K PROVE IsTop(up[m], m)'
    <3>1. CASE m = K BY <1>1, <1>4, <2>1, <2>2, <3>1, TopNew
    <3>2. CASE m # K
      <4>1. m \in 1..(L - 1) /\ m \in 1..L BY <2>1, <3>2
      <4>2. IsTop(op[m], m) BY <4>1 DEF Tops
      <4>3. IsTop(op[m], m)' BY <1>1, <3>2, <4>2, TopKept
      <4> QED BY <2>2, <4>1, <4>3
    <3> QED BY <3>1, <3>2
  <2>4. Tops(up, K)' BY <2>3 DEF Tops
  <2>5. OpenBehind(l, n, L, op, up) BY <1>4, <2>2 DEF OpenBehind
  <2> QED BY <2>4, <2>5
<1>5. ASSUME ~OpensLine(l)
      PROVE  OpenBehind(l, n, L, op, op) /\ Tops(op, K)'
  <2>1. K <= L BY <1>5 DEF Count
  <2>2. ASSUME NEW CONSTANT m \in 1..K PROVE IsTop(op[m], m)'
    <3>1. m \in 1..L BY <2>1
    <3>2. IsTop(op[m], m) BY <3>1 DEF Tops
    <3> QED BY <1>5, <3>2, TopKept
  <2> QED BY <1>5, <2>2 DEF Tops, OpenBehind
<1> QED BY <1>1, <1>2, <1>3, <1>4, <1>5

-----------------------------------------------------------------------------
(* What each line does.                                                      *)

(* The kind of block a line opens.                                           *)
OpenedBy(l) ==
  IF l.kind = "If" \/ l.behind = "else_if" THEN "bt_if"
  ELSE IF l.behind = "else" THEN "bt_else"
  ELSE IF l.kind = "While" THEN "bt_loop"
  ELSE IF l.kind = "Func" THEN "bt_proc"
  ELSE "bt_none"

(* A line in order behind open blocks T: the line closes a block that is     *)
(* there, a branch's brace has nothing or an ELSE behind it, a condition is  *)
(* in some block and not a number, a routine in none.                        *)
InLine(l, L, T) ==
  /\ l.kind = "Close" => L > 0
  /\ l.kind = "Close" /\ l.behind \in {"else", "else_if"} => T[L] \in Branches
  /\ l.kind = "Close" /\ l.behind = "other" => T[L] \notin Branches
  /\ l.kind = "If" => L > 0
  /\ l.kind = "Func" => L = 0

(* A declaration has a size when it is made.                                 *)
SizedLine(l) ==
  l.kind = "Declare" => l.sizes[1] > 0 /\ (l.auto_size => l.value \in Arrays)

(* The blocks behind the line: K of them, of the kinds U.                    *)
Leads(l, L, T, K, U) ==
  /\ K = L + Count(OpensLine(l)) - Count(l.kind = "Close")
  /\ OpensLine(l) => U[K] = OpenedBy(l) /\ \A m \in 1..(K - 1) : U[m] = T[m]
  /\ ~OpensLine(l) => \A m \in 1..K : U[m] = T[m]

(* The line's step does to the compiler what the line says.                  *)
Obeys(l, r, q) ==
  \A L, K \in Nat : \A T, U :
    Orders(r, L, T) /\ InLine(l, L, T) /\ SizedLine(l) /\ Leads(l, L, T, K, U) /\ Ok(q) => Turns(r, q, K, U)

(* The line's own instruction, before its statement.                         *)
LEMMA LineOrders ==
  ASSUME NEW L \in Nat, NEW T, Orders(result, L, T)
  PROVE  /\ Orders(Line, L, T) /\ Sees(Line) = Sees(result)
         /\ Line.block_vect = result.block_vect /\ Line.func_info = result.func_info
<1>1. Sound(result) /\ LaidOut(Sees(result)) BY DEF Orders
<1>2. NextLine(result, Line) BY <1>1, LineSound
<1>3. Keeps(result, Line) /\ Line.block_vect = result.block_vect BY <1>2 DEF NextLine
<1>4. Turns(result, Line, L, T) /\ Sees(Line) = Sees(result)
  <2>1. \A m \in 1..L : T[m] = T[m] OBVIOUS
  <2> QED BY <1>3, <2>1, SameTurns
<1>5. Sound(Line) /\ Line.func_info = result.func_info BY <1>3 DEF Keeps, SameRoutine
<1> QED BY <1>1, <1>3, <1>4, <1>5 DEF Orders, Turns

(* The line's own instruction shows Scopes nothing.                          *)
LEMMA TurnsOn ==
  ASSUME NEW r, NEW p, Sees(p) = Sees(r), NEW q, NEW K, NEW U, Turns(p, q, K, U)
  PROVE  Turns(r, q, K, U)
BY DEF Turns

(* Lines that open and close nothing, and declare nothing.                   *)
LEMMA SteadyObeys ==
  ASSUME NEW l, l.kind \notin {"If", "While", "Open", "Func", "Close"}, NEW q, Steady(result, q)
  PROVE  Obeys(l, result, q)
<1> SUFFICES ASSUME NEW L \in Nat, NEW K \in Nat, NEW T, NEW U, Orders(result, L, T), Leads(l, L, T, K, U)
             PROVE  Turns(result, q, K, U)
  BY DEF Obeys
<1>1. ~OpensLine(l) /\ l.kind # "Close" BY DEF OpensLine
<1>2. K = L /\ \A m \in 1..L : U[m] = T[m] BY <1>1 DEF Leads, Count
<1>3. Keeps(result, q) /\ q.block_vect = result.block_vect BY DEF Steady, Stays, Keeps
<1>4. Turns(result, q, L, U) BY <1>2, <1>3, SameTurns
<1> QED BY <1>2, <1>4

(* A declaration.                                                            *)
LEMMA DeclareObeys ==
  ASSUME NEW l, l.kind = "Declare", NEW name \in VarNames, NEW d \in Declarations,
         NEW e \in Expressions \cup {"none"}, l.value = e, l.sizes = <<Bytes(d)>>,
         l.auto_size = (d.array_size = 0), Sound(result), NEW q,
         q = LET auto   == d.array_size = 0
                 flags  == {"inline_array"} \cup (IF d.type = "vt_array_of_byte" THEN {} ELSE any_expr)
                 object == auto \/ (d.array_size < 0 /\ d.type = "vt_array_of_byte")
             IN  IF auto /\ e = "none" THEN Error(Line, "array_index_invalid")
                 ELSE WithValue(DeclareVar(Line, name, d.type, d.array_size), e, auto, object, flags)
  PROVE  Obeys(l, result, q)
<1> SUFFICES ASSUME NEW L \in Nat, NEW K \in Nat, NEW T, NEW U, Orders(result, L, T), Leads(l, L, T, K, U),
                    SizedLine(l), Ok(q)
             PROVE  Turns(result, q, K, U)
  BY DEF Obeys
<1>1. ~OpensLine(l) /\ l.kind # "Close" BY DEF OpensLine
<1>2. K = L /\ \A m \in 1..L : U[m] = T[m] BY <1>1 DEF Leads, Count
<1>3. Bytes(d) > 0 /\ (d.array_size = 0 => e \in Arrays)
  <2>1. l.sizes[1] > 0 /\ (l.auto_size => l.value \in Arrays) BY DEF SizedLine
  <2>2. d.array_size = 0 => l.value \in Arrays BY <2>1, Zenon
  <2>3. l.sizes[1] = Bytes(d) OBVIOUS
  <2> QED BY <2>1, <2>2, <2>3
<1>4. Stays(result, q) /\ (Ok(q) /\ Bytes(d) > 0 /\ (d.array_size = 0 => e \in Arrays) => Gains(result, q, Bytes(d)))
  BY DeclareLine
<1>5. Gains(result, q, Bytes(d)) BY <1>3, <1>4
<1>6. Bytes(d) \in Nat
  <2>1. Bytes(d) \in Int
    <3>1. d.type \in VarKind /\ d.array_size \in Int /\ ArrayLen \in Int
      BY DeclarationIs, BlocksAssumption
    <3>2. MemSize(d.type, d.array_size) \in Int /\ MemSize(d.type, ArrayLen) \in Int
      BY <3>1, MemSizeIs
    <3>3. Bytes(d) = MemSize(d.type, ArrayLen) \/ Bytes(d) = MemSize(d.type, d.array_size)
      BY DEF Bytes
    <3> QED BY <3>2, <3>3
  <2> QED BY <1>3, <2>1
<1>7. Turns(result, q, L, U) BY <1>2, <1>3, <1>4, <1>5, <1>6, DeclareTurns
<1> QED BY <1>2, <1>7

(* A brace, and the brace of a loop.                                         *)
LEMMA OpenObeys ==
  ASSUME NEW l, l.kind = "Open", l.behind = "nothing", Sound(result),
         NEW q, q = begin_block(Line, "NOP", FALSE, "number")
  PROVE  Obeys(l, result, q)
<1> SUFFICES ASSUME NEW L \in Nat, NEW K \in Nat, NEW T, NEW U, Orders(result, L, T), Leads(l, L, T, K, U)
             PROVE  Turns(result, q, K, U)
  BY DEF Obeys
<1>1. OpensLine(l) /\ l.kind # "Close" /\ OpenedBy(l) = "bt_none" BY DEF OpensLine, OpenedBy
<1>2. K = L + 1 /\ U[K] = "bt_none" /\ \A m \in 1..L : U[m] = T[m] BY <1>1 DEF Leads, Count
<1>3. Orders(Line, L, T) /\ Sees(Line) = Sees(result) BY LineOrders
<1>4. Keeps(result, q) /\ Opens(Line, q, "bt_none") BY OpenLine
<1>5. /\ Keeps(Line, q)
      /\ Len(q.block_vect) = Len(Line.block_vect) + Room("bt_none")
      /\ SameTypes(Line, q, Len(Line.block_vect))
      /\ q.block_vect[Len(q.block_vect)].block_type = "bt_none"
      /\ "bt_none" \notin Branches /\ "bt_none" # "bt_condition"
  BY <1>4 DEF Opens, Keeps, SameTypes, Room, Branches, Last
<1>6. Turns(Line, q, L + 1, U) BY <1>2, <1>3, <1>5, PushTurns
<1> QED BY <1>2, <1>3, <1>6, TurnsOn

(* A loop.                                                                   *)
LEMMA WhileObeys ==
  ASSUME NEW l, l.kind = "While", l.behind = "nothing", Sound(result), NEW e \in Expressions,
         NEW q, q = LET opened == open_block(Line, "bt_loop")
                        begun  == LabelBlock(opened, Len(opened.block_vect), TRUE)
                    IN  Conditioned(Evaluate(begun, e), "WHILE", TRUE, e)
  PROVE  Obeys(l, result, q)
<1> SUFFICES ASSUME NEW L \in Nat, NEW K \in Nat, NEW T, NEW U, Orders(result, L, T), Leads(l, L, T, K, U), Ok(q)
             PROVE  Turns(result, q, K, U)
  BY DEF Obeys
<1>1. OpensLine(l) /\ l.kind # "Close" /\ OpenedBy(l) = "bt_loop" BY DEF OpensLine, OpenedBy
<1>2. K = L + 1 /\ U[K] = "bt_loop" /\ \A m \in 1..L : U[m] = T[m] BY <1>1 DEF Leads, Count
<1>3. Orders(Line, L, T) /\ Sees(Line) = Sees(result) BY LineOrders
<1>4. Keeps(result, q) /\ OpensLoop(Line, q, e) BY WhileLine
<1>5. PICK s, t, u : /\ Opens(Line, s, "bt_loop") /\ Labelled(s, t, Len(s.block_vect), TRUE)
                     /\ Emits(t, u) /\ (IF e = "number" THEN q = u ELSE Tests(u, q))
  BY <1>4 DEF OpensLoop
<1>6. /\ SameVars(Line, s) /\ SameRoutine(Line, s) /\ Moves(s, t) /\ Keeps(t, u)
      /\ u.block_vect = t.block_vect /\ Keeps(u, q) /\ q.block_vect = u.block_vect
  <2>1. Sound(u) /\ u.block_vect = t.block_vect BY <1>5 DEF Emits, Kept, SameBlocks
  <2>2. Keeps(u, q) /\ q.block_vect = u.block_vect
    BY <1>5, <2>1, KeepsNothing DEF Tests, Kept, SameBlocks, Keeps
  <2> QED BY <1>5, <2>1, <2>2, EmitsKeeps DEF Opens, Labelled
<1>7. Keeps(Line, q)
  <2>1. Keeps(Line, s) /\ Keeps(s, t) BY <1>5, <1>6, MovesKeeps DEF Opens, Keeps
  <2> QED BY <1>6, <2>1, KeepsTrans
<1>8. PICK n \in Nat : n = Len(Line.block_vect) BY <1>3, NumbersAre DEF Orders
<1>9. /\ Len(s.block_vect) = n + 1 /\ Len(q.block_vect) = n + 1
      /\ \A k \in 1..n : s.block_vect[k] = Line.block_vect[k]
      /\ s.block_vect[n + 1].block_type = "bt_loop"
      /\ \A k \in 1..(n + 1) :
           q.block_vect[k] = IF k = n + 1 THEN Ended(s.block_vect[k], TRUE, LastLabel(t)) ELSE s.block_vect[k]
  <2>1. /\ Len(s.block_vect) = n + 1 /\ \A k \in 1..n : s.block_vect[k] = Line.block_vect[k]
        /\ s.block_vect[n + 1].block_type = "bt_loop"
    BY <1>5, <1>8 DEF Opens, Last
  <2>2. q.block_vect = t.block_vect BY <1>6
  <2>3. /\ Len(t.block_vect) = Len(s.block_vect)
        /\ \A k \in 1..Len(s.block_vect) :
             t.block_vect[k] = IF k = Len(s.block_vect) THEN Ended(s.block_vect[k], TRUE, LastLabel(t))
                               ELSE s.block_vect[k]
    BY <1>5 DEF Labelled, Moves
  <2> QED BY <2>1, <2>2, <2>3
<1>10. \A k \in 1..(n + 1) : s.block_vect[k] \in BlockType
  BY <1>5, <1>9, BlockIs DEF Opens
<1>11. \A k \in 1..(n + 1) : q.block_vect[k].block_type = s.block_vect[k].block_type
  BY <1>9, <1>10 DEF Ended, BlockType
<1>12. /\ Len(q.block_vect) = n + Room("bt_loop") /\ "bt_loop" \notin Branches /\ "bt_loop" # "bt_condition"
       /\ SameTypes(Line, q, n) /\ q.block_vect[n + 1].block_type = "bt_loop"
  <2>1. \A k \in 1..n : k \in 1..(n + 1) OBVIOUS
  <2>2. n + 1 \in 1..(n + 1) OBVIOUS
  <2> QED BY <1>9, <1>11, <2>1, <2>2 DEF SameTypes, Room, Branches
<1>13. Turns(Line, q, L + 1, U) BY <1>2, <1>3, <1>7, <1>8, <1>9, <1>12, PushTurns, ZenonT(30)
<1> QED BY <1>2, <1>3, <1>13, TurnsOn

(* A branch: its condition's block, and its own.                             *)
LEMMA BranchIs ==
  ASSUME NEW r, Sound(r), NEW q, NEW e, OpensBranch(r, q, e)
  PROVE  /\ Len(q.block_vect) = Len(r.block_vect) + 1
         /\ \A k \in 1..Len(r.block_vect) : q.block_vect[k] = r.block_vect[k]
         /\ q.block_vect[Len(q.block_vect)].block_type = "bt_if"
BY DEF OpensBranch, Emits, Opens, Tests, Kept, SameBlocks, Last

(* A condition with its first branch.                                        *)
LEMMA IfObeys ==
  ASSUME NEW l, l.kind = "If", Sound(result), NEW e \in Expressions, NEW junk \in BOOLEAN,
         NEW q, q = IF_rest(IF_command(Line, junk), e)
  PROVE  Obeys(l, result, q)
<1> SUFFICES ASSUME NEW L \in Nat, NEW K \in Nat, NEW T, NEW U, Orders(result, L, T), Leads(l, L, T, K, U),
                    InLine(l, L, T), Ok(q)
             PROVE  Turns(result, q, K, U)
  BY DEF Obeys
<1>1. OpensLine(l) /\ l.kind # "Close" /\ OpenedBy(l) = "bt_if" BY DEF OpensLine, OpenedBy
<1>2. K = L + 1 /\ U[K] = "bt_if" /\ L > 0 /\ \A m \in 1..L : U[m] = T[m] BY <1>1 DEF Leads, Count, InLine
<1>3. Orders(Line, L, T) /\ Sees(Line) = Sees(result) BY LineOrders
<1>4. PICK s : s = IF_command(Line, junk) OBVIOUS
<1>5. Keeps(result, q) /\ OpensCondition(Line, s, junk) /\ OpensBranch(s, q, e)
  BY <1>4, IfLine
<1>6. Sound(Line) /\ Stack(Line, L, T) BY <1>3 DEF Orders
<1>7. Line.block_vect # <<>> /\ Block(Line).block_type # "bt_condition"
  BY <1>2, <1>6, StackTop
<1>8. Opens(Line, s, "bt_condition") BY <1>5, <1>7 DEF OpensCondition
<1>9. PICK n \in Nat : n = Len(Line.block_vect) BY <1>6, NumbersAre
<1>10. /\ Len(s.block_vect) = n + 1 /\ Sound(s)
       /\ \A k \in 1..n : s.block_vect[k] = Line.block_vect[k]
       /\ s.block_vect[n + 1].block_type = "bt_condition"
  BY <1>8, <1>9 DEF Opens, Last
<1>11. /\ Len(q.block_vect) = n + 1 + 1
       /\ \A k \in 1..(n + 1) : q.block_vect[k] = s.block_vect[k]
       /\ q.block_vect[Len(q.block_vect)].block_type = "bt_if"
  BY <1>5, <1>10, BranchIs
<1>12. /\ Len(q.block_vect) = n + Room("bt_if") /\ "bt_if" # "bt_condition"
       /\ SameTypes(Line, q, n) /\ q.block_vect[n + 1].block_type = "bt_condition"
  BY <1>10, <1>11 DEF SameTypes, Room, Branches
<1>13. Keeps(Line, q)
  <2>1. Keeps(Line, s) BY <1>4, <1>6, IfSound
  <2>2. Keeps(s, q) BY <1>4, <1>10, IfRestSound
  <2> QED BY <2>1, <2>2, KeepsTrans
<1>14. Turns(Line, q, L + 1, U)
  <2>1. SameTypes(Line, q, Len(Line.block_vect)) /\ Len(q.block_vect) = Len(Line.block_vect) + Room("bt_if")
        /\ L > 0 /\ q.block_vect[Len(Line.block_vect) + 1].block_type = "bt_condition"
        /\ U[L + 1] = "bt_if"
    BY <1>2, <1>9, <1>12
  <2> QED BY <1>2, <1>3, <1>11, <1>12, <1>13, <2>1, PushTurns
<1> QED BY <1>2, <1>3, <1>14, TurnsOn

(* A routine.                                                                *)
LEMMA FuncObeys ==
  ASSUME NEW l, l.kind = "Func", l.behind = "nothing", Sound(result), NEW name \in FuncNames, NEW params \in ParamLists,
         NEW outside, outside = (result.func_info = NULL), NEW declared,
         declared = Params(IF outside THEN BeginSub(open_block(Line, "bt_proc"), name)
                           ELSE Param(Line, name), params),
         Ok(declared) => Range(ParamsOf(declared)) \subseteq DOMAIN declared.vars_vect,
         NEW q, q = BeginBody(declared, outside)
  PROVE  Obeys(l, result, q)
<1> SUFFICES ASSUME NEW L \in Nat, NEW K \in Nat, NEW T, NEW U, Orders(result, L, T), Leads(l, L, T, K, U),
                    InLine(l, L, T), Ok(q)
             PROVE  Turns(result, q, K, U)
  BY DEF Obeys
<1>1. OpensLine(l) /\ l.kind # "Close" /\ OpenedBy(l) = "bt_proc" BY DEF OpensLine, OpenedBy
<1>2. L = 0 /\ K = 1 /\ U[1] = "bt_proc" BY <1>1 DEF Leads, Count, InLine
<1>3. Orders(Line, 0, T) /\ Sees(Line) = Sees(result) /\ Line.func_info = result.func_info
  BY <1>2, LineOrders
<1>4. outside
  <2>1. Line.block_vect = <<>>
    <3>1. 0 \in Nat OBVIOUS
    <3> QED BY <1>3, <3>1, StackTop, Zenon DEF Orders
  <2> QED BY <1>3, <2>1 DEF Orders, VarsIn
<1>5. Sound(q) /\ StartsBody(Line, q) BY <1>4, FuncLine
<1>6. Turns(Line, q, 1, U) BY <1>2, <1>3, <1>5, BeginTurns
<1> QED BY <1>2, <1>3, <1>6, TurnsOn

(* A closing brace.  Three ways on: nothing or something else behind it,     *)
(* ELSE, ELSE IF.                                                            *)
LEMMA LeavesOnly ==
  ASSUME Sound(result), NEW L \in Nat, L > 0, NEW T, Orders(result, L, T), NEW behind \in BOOLEAN,
         NEW s, s = BLOCK_END(Line, behind), Ok(s)
  PROVE  /\ Sound(s) /\ VarsIn(s) /\ ScopeStep(Sees(result), Sees(s))
         /\ Len(s.block_vect) = Len(Line.block_vect) - (IF T[L] \in Branches /\ ~behind THEN 2 ELSE 1)
         /\ SameTypes(Line, s, Len(s.block_vect))
         /\ Len(Line.block_vect) \in Nat /\ Sound(Line) /\ Stack(Line, L, T)
         /\ T[L] \in Branches => Len(Line.block_vect) > 2
         /\ Proper(Line) /\ Block(Line).block_type = T[L]
<1>1. Orders(Line, L, T) /\ Sees(Line) = Sees(result) BY LineOrders
<1>2. Sound(Line) /\ Stack(Line, L, T) BY <1>1 DEF Orders
<1>3. /\ Block(Line).block_type = T[L] /\ Proper(Line)
      /\ T[L] \in Branches => Len(Line.block_vect) > 2
  BY <1>2, StackTop
<1>4. Sound(s) /\ ClosesBy(Line, s, behind) BY <1>2, <1>3, BlockEndSound, CloseIs
<1>5. /\ VarsIn(s) /\ ScopeStep(Sees(Line), Sees(s))
      /\ Len(s.block_vect) = Len(Line.block_vect) - Dropped(Line, behind)
      /\ SameTypes(Line, s, Len(s.block_vect))
  BY <1>1, <1>4, CloseTurns
<1>6. IsBranch(Block(Line)) <=> T[L] \in Branches BY <1>3 DEF IsBranch, Branches
<1>7. Len(s.block_vect) = Len(Line.block_vect) - (IF T[L] \in Branches /\ ~behind THEN 2 ELSE 1)
  BY <1>5, <1>6 DEF Dropped
<1>8. ScopeStep(Sees(result), Sees(s)) BY <1>1, <1>5
<1>9. Len(Line.block_vect) \in Nat BY <1>2, NumbersAre
<1> QED BY <1>2, <1>3, <1>4, <1>5, <1>7, <1>8, <1>9

(* A brace that ends its block.                                              *)
LEMMA CloseObeys ==
  ASSUME NEW l, l.kind = "Close", NEW behind \in {"nothing", "other"}, l.behind = behind, Sound(result),
         NEW e, NEW junk \in BOOLEAN,
         NEW q, q = BehindBrace(BLOCK_END(Line, behind # "nothing"), behind, e, junk)
  PROVE  Obeys(l, result, q)
<1> SUFFICES ASSUME NEW L \in Nat, NEW K \in Nat, NEW T, NEW U, Orders(result, L, T), Leads(l, L, T, K, U),
                    InLine(l, L, T), Ok(q)
             PROVE  Turns(result, q, K, U)
  BY DEF Obeys
<1>1. ~OpensLine(l) BY DEF OpensLine
<1>2. K = L - 1 /\ L > 0 /\ \A m \in 1..(L - 1) : U[m] = T[m] BY <1>1 DEF Leads, Count, InLine
<1>3. PICK more \in BOOLEAN : more = (behind # "nothing") OBVIOUS
<1>4. q = BLOCK_END(Line, more) BY <1>3, Zenon DEF BehindBrace
<1>5. more => T[L] \notin Branches BY <1>3 DEF InLine
<1>6. /\ VarsIn(q) /\ ScopeStep(Sees(result), Sees(q))
      /\ Len(q.block_vect) = Len(Line.block_vect) - (IF T[L] \in Branches /\ ~more THEN 2 ELSE 1)
      /\ SameTypes(Line, q, Len(q.block_vect))
      /\ Sound(Line) /\ Stack(Line, L, T)
  BY <1>2, <1>4, LeavesOnly
<1>7. Len(q.block_vect) = Len(Line.block_vect) - Room(T[L]) BY <1>5, <1>6 DEF Room
<1>8. Stack(q, L - 1, U) BY <1>2, <1>6, <1>7, StackPop
<1> QED BY <1>2, <1>6, <1>8 DEF Turns

(* One block more, of that type.                                             *)
OneMore(s, q, type) ==
  /\ Keeps(s, q) /\ Len(q.block_vect) = Len(s.block_vect) + 1
  /\ \A k \in 1..Len(s.block_vect) : q.block_vect[k] = s.block_vect[k]
  /\ q.block_vect[Len(q.block_vect)].block_type = type

(* Once the brace of a branch with something behind it has closed it.        *)
ClosedBehind == BLOCK_END(Line, TRUE)

(* A brace with ELSE behind it ends the branch and leaves the condition      *)
(* open.                                                                     *)
LEMMA LeavesBranch ==
  ASSUME Sound(result), NEW L \in Nat, L > 0, NEW T, Orders(result, L, T), T[L] \in Branches,
         NEW s, s = ClosedBehind, Ok(s)
  PROVE  /\ Sound(s) /\ VarsIn(s) /\ ScopeStep(Sees(result), Sees(s))
         /\ Len(s.block_vect) = Len(Line.block_vect) - 1
         /\ SameTypes(Line, s, Len(s.block_vect))
         /\ Len(Line.block_vect) \in Nat /\ Sound(Line) /\ Stack(Line, L, T)
         /\ Len(Line.block_vect) > 2
         /\ Proper(Line) /\ Block(Line).block_type = T[L]
<1>1. TRUE \in BOOLEAN /\ s = BLOCK_END(Line, TRUE) BY DEF ClosedBehind
<1>2. Len(s.block_vect) = Len(Line.block_vect) - (IF T[L] \in Branches /\ ~TRUE THEN 2 ELSE 1)
  BY <1>1, LeavesOnly, Zenon
<1>3. Len(s.block_vect) = Len(Line.block_vect) - 1 BY <1>2, Zenon
<1> QED BY <1>1, <1>3, LeavesOnly, Zenon

(* The branch that follows takes the place of the one that closes.           *)
LEMMA NextBranch ==
  ASSUME Sound(result), NEW L \in Nat, L > 0, NEW T, Orders(result, L, T), T[L] \in Branches,
         NEW s, s = ClosedBehind, Ok(s),
         NEW q, NEW type \in Branches, OneMore(s, q, type),
         NEW U, U[L] = type, \A m \in 1..(L - 1) : U[m] = T[m]
  PROVE  Turns(result, q, L, U)
<1>1. /\ Sound(s) /\ VarsIn(s) /\ ScopeStep(Sees(result), Sees(s))
      /\ Len(s.block_vect) = Len(Line.block_vect) - 1
      /\ SameTypes(Line, s, Len(s.block_vect))
      /\ Len(Line.block_vect) \in Nat /\ Sound(Line) /\ Stack(Line, L, T)
      /\ Len(Line.block_vect) > 2
  BY LeavesBranch
<1>2. PICK n \in Nat : n = Len(s.block_vect) /\ Len(Line.block_vect) = n + 1
  <2>1. PICK m \in Nat : m = Len(Line.block_vect) BY <1>1, Zenon
  <2>2. m - 1 \in Nat /\ m - 1 = Len(s.block_vect) /\ m = m - 1 + 1 BY <1>1, <2>1
  <2> QED BY <2>1, <2>2
<1>9. Len(q.block_vect) = n + 1 BY <1>2 DEF OneMore
<1>3. /\ SameTypes(Line, q, n) /\ SameTypes(s, q, n) /\ n + 1 - 1 = n
  <2>1. SameTypes(s, q, n) BY <1>2 DEF OneMore, SameTypes
  <2>2. SameTypes(Line, s, n) BY <1>1, <1>2
  <2>3. SameTypes(Line, q, n) BY <2>1, <2>2 DEF SameTypes
  <2> QED BY <2>1, <2>3
<1>4. Stack(q, L, U)
  <2>1. /\ Len(q.block_vect) = Len(Line.block_vect) /\ SameTypes(Line, q, Len(Line.block_vect) - 1)
        /\ q.block_vect[Len(q.block_vect)].block_type = type
    BY <1>2, <1>3, <1>9 DEF OneMore
  <2> QED BY <1>1, <2>1, StackSwap
<1>5. /\ q.vars_vect = s.vars_vect /\ q.func_info = s.func_info /\ q.subs_body = s.subs_body
      /\ Sound(q)
  BY DEF OneMore, Keeps, SameVars, SameRoutine
<1>10. Len(q.block_vect) >= Len(s.block_vect) BY <1>2, <1>9
<1>6. VarsIn(q) BY <1>1, <1>2, <1>3, <1>5, <1>10, VarsSame
<1>7. Sees(q) = Sees(s) BY SeesSame DEF OneMore
<1> QED BY <1>1, <1>4, <1>6, <1>7 DEF Turns

(* ELSE opens the last branch.                                               *)
LEMMA ElseObeys ==
  ASSUME NEW l, l.kind = "Close", l.behind = "else", Sound(result), NEW e, NEW junk \in BOOLEAN,
         NEW q, q = BehindBrace(ClosedBehind, "else", e, junk)
  PROVE  Obeys(l, result, q)
<1> SUFFICES ASSUME NEW L \in Nat, NEW K \in Nat, NEW T, NEW U, Orders(result, L, T), Leads(l, L, T, K, U),
                    InLine(l, L, T), Ok(q)
             PROVE  Turns(result, q, K, U)
  BY DEF Obeys
<1>1. OpensLine(l) /\ OpenedBy(l) = "bt_else" BY DEF OpensLine, OpenedBy
<1>2. K = L /\ L > 0 /\ T[L] \in Branches /\ U[L] = "bt_else" /\ \A m \in 1..(L - 1) : U[m] = T[m]
  BY <1>1 DEF Leads, Count, InLine
<1>3. PICK s : s = ClosedBehind OBVIOUS
<1>4. Ok(s) /\ q = begin_block(s, "ELSE", FALSE, "number") BY <1>3, Zenon DEF BehindBrace
<1>5. Sound(s) BY <1>2, <1>3, <1>4, LeavesBranch
<1>6. Begins(s, q, "ELSE", FALSE, "number") /\ Keeps(s, q) BY <1>4, <1>5, BeginSound
<1>7. Opens(s, q, "bt_else") BY <1>6 DEF Begins, BlockFor
<1>8. OneMore(s, q, "bt_else") /\ "bt_else" \in Branches
  BY <1>6, <1>7 DEF OneMore, Opens, Last, Branches
<1>9. Turns(result, q, L, U) BY <1>2, <1>3, <1>4, <1>8, NextBranch
<1> QED BY <1>2, <1>9

(* The condition is then the innermost block.                                *)
LEMMA ConditionOnTop ==
  ASSUME NEW s, Sound(s), NEW n \in Nat, n > 1, n = Len(s.block_vect),
         s.block_vect[n].block_type = "bt_condition"
  PROVE  s.block_vect # <<>> /\ Block(s).block_type = "bt_condition"
<1>1. s.block_vect = <<>> => Len(s.block_vect) = 0 OBVIOUS
<1> QED BY <1>1 DEF Block, Last

(* ELSE IF opens a branch more.                                              *)
LEMMA ElseIfObeys ==
  ASSUME NEW l, l.kind = "Close", l.behind = "else_if", Sound(result), NEW e \in Expressions,
         NEW junk \in BOOLEAN, NEW q, q = BehindBrace(ClosedBehind, "else_if", e, junk)
  PROVE  Obeys(l, result, q)
<1> SUFFICES ASSUME NEW L \in Nat, NEW K \in Nat, NEW T, NEW U, Orders(result, L, T), Leads(l, L, T, K, U),
                    InLine(l, L, T), Ok(q)
             PROVE  Turns(result, q, K, U)
  BY DEF Obeys
<1>1. OpensLine(l) /\ OpenedBy(l) = "bt_if" BY DEF OpensLine, OpenedBy
<1>2. K = L /\ L > 0 /\ T[L] \in Branches /\ U[L] = "bt_if" /\ \A m \in 1..(L - 1) : U[m] = T[m]
  BY <1>1 DEF Leads, Count, InLine
<1>3. PICK s : s = ClosedBehind OBVIOUS
<1>4. Ok(s) /\ q = IF_rest(IF_command(s, junk), e) BY <1>3, Zenon DEF BehindBrace
<1>5. /\ Sound(s) /\ Len(s.block_vect) = Len(Line.block_vect) - 1
      /\ SameTypes(Line, s, Len(s.block_vect)) /\ Len(Line.block_vect) > 2
      /\ Len(Line.block_vect) \in Nat /\ Proper(Line) /\ Block(Line).block_type = T[L]
  BY <1>2, <1>3, <1>4, LeavesBranch
<1>6. s.block_vect # <<>> /\ Block(s).block_type = "bt_condition"
  <2>1. PICK n \in Nat : n = Len(s.block_vect) /\ n = Len(Line.block_vect) - 1 /\ n > 1 BY <1>5
  <2>2. Line.block_vect[n].block_type = "bt_condition" BY <1>2, <1>5, <2>1 DEF Proper, IsBranch, Branches
  <2>3. n \in 1..n BY <2>1
  <2>4. s.block_vect[n].block_type = "bt_condition" BY <1>5, <2>1, <2>2, <2>3 DEF SameTypes
  <2> QED BY <1>5, <2>1, <2>4, ConditionOnTop
<1>7. OpensCondition(s, IF_command(s, junk), junk) BY <1>5, IfSound
<1>8. IF_command(s, junk) = s BY <1>6, <1>7 DEF OpensCondition
<1>9. q = IF_rest(s, e) BY <1>4, <1>8
<1>10. OpensBranch(s, q, e) /\ Keeps(s, q) BY <1>5, <1>9, IfRestIs, IfRestSound
<1>11. OneMore(s, q, "bt_if") /\ "bt_if" \in Branches
  BY <1>5, <1>10, BranchIs DEF OneMore, Branches
<1>12. Turns(result, q, L, U) BY <1>2, <1>3, <1>4, <1>11, NextBranch
<1> QED BY <1>2, <1>12

(* What the braces in order say of the line besides: an ELSE stands behind a *)
(* condition's branch, and a condition is no number.                         *)
BraceLine(l, L, T) ==
  /\ l.kind = "Close" /\ l.behind \in {"else", "else_if"} => T[L] = "bt_if"
  /\ l.kind = "If" \/ (l.kind = "Close" /\ l.behind = "else_if") => l.value # "number"

(* A line that opens or closes a block, on a condition that has a value.     *)
BracesOf(l) == l.kind \in {"If", "While", "Open", "Close"} /\ l.value \in Values \cup {"none"}

(* The line's step retains the labels of the blocks, and is accepted if it   *)
(* opens or closes one.                                                      *)
Retains(l, r, q) ==
  \A L \in Nat : \A T :
    Orders(r, L, T) /\ InLine(l, L, T) /\ BraceLine(l, L, T) /\ LabelsIn(r, Len(r.block_vect)) /\ ~r.lost
    => /\ Ok(q) => LabelsIn(q, Len(q.block_vect))
       /\ BracesOf(l) /\ FewLabels(q) => Ok(q)

(* The line's own instruction.                                               *)
LEMMA LineHolds ==
  ASSUME Sound(result), LabelsIn(result, Len(result.block_vect)), ~result.lost
  PROVE  Sound(Line) /\ Ok(Line) /\ LabelsIn(Line, Len(Line.block_vect))
<1>1. NextLine(result, Line) BY LineSound
<1>2. Stays(result, Line) BY <1>1, NextSteady DEF Steady
<1>3. Sound(Line) /\ Ok(Line) /\ Line.block_vect = result.block_vect BY <1>1 DEF NextLine, Keeps, Ok
<1>4. Carries(result, Line, 0) /\ \A m : SameFirst(result, Line, m) BY <1>2, StaysCarries
<1>5. Len(result.block_vect) \in Nat BY NumbersAre
<1>6. LabelsIn(Line, Len(result.block_vect)) BY <1>4, <1>5, LabelsOn, NoneSpared
<1> QED BY <1>3, <1>6

(* Lines that open and close nothing.                                        *)
LEMMA StaysRetains ==
  ASSUME NEW l, l.kind \notin {"If", "While", "Open", "Func", "Close"}, Sound(result), NEW q, Stays(result, q)
  PROVE  Retains(l, result, q)
<1> SUFFICES ASSUME LabelsIn(result, Len(result.block_vect)) PROVE LabelsIn(q, Len(q.block_vect))
  BY DEF Retains, BracesOf
<1>1. Carries(result, q, 0) /\ \A m : SameFirst(result, q, m) BY StaysCarries
<1>2. Len(result.block_vect) \in Nat BY NumbersAre
<1>3. LabelsIn(q, Len(result.block_vect)) BY <1>1, <1>2, LabelsOn, NoneSpared
<1> QED BY <1>3 DEF Stays

(* A brace.                                                                  *)
LEMMA OpenRetains ==
  ASSUME NEW l, Sound(result), NEW q, q = begin_block(Line, "NOP", FALSE, "number")
  PROVE  Retains(l, result, q)
<1> SUFFICES ASSUME LabelsIn(result, Len(result.block_vect)), ~result.lost
             PROVE  LabelsIn(q, Len(q.block_vect)) /\ Ok(q)
  BY DEF Retains
<1>1. Sound(Line) /\ Ok(Line) /\ LabelsIn(Line, Len(Line.block_vect)) BY LineHolds
<1>2. Opens(Line, q, "bt_none") BY OpenLine
<1>3. "bt_none" \in BlockKind /\ "bt_none" # "bt_loop" /\ ~Labelling("bt_none") BY DEF BlockKind, Labelling
<1>4. q.pe = Line.pe /\ q.lost = Line.lost BY <1>2, <1>3 DEF Opens
<1> QED BY <1>1, <1>2, <1>3, <1>4, OpensHolds DEF Ok

(* A loop.                                                                   *)
LEMMA WhileRetains ==
  ASSUME NEW l, Sound(result), NEW e \in Expressions, l.value = e,
         NEW q, q = LET opened == open_block(Line, "bt_loop")
                        begun  == LabelBlock(opened, Len(opened.block_vect), TRUE)
                    IN  Conditioned(Evaluate(begun, e), "WHILE", TRUE, e)
  PROVE  Retains(l, result, q)
<1>1. OpensLoop(Line, q, e) BY WhileLine
<1>2. e # "none" BY BlocksAssumption DEF Arrays, Values
<1> SUFFICES ASSUME LabelsIn(result, Len(result.block_vect)), ~result.lost
             PROVE  /\ Ok(q) => LabelsIn(q, Len(q.block_vect))
                    /\ BracesOf(l) /\ FewLabels(q) => Ok(q)
  BY DEF Retains
<1>3. Sound(Line) /\ Ok(Line) /\ LabelsIn(Line, Len(Line.block_vect)) BY LineHolds
<1> HIDE DEF Line
<1>4. /\ Ok(q) => LabelsIn(q, Len(q.block_vect))
      /\ ~Line.lost /\ e \in Values /\ FewLabels(q) => Ok(q)
  BY <1>1, <1>3, LoopHolds
<1> QED BY <1>2, <1>3, <1>4 DEF BracesOf, Ok

(* What is behind a condition's key word.                                    *)
LEMMA RestHolds ==
  ASSUME NEW s, Sound(s), LabelsIn(s, Len(s.block_vect)), NEW e \in Expressions, NEW q, q = IF_rest(s, e),
         NEW l, l.value = e, e # "number"
  PROVE  /\ Ok(q) => LabelsIn(q, Len(q.block_vect))
         /\ BracesOf(l) /\ Ok(s) /\ FewLabels(q) => Ok(q)
<1>1. Ok(q) \/ (Ok(s) /\ e = "key") => OpensBranch(s, q, e) BY IfRestIs
<1>2. BracesOf(l) => e = "key" BY BlocksAssumption DEF BracesOf, Values, Arrays
<1>3. OpensBranch(s, q, e) => LabelsIn(q, Len(q.block_vect)) /\ (~s.lost /\ FewLabels(q) => Ok(q))
  BY BranchHolds
<1> QED BY <1>1, <1>2, <1>3 DEF Ok

(* A condition.                                                              *)
LEMMA IfRetains ==
  ASSUME NEW l, l.kind = "If", Sound(result), NEW e \in Expressions, l.value = e, NEW junk \in BOOLEAN,
         NEW q, q = IF_rest(IF_command(Line, junk), e)
  PROVE  Retains(l, result, q)
<1> SUFFICES ASSUME NEW L \in Nat, NEW T, Orders(result, L, T), InLine(l, L, T), BraceLine(l, L, T),
                    LabelsIn(result, Len(result.block_vect)), ~result.lost
             PROVE  /\ Ok(q) => LabelsIn(q, Len(q.block_vect))
                    /\ BracesOf(l) /\ FewLabels(q) => Ok(q)
  BY DEF Retains
<1>1. L > 0 /\ e # "number" BY DEF InLine, BraceLine
<1>2. Sound(Line) /\ Ok(Line) /\ LabelsIn(Line, Len(Line.block_vect)) BY LineHolds
<1>3. Stack(Line, L, T) BY LineOrders DEF Orders
<1> HIDE DEF Line
<1>4. PICK s : s = IF_command(Line, junk) OBVIOUS
<1>5. OpensCondition(Line, s, junk) BY <1>2, <1>4, IfSound
<1>6. Line.block_vect # <<>> /\ Block(Line).block_type # "bt_condition" BY <1>1, <1>2, <1>3, StackTop
<1>7. Opens(Line, s, "bt_condition") BY <1>5, <1>6 DEF OpensCondition
<1>8. "bt_condition" \in BlockKind /\ "bt_condition" # "bt_loop" /\ ~Labelling("bt_condition")
  BY DEF BlockKind, Labelling
<1>9. Sound(s) /\ s.pe = Line.pe /\ s.lost = Line.lost BY <1>7, <1>8 DEF Opens
<1>10. LabelsIn(s, Len(s.block_vect)) BY <1>2, <1>7, <1>8, OpensHolds
<1>11. /\ Ok(q) => LabelsIn(q, Len(q.block_vect))
       /\ BracesOf(l) /\ Ok(s) /\ FewLabels(q) => Ok(q)
  BY <1>1, <1>4, <1>9, <1>10, RestHolds
<1> QED BY <1>2, <1>9, <1>11 DEF Ok

(* A closing brace.                                                          *)
LEMMA EndHolds ==
  ASSUME Sound(result), NEW L \in Nat, L > 0, NEW T, Orders(result, L, T),
         LabelsIn(result, Len(result.block_vect)), ~result.lost,
         NEW behind \in BOOLEAN, behind /\ T[L] \in Branches => T[L] = "bt_if",
         NEW s, s = BLOCK_END(Line, behind)
  PROVE  /\ Sound(s) /\ LabelsIn(s, Len(s.block_vect))
         /\ FewLabels(s) => Ok(s)
<1>1. Sound(Line) /\ Ok(Line) /\ LabelsIn(Line, Len(Line.block_vect)) BY LineHolds
<1>2. Stack(Line, L, T) /\ VarsIn(Line) /\ LaidOut(Sees(Line)) BY LineOrders DEF Orders
<1> HIDE DEF Line
<1>3. /\ Block(Line).block_type = T[L] /\ Proper(Line) BY <1>1, <1>2, StackTop
<1>4. GivesBack(Line)
  <2>1. Len(Line.block_vect) > 0 BY <1>3 DEF Proper
  <2>2. ScP!Laid(AreaPlaces(Line, Line.subs_body), 0, Line.heap_pnt) BY <1>1, <1>2, OrdersLaid
  <2> QED BY <1>1, <1>2, <1>3, <2>1, <2>2, PlacesReturned
<1>5. Sound(s) /\ ClosesBy(Line, s, behind) BY <1>1, <1>3, BlockEndSound, CloseIs
<1>6. IsBranch(Block(Line)) /\ behind => Block(Line).block_type = "bt_if"
  BY <1>3 DEF IsBranch, Branches
<1> HIDE DEF IsBranch
<1>7. LabelsIn(s, Len(s.block_vect)) /\ (~Line.lost /\ FewLabels(s) => Ok(s))
  BY <1>1, <1>3, <1>4, <1>5, <1>6, CloseHolds
<1> QED BY <1>1, <1>5, <1>7 DEF Ok

(* With nothing behind it, or a comment.                                     *)
LEMMA CloseRetains ==
  ASSUME NEW l, l.kind = "Close", NEW behind \in {"nothing", "other"}, l.behind = behind, Sound(result),
         NEW e, NEW junk \in BOOLEAN,
         NEW q, q = BehindBrace(BLOCK_END(Line, behind # "nothing"), behind, e, junk)
  PROVE  Retains(l, result, q)
<1> SUFFICES ASSUME NEW L \in Nat, NEW T, Orders(result, L, T), InLine(l, L, T),
                    LabelsIn(result, Len(result.block_vect)), ~result.lost
             PROVE  /\ LabelsIn(q, Len(q.block_vect))
                    /\ FewLabels(q) => Ok(q)
  BY DEF Retains
<1>1. PICK more \in BOOLEAN : more = (behind # "nothing") OBVIOUS
<1>2. q = BLOCK_END(Line, more) BY <1>1, Zenon DEF BehindBrace
<1>3. L > 0 /\ (more => T[L] \notin Branches) BY <1>1 DEF InLine
<1> QED BY <1>2, <1>3, EndHolds

(* With ELSE behind it.                                                      *)
LEMMA ElseRetains ==
  ASSUME NEW l, l.kind = "Close", l.behind = "else", Sound(result), NEW e, NEW junk \in BOOLEAN,
         NEW q, q = BehindBrace(ClosedBehind, "else", e, junk)
  PROVE  Retains(l, result, q)
<1> SUFFICES ASSUME NEW L \in Nat, NEW T, Orders(result, L, T), InLine(l, L, T), BraceLine(l, L, T),
                    LabelsIn(result, Len(result.block_vect)), ~result.lost
             PROVE  /\ LabelsIn(q, Len(q.block_vect))
                    /\ FewLabels(q) => Ok(q)
  BY DEF Retains
<1>1. L > 0 /\ T[L] = "bt_if" BY DEF InLine, BraceLine
<1>2. PICK s : s = ClosedBehind OBVIOUS
<1>3. TRUE \in BOOLEAN /\ s = BLOCK_END(Line, TRUE) BY <1>2 DEF ClosedBehind
<1>4. Sound(s) /\ LabelsIn(s, Len(s.block_vect)) /\ (FewLabels(s) => Ok(s))
  BY <1>1, <1>3, EndHolds, Zenon
<1>5. CASE ~Ok(s)
  <2>1. q = s BY <1>2, <1>5, Zenon DEF BehindBrace
  <2> QED BY <1>4, <2>1
<1>6. CASE Ok(s)
  <2>1. q = begin_block(s, "ELSE", FALSE, "number") BY <1>2, <1>6, Zenon DEF BehindBrace
  <2>2. FALSE \in BOOLEAN /\ (FALSE => Len(s.block_vect) > 0 \/ "ELSE" \notin {"IF", "WHILE"}) OBVIOUS
  <2>3. Begins(s, q, "ELSE", FALSE, "number") BY <1>4, <2>1, <2>2, BeginSound, Zenon
  <2>4. Opens(s, q, "bt_else") BY <2>3 DEF Begins, BlockFor
  <2>5. "bt_else" \in BlockKind /\ "bt_else" # "bt_loop" /\ ~Labelling("bt_else") BY DEF BlockKind, Labelling
  <2>6. q.pe = s.pe /\ q.lost = s.lost BY <2>4, <2>5 DEF Opens
  <2> QED BY <1>4, <1>6, <2>4, <2>5, <2>6, OpensHolds DEF Ok
<1> QED BY <1>5, <1>6

(* Behind the brace of a branch the condition is the innermost block.        *)
LEMMA ConditionLeft ==
  ASSUME Sound(result), NEW L \in Nat, L > 0, NEW T, Orders(result, L, T), T[L] \in Branches,
         NEW s, s = ClosedBehind, Ok(s)
  PROVE  s.block_vect # <<>> /\ Block(s).block_type = "bt_condition"
<1>1. /\ Sound(s) /\ Len(s.block_vect) = Len(Line.block_vect) - 1
      /\ SameTypes(Line, s, Len(s.block_vect)) /\ Len(Line.block_vect) > 2
      /\ Len(Line.block_vect) \in Nat /\ Proper(Line) /\ Block(Line).block_type = T[L]
  BY LeavesBranch
<1>2. PICK n \in Nat : n = Len(s.block_vect) /\ n = Len(Line.block_vect) - 1 /\ n > 1 BY <1>1
<1>3. Line.block_vect[n].block_type = "bt_condition" BY <1>1, <1>2 DEF Proper, IsBranch, Branches
<1>4. n \in 1..n BY <1>2
<1>5. s.block_vect[n].block_type = "bt_condition" BY <1>1, <1>2, <1>3, <1>4 DEF SameTypes
<1> QED BY <1>1, <1>2, <1>5, ConditionOnTop

(* With ELSE IF behind it.                                                   *)
LEMMA ElseIfRetains ==
  ASSUME NEW l, l.kind = "Close", l.behind = "else_if", Sound(result), NEW e \in Expressions, l.value = e,
         NEW junk \in BOOLEAN, NEW q, q = BehindBrace(ClosedBehind, "else_if", e, junk)
  PROVE  Retains(l, result, q)
<1> SUFFICES ASSUME NEW L \in Nat, NEW T, Orders(result, L, T), InLine(l, L, T), BraceLine(l, L, T),
                    LabelsIn(result, Len(result.block_vect)), ~result.lost
             PROVE  /\ Ok(q) => LabelsIn(q, Len(q.block_vect))
                    /\ BracesOf(l) /\ FewLabels(q) => Ok(q)
  BY DEF Retains
<1>1. L > 0 /\ T[L] = "bt_if" /\ e # "number" BY DEF InLine, BraceLine
<1>2. PICK s : s = ClosedBehind OBVIOUS
<1>3. TRUE \in BOOLEAN /\ s = BLOCK_END(Line, TRUE) BY <1>2 DEF ClosedBehind
<1>4. Sound(s) /\ LabelsIn(s, Len(s.block_vect)) /\ (FewLabels(s) => Ok(s))
  BY <1>1, <1>3, EndHolds, Zenon
<1>5. CASE ~Ok(s)
  <2>1. q = s BY <1>2, <1>5, Zenon DEF BehindBrace
  <2> QED BY <1>4, <2>1
<1>6. CASE Ok(s)
  <2>1. q = IF_rest(IF_command(s, junk), e) BY <1>2, <1>6, Zenon DEF BehindBrace
  <2>2. T[L] \in Branches BY <1>1 DEF Branches
  <2>3. s.block_vect # <<>> /\ Block(s).block_type = "bt_condition"
    BY <1>1, <1>2, <1>6, <2>2, ConditionLeft
  <2>4. OpensCondition(s, IF_command(s, junk), junk) BY <1>4, IfSound
  <2>5. IF_command(s, junk) = s BY <2>3, <2>4 DEF OpensCondition
  <2>6. q = IF_rest(s, e) BY <2>1, <2>5
  <2> QED BY <1>1, <1>4, <1>6, <2>6, RestHolds
<1> QED BY <1>5, <1>6

(* A routine.                                                                *)
LEMMA FuncRetains ==
  ASSUME NEW l, l.kind = "Func", Sound(result), NEW name \in FuncNames, NEW params \in ParamLists,
         NEW outside, outside = (result.func_info = NULL), NEW declared,
         declared = Params(IF outside THEN BeginSub(open_block(Line, "bt_proc"), name)
                           ELSE Param(Line, name), params),
         Ok(declared) => Range(ParamsOf(declared)) \subseteq DOMAIN declared.vars_vect,
         NEW q, q = BeginBody(declared, outside)
  PROVE  Retains(l, result, q)
<1> SUFFICES ASSUME NEW L \in Nat, NEW T, Orders(result, L, T), InLine(l, L, T), Ok(q)
             PROVE  LabelsIn(q, Len(q.block_vect))
  BY DEF Retains, BracesOf
<1>1. L = 0 BY DEF InLine
<1>2. Orders(Line, 0, T) /\ Line.func_info = result.func_info BY <1>1, LineOrders
<1>3. Line.block_vect = <<>>
  <2>1. 0 \in Nat OBVIOUS
  <2> QED BY <1>2, <2>1, StackTop, Zenon DEF Orders
<1>4. outside BY <1>2, <1>3 DEF Orders, VarsIn
<1>5. StartsBody(Line, q) BY <1>4, FuncLine
<1>6. PICK o, b, p, t : /\ Opens(Line, o, "bt_proc") /\ StartsRoutine(o, b) /\ Adds(b, p)
                        /\ Emits(p, t) /\ q = t
  BY <1>5 DEF StartsBody
<1>7. q.block_vect = o.block_vect
  BY <1>6 DEF StartsRoutine, Adds, AddsOnly, Emits, Kept, SameBlocks
<1>8. Len(o.block_vect) = 1 /\ o.block_vect[1].block_type = "bt_proc" /\ o.block_vect[1].label_end = NoLabel
  <2>1. Len(Line.block_vect) = 0 BY <1>3
  <2>2. Len(o.block_vect) = 1 BY <1>6, <2>1 DEF Opens
  <2> QED BY <1>6, <2>2 DEF Opens, Labelling, Last
<1>9. \A i \in 1..1 : i = 1 OBVIOUS
<1> QED BY <1>7, <1>8, <1>9 DEF LabelsIn, Labelling, EndOf

(* Whatever the line is, its step does what it says and retains the labels.  *)
LEMMA StatementObeys ==
  ASSUME Sound(result), Statement
  PROVE  \E l : source' = Append(source, l) /\ Obeys(l, result, result') /\ Retains(l, result, result')
<1> DEFINE Reached == \E l : /\ source' = Append(source, l)
                            /\ Obeys(l, result, result') /\ Retains(l, result, result')
<1> SUFFICES Reached
  OBVIOUS
<1>a. ASSUME NEW l, source' = Append(source, l), Obeys(l, result, result'), Retains(l, result, result')
      PROVE  Reached
  BY <1>a
<1>s. ASSUME NEW l, source' = Append(source, l), l.kind \notin {"If", "While", "Open", "Func", "Close"},
             Steady(result, result')
      PROVE  Reached
  <2>1. Stays(result, result') BY <1>s DEF Steady
  <2> QED BY <1>s, <1>a, <2>1, SteadyObeys, StaysRetains
<1> HIDE DEF Reached
<1>1. ASSUME NEW name \in LabelNames, Label(name) PROVE Reached
  BY <1>1, <1>s, LabelLine DEF Label, Reads, Plain
<1>2. ASSUME NEW name \in LabelNames, Goto(name) PROVE Reached
  BY <1>2, <1>s, GotoLine DEF Goto, Reads, Plain
<1>3. ASSUME NEW name \in VarNames, NEW d \in Declarations, NEW e \in Expressions \cup {"none"},
             Declare(name, d, e)
      PROVE  Reached
  <2> DEFINE l == [Plain EXCEPT !.kind = "Declare", !.name = name, !.value = e,
                                !.sizes = <<Bytes(d)>>, !.auto_size = (d.array_size = 0)]
  <2>1. /\ source' = Append(source, l)
        /\ result' = LET auto   == d.array_size = 0
                         flags  == {"inline_array"} \cup (IF d.type = "vt_array_of_byte" THEN {} ELSE any_expr)
                         object == auto \/ (d.array_size < 0 /\ d.type = "vt_array_of_byte")
                     IN  IF auto /\ e = "none" THEN Error(Line, "array_index_invalid")
                         ELSE WithValue(DeclareVar(Line, name, d.type, d.array_size), e, auto, object, flags)
    BY <1>3, Zenon DEF Declare, Reads
  <2>2. l.kind = "Declare" /\ l.value = e /\ l.sizes = <<Bytes(d)>> /\ l.auto_size = (d.array_size = 0)
    BY DEF Plain
  <2> HIDE DEF l
  <2>3. Obeys(l, result, result') BY <2>1, <2>2, DeclareObeys, Zenon
  <2>4. Stays(result, result') BY <2>1, DeclareLine, Zenon
  <2>5. Retains(l, result, result') BY <2>2, <2>4, StaysRetains
  <2> QED BY <1>a, <2>1, <2>3, <2>5
<1>4. ASSUME NEW name \in VarNames, NEW e \in Expressions, Assign(name, e) PROVE Reached
  BY <1>4, <1>s, AssignLine DEF Assign, Reads, Plain
<1>5. ASSUME NEW e \in Conditions, NEW junk \in BOOLEAN, If(e, junk) PROVE Reached
  <2>1. e \in Expressions BY DEF Conditions
  <2> QED BY <1>5, <1>a, <2>1, IfObeys, IfRetains DEF If, Reads, Plain
<1>6. ASSUME NEW e \in Conditions, NEW junk \in BOOLEAN, Close("else_if", e, junk) PROVE Reached
  <2>1. e \in Expressions BY DEF Conditions
  <2>2. PICK l : l = [Plain EXCEPT !.kind = "Close", !.behind = "else_if", !.value = e] OBVIOUS
  <2>3. ("else_if" # "nothing") = TRUE OBVIOUS
  <2>4. /\ source' = Append(source, l)
        /\ result' = BehindBrace(BLOCK_END(Line, "else_if" # "nothing"), "else_if", e, junk)
    BY <1>6, <2>2, Zenon DEF Close, Reads
  <2>5. result' = BehindBrace(ClosedBehind, "else_if", e, junk) BY <2>3, <2>4, Zenon DEF ClosedBehind
  <2>6. l.kind = "Close" /\ l.behind = "else_if" /\ l.value = e BY <2>2 DEF Plain
  <2>7. Obeys(l, result, result') BY <2>1, <2>5, <2>6, ElseIfObeys, Zenon
  <2>8. Retains(l, result, result') BY <2>1, <2>5, <2>6, ElseIfRetains, Zenon
  <2> QED BY <1>a, <2>4, <2>7, <2>8
<1>7. ASSUME NEW e \in Conditions, While(e) PROVE Reached
  <2>1. e \in Expressions BY DEF Conditions
  <2> QED BY <1>7, <1>a, <2>1, WhileObeys, WhileRetains DEF While, Reads, Plain
<1>8. ASSUME NEW e \in Conditions, Return(e) PROVE Reached
  <2>1. e \in Expressions BY DEF Conditions
  <2> QED BY <1>8, <1>s, <2>1, ReturnLine DEF Return, Reads, Plain
<1>9. ASSUME NEW behind \in Behinds \ {"else_if"}, Close(behind, "none", FALSE) PROVE Reached
  <2>1. PICK l : l = [Plain EXCEPT !.kind = "Close", !.behind = behind, !.value = "none"] OBVIOUS
  <2>2. /\ source' = Append(source, l)
        /\ result' = BehindBrace(BLOCK_END(Line, behind # "nothing"), behind, "none", FALSE)
    BY <1>9, <2>1, Zenon DEF Close, Reads
  <2>3. l.kind = "Close" /\ l.behind = behind BY <2>1 DEF Plain
  <2>4. FALSE \in BOOLEAN OBVIOUS
  <2>5. CASE behind = "else"
    <3>1. ("else" # "nothing") = TRUE OBVIOUS
    <3>2. result' = BehindBrace(ClosedBehind, "else", "none", FALSE)
      BY <2>2, <2>5, <3>1, Zenon DEF ClosedBehind
    <3>3. Obeys(l, result, result') BY <2>3, <2>4, <2>5, <3>2, ElseObeys, Zenon
    <3>4. Retains(l, result, result') BY <2>3, <2>4, <2>5, <3>2, ElseRetains, Zenon
    <3> QED BY <1>a, <2>2, <3>3, <3>4
  <2>6. CASE behind # "else"
    <3>1. behind \in {"nothing", "other"} BY <2>6 DEF Behinds
    <3>2. Obeys(l, result, result') BY <2>2, <2>3, <2>4, <3>1, CloseObeys, Zenon
    <3>3. Retains(l, result, result') BY <2>2, <2>3, <2>4, <3>1, CloseRetains, Zenon
    <3> QED BY <1>a, <2>2, <3>2, <3>3
  <2> QED BY <2>5, <2>6
<1>10. ASSUME NEW name \in FuncNames, NEW params \in ParamLists, Func(name, params) PROVE Reached
  <2> DEFINE l == [Plain EXCEPT !.kind = "Func", !.name = name, !.params = params,
                            !.sizes = [i \in DOMAIN params |-> FptBytes]]
             outside == result.func_info = NULL
             declared == Params(IF outside THEN BeginSub(open_block(Line, "bt_proc"), name)
                                ELSE Param(Line, name), params)
  <2>1. /\ source' = Append(source, l) /\ result' = BeginBody(declared, outside)
        /\ Ok(declared) => Range(ParamsOf(declared)) \subseteq DOMAIN declared.vars_vect
    BY <1>10, Zenon DEF Func, Reads
  <2>2. l.kind = "Func" /\ l.behind = "nothing" BY DEF Plain
  <2> HIDE DEF l
  <2>3. Obeys(l, result, result') BY <2>1, <2>2, FuncObeys, Zenon
  <2>4. Retains(l, result, result') BY <2>1, <2>2, FuncRetains, Zenon
  <2> QED BY <1>a, <2>1, <2>3, <2>4
<1>11. ASSUME NEW name \in FuncNames, NEW args \in ArgLists, Call(name, args) PROVE Reached
  BY <1>11, <1>s, CallLine DEF Call, Reads, Plain
<1>12. ASSUME NEW parts \in PrintLists, PRINT(parts) PROVE Reached
  BY <1>12, <1>s, PrintLine DEF PRINT, Reads, Plain
<1>13. CASE Open BY <1>13, <1>a, OpenObeys, OpenRetains DEF Open, Reads, Plain
<1>14. CASE Break BY <1>14, <1>s, BreakLine DEF Break, Reads, Plain
<1>15. CASE Brkpnt BY <1>15, <1>s, BrkpntLine DEF Brkpnt, Reads, Plain
<1>16. CASE Stop BY <1>16, <1>s, StopLine DEF Stop, Reads, Plain
<1> QED BY <1>1, <1>2, <1>3, <1>4, <1>5, <1>6, <1>7, <1>8, <1>9, <1>10, <1>11, <1>12, <1>13,
           <1>14, <1>15, <1>16 DEF Statement

-----------------------------------------------------------------------------
(* The layout.                                                               *)

(* A view of the registry is a function on both areas.                       *)
IsView(s) ==
  /\ s.sub \in BOOLEAN
  /\ s.places = [a \in BOOLEAN |-> s.places[a]]
  /\ s.pnt = [a \in BOOLEAN |-> s.pnt[a]]
  /\ s.most = [a \in BOOLEAN |-> s.most[a]]

(* One area is laid out, and asks for enough.                                *)
LaidArea(places, pnt, most) ==
  pnt \in Nat /\ most \in Nat /\ ScP!Laid(places, 0, pnt) /\ pnt <= most

(* What Scopes sees is a view.                                               *)
LEMMA SeesView == ASSUME NEW r, Sound(r) PROVE IsView(Sees(r))
BY SeesIs DEF IsView

(* Both areas are laid out when each is.                                     *)
LEMMA LaidAreas ==
  ASSUME NEW s
  PROVE  LaidOut(s) <=> \A a \in BOOLEAN : LaidArea(s.places[a], s.pnt[a], s.most[a])
BY DEF LaidOut, LaidArea

(* One area changes, the other stays.                                        *)
LEMMA LaidChanges ==
  ASSUME NEW s, IsView(s), LaidOut(s), NEW t, NEW b \in BOOLEAN, NEW pl, NEW pn, NEW mo,
         t.places = [s.places EXCEPT ![b] = pl], t.pnt = [s.pnt EXCEPT ![b] = pn],
         t.most = [s.most EXCEPT ![b] = mo], LaidArea(pl, pn, mo)
  PROVE  LaidOut(t)
<1>1. /\ t.places[b] = pl /\ t.pnt[b] = pn /\ t.most[b] = mo
      /\ \A a \in BOOLEAN : a # b => t.places[a] = s.places[a] /\ t.pnt[a] = s.pnt[a] /\ t.most[a] = s.most[a]
  BY DEF IsView
<1>2. \A a \in BOOLEAN : LaidArea(s.places[a], s.pnt[a], s.most[a]) BY LaidAreas
<1> SUFFICES ASSUME NEW a \in BOOLEAN PROVE LaidArea(t.places[a], t.pnt[a], t.most[a])
  BY LaidAreas
<1>3. CASE a = b BY <1>1, <1>3, Zenon
<1>4. CASE a # b BY <1>1, <1>2, <1>4, Zenon
<1> QED BY <1>3, <1>4

(* Every step leaves the areas laid out.                                     *)
LEMMA ScopeStepLaid ==
  ASSUME NEW s, IsView(s), LaidOut(s), NEW t, ScopeStep(s, t)
  PROVE  LaidOut(t)
<1>1. PICK b \in BOOLEAN : b = s.sub BY DEF IsView
<1>2. LaidArea(s.places[b], s.pnt[b], s.most[b]) BY LaidAreas
<1>3. CASE DeclareStep(s, t)
  <2>1. PICK top \in Nat : top = t.pnt[b] /\ s.pnt[b] < top BY <1>1, <1>3 DEF DeclareStep
  <2>2. PICK p : p = [offs |-> s.pnt[b], size |-> top - s.pnt[b]] OBVIOUS
  <2>3. /\ t.pnt = [s.pnt EXCEPT ![b] = top]
        /\ t.places = [s.places EXCEPT ![b] = Append(s.places[b], p)]
        /\ t.most = [s.most EXCEPT ![b] = ScP!Greater(s.most[b], top)]
    BY <1>1, <1>3, <2>1, <2>2 DEF DeclareStep, IsView
  <2>4. PICK m \in Nat : m = s.pnt[b] /\ s.most[b] \in Nat /\ ScP!Laid(s.places[b], 0, m)
    BY <1>2 DEF LaidArea
  <2>5. ScP!Laid(Append(s.places[b], p), 0, top)
    BY <2>1, <2>2, <2>4, ScP!LaidAppend
  <2>6. ScP!Greater(s.most[b], top) \in Nat /\ top <= ScP!Greater(s.most[b], top)
    BY <2>4 DEF ScP!Greater
  <2>7. LaidArea(Append(s.places[b], p), top, ScP!Greater(s.most[b], top))
    BY <2>5, <2>6 DEF LaidArea
  <2>8. PICK pl, mo : pl = Append(s.places[b], p) /\ mo = ScP!Greater(s.most[b], top) OBVIOUS
  <2>9. /\ t.pnt = [s.pnt EXCEPT ![b] = top] /\ t.places = [s.places EXCEPT ![b] = pl]
        /\ t.most = [s.most EXCEPT ![b] = mo] /\ LaidArea(pl, top, mo)
    BY <2>3, <2>7, <2>8
  <2> QED BY <2>9, LaidChanges, Zenon
<1>4. CASE ForgetStep(s, t)
  <2>1. PICK n \in 0..(Len(s.places[b]) - 1) :
          /\ t.pnt = [s.pnt EXCEPT ![b] = s.places[b][n + 1].offs]
          /\ t.places = [s.places EXCEPT ![b] = SubSeq(s.places[b], 1, n)]
          /\ t.most = s.most
    BY <1>1, <1>4 DEF ForgetStep, IsView
  <2>2. /\ ScP!Laid(SubSeq(s.places[b], 1, n), 0, s.places[b][n + 1].offs)
        /\ s.places[b][n + 1].offs \in Nat /\ s.places[b][n + 1].offs <= s.pnt[b]
    BY <1>2, <2>1, ScP!LaidPrefix DEF LaidArea
  <2>3. LaidArea(SubSeq(s.places[b], 1, n), s.places[b][n + 1].offs, s.most[b])
    BY <1>2, <2>2 DEF LaidArea
  <2>4. t.most = [s.most EXCEPT ![b] = s.most[b]] BY <2>1 DEF IsView
  <2>5. PICK pl, pn, mo : pl = SubSeq(s.places[b], 1, n) /\ pn = s.places[b][n + 1].offs /\ mo = s.most[b]
    OBVIOUS
  <2>6. /\ t.pnt = [s.pnt EXCEPT ![b] = pn] /\ t.places = [s.places EXCEPT ![b] = pl]
        /\ t.most = [s.most EXCEPT ![b] = mo] /\ LaidArea(pl, pn, mo)
    BY <2>1, <2>3, <2>4, <2>5
  <2> QED BY <2>6, LaidChanges, Zenon
<1>5. CASE BeginStep(s, t)
  <2>1. PICK n \in Nat : n = t.pnt[TRUE] BY <1>5 DEF BeginStep
  <2>2. PICK pl : pl = t.places[TRUE] OBVIOUS
  <2>3. /\ t.pnt = [s.pnt EXCEPT ![TRUE] = n] /\ t.places = [s.places EXCEPT ![TRUE] = pl]
        /\ t.most = [s.most EXCEPT ![TRUE] = n] /\ ScP!Laid(pl, 0, n)
    BY <1>5, <2>1, <2>2, Zenon DEF BeginStep
  <2>4. n <= n OBVIOUS
  <2>5. LaidArea(pl, n, n) BY <2>3, <2>4, Zenon DEF LaidArea
  <2>6. TRUE \in BOOLEAN OBVIOUS
  <2> QED BY <2>3, <2>5, <2>6, LaidChanges, Zenon
<1>6. CASE EndStep(s, t)
  <2>1. LaidArea(<<>>, 0, 0) BY ScP!LaidEmpty DEF LaidArea
  <2> QED BY <1>6, <2>1, LaidChanges DEF EndStep
<1>7. CASE t = s BY <1>7
<1> QED BY <1>3, <1>4, <1>5, <1>6, <1>7 DEF ScopeStep

(* What the compiler's view is to Scopes.                                    *)
LEMMA ViewIs ==
  /\ Sees(result).places = [a \in BOOLEAN |-> PlacesOf(a)]
  /\ Sees(result).pnt = [a \in BOOLEAN |-> OfArea(a, result.heap_pnt, result.heap_pnt_back)]
  /\ Sees(result).most = [a \in BOOLEAN |-> OfArea(a, result.heap_memory_max, result.heap_memory_max_back)]
  /\ Sees(result).sub = result.subs_body
  /\ Sees(result).funcs = result.heap_memory_max_funcs
BY DEF Sees, AreaPlaces, PlacesOf, RoutineVars, AreaReg, OfArea

(* A step of the views is a step of Scopes.                                  *)
LEMMA ScopeStepImplements ==
  ASSUME ScopeStep(Sees(result), Sees(result')) PROVE Sc!Next \/ UNCHANGED Sc!scopes
<1>1. /\ Sees(result').places = [a \in BOOLEAN |-> PlacesOf(a)']
      /\ Sees(result').pnt = [a \in BOOLEAN |-> OfArea(a, result.heap_pnt, result.heap_pnt_back)']
      /\ Sees(result').most = [a \in BOOLEAN |-> OfArea(a, result.heap_memory_max, result.heap_memory_max_back)']
      /\ Sees(result').sub = result'.subs_body
      /\ Sees(result').funcs = result'.heap_memory_max_funcs
  BY DEF Sees, AreaPlaces, PlacesOf, RoutineVars, AreaReg, OfArea
<1>2. CASE DeclareStep(Sees(result), Sees(result'))
  <2>1. Sc!Declare BY <1>1, <1>2, ViewIs DEF Sc!Declare, DeclareStep, Sc!Greater, ScP!Greater
  <2> QED BY <2>1 DEF Sc!Next
<1>3. CASE ForgetStep(Sees(result), Sees(result'))
  <2>1. Sc!Forget BY <1>1, <1>3, ViewIs DEF Sc!Forget, ForgetStep
  <2> QED BY <2>1 DEF Sc!Next
<1>4. CASE BeginStep(Sees(result), Sees(result'))
  <2> DEFINE s == Sees(result)
             t == Sees(result')
  <2>1. /\ ~s.sub /\ t.sub = TRUE /\ t.pnt[TRUE] \in Nat /\ ScP!Laid(t.places[TRUE], 0, t.pnt[TRUE])
        /\ t.pnt = [s.pnt EXCEPT ![TRUE] = t.pnt[TRUE]]
        /\ t.places = [s.places EXCEPT ![TRUE] = t.places[TRUE]]
        /\ t.most = [s.most EXCEPT ![TRUE] = t.pnt[TRUE]]
        /\ t.funcs = s.funcs
    BY <1>4, Zenon DEF BeginStep
  <2>2. \A u, m, n : ScP!Laid(u, m, n) <=> Sc!Laid(u, m, n)
    BY DEF Sc!Laid, ScP!Laid, Sc!Place, ScP!Place, Sc!End, ScP!End
  <2>3. Sc!Laid(t.places[TRUE], 0, t.pnt[TRUE]) BY <2>1, <2>2, Zenon
  <2> HIDE DEF s, t
  <2>4. Sc!Begin
    <3>1. /\ t.places = [a \in BOOLEAN |-> PlacesOf(a)]'
          /\ t.pnt = [a \in BOOLEAN |-> OfArea(a, result.heap_pnt, result.heap_pnt_back)]'
          /\ t.most = [a \in BOOLEAN |-> OfArea(a, result.heap_memory_max, result.heap_memory_max_back)]'
          /\ t.sub = result'.subs_body
          /\ t.funcs = result'.heap_memory_max_funcs
      BY <1>1 DEF t
    <3>2. /\ s.places = [a \in BOOLEAN |-> PlacesOf(a)]
          /\ s.pnt = [a \in BOOLEAN |-> OfArea(a, result.heap_pnt, result.heap_pnt_back)]
          /\ s.most = [a \in BOOLEAN |-> OfArea(a, result.heap_memory_max, result.heap_memory_max_back)]
          /\ s.sub = result.subs_body
          /\ s.funcs = result.heap_memory_max_funcs
      BY ViewIs DEF s
    <3> HIDE DEF Sc!Laid
    <3> QED BY <2>1, <2>3, <3>1, <3>2, Zenon DEF Sc!Begin
  <2> QED BY <2>4 DEF Sc!Next
<1>5. CASE EndStep(Sees(result), Sees(result'))
  <2>1. Sc!EndSub BY <1>1, <1>5, ViewIs DEF Sc!EndSub, EndStep
  <2> QED BY <2>1 DEF Sc!Next
<1>6. CASE Sees(result') = Sees(result)
  BY <1>1, <1>6, ViewIs DEF Sc!scopes
<1> QED BY <1>2, <1>3, <1>4, <1>5, <1>6 DEF ScopeStep

(* The kinds of the open blocks, from the lines that opened them.            *)
Kinds(op, L) == [m \in 1..L |-> OpenedBy(source[op[m]])]

(* Every variable has a size: an array without one takes its value's, and    *)
(* that is an array.                                                         *)
SizesGiven ==
  \A k \in Of("Declare") : source[k].sizes[1] > 0 /\ (source[k].auto_size => source[k].value \in Arrays)

(* The compiler's blocks are those the source has open, the variables are in *)
(* them and have their places.                                               *)
Placed ==
  \E L \in Nat : \E op : L = Level(Len(source)) /\ Tops(op, L) /\ Orders(result, L, Kinds(op, L))

(* What is asked of the source, and that the compiler took it.               *)
InOrderNow == Orderly /\ SizesGiven /\ Ok(result)

(* The inductive invariant of the layout.                                    *)
LayoutInv == SoundInv /\ OutlineInv /\ (InOrderNow => Placed)

(* Nothing is laid out at the beginning.                                     *)
LEMMA LaidFirst ==
  ASSUME NEW r, Sound(r), r.vars_vect = <<>>, r.heap_pnt = 0, r.heap_memory_max = 0, r.subs_body = FALSE
  PROVE  LaidOut(Sees(r))
<1>1. \A a \in BOOLEAN : AreaPlaces(r, a) = <<>>
  <2>1. r.vars_vect = <<>> /\ Len(<<>>) = 0 /\ DOMAIN <<>> = {} OBVIOUS
  <2>2. \A a \in BOOLEAN : AreaPlaces(r, a) = [i \in 1..0 |-> PlaceOf(r.vars_vect[i])]
    <3>1. 0 \in Nat /\ SplitAt(r, 0, 0) BY <2>1 DEF SplitAt
    <3>2. \A a \in BOOLEAN : AreaPlaces(r, a) = AreaOf(r, 0, 0, a) BY <2>1, <3>1, PlacesAre
    <3> QED BY <3>2 DEF AreaOf
  <2> QED BY <2>2
<1>2. \A a \in BOOLEAN : Sees(r).places[a] = <<>> /\ Sees(r).pnt[a] = 0 /\ Sees(r).most[a] = 0
  BY <1>1 DEF Sees, AreaReg
<1>3. ScP!Laid(<<>>, 0, 0) BY ScP!LaidEmpty
<1>4. 0 \in Nat /\ 0 <= 0 OBVIOUS
<1> QED BY <1>2, <1>3, <1>4, Zenon DEF LaidOut

(* The invariant holds of no source.                                         *)
LEMMA LayoutInit == LInit => LayoutInv
<1> SUFFICES ASSUME Init PROVE LayoutInv
  BY DEF LInit
<1>1. Sound(result) BY InitSound
<1>2. source = <<>> /\ Len(source) = 0 /\ DOMAIN source = {} BY DEF Init
<1>3. Opening = {} /\ Closing = {} BY <1>2 DEF Opening, Closing, Branching, Of, Lines
<1>4. Level(0) = 0 BY <1>3, FS_EmptySet DEF Level
<1>5. OutlineInv
  <2>1. IsSource BY <1>2, EmptyIsSeq DEF IsSource
  <2>2. \A k \in 0..Len(source) : k = 0 BY <1>2
  <2>3. \A m \in 1..Level(0) : FALSE BY <1>4
  <2> QED BY <2>1, <2>2, <2>3 DEF OutlineInv
<1>6. /\ result.block_vect = <<>> /\ result.vars_vect = <<>> /\ result.func_info = NULL
      /\ result.subs_body = FALSE /\ result.heap_pnt = 0 /\ result.heap_memory_max = 0
  BY DEF Init
<1>7. VarsIn(result)
  <2>1. Len(result.vars_vect) = 0 /\ \A i \in 1..0 : FALSE BY <1>6
  <2> QED BY <1>6, <2>1 DEF VarsIn, InBlocks, InOrder, InAreas
<1>8. LaidOut(Sees(result)) BY <1>1, <1>6, LaidFirst
<1>9. Stack(result, 0, Kinds(source, 0)) BY <1>6, StackEmpty
<1>10. Tops(source, 0) BY DEF Tops
<1>11. Placed
  <2>1. 0 \in Nat /\ 0 = Level(Len(source)) BY <1>2, <1>4
  <2> QED BY <1>1, <1>7, <1>8, <1>9, <1>10, <2>1, Zenon DEF Placed, Orders
<1> QED BY <1>1, <1>5, <1>11 DEF LayoutInv, SoundInv

(* A step keeps the registry laid out.                                       *)
LEMMA TurnsOrders ==
  ASSUME NEW r, NEW L, NEW T, Orders(r, L, T), NEW q, Sound(q), NEW K, NEW U, Turns(r, q, K, U)
  PROVE  Orders(q, K, U)
<1>1. Sound(r) /\ LaidOut(Sees(r)) BY DEF Orders
<1>2. ScopeStep(Sees(r), Sees(q)) /\ Stack(q, K, U) /\ VarsIn(q) BY DEF Turns
<1>3. IsView(Sees(r)) BY <1>1, SeesView
<1>4. LaidOut(Sees(q)) BY <1>1, <1>2, <1>3, ScopeStepLaid
<1> QED BY <1>2, <1>4 DEF Orders

(* A line more declares with a size when all do.                             *)
LEMMA SizesKept ==
  ASSUME IsSource, NEW l, source' = Append(source, l), SizesGiven'
  PROVE  SizesGiven /\ SizedLine(l)
<1>1. PICK n \in Nat : n = Len(source) BY SourceGrows
<1>2. /\ DOMAIN source = 1..n /\ DOMAIN source' = 1..(n + 1)
      /\ \A k \in 1..n : source'[k] = source[k]
      /\ source'[n + 1] = l
  BY <1>1, SourceGrows
<1>3. \A k \in 1..(n + 1) : source'[k].kind = "Declare" =>
         source'[k].sizes[1] > 0 /\ (source'[k].auto_size => source'[k].value \in Arrays)
  BY <1>2 DEF SizesGiven, Of, Lines, Kind
<1>4. SizedLine(l)
  <2>1. n + 1 \in 1..(n + 1) OBVIOUS
  <2> QED BY <1>2, <1>3, <2>1 DEF SizedLine
<1>5. SizesGiven
  <2> SUFFICES ASSUME NEW CONSTANT k \in 1..n, source[k].kind = "Declare"
               PROVE  source[k].sizes[1] > 0 /\ (source[k].auto_size => source[k].value \in Arrays)
    BY <1>2 DEF SizesGiven, Of, Lines, Kind
  <2>1. k \in 1..(n + 1) /\ source'[k] = source[k] BY <1>2
  <2> QED BY <1>3, <2>1, Zenon
<1> QED BY <1>4, <1>5

(* A line in order is in order behind the kinds of the open blocks.          *)
LEMMA OrderIs ==
  ASSUME NEW l, NEW L \in Nat, NEW op, LastInOrder(l, L, op)
  PROVE  InLine(l, L, Kinds(op, L))
<1> DEFINE T == Kinds(op, L)
<1>1. l.kind = "Close" => L >= 1 BY DEF LastInOrder
<1>2. l.kind = "If" => L >= 1 BY DEF LastInOrder
<1>3. l.kind = "Func" => L = 0 BY DEF LastInOrder
<1>4. L >= 1 => T[L] = OpenedBy(source[op[L]]) BY DEF Kinds
<1> HIDE DEF T
<1>5. l.kind = "Close" /\ l.behind \in {"else", "else_if"} => T[L] \in Branches
  <2> SUFFICES ASSUME l.kind = "Close", l.behind \in {"else", "else_if"} PROVE T[L] \in Branches
    OBVIOUS
  <2>1. IfBranch(op[L]) BY DEF LastInOrder
  <2>2. OpenedBy(source[op[L]]) = "bt_if" BY <2>1 DEF IfBranch, Kind, OpenedBy
  <2> QED BY <1>1, <1>4, <2>2 DEF Branches
<1>6. l.kind = "Close" /\ l.behind = "other" => T[L] \notin Branches
  <2> SUFFICES ASSUME l.kind = "Close", l.behind = "other" PROVE T[L] \notin Branches
    OBVIOUS
  <2>1. ~Branch(op[L]) BY DEF LastInOrder
  <2>2. OpenedBy(source[op[L]]) \in {"bt_loop", "bt_proc", "bt_none"}
    BY <2>1 DEF Branch, IfBranch, Kind, OpenedBy
  <2> QED BY <1>1, <1>4, <2>2 DEF Branches
<1> QED BY <1>1, <1>2, <1>3, <1>5, <1>6 DEF InLine, T

(* The kinds of the open blocks behind a line.                               *)
OneLineMore(l, n, L, op, K, up) ==
  /\ K = L + Count(OpensLine(l)) - Count(l.kind = "Close")
  /\ l.kind = "Close" => L >= 1
  /\ \A m \in 1..L : op[m] \in 1..n
  /\ OpenBehind(l, n, L, op, up)

(* The kinds behind a line are the ones it leads to.                         *)
LEMMA KindsLead ==
  ASSUME IsSource, NEW l, source' = Append(source, l), NEW CONSTANT n \in Nat, n = Len(source),
         NEW L \in Nat, NEW op, NEW K \in Nat, NEW up, OneLineMore(l, n, L, op, K, up),
         NEW T, T = Kinds(op, L), NEW U, U = [m \in 1..K |-> OpenedBy(source'[up[m]])]
  PROVE  Leads(l, L, T, K, U)
<1>1. /\ \A k \in 1..n : source'[k] = source[k]
      /\ source'[n + 1] = l
  BY SourceGrows
<1>0. /\ K = L + Count(OpensLine(l)) - Count(l.kind = "Close")
      /\ l.kind = "Close" => L >= 1
      /\ \A m \in 1..L : op[m] \in 1..n
      /\ OpenBehind(l, n, L, op, up)
  BY DEF OneLineMore
<1>2. \A m \in 1..L : T[m] = OpenedBy(source[op[m]]) BY DEF Kinds
<1>3. \A m \in 1..K : U[m] = OpenedBy(source'[up[m]]) OBVIOUS
<1>4. \A m \in 1..L : m \in 1..K /\ up[m] = op[m] => U[m] = T[m]
  BY <1>0, <1>1, <1>2, <1>3
<1>5. CASE OpensLine(l) /\ l.kind # "Close"
  <2>1. K = L + 1 BY <1>0, <1>5 DEF Count
  <2>2. up[K] = n + 1 /\ \A m \in 1..L : up[m] = op[m] BY <1>0, <1>5, <2>1 DEF OpenBehind
  <2>3. U[K] = OpenedBy(l) BY <1>1, <1>3, <2>1, <2>2
  <2>4. \A m \in 1..(K - 1) : U[m] = T[m] BY <1>0, <1>4, <2>1, <2>2
  <2> QED BY <1>0, <1>5, <2>3, <2>4 DEF Leads
<1>6. CASE OpensLine(l) /\ l.kind = "Close"
  <2>1. K = L /\ L >= 1 BY <1>0, <1>6 DEF Count
  <2>2. up[K] = n + 1 /\ \A m \in 1..(L - 1) : up[m] = op[m] BY <1>0, <1>6, <2>1 DEF OpenBehind
  <2>3. U[K] = OpenedBy(l) BY <1>1, <1>3, <2>1, <2>2
  <2>4. \A m \in 1..(K - 1) : U[m] = T[m] BY <1>0, <1>4, <2>1, <2>2
  <2> QED BY <1>0, <1>6, <2>3, <2>4 DEF Leads
<1>7. CASE ~OpensLine(l)
  <2>1. K <= L BY <1>0, <1>7 DEF Count
  <2>2. up = op BY <1>0, <1>7 DEF OpenBehind
  <2>3. \A m \in 1..K : U[m] = T[m] BY <1>0, <1>4, <2>1, <2>2
  <2> QED BY <1>0, <1>7, <2>3 DEF Leads
<1> QED BY <1>5, <1>6, <1>7

(* The same source has the same outline.                                     *)
LEMMA SourceSame ==
  ASSUME source' = source
  PROVE  /\ Lines' = Lines /\ Opening' = Opening /\ Closing' = Closing /\ Branching' = Branching
         /\ \A k : Level(k)' = Level(k)
         /\ Orderly' <=> Orderly
         /\ SizesGiven' <=> SizesGiven
         /\ OutlineInv => OutlineInv'
         /\ \A op, L : (Tops(op, L)' <=> Tops(op, L)) /\ Kinds(op, L)' = Kinds(op, L)
<1>1. Lines' = Lines BY DEF Lines
<1>2. \A k : Kind(k)' = Kind(k) BY DEF Kind
<1>3. \A kind : Of(kind)' = Of(kind) BY <1>1 DEF Of, Kind
<1>4. Closing' = Closing BY <1>3 DEF Closing
<1>5. Branching' = Branching BY <1>4 DEF Branching
<1>6. Opening' = Opening BY <1>3, <1>5 DEF Opening
<1>7. \A k : Level(k)' = Level(k) BY <1>4, <1>6 DEF Level
<1>8. \A k : Opener(k)' = Opener(k) BY <1>6, <1>7 DEF Opener
<1>9. \A k : (IfBranch(k)' <=> IfBranch(k)) /\ (Branch(k)' <=> Branch(k)) BY DEF Branch, IfBranch, Kind
<1>10. \A k : OrderlyLine(k)' <=> OrderlyLine(k)
  <2> SUFFICES ASSUME NEW CONSTANT k PROVE OrderlyLine(k)' <=> OrderlyLine(k)
    OBVIOUS
  <2>1. (IfBranch(Opener(k))' <=> IfBranch(Opener(k))) /\ (Branch(Opener(k))' <=> Branch(Opener(k)))
    BY <1>8 DEF Branch, IfBranch, Kind
  <2> QED BY <1>2, <1>4, <1>5, <1>7, <2>1, Zenon DEF OrderlyLine
<1>11. Orderly' <=> Orderly BY <1>1, <1>10 DEF Orderly
<1>12. SizesGiven' <=> SizesGiven BY <1>3 DEF SizesGiven
<1>13. OutlineInv => OutlineInv' BY <1>6, <1>7 DEF OutlineInv, IsSource
<1>14. \A op, L : Kinds(op, L)' = Kinds(op, L) BY DEF Kinds
<1>15. \A op, L : Tops(op, L)' <=> Tops(op, L) BY <1>6, <1>7 DEF Tops, IsTop
<1> QED BY <1>1, <1>4, <1>5, <1>6, <1>7, <1>11, <1>12, <1>13, <1>14, <1>15

(* And the same level at its end.                                            *)
LEMMA LevelSame == ASSUME source' = source PROVE Level(Len(source))' = Level(Len(source))
<1>1. Opening' = Opening /\ Closing' = Closing BY SourceSame
<1> QED BY <1>1 DEF Level

(* A line keeps the invariant, and is a step of Scopes or none.              *)
LEMMA StatementLays ==
  ASSUME LayoutInv, Statement
  PROVE  /\ OutlineInv'
         /\ InOrderNow' => Placed' /\ ScopeStep(Sees(result), Sees(result'))
<1>1. Sound(result) /\ OutlineInv /\ IsSource BY DEF LayoutInv, SoundInv, OutlineInv
<1>2. PICK l : source' = Append(source, l) /\ Obeys(l, result, result')
  BY <1>1, StatementObeys
<1>3. OutlineInv' BY <1>1, <1>2, OutlineKept
<1>4. ASSUME Orderly', SizesGiven', Ok(result')
      PROVE  Placed' /\ ScopeStep(Sees(result), Sees(result'))
  <2>1. Orderly BY <1>1, <1>2, <1>4, OrderlyBefore
  <2>2. SizesGiven /\ SizedLine(l) BY <1>1, <1>2, <1>4, SizesKept
  <2>3. Ok(result) BY DEF Statement, Label, Goto, Declare, Assign, If, Close, While, Return, Func, Call,
                          PRINT, Open, Break, Brkpnt, Stop, Reads
  <2>4. Placed BY <2>1, <2>2, <2>3 DEF LayoutInv, InOrderNow
  <2>5. PICK n \in Nat : n = Len(source) BY <1>1, SourceGrows, <1>2
  <2>6. PICK L \in Nat : \E op : L = Level(n) /\ Tops(op, L) /\ Orders(result, L, Kinds(op, L))
    BY <2>4, <2>5 DEF Placed
  <2>7. PICK op : L = Level(n) /\ Tops(op, L) /\ Orders(result, L, Kinds(op, L)) BY <2>6
  <2>8. LastInOrder(l, L, op)
    <3>1. Tops(op, Level(n)) BY <2>7
    <3>2. LastInOrder(l, Level(n), op) BY <1>1, <1>2, <1>4, <2>5, <3>1, LastLine
    <3> QED BY <2>7, <3>2
  <2>9. InLine(l, L, Kinds(op, L)) BY <2>8, OrderIs
  <2>10. PICK K \in Nat : K = L + Count(OpensLine(l)) - Count(l.kind = "Close")
    <3>1. l.kind = "Close" => L >= 1 BY <2>8 DEF LastInOrder
    <3> QED BY <3>1 DEF Count
  <2>11. /\ Level(n + 1)' = K
         /\ \E up : OpenBehind(l, n, L, op, up) /\ Tops(up, K)' /\ \A m \in 1..L : op[m] \in 1..n
    BY <1>1, <1>2, <2>5, <2>7, <2>10, TopsGrow
  <2>12. PICK up : OpenBehind(l, n, L, op, up) /\ Tops(up, K)' /\ \A m \in 1..L : op[m] \in 1..n BY <2>11
  <2>13. Leads(l, L, Kinds(op, L), K, Kinds(up, K)')
    <3>1. l.kind = "Close" => L >= 1 BY <2>8 DEF LastInOrder
    <3>2. PICK T, U : T = Kinds(op, L) /\ U = [m \in 1..K |-> OpenedBy(source'[up[m]])] OBVIOUS
    <3>3. Leads(l, L, T, K, U)
      <4>1. IsSource /\ source' = Append(source, l) /\ n = Len(source) BY <1>1, <1>2, <2>5
      <4>2. OneLineMore(l, n, L, op, K, up) BY <2>10, <2>12, <3>1 DEF OneLineMore
      <4> QED BY <3>2, <4>1, <4>2, KindsLead, Zenon
    <3> QED BY <3>2, <3>3 DEF Kinds
  <2>14. Turns(result, result', K, Kinds(up, K)')
    BY <1>2, <1>4, <2>2, <2>7, <2>9, <2>13 DEF Obeys
  <2>15. Sound(result') BY <1>1, StatementSound
  <2>16. Orders(result', K, Kinds(up, K)') BY <2>7, <2>14, <2>15, TurnsOrders
  <2>17. Len(source') = n + 1 BY <1>1, <1>2, <2>5, SourceGrows
  <2>18. Placed' BY <2>11, <2>12, <2>16, <2>17 DEF Placed
  <2> QED BY <2>14, <2>18 DEF Turns
<1> QED BY <1>3, <1>4 DEF InOrderNow

(* So is the end of the source.                                              *)
LEMMA EndLays ==
  ASSUME LayoutInv, EndOfFile
  PROVE  /\ OutlineInv'
         /\ InOrderNow' => Placed' /\ ScopeStep(Sees(result), Sees(result'))
<1>1. Sound(result) /\ OutlineInv BY DEF LayoutInv, SoundInv
<1>2. source' = source /\ Ok(result) /\ result' = VmOp_End(result) BY DEF EndOfFile
<1>3. OutlineInv' BY <1>1, <1>2, SourceSame
<1>4. ASSUME InOrderNow' PROVE Placed' /\ ScopeStep(Sees(result), Sees(result'))
  <2>1. InOrderNow
    BY <1>2, <1>4, SourceSame DEF InOrderNow
  <2>2. PICK L \in Nat : \E op : L = Level(Len(source)) /\ Tops(op, L) /\ Orders(result, L, Kinds(op, L))
    BY <2>1 DEF LayoutInv, Placed
  <2>3. PICK op : L = Level(Len(source)) /\ Tops(op, L) /\ Orders(result, L, Kinds(op, L)) BY <2>2
  <2>4. PICK T : T = Kinds(op, L) OBVIOUS
  <2>5. Keeps(result, result') /\ result'.block_vect = result.block_vect /\ Sound(result')
    BY <1>1, <1>2, EndSound DEF Steady, Stays, Keeps
  <2>6. Turns(result, result', L, T)
    <3>1. \A m \in 1..L : T[m] = T[m] OBVIOUS
    <3> QED BY <2>3, <2>4, <2>5, <3>1, SameTurns
  <2>7. Orders(result', L, T) BY <2>3, <2>4, <2>5, <2>6, TurnsOrders
  <2>8. Level(Len(source))' = L /\ Tops(op, L)' /\ Kinds(op, L)' = T
    <3>1. Len(source') = Len(source) BY <1>2
    <3>2. \A k : Level(k)' = Level(k) BY <1>2, SourceSame
    <3>3. Level(Len(source))' = Level(Len(source)) BY <1>2, LevelSame
    <3>4. \A o, M : (Tops(o, M)' <=> Tops(o, M)) /\ Kinds(o, M)' = Kinds(o, M) BY <1>2, SourceSame
    <3> QED BY <2>3, <2>4, <3>3, <3>4
  <2>9. Placed' BY <2>7, <2>8 DEF Placed
  <2> QED BY <2>6, <2>9 DEF Turns
<1> QED BY <1>3, <1>4

(* So is every step.                                                         *)
LEMMA LayoutStep ==
  ASSUME LayoutInv, [LNext]_lvars
  PROVE  LayoutInv' /\ (InOrderNow' => ScopeStep(Sees(result), Sees(result')))
<1>1. SoundInv' BY StepSound DEF LayoutInv
<1>2. CASE UNCHANGED lvars
  <2>1. result' = result /\ source' = source BY <1>2 DEF lvars
  <2>2. OutlineInv' /\ (InOrderNow' => InOrderNow) BY <2>1, SourceSame DEF LayoutInv, InOrderNow
  <2>4. Placed => Placed'
    <3> SUFFICES ASSUME Placed PROVE Placed'
      OBVIOUS
    <3>1. PICK L \in Nat : \E op : L = Level(Len(source)) /\ Tops(op, L) /\ Orders(result, L, Kinds(op, L))
      BY DEF Placed
    <3>2. PICK op : L = Level(Len(source)) /\ Tops(op, L) /\ Orders(result, L, Kinds(op, L)) BY <3>1
    <3>3. Level(Len(source))' = Level(Len(source)) /\ Tops(op, L)' /\ Kinds(op, L)' = Kinds(op, L)
      BY <2>1, <3>2, SourceSame, LevelSame
    <3> QED BY <2>1, <3>2, <3>3 DEF Placed
  <2>5. LayoutInv' BY <1>1, <2>2, <2>4 DEF LayoutInv
  <2>3. ScopeStep(Sees(result), Sees(result')) BY <2>1, Zenon DEF ScopeStep
  <2> QED BY <2>3, <2>5
<1>3. CASE EndOfFile BY <1>1, <1>3, EndLays DEF LayoutInv
<1>4. CASE Statement BY <1>1, <1>4, StatementLays DEF LayoutInv
<1> QED BY <1>2, <1>3, <1>4 DEF LNext

(* What ImplementsScopes asks of a step.                                     *)
Advances == Ok(result') /\ ~UNCHANGED Sc!scopes /\ Orderly' => Sc!Next

(* Every step does it.                                                       *)
LEMMA AdvancesStep == LayoutInv /\ [LNext]_lvars /\ SizesGiven' => Advances
<1> SUFFICES ASSUME LayoutInv, [LNext]_lvars, SizesGiven', Ok(result'), ~UNCHANGED Sc!scopes, Orderly'
             PROVE  Sc!Next
  BY DEF Advances
<1>1. ScopeStep(Sees(result), Sees(result')) BY LayoutStep DEF InOrderNow
<1> QED BY <1>1, ScopeStepImplements

(* The compiler begins as Scopes does.                                       *)
LEMMA ScopesInit == LInit => Sc!Init
BY DEF LInit, Init, Sc!Init, PlacesOf, RoutineVars, OfArea, NULL

(* Line by line, the registry of variables and the heap registers are those  *)
(* of Scopes, for every source with its braces in order whose variables have *)
(* a size: each variable is placed behind those that live, a block gives     *)
(* back what its variables took, a routine leaves the main part's as they    *)
(* were (RegisterVar, UnregisterLastBlockVars, RegisterSub, EndSubContext).  *)
THEOREM CompilerImplementsScopes == LSpec /\ []SizesGiven => ImplementsScopes
<1>1. LayoutInv /\ [LNext]_lvars => LayoutInv' BY LayoutStep
<1>2. LayoutInv /\ [LNext]_lvars /\ SizesGiven' =>
        [Ok(result') /\ ~UNCHANGED Sc!scopes /\ Orderly' => Sc!Next]_lvars
  BY AdvancesStep DEF Advances
<1> QED BY <1>1, <1>2, LayoutInit, ScopesInit, PTL DEF LSpec, ImplementsScopes

(* Places that are laid out are apart and have room.                         *)
LEMMA LaidPlaces == Placed => Sc!PlacesApart /\ Sc!PlacesCovered
<1> SUFFICES ASSUME LaidOut(Sees(result)) PROVE Sc!PlacesApart /\ Sc!PlacesCovered
  BY DEF Placed, Orders
<1>1. PICK s : s = Sees(result) OBVIOUS
<1>2. ASSUME NEW a \in BOOLEAN
      PROVE  /\ \A i, j \in DOMAIN s.places[a] :
                  i # j => \/ ScP!End(s.places[a][i]) <= s.places[a][j].offs
                           \/ ScP!End(s.places[a][j]) <= s.places[a][i].offs
             /\ \A i \in DOMAIN s.places[a] :
                  s.places[a][i].offs >= 0 /\ ScP!End(s.places[a][i]) <= s.most[a]
  <2>1. PICK to, max \in Nat : to = s.pnt[a] /\ max = s.most[a] /\ to <= max /\ ScP!Laid(s.places[a], 0, to)
    BY <1>1 DEF LaidOut
  <2>2. PICK p : p = s.places[a] OBVIOUS
  <2>3. ScP!Laid(p, 0, to) BY <2>1, <2>2, Zenon
  <2>4. \A i, j \in DOMAIN p : i # j => ScP!End(p[i]) <= p[j].offs \/ ScP!End(p[j]) <= p[i].offs
    BY <2>3, ScP!LaidApart, Zenon
  <2>5. \A i \in DOMAIN p : p[i].offs >= 0 /\ ScP!End(p[i]) <= max
    BY <2>1, <2>3, ScP!LaidCovered, Zenon
  <2> QED BY <2>1, <2>2, <2>4, <2>5, Zenon
<1>3. \A p : ScP!End(p) = Sc!End(p) BY DEF ScP!End, Sc!End
<1>4. /\ s.places = [a \in BOOLEAN |-> PlacesOf(a)]
      /\ s.most = [a \in BOOLEAN |-> OfArea(a, result.heap_memory_max, result.heap_memory_max_back)]
  BY <1>1, ViewIs
<1> HIDE DEF Sc!End, ScP!End
<1> QED BY <1>2, <1>3, <1>4 DEF Sc!PlacesApart, Sc!PlacesCovered

(* So, while the compiler reads such a source, two variables that live       *)
(* together have no byte in common, those of the main part while a routine   *)
(* is compiled included, and the heap the registers ask for has room for all *)
(* of them.                                                                  *)
THEOREM CompilerPlacesApart ==
  LSpec => [](Orderly /\ SizesGiven /\ Ok(result) => Sc!PlacesApart /\ Sc!PlacesCovered)
<1> DEFINE Apart == Orderly /\ SizesGiven /\ Ok(result) => Sc!PlacesApart /\ Sc!PlacesCovered
<1>1. LayoutInv => Apart BY LaidPlaces DEF LayoutInv, InOrderNow
<1>2. LayoutInv /\ [LNext]_lvars => LayoutInv' BY LayoutStep
<1> QED BY <1>1, <1>2, LayoutInit, PTL DEF LSpec

-----------------------------------------------------------------------------
(* What the braces ask is accepted.                                          *)

(* A line in order behind the open blocks has its braces so.                 *)
LEMMA BracesAre ==
  ASSUME NEW l, NEW L \in Nat, NEW op, LastInOrder(l, L, op)
  PROVE  BraceLine(l, L, Kinds(op, L))
<1> DEFINE T == Kinds(op, L)
<1>1. l.kind = "Close" => L >= 1 BY DEF LastInOrder
<1>2. L >= 1 => T[L] = OpenedBy(source[op[L]]) BY DEF Kinds
<1> HIDE DEF T
<1>3. l.kind = "Close" /\ l.behind \in {"else", "else_if"} => T[L] = "bt_if"
  <2> SUFFICES ASSUME l.kind = "Close", l.behind \in {"else", "else_if"} PROVE T[L] = "bt_if"
    OBVIOUS
  <2>1. IfBranch(op[L]) BY DEF LastInOrder
  <2>2. OpenedBy(source[op[L]]) = "bt_if" BY <2>1 DEF IfBranch, Kind, OpenedBy
  <2> QED BY <1>1, <1>2, <2>2
<1>4. l.kind = "If" \/ (l.kind = "Close" /\ l.behind = "else_if") => l.value # "number"
  BY DEF LastInOrder
<1> QED BY <1>3, <1>4 DEF BraceLine, T

(* The labels of the open blocks, between two lines.                         *)
LabelsWait == InOrderNow => LabelsIn(result, Len(result.block_vect))
(* What is proved of the lines that open or close a block.                   *)
Accepted == SizesGiven /\ FewLabels(result) => OrderAccepted

(* The inductive invariant: a block's label must go on waiting for the line  *)
(* that closes the block to be accepted.                                     *)
AcceptInv == LayoutInv /\ LabelsWait /\ Accepted

(* No block is open at the beginning.                                        *)
LEMMA AcceptInit == LInit => AcceptInv
<1> SUFFICES ASSUME LInit PROVE AcceptInv
  OBVIOUS
<1>1. LayoutInv BY LayoutInit
<1>2. source = <<>> /\ Len(result.block_vect) = 0 BY DEF LInit, Init
<1>3. \A i \in 1..0 : FALSE OBVIOUS
<1>4. LabelsWait BY <1>2, <1>3 DEF LabelsWait, LabelsIn
<1>5. Accepted BY <1>2 DEF Accepted, OrderAccepted
<1> QED BY <1>1, <1>4, <1>5 DEF AcceptInv

(* A line's step.                                                            *)
LEMMA StatementAccepts ==
  ASSUME AcceptInv, Statement
  PROVE  LabelsWait' /\ Accepted'
<1>1. Sound(result) /\ OutlineInv /\ IsSource /\ LayoutInv
  BY DEF AcceptInv, LayoutInv, SoundInv, OutlineInv
<1>2. PICK l : source' = Append(source, l) /\ Retains(l, result, result')
  BY <1>1, StatementObeys
<1>3. PICK n \in Nat : n = Len(source) BY <1>1, <1>2, SourceGrows
<1>4. Len(source') = n + 1 /\ source'[n + 1] = l BY <1>1, <1>2, <1>3, SourceGrows
<1>5. ASSUME Orderly', SizesGiven'
      PROVE  /\ Ok(result') => LabelsIn(result', Len(result'.block_vect))
             /\ BracesOf(l) /\ FewLabels(result') => Ok(result')
  <2>1. Orderly BY <1>1, <1>2, <1>5, OrderlyBefore
  <2>2. SizesGiven BY <1>1, <1>2, <1>5, SizesKept
  <2>3. Ok(result) BY DEF Statement, Label, Goto, Declare, Assign, If, Close, While, Return, Func, Call,
                          PRINT, Open, Break, Brkpnt, Stop, Reads
  <2>4. Placed /\ LabelsIn(result, Len(result.block_vect))
    BY <1>1, <2>1, <2>2, <2>3 DEF AcceptInv, LabelsWait, LayoutInv, InOrderNow
  <2>5. PICK L \in Nat : \E op : L = Level(n) /\ Tops(op, L) /\ Orders(result, L, Kinds(op, L))
    BY <1>3, <2>4 DEF Placed
  <2>6. PICK op : L = Level(n) /\ Tops(op, L) /\ Orders(result, L, Kinds(op, L)) BY <2>5
  <2>7. LastInOrder(l, L, op)
    <3>1. Tops(op, Level(n)) BY <2>6
    <3>2. LastInOrder(l, Level(n), op) BY <1>1, <1>2, <1>3, <1>5, <3>1, LastLine
    <3> QED BY <2>6, <3>2
  <2>8. InLine(l, L, Kinds(op, L)) /\ BraceLine(l, L, Kinds(op, L)) BY <2>7, OrderIs, BracesAre
  <2>9. ~result.lost BY <2>3 DEF Ok
  <2> QED BY <1>2, <2>4, <2>6, <2>8, <2>9 DEF Retains
<1>6. LabelsWait' BY <1>5 DEF LabelsWait, InOrderNow
<1>7. ASSUME SizesGiven', FewLabels(result'), Orderly',
             Kind(Len(source))' \in {"If", "While", "Open", "Close"},
             source'[Len(source')].value \in Values \cup {"none"}
      PROVE  Ok(result')
  <2>1. l.kind \in {"If", "While", "Open", "Close"} BY <1>4, <1>7 DEF Kind
  <2>2. BracesOf(l) BY <1>4, <1>7, <2>1 DEF BracesOf
  <2> QED BY <1>5, <1>7, <2>2
<1>8. Accepted' BY <1>7 DEF Accepted, OrderAccepted
<1> QED BY <1>6, <1>8

(* The end of the source.                                                    *)
LEMMA EndAccepts ==
  ASSUME AcceptInv, EndOfFile
  PROVE  LabelsWait' /\ Accepted'
<1>1. Sound(result) BY DEF AcceptInv, LayoutInv, SoundInv
<1>2. source' = source /\ Ok(result) /\ result' = VmOp_End(result) BY DEF EndOfFile
<1>3. (Orderly' <=> Orderly) /\ (SizesGiven' <=> SizesGiven) BY <1>2, SourceSame
<1>4. Stays(result, result') BY <1>1, <1>2, EndSound DEF Steady
<1>5. LabelsWait'
  <2> SUFFICES ASSUME LabelsIn(result, Len(result.block_vect))
               PROVE  LabelsIn(result', Len(result'.block_vect))
    BY <1>2, <1>3 DEF AcceptInv, LabelsWait, InOrderNow
  <2>1. Carries(result, result', 0) /\ \A m : SameFirst(result, result', m) BY <1>1, <1>4, StaysCarries
  <2>2. Len(result.block_vect) \in Nat BY <1>1, NumbersAre
  <2>3. LabelsIn(result', Len(result.block_vect)) BY <1>1, <2>1, <2>2, LabelsOn, NoneSpared
  <2> QED BY <1>4, <2>3 DEF Stays
<1>6. Ok(result')
  <2>1. "END" \in Op /\ FALSE \in BOOLEAN /\ 0 \in Int BY DEF Op, PlainOps
  <2>2. Appends(result, code_op(result, "END", FALSE, 0, 0)) BY <1>1, <2>1, CodeOpSound, Zenon
  <2> QED BY <1>2, <2>2 DEF Appends, Emits, Kept, VmOp_End, Ok
<1>7. Accepted' BY <1>6 DEF Accepted, OrderAccepted
<1> QED BY <1>5, <1>7

(* Every step.                                                               *)
LEMMA AcceptStep == AcceptInv /\ [LNext]_lvars => AcceptInv'
<1> SUFFICES ASSUME AcceptInv, [LNext]_lvars PROVE AcceptInv'
  OBVIOUS
<1>1. LayoutInv' BY LayoutStep DEF AcceptInv
<1>2. CASE UNCHANGED lvars
  <2>1. result' = result /\ source' = source BY <1>2 DEF lvars
  <2>2. (Orderly' <=> Orderly) /\ (SizesGiven' <=> SizesGiven) BY <2>1, SourceSame
  <2>3. LabelsWait' BY <2>1, <2>2 DEF AcceptInv, LabelsWait, InOrderNow
  <2>4. Accepted' BY <2>1, <2>2 DEF AcceptInv, Accepted, OrderAccepted, Kind
  <2> QED BY <1>1, <2>3, <2>4 DEF AcceptInv
<1>3. CASE EndOfFile BY <1>1, <1>3, EndAccepts DEF AcceptInv
<1>4. CASE Statement BY <1>1, <1>4, StatementAccepts DEF AcceptInv
<1> QED BY <1>2, <1>3, <1>4 DEF LNext

(* A line that opens or closes a block is never refused, nor crashes the     *)
(* compiler, when the braces are in order: the label of the block it closes  *)
(* still waits, whatever was compiled in between. That is so as long as the  *)
(* variables have sizes and the vector of labels is in its first chunk, or   *)
(* is not moved when it grows (IF, open_block, BLOCK_END).                   *)
THEOREM OrderlyAccepted == LSpec => [](SizesGiven /\ FewLabels(result) => OrderAccepted)
<1>1. AcceptInv => (SizesGiven /\ FewLabels(result) => OrderAccepted) BY DEF AcceptInv, Accepted
<1>2. AcceptInv /\ [LNext]_lvars => AcceptInv' BY AcceptStep
<1>3. LInit => AcceptInv BY AcceptInit
<1> QED BY <1>1, <1>2, <1>3, PTL DEF LSpec
=============================================================================
