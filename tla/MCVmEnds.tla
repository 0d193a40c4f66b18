------------------------------ MODULE MCVmEnds ------------------------------
(***************************************************************************)
(* How programs end: each with the verdict Run must come to, whatever the  *)
(* devices return and however often the user asks for single steps.        *)
(***************************************************************************)
EXTENDS VmExe, VmPrograms

Case(p, n, verdict) == [code |-> p.code, entry |-> p.entry, size |-> p.size, const |-> p.const,
                        heap_min_size |-> p.heap_min_size + n, verdict |-> verdict]

(* Compiled programs, with room for what they do.                           *)
Ending == {Case(p, 12, "ec_end") : p \in {Loop, Nest, Control, Indexed, Moves, Devices}} \cup
          {Case(Runaway, n, "ec_stack_corrupted") : n \in {2, 17}} \cup
          {Case(Divides, 6, "ec_div_except"), Case(GenIndexed, 6, "ec_inval_code")}

(* Images no compiler writes: a main part that is not an instruction, that  *)
(* calls a function nobody has, returns to nobody, runs past its end, jumps *)
(* into an instruction, or pushes for ever, with a break point in the loop.   *)
Broken == {Case(Image(<<>>, m[1], 4, <<>>), 0, m[2]) :
             m \in {<<<<O("none")>>, "ec_inval_code">>,
                    <<<<A("CALL_LIB_FUNC", 200)>>, "ec_call_unknown_func">>,
                    <<<<A("CALL_INT_PROC", 7)>>, "ec_call_unknown_func">>,
                    <<<<O("RET")>>, "ec_exit">>,
                    <<<<AB("LOAD_BYTE", 0, 7)>>, "ec_ok">>,
                    <<<<A("JMP", -2)>>, "wild_fetch">>,
                    <<<<A("BREAK", 1), N(1), A("JMP", -11)>>, "ec_stack_corrupted">>}}

MCPrograms == Ending \cup Broken
MCJunk     == {255}
MCKeys     == {-1, 65}
MCScreen   == {24, 80}

-----------------------------------------------------------------------------
(* Run comes to the program's verdict: a compiled program gets to its END,  *)
(* a division by zero or an instruction without a handler stops it, and     *)
(* recursion or pushing without end runs into the check of the stack before *)
(* it leaves the array (vm_exe.c:1001-1010).                                *)
ReachesVerdict == <>(~running /\ ret = prog.verdict)
=============================================================================
