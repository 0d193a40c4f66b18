------------------------------- MODULE Linker -------------------------------
(***************************************************************************)
(* The whole compiler: the statement machine, then the end of the source   *)
(* and the image main.c makes of what was compiled.                        *)
(***************************************************************************)
EXTENDS Blocks

VARIABLE image   \* NoImage until the .sb file is written

lvars   == <<result, source, image>>
NoImage == [size |-> 0]

JumpOps == {"JMP", "JMP_POP_CMPZ"}

(* to_num writes 16 bits, and the machine reads them as a signed number.     *)
Signed16(n) == ((n + 32768) % 65536) - 32768

(* fix_code_num, for the label that writes the operand last: a jump counts   *)
(* from the end of its operand.                                              *)
Writers(r, area, operand) ==
  {i \in DOMAIN r.labels_vect : /\ r.labels_vect[i].subs_body = area
                                /\ operand \in Range(r.labels_vect[i].jmps)}

Patched(r, area) ==
  LET fixed(c) == LET writers == Writers(r, area, c.at + 1)
                  IN  IF writers = {} \/ c.instr.op \notin JumpOps THEN c
                      ELSE [c EXCEPT !.instr.arg =
                              Signed16(r.labels_vect[Max(writers)].code_offs - (c.at + 1) - 2)]
  IN  [k \in DOMAIN r.obj[area].code |-> fixed(r.obj[area].code[k])]

(* Operands that are written where the part has no jump: other code is lost. *)
Stray(r) ==
  {j \in (DOMAIN r.labels_vect) \X (1..LINKS_BY_LABEL_MAX) :
     LET l == r.labels_vect[j[1]]
     IN  /\ j[2] \in DOMAIN l.jmps
         /\ \A c \in Range(r.obj[l.subs_body].code) :
              c.instr.op \notin JumpOps \/ c.at + 1 # l.jmps[j[2]]}

(* The routines first, then the main part; the header's numbers have 16 bits. *)
Bits16(n) == n % 65536
Shifted(code, base) == [k \in DOMAIN code |-> [code[k] EXCEPT !.at = @ + base]]

Image(r) ==
  [code             |-> Patched(r, TRUE) \o Shifted(Patched(r, FALSE), r.obj[TRUE].size),
   stray            |-> Stray(r),
   entry_point      |-> Bits16(r.obj[TRUE].size),
   size             |-> Bits16(r.obj[TRUE].size + r.obj[FALSE].size),
   heap_min_size    |-> Bits16(r.heap_memory_max + r.heap_memory_max_funcs),
   const_block_size |-> Bits16(r.const_memory)]

VmOp_End(r) == code_op(r, "END", FALSE, 0, 0)

(* After an error no image is written: there is nothing more to do.          *)
EndOfFile ==
  /\ Ok(result)
  /\ result' = VmOp_End(result)
  /\ image' = Image(result')
  /\ UNCHANGED source

LInit == Init /\ image = NoImage
LNext ==
  /\ image = NoImage
  /\ (Statement /\ UNCHANGED image) \/ EndOfFile
LSpec == LInit /\ [][LNext]_lvars
=============================================================================
