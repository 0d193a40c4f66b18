------------------------------ MODULE CallStack ------------------------------
(***************************************************************************)
(* What calls and returns promise a program, whatever the machine does to  *)
(* keep the promise: a call opens an activation with variables of its own  *)
(* above the caller's, a return gives the caller back its place in the     *)
(* code, its variable base and its heap top, exactly as they were, and     *)
(* nothing else moves an activation's base.                                *)
(*                                                                         *)
(* The promise ends when the machine stops, and when the program breaks    *)
(* the rules it stands on: then the machine is no longer sound, and        *)
(* anything may happen.                                                    *)
(***************************************************************************)
EXTENDS Integers, Sequences

CONSTANTS
  FrameHead,   (* Bytes a call takes between the caller's and the callee's  *)
               (* variables.                                                *)
  CallSize     (* The size of a call instruction.                           *)

VARIABLES
  pc,          \* place in the code
  base,        \* where the variables of the running activation start
  top,         \* where they end
  frames,      \* the callers, outermost first
  sound,       \* the program has kept the rules so far
  active       \* the machine runs

vars == <<pc, base, top, frames, sound, active>>

Frame == [pc : Int, base : Int, top : Int]

Init ==
  /\ pc \in Nat
  /\ base = 0
  /\ top = 0
  /\ frames = <<>>
  /\ sound = TRUE
  /\ active = TRUE

(* Work inside an activation: it may declare and drop variables of its own.  *)
Work ==
  /\ pc' \in Int
  /\ top' \in Int
  /\ base <= top'
  /\ UNCHANGED <<base, frames, sound, active>>

Call ==
  /\ frames' = Append(frames, [pc |-> pc + CallSize, base |-> base, top |-> top])
  /\ base' = top + FrameHead
  /\ top' = top + FrameHead
  /\ pc' \in Int
  /\ UNCHANGED <<sound, active>>

Return ==
  /\ frames # <<>>
  /\ LET caller == frames[Len(frames)]
     IN  /\ pc' = caller.pc
         /\ base' = caller.base
         /\ top' = caller.top
  /\ frames' = SubSeq(frames, 1, Len(frames) - 1)
  /\ UNCHANGED <<sound, active>>

Stop  == active' = FALSE
Break == sound' = FALSE

(* While the machine runs a sound program.                                   *)
Next ==
  IF sound /\ active THEN Work \/ Call \/ Return \/ Stop \/ Break
  ELSE (~sound => ~sound') /\ (~active => ~active')

Spec == Init /\ [][Next]_vars
==============================================================================
