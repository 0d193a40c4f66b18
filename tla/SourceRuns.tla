----------------------------- MODULE SourceRuns -----------------------------
(***************************************************************************)
(* What a program of the language does, said of its source alone: one step *)
(* for each line.  A state of the run is the line each activation is at    *)
(* (the main part's first, the innermost routine's last) with the values   *)
(* of the variables that live there, and what has been printed.            *)
(*                                                                         *)
(* Nothing is said of the value of a variable that was declared without    *)
(* one, or of what a routine returns that gets to its end without RETURN.  *)
(* Calls are whole right sides or whole statements.                        *)
(***************************************************************************)
EXTENDS Integers, SequencesExt

CONSTANTS
  One,       \* the value of "number"
  KeyValues  \* the values a key may have

VARIABLES source, run

INSTANCE Outline

NotRunning == [at |-> <<>>, shown |-> <<>>]

(* A value is <<n>>; nothing is said of <<>>.                                *)
Unknown == <<>>
False   == <<0>>

-----------------------------------------------------------------------------
(* Names and values.                                                         *)

LivesAt(v, k) == v.line < k /\ k \in v.lives
LiveNames(k)  == LET here == Routine(k)
                 IN  {v.name : v \in {w \in Range(Variables) : w.routine = here /\ LivesAt(w, k)}}

(* A name is the innermost activation's, or else the main part's.            *)
Holder(at, x) == IF x \in DOMAIN Last(at).env THEN Len(at) ELSE 1

(* The values expression e may have.                                         *)
Vals(at, e) == CASE e \in {"number", "none"} -> {<<One>>}
                 [] e = "key"                -> {<<n>> : n \in KeyValues}
                 [] OTHER                    -> {<<at[Holder(at, e)].env[e]>>}

(* What line k leaves of its values: the variable it stores v into has v.    *)
Stored(at, k, v) ==
  LET x    == source[k].name
      h    == IF Kind(k) = "Declare" THEN Len(at) ELSE Holder(at, x)
      kept == [y \in DOMAIN at[h].env \ {x} |-> at[h].env[y]]
  IN  IF Kind(k) \notin {"Declare", "Assign"} \/ source[k].value = "none" THEN at
      ELSE [at EXCEPT ![h].env = IF v = Unknown THEN kept ELSE kept @@ (x :> v[1])]

-----------------------------------------------------------------------------
(* Control.                                                                  *)

Holds(at, e) == \E v \in Vals(at, e) : v # False
Fails(at, e) == e # "number" /\ \E v \in Vals(at, e) : v = False

(* The condition of the branch that line k begins has failed: the first      *)
(* branch behind it whose condition holds, or past them all.                 *)
Otherwise(at, k) ==
  LET Passed(c) == \A b \in BranchesBehind(k) : b < c => Fails(at, source[b].value) /\ IfBranch(b)
  IN  {LineBehind(c) : c \in {b \in BranchesBehind(k) :
                                Passed(b) /\ (IfBranch(b) => Holds(at, source[b].value))}}
      \cup {LineBehind(c) : c \in {ConditionEnd(k)} \cap {e \in Lines : Passed(e)}}

(* Where control may go from line k when its expression had value v.         *)
Goes(at, k, v) ==
  CASE Kind(k) = "If"    -> IF v # False THEN {LineBehind(k)} ELSE Otherwise(at, k)
    [] Kind(k) = "While" -> {LineBehind(IF v # False THEN k ELSE EndLine(k))}
    [] k \in Branching   -> {LineBehind(ConditionEnd(k))}
    [] k \in Closing \ Branching /\ Kind(Opener(k)) = "While" ->
         LET e == source[Opener(k)].value
         IN  {LineBehind(j) : j \in {i \in {Opener(k)} : Holds(at, e)} \cup {i \in {k} : Fails(at, e)}}
    [] Kind(k) = "Break" /\ Loops(k) # {} -> {LineBehind(EndLine(Max(Loops(k))))}
    [] Kind(k) = "Goto"  -> {LineBehind(l) : l \in {j \in Of("Label") : source[j].name = source[k].name}}
    [] OTHER             -> {LineBehind(k)}

-----------------------------------------------------------------------------
(* Steps.                                                                    *)

(* The innermost activation goes on at line j: variables that lived keep     *)
(* their values, nothing is said of the others'.                             *)
Enters(at, j) ==
  LET n == Len(at)
  IN  /\ Len(run'.at) = n
      /\ \A i \in 1..(n - 1) : run'.at[i].line = at[i].line
      /\ run'.at[n].line = j
      /\ \A i \in 1..n :
           LET env == run'.at[i].env
           IN  /\ DOMAIN env = LiveNames(run'.at[i].line)
               /\ \A x \in DOMAIN env \cap DOMAIN at[i].env : env[x] = at[i].env[x]

(* The innermost activation is done with its line, whose expression had      *)
(* value v.                                                                  *)
Completes(at, v) ==
  LET k == Last(at).line
      stored == Stored(at, k, v)
  IN  \E j \in Goes(stored, k, v) : Enters(stored, j)

Line(at)      == Last(at).line
Calls(k)      == Kind(k) = "Call" \/ source[k].value \in {source[f].name : f \in Of("Func")}
Routines(k)   == {f \in Of("Func") : f < k /\ source[f].name =
                    (IF Kind(k) = "Call" THEN source[k].name ELSE source[k].value)}
EndsRoutine(k) == k \in Closing /\ Kind(Opener(k)) = "Func"
Arguments(k)  == IF Kind(k) = "Call" THEN source[k].params ELSE <<>>

(* Calls: the routine begins at its first line, its parameters have the      *)
(* values of the arguments.                                                  *)
CallsRoutine ==
  LET at == run.at    k == Line(at)
  IN  /\ Calls(k)
      /\ \E f \in Routines(k) :
           LET params == source[f].params
               env == [x \in Range(params) |->
                         (CHOOSE v \in Vals(at, Arguments(k)[CHOOSE i \in DOMAIN params : params[i] = x]) : TRUE)[1]]
               first == Min({j \in Lines \ Of("Label") : Routine(j) = {f}})
           IN  Enters(Append(at, [line |-> first, env |-> env]), first)
      /\ run'.shown = run.shown

(* Returns: the caller's line is done, with the value of the call; if that   *)
(* line returns itself, its caller's.                                        *)
Returns ==
  LET at == run.at    k == Line(at)
      waits == {i \in 1..(Len(at) - 1) : Kind(at[i].line) # "Return"}
  IN  /\ EndsRoutine(k) \/ (Kind(k) = "Return" /\ ~Calls(k))
      /\ waits # {}
      /\ \E v \in IF Kind(k) = "Return" THEN Vals(at, source[k].value) ELSE {Unknown} :
           Completes(SubSeq(at, 1, Max(waits)), v)
      /\ run'.shown = run.shown

Prints ==
  LET at == run.at    k == Line(at)
  IN  /\ Kind(k) = "Print"
      /\ Completes(at, One)
      /\ Len(run'.shown) = Len(run.shown) + 1
      /\ Front(run'.shown) = run.shown
      /\ Len(Last(run'.shown)) = Len(source[k].params)
      /\ \A i \in DOMAIN source[k].params : <<Last(run'.shown)[i]>> \in Vals(at, source[k].params[i])

GoesOn ==
  LET at == run.at    k == Line(at)
  IN  /\ Kind(k) \notin {"Print", "Return"} /\ ~Calls(k) /\ ~EndsRoutine(k)
      /\ \E v \in Vals(at, source[k].value) : Completes(at, v)
      /\ run'.shown = run.shown

Begins ==
  /\ run = NotRunning
  /\ LET first == LineBehind(0) IN Enters(<<[line |-> first, env |-> <<>>]>>, first)
  /\ run'.shown = <<>>

Steps == /\ run # NotRunning
         /\ Line(run.at) # TheEnd
         /\ CallsRoutine \/ Returns \/ Prints \/ GoesOn

Init == run = NotRunning
Next == run' # run /\ (Begins \/ Steps) /\ UNCHANGED source
Spec == Init /\ [][Next]_run
=============================================================================
