------------------------------- MODULE Scopes -------------------------------
(***************************************************************************)
(* What the compiler's registry of variables promises (parser_reg.c,       *)
(* VmOp_VarHeap), without names, blocks or code.  There are two areas, the *)
(* main part's (FALSE) and the routine's that is being compiled (TRUE).    *)
(* The places of the variables that live in an area lie one behind the     *)
(* other from its beginning to `pnt`, and `most` is the greatest extent it *)
(* ever had.                                                               *)
(***************************************************************************)
EXTENDS Integers, Sequences

VARIABLES
  places,  \* the places of the variables that live, of each area
  pnt,     \* heap_pnt, or what is set aside of it
  most,    \* heap_memory_max, or what is set aside of it
  sub,     \* a routine is being compiled
  funcs    \* heap_memory_max_funcs: what all routines need

scopes == <<places, pnt, most, sub, funcs>>

Place == [offs: Nat, size: Nat \ {0}]
End(p) == p.offs + p.size

(* The places s lie one behind the other from `from` to `to`.               *)
Laid(s, from, to) ==
  /\ s \in Seq(Place)
  /\ \A i \in DOMAIN s : from <= s[i].offs /\ End(s[i]) <= to
  /\ \A i, j \in DOMAIN s : i < j => End(s[i]) <= s[j].offs
  /\ \A i \in DOMAIN s : i = 1 => s[i].offs = from
  /\ \A i \in DOMAIN s : i > 1 => s[i].offs = End(s[i - 1])
  /\ \A i \in DOMAIN s : i = Len(s) => End(s[i]) = to
  /\ s = <<>> => from = to

Greater(m, n) == IF m < n THEN n ELSE m

-----------------------------------------------------------------------------
Init ==
  /\ places = [a \in BOOLEAN |-> <<>>]
  /\ pnt = [a \in BOOLEAN |-> 0]
  /\ most = [a \in BOOLEAN |-> 0]
  /\ sub = FALSE
  /\ funcs = 0

(* A declaration puts its variable behind the others.                       *)
Declare ==
  LET top == pnt'[sub]
      p   == [offs |-> pnt[sub], size |-> top - pnt[sub]]
  IN  /\ top \in Nat /\ pnt[sub] < top
      /\ pnt' = [pnt EXCEPT ![sub] = top]
      /\ places' = [places EXCEPT ![sub] = Append(@, p)]
      /\ most' = [most EXCEPT ![sub] = Greater(@, top)]
      /\ UNCHANGED <<sub, funcs>>

(* A block that closes forgets its variables, the last ones: the next one    *)
(* goes where the first of them was.                                        *)
Forget ==
  \E n \in 0..(Len(places[sub]) - 1) :
    /\ pnt' = [pnt EXCEPT ![sub] = places[sub][n + 1].offs]
    /\ places' = [places EXCEPT ![sub] = SubSeq(@, 1, n)]
    /\ UNCHANGED <<most, sub, funcs>>

(* A routine begins with its parameters; the main part's area is set aside.  *)
Begin ==
  /\ ~sub /\ sub' = TRUE
  /\ pnt'[TRUE] \in Nat /\ Laid(places'[TRUE], 0, pnt'[TRUE])
  /\ pnt' = [pnt EXCEPT ![TRUE] = pnt'[TRUE]]
  /\ places' = [places EXCEPT ![TRUE] = places'[TRUE]]
  /\ most' = [most EXCEPT ![TRUE] = pnt'[TRUE]]
  /\ UNCHANGED funcs

(* A routine ends, and its variables with it.                                *)
EndSub ==
  /\ sub /\ sub' = FALSE
  /\ places' = [places EXCEPT ![TRUE] = <<>>]
  /\ pnt' = [pnt EXCEPT ![TRUE] = 0]
  /\ most' = [most EXCEPT ![TRUE] = 0]
  /\ funcs' = funcs + most[TRUE]

Next == Declare \/ Forget \/ Begin \/ EndSub
Spec == Init /\ [][Next]_scopes

-----------------------------------------------------------------------------
(* Two variables that live together have no byte in common, the main part's  *)
(* while a routine is compiled included.                                     *)
PlacesApart ==
  \A a \in BOOLEAN : \A i, j \in DOMAIN places[a] :
    i # j => \/ End(places[a][i]) <= places[a][j].offs
             \/ End(places[a][j]) <= places[a][i].offs

(* What an area asks for has room for every variable that lives in it.       *)
PlacesCovered ==
  \A a \in BOOLEAN : \A i \in DOMAIN places[a] :
    places[a][i].offs >= 0 /\ End(places[a][i]) <= most[a]
=============================================================================
