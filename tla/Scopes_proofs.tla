---------------------------- MODULE Scopes_proofs ----------------------------
(***************************************************************************)
(* The places of the variables that live together are disjoint and have    *)
(* room, whatever is declared, forgotten, begun and ended, in any order.   *)
(***************************************************************************)
EXTENDS Scopes, TLAPS

(* Both areas are laid out from their beginning, within what they ask for.  *)
AreaInv(a) == /\ pnt[a] \in Nat /\ most[a] \in Nat
              /\ Laid(places[a], 0, pnt[a])
              /\ pnt[a] <= most[a]

IInv ==
  /\ places \in [BOOLEAN -> Seq(Place)]
  /\ pnt \in [BOOLEAN -> Nat]
  /\ most \in [BOOLEAN -> Nat]
  /\ sub \in BOOLEAN
  /\ \A a \in BOOLEAN : AreaInv(a)

-----------------------------------------------------------------------------
(* One place more, behind the others.                                       *)
LEMMA LaidAppend ==
  ASSUME NEW s, NEW m \in Nat, NEW n \in Nat, m < n, Laid(s, 0, m),
         NEW p, p = [offs |-> m, size |-> n - m]
  PROVE  Laid(Append(s, p), 0, n)
<1>1. p \in Place /\ p.offs = m /\ End(p) = n
  BY DEF Place, End
<1>2. s \in Seq(Place) BY DEF Laid
<1> DEFINE t == Append(s, p)
<1>3. /\ t \in Seq(Place) /\ Len(t) = Len(s) + 1 /\ Len(s) \in Nat
      /\ t[Len(s) + 1] = p /\ \A i \in 1..Len(s) : t[i] = s[i]
      /\ DOMAIN s = 1..Len(s) /\ DOMAIN t = 1..(Len(s) + 1) /\ t # <<>>
  BY <1>1, <1>2
<1>4. \A i \in 1..Len(s) : s[i].offs \in Nat /\ s[i].size \in Nat /\ End(s[i]) \in Nat
                           /\ s[i].offs >= 0 /\ End(s[i]) <= m
  <2> SUFFICES ASSUME NEW i \in 1..Len(s)
               PROVE  /\ s[i].offs \in Nat /\ s[i].size \in Nat /\ End(s[i]) \in Nat
                      /\ s[i].offs >= 0 /\ End(s[i]) <= m
    OBVIOUS
  <2>1. s[i] \in Place BY <1>2
  <2>2. s[i].offs \in Nat /\ s[i].size \in Nat BY <2>1 DEF Place
  <2>3. End(s[i]) <= m BY <1>3 DEF Laid
  <2> QED BY <2>2, <2>3 DEF End
<1>5. \A i \in DOMAIN t : 0 <= t[i].offs /\ End(t[i]) <= n
  BY <1>1, <1>3, <1>4
<1>6. \A i, j \in DOMAIN t : i < j => End(t[i]) <= t[j].offs
  <2> SUFFICES ASSUME NEW i \in DOMAIN t, NEW j \in DOMAIN t, i < j
               PROVE  End(t[i]) <= t[j].offs
    OBVIOUS
  <2>1. CASE j = Len(s) + 1
    BY <2>1, <1>1, <1>3, <1>4
  <2>2. CASE j # Len(s) + 1
    <3>1. i \in 1..Len(s) /\ j \in 1..Len(s) BY <2>2, <1>3
    <3> QED BY <3>1, <1>3 DEF Laid
  <2> QED BY <2>1, <2>2
<1>7. \A i \in DOMAIN t : i = 1 => t[i].offs = 0
  <2>1. CASE s = <<>>
    BY <2>1, <1>1, <1>3 DEF Laid
  <2>2. CASE s # <<>>
    BY <2>2, <1>2, <1>3 DEF Laid
  <2> QED BY <2>1, <2>2
<1>8. \A i \in DOMAIN t : i > 1 => t[i].offs = End(t[i - 1])
  <2> SUFFICES ASSUME NEW i \in DOMAIN t, i > 1
               PROVE  t[i].offs = End(t[i - 1])
    OBVIOUS
  <2>1. CASE i = Len(s) + 1
    <3> DEFINE k == Len(s)
    <3>1. k \in 1..Len(s) /\ k \in DOMAIN s /\ i - 1 = k BY <2>1, <1>3
    <3>3. t[i - 1] = s[k] BY <3>1, <1>3
    <3>2. End(s[Len(s)]) = m BY <3>1 DEF Laid
    <3> QED BY <2>1, <3>2, <3>3, <1>1, <1>3
  <2>2. CASE i # Len(s) + 1
    <3>1. i \in 1..Len(s) /\ i - 1 \in 1..Len(s) BY <2>2, <1>3
    <3> QED BY <3>1, <1>3 DEF Laid
  <2> QED BY <2>1, <2>2
<1>9. \A i \in DOMAIN t : i = Len(t) => End(t[i]) = n
  BY <1>1, <1>3
<1> QED BY <1>3, <1>5, <1>6, <1>7, <1>8, <1>9 DEF Laid

(* What is left when the last places go ends where the first of them was.    *)
LEMMA LaidPrefix ==
  ASSUME NEW s, NEW m \in Nat, Laid(s, 0, m), NEW n \in 0..(Len(s) - 1)
  PROVE  /\ Laid(SubSeq(s, 1, n), 0, s[n + 1].offs)
         /\ s[n + 1].offs \in Nat /\ s[n + 1].offs <= m
<1>1. s \in Seq(Place) BY DEF Laid
<1> DEFINE t == SubSeq(s, 1, n)
<1>2. Len(s) \in Nat /\ DOMAIN s = 1..Len(s) /\ n \in Nat /\ n + 1 \in 1..Len(s)
  BY <1>1
<1>3. /\ t \in Seq(Place) /\ Len(t) = n /\ DOMAIN t = 1..n
      /\ \A i \in 1..n : t[i] = s[i] /\ i \in DOMAIN s
  BY <1>1, <1>2
<1>4. \A i \in DOMAIN s : s[i].offs \in Nat /\ s[i].size \in Nat /\ s[i].size > 0
  <2> SUFFICES ASSUME NEW i \in DOMAIN s
               PROVE  s[i].offs \in Nat /\ s[i].size \in Nat /\ s[i].size > 0
    OBVIOUS
  <2>1. s[i] \in Place BY <1>1, <1>2
  <2> QED BY <2>1 DEF Place
<1>5. s[n + 1].offs \in Nat /\ s[n + 1].offs <= m
  BY <1>2, <1>4 DEF Laid, End
<1>6. \A i \in DOMAIN t : 0 <= t[i].offs /\ End(t[i]) <= s[n + 1].offs
  BY <1>2, <1>3 DEF Laid
<1>7. \A i, j \in DOMAIN t : i < j => End(t[i]) <= t[j].offs
  BY <1>3 DEF Laid
<1>8. \A i \in DOMAIN t : i = 1 => t[i].offs = 0
  BY <1>3 DEF Laid
<1>9. \A i \in DOMAIN t : i > 1 => t[i].offs = End(t[i - 1])
  <2> SUFFICES ASSUME NEW i \in DOMAIN t, i > 1
               PROVE  t[i].offs = End(t[i - 1])
    OBVIOUS
  <2> DEFINE k == i - 1
  <2>1. i \in 1..n /\ k \in 1..n /\ i \in DOMAIN s BY <1>2, <1>3
  <2>2. t[i] = s[i] /\ t[k] = s[k] BY <2>1, <1>3
  <2>3. s[i].offs = End(s[k]) BY <2>1 DEF Laid
  <2> QED BY <2>2, <2>3
<1>10. \A i \in DOMAIN t : i = Len(t) => End(t[i]) = s[n + 1].offs
  <2> SUFFICES ASSUME NEW i \in DOMAIN t, i = n
               PROVE  End(s[n]) = s[n + 1].offs
    BY <1>3
  <2>1. n + 1 > 1 /\ (n + 1) - 1 = n BY <1>2, <1>3
  <2> QED BY <2>1, <1>2 DEF Laid
<1>11. t = <<>> => 0 = s[n + 1].offs
  <2> SUFFICES ASSUME t = <<>> PROVE s[n + 1].offs = 0
    OBVIOUS
  <2>1. n = 0 BY <1>3
  <2> QED BY <2>1, <1>2 DEF Laid
<1> QED BY <1>3, <1>5, <1>6, <1>7, <1>8, <1>9, <1>10, <1>11 DEF Laid

(* No places are laid out from 0 to 0.                                       *)
LEMMA LaidEmpty == Laid(<<>>, 0, 0) /\ <<>> \in Seq(Place)
BY DEF Laid

-----------------------------------------------------------------------------
(* It holds of no variables.                                                 *)
LEMMA InitInv == Init => IInv
<1> SUFFICES ASSUME Init PROVE IInv
  OBVIOUS
<1>1. \A a \in BOOLEAN : AreaInv(a)
  BY LaidEmpty DEF Init, AreaInv
<1>2. places \in [BOOLEAN -> Seq(Place)] BY LaidEmpty DEF Init
<1>3. pnt \in [BOOLEAN -> Nat] /\ most \in [BOOLEAN -> Nat] /\ sub \in BOOLEAN BY DEF Init
<1> QED BY <1>1, <1>2, <1>3 DEF IInv

(* A declaration keeps it.                                                   *)
LEMMA DeclareInv == IInv /\ Declare => IInv'
<1> SUFFICES ASSUME IInv, Declare PROVE IInv'
  OBVIOUS
<1> DEFINE top == pnt'[sub]
           p   == [offs |-> pnt[sub], size |-> top - pnt[sub]]
<1>1. /\ top \in Nat /\ pnt[sub] \in Nat /\ pnt[sub] < top /\ sub \in BOOLEAN
      /\ sub' = sub
      /\ pnt' = [pnt EXCEPT ![sub] = top]
      /\ places' = [places EXCEPT ![sub] = Append(places[sub], p)]
      /\ most' = [most EXCEPT ![sub] = Greater(most[sub], top)]
  BY DEF Declare, IInv
<1>2. Laid(Append(places[sub], p), 0, top)
  BY <1>1, LaidAppend DEF IInv, AreaInv
<1>3. Append(places[sub], p) \in Seq(Place)
  BY <1>2 DEF Laid
<1>4. Greater(most[sub], top) \in Nat /\ top <= Greater(most[sub], top)
  BY <1>1 DEF IInv, Greater
<1>5. \A a \in BOOLEAN : AreaInv(a)'
  <2> SUFFICES ASSUME NEW a \in BOOLEAN PROVE AreaInv(a)'
    OBVIOUS
  <2>1. CASE a = sub
    <3>1. places'[a] = Append(places[sub], p) /\ pnt'[a] = top /\ most'[a] = Greater(most[sub], top)
      BY <2>1, <1>1 DEF IInv
    <3> QED BY <3>1, <1>1, <1>2, <1>4 DEF AreaInv
  <2>2. CASE a # sub
    <3>1. places'[a] = places[a] /\ pnt'[a] = pnt[a] /\ most'[a] = most[a]
      BY <2>2, <1>1 DEF IInv
    <3> QED BY <3>1 DEF IInv, AreaInv
  <2> QED BY <2>1, <2>2
<1> QED BY <1>1, <1>3, <1>4, <1>5 DEF IInv

(* A block that closes keeps it.                                             *)
LEMMA ForgetInv == IInv /\ Forget => IInv'
<1> SUFFICES ASSUME IInv, Forget PROVE IInv'
  OBVIOUS
<1>1. PICK n \in 0..(Len(places[sub]) - 1) :
        /\ pnt' = [pnt EXCEPT ![sub] = places[sub][n + 1].offs]
        /\ places' = [places EXCEPT ![sub] = SubSeq(places[sub], 1, n)]
        /\ most' = most /\ sub' = sub
  BY DEF Forget
<1>2. sub \in BOOLEAN /\ AreaInv(sub)
  BY DEF IInv
<1>3. /\ Laid(SubSeq(places[sub], 1, n), 0, places[sub][n + 1].offs)
      /\ places[sub][n + 1].offs \in Nat /\ places[sub][n + 1].offs <= pnt[sub]
  BY <1>1, <1>2, LaidPrefix DEF AreaInv
<1>4. SubSeq(places[sub], 1, n) \in Seq(Place)
  BY <1>3 DEF Laid
<1>5. \A a \in BOOLEAN : AreaInv(a)'
  <2> SUFFICES ASSUME NEW a \in BOOLEAN PROVE AreaInv(a)'
    OBVIOUS
  <2>1. CASE a = sub
    <3>1. /\ places'[a] = SubSeq(places[sub], 1, n)
          /\ pnt'[a] = places[sub][n + 1].offs /\ most'[a] = most[sub]
      BY <2>1, <1>1, <1>2 DEF IInv
    <3>2. pnt'[a] <= most'[a]
      BY <3>1, <1>2, <1>3 DEF AreaInv
    <3> QED BY <3>1, <3>2, <1>2, <1>3 DEF AreaInv
  <2>2. CASE a # sub
    <3>1. places'[a] = places[a] /\ pnt'[a] = pnt[a] /\ most'[a] = most[a]
      BY <2>2, <1>1, <1>2 DEF IInv
    <3> QED BY <3>1 DEF IInv, AreaInv
  <2> QED BY <2>1, <2>2
<1> QED BY <1>1, <1>2, <1>3, <1>4, <1>5 DEF IInv

(* A routine that begins keeps it.                                           *)
LEMMA BeginInv == IInv /\ Begin => IInv'
<1> SUFFICES ASSUME IInv, Begin PROVE IInv'
  OBVIOUS
<1>1. /\ sub' = TRUE /\ pnt'[TRUE] \in Nat /\ Laid(places'[TRUE], 0, pnt'[TRUE])
      /\ pnt' = [pnt EXCEPT ![TRUE] = pnt'[TRUE]]
      /\ places' = [places EXCEPT ![TRUE] = places'[TRUE]]
      /\ most' = [most EXCEPT ![TRUE] = pnt'[TRUE]]
  BY DEF Begin
<1>2. places'[TRUE] \in Seq(Place)
  BY <1>1 DEF Laid
<1>3. most'[TRUE] = pnt'[TRUE]
  BY <1>1 DEF IInv
<1>4. AreaInv(TRUE)'
  <2>1. PICK n \in Nat : n = pnt'[TRUE]
    BY <1>1
  <2>2. n <= n
    OBVIOUS
  <2>3. Laid(places'[TRUE], 0, pnt'[TRUE])
    BY <1>1
  <2> QED BY <2>1, <2>2, <2>3, <1>3 DEF AreaInv
<1>5. places'[FALSE] = places[FALSE] /\ pnt'[FALSE] = pnt[FALSE] /\ most'[FALSE] = most[FALSE]
  BY <1>1 DEF IInv
<1>6. AreaInv(FALSE)'
  BY <1>5 DEF IInv, AreaInv
<1>7. \A a \in BOOLEAN : AreaInv(a)'
  BY <1>4, <1>6
<1> QED BY <1>1, <1>2, <1>7 DEF IInv

(* A routine that ends keeps it.                                             *)
LEMMA EndSubInv == IInv /\ EndSub => IInv'
<1> SUFFICES ASSUME IInv, EndSub PROVE IInv'
  OBVIOUS
<1>1. /\ sub' = FALSE
      /\ places' = [places EXCEPT ![TRUE] = <<>>]
      /\ pnt' = [pnt EXCEPT ![TRUE] = 0]
      /\ most' = [most EXCEPT ![TRUE] = 0]
  BY DEF EndSub
<1>2. /\ places'[TRUE] = <<>> /\ pnt'[TRUE] = 0 /\ most'[TRUE] = 0
      /\ places'[FALSE] = places[FALSE] /\ pnt'[FALSE] = pnt[FALSE] /\ most'[FALSE] = most[FALSE]
  BY <1>1 DEF IInv
<1>3. AreaInv(TRUE)'
  BY <1>2, LaidEmpty DEF AreaInv
<1>4. AreaInv(FALSE)'
  BY <1>2 DEF IInv, AreaInv
<1>5. \A a \in BOOLEAN : AreaInv(a)'
  BY <1>3, <1>4
<1>6. places' \in [BOOLEAN -> Seq(Place)] BY <1>1, LaidEmpty DEF IInv
<1>7. pnt' \in [BOOLEAN -> Nat] /\ most' \in [BOOLEAN -> Nat] /\ sub' \in BOOLEAN BY <1>1 DEF IInv
<1> QED BY <1>5, <1>6, <1>7 DEF IInv

(* Every step keeps it.                                                      *)
LEMMA StepInv == IInv /\ [Next]_scopes => IInv'
<1> SUFFICES ASSUME IInv, [Next]_scopes PROVE IInv'
  OBVIOUS
<1>1. CASE Declare BY <1>1, DeclareInv
<1>2. CASE Forget BY <1>2, ForgetInv
<1>3. CASE Begin BY <1>3, BeginInv
<1>4. CASE EndSub BY <1>4, EndSubInv
<1>5. CASE UNCHANGED scopes
  BY <1>5 DEF scopes, IInv, AreaInv
<1> QED BY <1>1, <1>2, <1>3, <1>4, <1>5 DEF Next

(* Places that lie one behind the other have no byte in common.              *)
LEMMA LaidApart ==
  ASSUME NEW s, NEW to, Laid(s, 0, to), NEW i \in DOMAIN s, NEW j \in DOMAIN s, i # j
  PROVE  End(s[i]) <= s[j].offs \/ End(s[j]) <= s[i].offs
<1>1. s \in Seq(Place) BY DEF Laid
<1>2. i \in Nat /\ j \in Nat /\ (i < j \/ j < i) BY <1>1
<1> QED BY <1>2 DEF Laid

(* They are within any bound the last of them keeps.                         *)
LEMMA LaidCovered ==
  ASSUME NEW s, NEW to \in Nat, NEW max \in Nat, Laid(s, 0, to), to <= max, NEW i \in DOMAIN s
  PROVE  s[i].offs >= 0 /\ End(s[i]) <= max
<1>1. s \in Seq(Place) BY DEF Laid
<1>2. s[i] \in Place BY <1>1
<1>3. s[i].offs \in Nat /\ End(s[i]) \in Nat BY <1>2 DEF Place, End
<1> QED BY <1>1, <1>3 DEF Laid

(* Whatever is declared, forgotten, begun and ended: variables that live     *)
(* together are apart (RegisterVar, UnregisterLastBlockVars, RegisterSub).   *)
THEOREM LivePlacesApart == Spec => []PlacesApart
<1>1. IInv => PlacesApart BY LaidApart DEF IInv, AreaInv, PlacesApart
<1> QED BY <1>1, InitInv, StepInv, PTL DEF Spec

(* Each area asks for all the bytes its variables ever take together: the    *)
(* image's heap_min_size is the sum of what the areas ask for.               *)
THEOREM LivePlacesCovered == Spec => []PlacesCovered
<1>1. IInv => PlacesCovered BY LaidCovered DEF IInv, AreaInv, PlacesCovered
<1> QED BY <1>1, InitInv, StepInv, PTL DEF Spec
=============================================================================
