---------------------------- MODULE Places_proofs ---------------------------
(***************************************************************************)
(* The registry of variables as Scopes sees it: every line that declares,  *)
(* closes a block, begins or ends a routine is a step of Scopes or none    *)
(* (RegisterVar, UnregisterLastBlockVars, RegisterSub, EndSubContext).     *)
(* And the registry of labels: the label of an open block's end waits for  *)
(* its place, so the line that closes the block is accepted (open_block,   *)
(* LabelBlock, BLOCK_END).                                                 *)
(***************************************************************************)
EXTENDS Nesting, Lines_proofs

-----------------------------------------------------------------------------
(* The areas.                                                                *)

(* The places of area a, as Nesting's PlacesOf has them, of any record.      *)
AreaPlaces(r, a) ==
  LET all     == r.vars_vect
      routine == {i \in DOMAIN r.vars_vect : r.vars_vect[i].subs_body}
      main    == IF routine = {} THEN Len(all) ELSE Min(routine) - 1
      mine    == IF a THEN SubSeq(all, main + 1, Len(all)) ELSE SubSeq(all, 1, main)
  IN  [i \in 1..Len(mine) |-> [offs |-> mine[i].mem_offs, size |-> mine[i].mem_size]]

(* The place of a variable.                                                  *)
PlaceOf(v) == [offs |-> v.mem_offs, size |-> v.mem_size]

(* The first m of the n variables are the main part's.                       *)
SplitAt(r, m, n) ==
  /\ n = Len(r.vars_vect)
  /\ \A i \in 1..n : r.vars_vect[i].subs_body <=> i > m
(* The places of the first m variables, the main part's, or of the others.   *)
AreaOf(r, m, n, a) ==
  IF a THEN [i \in 1..(n - m) |-> PlaceOf(r.vars_vect[m + i])]
  ELSE [i \in 1..m |-> PlaceOf(r.vars_vect[i])]

(* Scopes sees those.                                                        *)
LEMMA PlacesAre ==
  ASSUME NEW r, Sound(r), NEW n \in Nat, NEW m \in 0..n, SplitAt(r, m, n), NEW a \in BOOLEAN
  PROVE  AreaPlaces(r, a) = AreaOf(r, m, n, a)
<1> DEFINE all == r.vars_vect
           routine == {i \in DOMAIN r.vars_vect : r.vars_vect[i].subs_body}
           main == IF routine = {} THEN Len(all) ELSE Min(routine) - 1
           mine == IF a THEN SubSeq(all, main + 1, Len(all)) ELSE SubSeq(all, 1, main)
<1>1. all \in Seq(VarType) /\ Len(all) = n /\ DOMAIN all = 1..n
  BY DEF Sound, Result, SplitAt
<1>2. routine = (m + 1)..n BY <1>1 DEF SplitAt
<1> HIDE DEF routine
<1>3. main = m
  <2>1. CASE m = n
    <3>1. routine = {} BY <1>2, <2>1
    <3> QED BY <1>1, <2>1, <3>1
  <2>2. CASE m < n
    <3>0. m + 1 \in (m + 1)..n /\ (m + 1)..n \subseteq Nat BY <2>2
    <3>1. routine # {} /\ routine \subseteq Nat /\ m + 1 \in routine BY <1>2, <3>0, Zenon
    <3>2. Min(routine) \in routine /\ \A y \in routine : Min(routine) <= y BY <3>1, MinIs
    <3>3. PICK k \in Nat : k = Min(routine) BY <3>1, <3>2
    <3>4. k \in (m + 1)..n /\ k <= m + 1 BY <1>2, <3>1, <3>2, <3>3
    <3>5. k = m + 1 BY <3>4
    <3>6. main = k - 1 BY <3>1, <3>3
    <3> HIDE DEF main
    <3> QED BY <3>5, <3>6
  <2>3. m = n \/ m < n OBVIOUS
  <2> QED BY <2>1, <2>2, <2>3
<1> HIDE DEF main
<1>7. \A i, j \in Nat : i >= 1 /\ j <= n => SubSeq(all, i, j) = [k \in 1..(j - i + 1) |-> all[i + k - 1]]
                                          /\ (i <= j + 1 => Len(SubSeq(all, i, j)) = j - i + 1)
  <2> HIDE DEF all
  <2> QED BY <1>1
<1>4. AreaPlaces(r, a) = [i \in 1..Len(mine) |-> PlaceOf(mine[i])] BY DEF AreaPlaces, PlaceOf, main, routine
<1>5. CASE a
  <2>1. mine = SubSeq(all, m + 1, n) BY <1>1, <1>3, <1>5
  <2> HIDE DEF mine
  <2>2. m + 1 \in Nat /\ m + 1 >= 1 /\ n <= n /\ m + 1 <= n + 1 /\ n - (m + 1) + 1 = n - m OBVIOUS
  <2>3. Len(mine) = n - m /\ mine = [k \in 1..(n - m) |-> all[m + 1 + k - 1]] BY <1>7, <2>1, <2>2
  <2>4. \A i \in 1..(n - m) : m + 1 + i - 1 = m + i OBVIOUS
  <2>5. \A i \in 1..(n - m) : mine[i] = all[m + i] BY <2>3, <2>4
  <2> HIDE DEF all
  <2>6. AreaPlaces(r, a) = [i \in 1..(n - m) |-> PlaceOf(all[m + i])] BY <1>4, <2>3, <2>5
  <2> QED BY <1>5, <2>6 DEF AreaOf, all
<1>6. CASE ~a
  <2>1. mine = SubSeq(all, 1, m) BY <1>1, <1>3, <1>6
  <2> HIDE DEF mine
  <2>2. 1 \in Nat /\ m \in Nat /\ m <= n /\ 1 <= m + 1 /\ m - 1 + 1 = m OBVIOUS
  <2>3. Len(mine) = m /\ mine = [k \in 1..m |-> all[1 + k - 1]] BY <1>7, <2>1, <2>2
  <2>4. \A i \in 1..m : 1 + i - 1 = i OBVIOUS
  <2>5. \A i \in 1..m : mine[i] = all[i] BY <2>3, <2>4
  <2> HIDE DEF all
  <2>6. AreaPlaces(r, a) = [i \in 1..m |-> PlaceOf(all[i])] BY <1>4, <2>3, <2>5
  <2> QED BY <1>6, <2>6 DEF AreaOf, all
<1> QED BY <1>5, <1>6

(* The main part's variables come first.                                     *)
LEMMA SplitExists ==
  ASSUME NEW r, Sound(r), VarsIn(r), NEW n \in Nat, n = Len(r.vars_vect)
  PROVE  \E m \in 0..n : SplitAt(r, m, n) /\ (~r.subs_body => m = n)
<1> DEFINE R == {i \in 1..n : r.vars_vect[i].in_block > 0}
<1>1. \A i \in 1..n : r.vars_vect[i].in_block \in Nat /\ r.vars_vect[i].subs_body \in BOOLEAN
  BY VarIs
<1>2. CASE ~r.subs_body
  <2>1. \A i \in 1..n : ~r.vars_vect[i].subs_body BY <1>2 DEF VarsIn, InAreas
  <2>2. SplitAt(r, n, n) BY <2>1 DEF SplitAt
  <2>3. n \in 0..n OBVIOUS
  <2> QED BY <2>2, <2>3
<1>3. CASE r.subs_body /\ R = {}
  <2>1. \A i \in 1..n : ~r.vars_vect[i].subs_body BY <1>3 DEF VarsIn, InAreas
  <2>2. SplitAt(r, n, n) BY <2>1 DEF SplitAt
  <2>3. n \in 0..n OBVIOUS
  <2> QED BY <2>2, <2>3
<1>4. CASE r.subs_body /\ R # {}
  <2>1. R \subseteq Nat OBVIOUS
  <2>2. PICK k \in R : \A y \in R : k <= y BY <1>4, <2>1, LeastElement
  <2>3. k \in 1..n /\ r.vars_vect[k].in_block > 0 /\ k - 1 \in 0..n BY <2>2
  <2>4. ASSUME NEW i \in 1..n PROVE r.vars_vect[i].subs_body <=> i > k - 1
    <3>1. r.vars_vect[i].subs_body <=> r.vars_vect[i].in_block > 0 BY <1>4 DEF VarsIn, InAreas
    <3>2. CASE i < k
      <4>1. i \notin R BY <2>2, <2>3, <3>2
      <4> QED BY <2>3, <3>1, <3>2, <4>1
    <3>3. CASE i = k BY <2>3, <3>1, <3>3
    <3>4. CASE i > k
      <4>1. r.vars_vect[k].in_block <= r.vars_vect[i].in_block BY <2>3, <3>4 DEF VarsIn, InOrder
      <4>2. r.vars_vect[i].in_block > 0 BY <1>1, <2>3, <4>1
      <4> QED BY <2>3, <3>1, <3>4, <4>2
    <3> QED BY <2>3, <3>2, <3>3, <3>4
  <2>5. SplitAt(r, k - 1, n) BY <2>4 DEF SplitAt
  <2> QED BY <1>4, <2>3, <2>5
<1> QED BY <1>2, <1>3, <1>4

(* The theorems about Scopes, for what it sees of the compiler.              *)
ScP == INSTANCE Scopes_proofs WITH
  places <- [a \in BOOLEAN |-> PlacesOf(a)],
  pnt    <- [a \in BOOLEAN |-> OfArea(a, result.heap_pnt, result.heap_pnt_back)],
  most   <- [a \in BOOLEAN |-> OfArea(a, result.heap_memory_max, result.heap_memory_max_back)],
  sub    <- result.subs_body,
  funcs  <- result.heap_memory_max_funcs

(* The area the compiler is working in: its variables are the last ones.     *)
OwnFrom(r, m) == IF r.subs_body THEN m ELSE 0
(* Both areas, from the variables in their order.                            *)
Holds(r, m, n) ==
  /\ SplitAt(r, m, n) /\ (~r.subs_body => m = n)
  /\ AreaPlaces(r, r.subs_body) = [i \in 1..(n - OwnFrom(r, m)) |-> PlaceOf(r.vars_vect[OwnFrom(r, m) + i])]
  /\ AreaPlaces(r, ~r.subs_body) = [i \in 1..OwnFrom(r, m) |-> PlaceOf(r.vars_vect[i])]

(* They are so whenever variables are in their blocks.                       *)
LEMMA OwnArea ==
  ASSUME NEW r, Sound(r), VarsIn(r), NEW n \in Nat, n = Len(r.vars_vect)
  PROVE  \E m \in 0..n : Holds(r, m, n) /\ OwnFrom(r, m) \in 0..n
<1>1. PICK m \in 0..n : SplitAt(r, m, n) /\ (~r.subs_body => m = n)
  BY SplitExists
<1>2. r.subs_body \in BOOLEAN BY DEF Sound, Result
<1>3. \A a \in BOOLEAN : AreaPlaces(r, a) = AreaOf(r, m, n, a)
  BY <1>1, PlacesAre
<1>4. CASE r.subs_body
  <2>1. AreaPlaces(r, TRUE) = AreaOf(r, m, n, TRUE) /\ AreaPlaces(r, FALSE) = AreaOf(r, m, n, FALSE)
    BY <1>3
  <2>2. OwnFrom(r, m) = m /\ r.subs_body = TRUE /\ (~r.subs_body) = FALSE BY <1>2, <1>4 DEF OwnFrom
  <2> QED BY <1>1, <2>1, <2>2 DEF Holds, AreaOf
<1>5. CASE ~r.subs_body
  <2>1. AreaPlaces(r, TRUE) = AreaOf(r, m, n, TRUE) /\ AreaPlaces(r, FALSE) = AreaOf(r, m, n, FALSE)
    BY <1>3
  <2>2. OwnFrom(r, m) = 0 /\ r.subs_body = FALSE /\ (~r.subs_body) = TRUE /\ m = n
    BY <1>1, <1>2, <1>5 DEF OwnFrom
  <2>3. AreaPlaces(r, FALSE) = [i \in 1..n |-> PlaceOf(r.vars_vect[i])] BY <2>1, <2>2 DEF AreaOf
  <2>4. AreaPlaces(r, TRUE) = [i \in 1..(n - n) |-> PlaceOf(r.vars_vect[n + i])]
    BY <2>1, <2>2 DEF AreaOf
  <2>5. 1..(n - n) = {} /\ 1..0 = {} /\ n - 0 = n /\ \A i \in 1..n : 0 + i = i OBVIOUS
  <2>6. AreaPlaces(r, TRUE) = [i \in 1..0 |-> PlaceOf(r.vars_vect[i])]
    BY <2>4, <2>5
  <2>7. AreaPlaces(r, FALSE) = [i \in 1..(n - 0) |-> PlaceOf(r.vars_vect[0 + i])]
    BY <2>3, <2>5
  <2>8. 0 \in 0..n OBVIOUS
  <2> QED BY <1>1, <2>2, <2>6, <2>7, <2>8 DEF Holds
<1> QED BY <1>2, <1>4, <1>5

(* A variable more is a place more, behind the others of its area.           *)
LEMMA GainPlaces ==
  ASSUME NEW r, Sound(r), VarsIn(r), NEW q, Sound(q), VarsIn(q), NEW size, Gains(r, q, size),
         q.subs_body = r.subs_body
  PROVE  /\ AreaPlaces(q, r.subs_body)
              = Append(AreaPlaces(r, r.subs_body), [offs |-> r.heap_pnt, size |-> size])
         /\ AreaPlaces(q, ~r.subs_body) = AreaPlaces(r, ~r.subs_body)
<1>1. PICK n \in Nat : n = Len(r.vars_vect) BY NumbersAre
<1>2. PICK m \in 0..n : Holds(r, m, n) /\ OwnFrom(r, m) \in 0..n BY <1>1, OwnArea
<1>3. n + 1 \in Nat /\ n + 1 = Len(q.vars_vect) BY <1>1 DEF Gains
<1>4. PICK k \in 0..(n + 1) : Holds(q, k, n + 1) /\ OwnFrom(q, k) \in 0..(n + 1)
  BY <1>3, OwnArea
<1>5. /\ \A i \in 1..n : q.vars_vect[i] = r.vars_vect[i]
      /\ PlaceOf(q.vars_vect[n + 1]) = [offs |-> r.heap_pnt, size |-> size]
      /\ q.vars_vect[n + 1].subs_body = r.subs_body
  BY <1>1 DEF Gains, PlaceOf
<1>6. r.subs_body \in BOOLEAN BY DEF Sound, Result
<1>7. r.subs_body => k = m
  <2> SUFFICES ASSUME r.subs_body PROVE k = m
    OBVIOUS
  <2>0. /\ \A i \in 1..n : r.vars_vect[i].subs_body <=> i > m
        /\ \A i \in 1..(n + 1) : q.vars_vect[i].subs_body <=> i > k
        /\ q.vars_vect[n + 1].subs_body
    BY <1>2, <1>4, <1>5 DEF Holds, SplitAt
  <2>5. n + 1 \in 1..(n + 1) /\ \A i \in 1..n : i \in 1..(n + 1) OBVIOUS
  <2>1. \A i \in 1..n : i > k <=> i > m
    BY <1>5, <2>0, <2>5, Zenon
  <2>2. n + 1 > k
    BY <2>0, <2>5, Zenon
  <2>3. k < m => (m > k <=> m > m) BY <1>2, <2>1
  <2>4. m < k => (k > k <=> k > m) BY <1>4, <2>1, <2>2
  <2> QED BY <2>3, <2>4
<1>8. PICK f \in 0..n : f = OwnFrom(r, m) /\ f = OwnFrom(q, k)
  BY <1>2, <1>7 DEF OwnFrom
<1>9. /\ AreaPlaces(r, r.subs_body) = [i \in 1..(n - f) |-> PlaceOf(r.vars_vect[f + i])]
      /\ AreaPlaces(q, r.subs_body) = [i \in 1..(n + 1 - f) |-> PlaceOf(q.vars_vect[f + i])]
      /\ AreaPlaces(r, ~r.subs_body) = [i \in 1..f |-> PlaceOf(r.vars_vect[i])]
      /\ AreaPlaces(q, ~r.subs_body) = [i \in 1..f |-> PlaceOf(q.vars_vect[i])]
  BY <1>2, <1>4, <1>8 DEF Holds
<1>10. AreaPlaces(q, ~r.subs_body) = AreaPlaces(r, ~r.subs_body)
  <2>1. \A i \in 1..f : i \in 1..n OBVIOUS
  <2> QED BY <1>5, <1>9, <2>1
<1>11. AreaPlaces(q, r.subs_body)
         = Append(AreaPlaces(r, r.subs_body), [offs |-> r.heap_pnt, size |-> size])
  <2> DEFINE S == {PlaceOf(r.vars_vect[f + i]) : i \in 1..(n - f)}
             s == [i \in 1..(n - f) |-> PlaceOf(r.vars_vect[f + i])]
             p == [offs |-> r.heap_pnt, size |-> size]
             t == [i \in 1..(n + 1 - f) |-> PlaceOf(q.vars_vect[f + i])]
  <2>1. PICK d \in Nat : d = n - f OBVIOUS
  <2>2. s \in Seq(S) /\ Len(s) = d
    <3>1. s \in [1..d -> S] BY <2>1
    <3> HIDE DEF s, S
    <3> QED BY <2>1, <3>1, SeqFrom
  <2>3. \A i \in 1..d : i \in 1..(n - f) /\ f + i \in 1..n BY <2>1
  <2>4. \A i \in 1..d : t[i] = s[i] /\ i \in 1..(n + 1 - f) BY <1>5, <2>1, <2>3
  <2>5. t[d + 1] = p /\ d + 1 = n + 1 - f
    <3>1. d + 1 = n + 1 - f /\ f + (d + 1) = n + 1 /\ d + 1 \in 1..(n + 1 - f) BY <2>1
    <3> QED BY <1>5, <3>1
  <2>6. Append(s, p) = [i \in 1..(d + 1) |-> IF i = d + 1 THEN p ELSE s[i]]
    <3> HIDE DEF s, S, p
    <3> DEFINE u == Append(s, p)
    <3>1. s \in Seq(S \cup {p}) /\ p \in S \cup {p}
      <4>1. s \in [1..d -> S \cup {p}] BY <2>1, <2>2
      <4> QED BY <2>1, <4>1, SeqFrom
    <3>2. u \in Seq(S \cup {p}) /\ Len(u) = d + 1 BY <2>1, <2>2, <3>1
    <3>3. \A i \in 1..(d + 1) : u[i] = IF i = d + 1 THEN p ELSE s[i] BY <2>1, <2>2, <3>1
    <3> HIDE DEF u
    <3>6. u \in [1..(d + 1) -> S \cup {p}] BY <2>1, <3>2
    <3>4. u = [i \in 1..(d + 1) |-> u[i]] BY <3>6
    <3>5. u = [i \in 1..(d + 1) |-> IF i = d + 1 THEN p ELSE s[i]] BY <3>3, <3>4
    <3> QED BY <3>5 DEF u
  <2>7. t = [i \in 1..(d + 1) |-> IF i = d + 1 THEN p ELSE s[i]]
    <3>1. \A i \in 1..(d + 1) : i = d + 1 \/ i \in 1..d BY <2>1
    <3>2. t = [i \in 1..(d + 1) |-> t[i]] BY <2>5
    <3> HIDE DEF s, t, p
    <3> QED BY <2>4, <2>5, <3>1, <3>2
  <2> QED BY <1>9, <2>6, <2>7
<1> QED BY <1>10, <1>11

(* The variables a block gives back are of the area the compiler works in.   *)
LEMMA OwnReturned ==
  ASSUME NEW r, Sound(r), VarsIn(r), NEW n \in Nat, n = Len(r.vars_vect), NEW m \in 0..n, Holds(r, m, n),
         NEW left, NEW count, Returns(r, left, count), Len(r.block_vect) > 0
  PROVE  count \in 0..(n - OwnFrom(r, m))
<1>1. count \in 0..n /\ \A i \in (n - count + 1)..n : r.vars_vect[i].in_block = Len(r.block_vect)
  BY DEF Returns
<1>2. CASE ~r.subs_body BY <1>1, <1>2 DEF OwnFrom
<1>3. CASE r.subs_body
  <2>1. SUFFICES ASSUME count > n - m PROVE FALSE
    BY <1>1, <1>3 DEF OwnFrom
  <2>2. m \in (n - count + 1)..n /\ m \in 1..n BY <1>1, <2>1
  <2>3. r.vars_vect[m].in_block > 0 BY <1>1, <2>2
  <2>4. r.vars_vect[m].subs_body BY <1>3, <2>2, <2>3 DEF VarsIn, InAreas
  <2>5. m > m BY <2>2, <2>4 DEF Holds, SplitAt
  <2> QED BY <2>5
<1> QED BY <1>2, <1>3

(* The heap pointer behind the k-th that is given back is where it was.      *)
LEMMA LeftIs ==
  ASSUME NEW r, Sound(r), VarsIn(r), NEW n \in Nat, n = Len(r.vars_vect), NEW m \in 0..n, Holds(r, m, n),
         NEW left, NEW count, Returns(r, left, count), Len(r.block_vect) > 0,
         ScP!Laid(AreaPlaces(r, r.subs_body), 0, r.heap_pnt)
  PROVE  \A k \in 1..count : /\ left[k] = r.vars_vect[n - k + 1].mem_offs
                             /\ r.vars_vect[n - k + 1].mem_offs \in Nat
<1> DEFINE s == AreaPlaces(r, r.subs_body)
           f == OwnFrom(r, m)
           d == n - f
           At(k) == left[k] = r.vars_vect[n - k + 1].mem_offs
<1>1. f \in 0..n BY DEF OwnFrom
<1>2. d \in Nat /\ count \in 0..d BY <1>1, OwnReturned
<1>3. s = [i \in 1..d |-> PlaceOf(r.vars_vect[f + i])] BY DEF Holds
<1>4. /\ s \in Seq(ScP!Place) /\ DOMAIN s = 1..d /\ Len(s) = d
      /\ \A i \in 1..d : i > 1 => s[i].offs = ScP!End(s[i - 1])
      /\ \A i \in 1..d : i = d => ScP!End(s[i]) = r.heap_pnt
  <2>1. s \in Seq(ScP!Place) /\ DOMAIN s = 1..d BY <1>3 DEF ScP!Laid
  <2>2. Len(s) = d
    <3> HIDE DEF s, d
    <3> QED BY <1>2, <2>1
  <2> QED BY <2>1, <2>2 DEF ScP!Laid
<1>5. \A i \in 1..d : /\ s[i].offs = r.vars_vect[f + i].mem_offs
                      /\ s[i].size = r.vars_vect[f + i].mem_size
                      /\ s[i].offs \in Nat /\ s[i].size \in Nat
                      /\ ScP!End(s[i]) = s[i].offs + s[i].size
  <2> SUFFICES ASSUME NEW i \in 1..d
               PROVE  /\ s[i].offs = r.vars_vect[f + i].mem_offs
                      /\ s[i].size = r.vars_vect[f + i].mem_size
                      /\ s[i].offs \in Nat /\ s[i].size \in Nat
                      /\ ScP!End(s[i]) = s[i].offs + s[i].size
    OBVIOUS
  <2>1. s[i] = PlaceOf(r.vars_vect[f + i]) BY <1>3
  <2>2. s[i] \in ScP!Place BY <1>4
  <2> HIDE DEF s
  <2> QED BY <2>1, <2>2 DEF PlaceOf, ScP!Place, ScP!End
<1>6. /\ left[0] = r.heap_pnt
      /\ \A k \in 1..n : left[k] = left[k - 1] - r.vars_vect[n - k + 1].mem_size
  BY DEF Returns
<1> HIDE DEF s, f
<1>7. \A k \in 1..d : d - k + 1 \in 1..d /\ f + (d - k + 1) = n - k + 1 /\ k \in 1..n BY <1>1
<1>8. d > 0 => At(1)
  <2> SUFFICES ASSUME d > 0 PROVE At(1)
    OBVIOUS
  <2>1. 1 \in 1..d /\ d \in 1..d /\ d - 1 + 1 = d /\ f + d = n - 1 + 1 /\ 1 \in 1..n /\ 1 - 1 = 0 BY <1>2, <1>7
  <2>2. ScP!End(s[d]) = r.heap_pnt BY <1>4, <2>1
  <2>3. /\ s[d].offs = r.vars_vect[f + d].mem_offs /\ s[d].size = r.vars_vect[f + d].mem_size
        /\ s[d].offs \in Nat /\ s[d].size \in Nat
        /\ ScP!End(s[d]) = s[d].offs + s[d].size
    BY <1>5, <2>1
  <2>4. left[1] = left[0] - r.vars_vect[n - 1 + 1].mem_size BY <1>6, <2>1
  <2> HIDE DEF d
  <2>5. left[1] = (s[d].offs + s[d].size) - s[d].size BY <1>6, <2>1, <2>2, <2>3, <2>4
  <2> QED BY <2>1, <2>3, <2>5
<1>9. ASSUME NEW k \in 2..d, At(k - 1) PROVE At(k)
  <2> DEFINE i == d - k + 1
             j == i + 1
  <2>1. i \in 1..d /\ j \in 1..d /\ f + i = n - k + 1 /\ f + j = n - (k - 1) + 1 /\ k \in 1..n /\ j > 1 /\ j - 1 = i
    BY <1>1, <1>2
  <2> HIDE DEF i, j, d
  <2>2. s[j].offs = s[i].offs + s[i].size /\ s[i].offs \in Nat /\ s[i].size \in Nat BY <1>4, <1>5, <2>1
  <2>3. /\ s[j].offs = r.vars_vect[n - (k - 1) + 1].mem_offs
        /\ s[i].offs = r.vars_vect[n - k + 1].mem_offs
        /\ s[i].size = r.vars_vect[n - k + 1].mem_size
    BY <1>5, <2>1
  <2>4. left[k] = left[k - 1] - r.vars_vect[n - k + 1].mem_size BY <1>6, <2>1
  <2>5. left[k] = (s[i].offs + s[i].size) - s[i].size BY <1>9, <2>2, <2>3, <2>4
  <2>6. \A x, y \in Nat : (x + y) - y = x OBVIOUS
  <2>7. left[k] = s[i].offs BY <2>2, <2>5, <2>6
  <2> QED BY <2>3, <2>7
<1>10. \A k \in 1..d : At(k)
  <2> DEFINE h == [k \in 0..d |-> IF k = 0 THEN TRUE ELSE At(k)]
  <2> HIDE DEF d, At
  <2>1. \A k \in 1..d : k \in 0..d /\ k # 0 /\ k - 1 \in 0..d /\ (k = 1 \/ k \in 2..d) BY <1>2
  <2>2. h[0] \in {TRUE} BY <1>2
  <2>3. ASSUME NEW k \in 1..d, h[k - 1] \in {TRUE} PROVE h[k] \in {TRUE}
    <3>1. CASE k = 1
      <4>1. d > 0 BY <1>2
      <4>2. At(1) BY <1>8, <4>1
      <4>3. At(k) = TRUE BY <3>1, <4>2 DEF At
      <4> QED BY <2>1, <4>3
    <3>2. CASE k \in 2..d
      <4>1. k - 1 # 0 /\ k - 1 \in 0..d BY <2>1, <3>2
      <4>2. h[k - 1] = At(k - 1) BY <4>1
      <4>3. At(k - 1) BY <2>3, <4>2
      <4>4. At(k) = TRUE BY <1>9, <3>2, <4>3 DEF At
      <4> QED BY <2>1, <4>4
    <3> QED BY <2>1, <3>1, <3>2
  <2> HIDE DEF h
  <2>4. \A k \in 0..d : h[k] \in {TRUE} BY <1>2, <2>2, <2>3, UpTo
  <2>5. ASSUME NEW k \in 1..d PROVE At(k)
    <3>1. h[k] = At(k) BY <2>1 DEF h
    <3> QED BY <2>1, <2>4, <3>1
  <2> QED BY <2>5
<1>11. \A k \in 1..count : k \in 1..d BY <1>2
<1>12. \A k \in 1..d : r.vars_vect[n - k + 1].mem_offs \in Nat
  <2> SUFFICES ASSUME NEW k \in 1..d PROVE r.vars_vect[n - k + 1].mem_offs \in Nat
    OBVIOUS
  <2>1. d - k + 1 \in 1..d /\ f + (d - k + 1) = n - k + 1 BY <1>7
  <2>2. s[d - k + 1].offs = r.vars_vect[f + (d - k + 1)].mem_offs /\ s[d - k + 1].offs \in Nat
    BY <1>5, <2>1
  <2> QED BY <2>1, <2>2
<1> QED BY <1>10, <1>11, <1>12

(* A block gives back the last places of the area and leaves the others; the *)
(* heap pointer is where the first of them was.                              *)
PlacesLeft(r, q, b, left, count) ==
  LET s == AreaPlaces(r, b)
  IN  /\ count \in 0..Len(s) /\ Len(s) \in Nat
      /\ AreaPlaces(q, b) = SubSeq(s, 1, Len(s) - count)
      /\ AreaPlaces(q, ~b) = AreaPlaces(r, ~b)
      /\ left[count] = IF count = 0 THEN r.heap_pnt ELSE s[Len(s) - count + 1].offs

(* Variables that go are the last places of their area.                      *)
LEMMA ShrinkPlaces ==
  ASSUME NEW r, Sound(r), VarsIn(r), NEW q, Sound(q), VarsIn(q), NEW left, NEW count, NEW blocks,
         Shrinks(r, q, left, count, blocks), Len(r.block_vect) > 0, SameRoutine(r, q),
         ScP!Laid(AreaPlaces(r, r.subs_body), 0, r.heap_pnt)
  PROVE  PlacesLeft(r, q, r.subs_body, left, count)
<1> DEFINE s == AreaPlaces(r, r.subs_body)
<1>1. PICK n \in Nat : n = Len(r.vars_vect) BY NumbersAre
<1>2. PICK m \in 0..n : Holds(r, m, n) /\ OwnFrom(r, m) \in 0..n BY <1>1, OwnArea
<1>3. PICK f \in 0..n : f = OwnFrom(r, m) BY <1>2
<1>4. Returns(r, left, count) /\ r.vars_vect \in Seq(VarType) BY DEF Shrinks, Sound, Result
<1>5. count \in 0..(n - f) BY <1>1, <1>2, <1>3, <1>4, OwnReturned
<1>6. PICK k \in Nat : k = n - count BY <1>5
<1>7. Len(q.vars_vect) = k /\ \A i \in 1..k : q.vars_vect[i] = r.vars_vect[i] /\ i \in 1..n
  <2>1. q.vars_vect = SubSeq(r.vars_vect, 1, k) BY <1>1, <1>6 DEF Shrinks
  <2>2. 1..k \subseteq 1..n BY <1>5, <1>6
  <2> QED BY <1>1, <1>4, <1>5, <1>6, <2>1, <2>2
<1>8. q.subs_body = r.subs_body /\ r.subs_body \in BOOLEAN BY DEF SameRoutine, Sound, Result
<1>9. PICK l \in 0..k : Holds(q, l, k) /\ OwnFrom(q, l) \in 0..k BY <1>7, OwnArea
<1>10. r.subs_body => m = f /\ OwnFrom(q, l) = l BY <1>3, <1>8 DEF OwnFrom
<1>11. r.subs_body => l = m
  <2> SUFFICES ASSUME r.subs_body PROVE l = m
    OBVIOUS
  <2>1. /\ \A i \in 1..n : r.vars_vect[i].subs_body <=> i > m
        /\ \A i \in 1..k : q.vars_vect[i].subs_body <=> i > l
    BY <1>2, <1>9 DEF Holds, SplitAt
  <2>2. \A i \in 1..k : i > l <=> i > m BY <1>7, <2>1, Zenon
  <2>3. m <= k BY <1>5, <1>6, <1>10
  <2>4. l < m => (m > l <=> m > m) BY <2>2, <2>3
  <2>5. m < l => (l > l <=> l > m) BY <1>9, <2>2
  <2> QED BY <2>4, <2>5
<1>12. f = OwnFrom(q, l) BY <1>3, <1>8, <1>10, <1>11 DEF OwnFrom
<1>13. /\ s = [i \in 1..(n - f) |-> PlaceOf(r.vars_vect[f + i])]
       /\ AreaPlaces(q, r.subs_body) = [i \in 1..(k - f) |-> PlaceOf(q.vars_vect[f + i])]
       /\ AreaPlaces(r, ~r.subs_body) = [i \in 1..f |-> PlaceOf(r.vars_vect[i])]
       /\ AreaPlaces(q, ~r.subs_body) = [i \in 1..f |-> PlaceOf(q.vars_vect[i])]
  BY <1>2, <1>3, <1>8, <1>9, <1>12 DEF Holds
<1>14. f <= k BY <1>5, <1>6
<1>15. AreaPlaces(q, ~r.subs_body) = AreaPlaces(r, ~r.subs_body)
  <2>1. \A i \in 1..f : i \in 1..k BY <1>14
  <2> QED BY <1>7, <1>13, <2>1
<1>16. PICK d \in Nat : d = n - f OBVIOUS
<1>17. s \in Seq(ScP!Place) /\ Len(s) = d
  <2>1. s \in Seq(ScP!Place) /\ DOMAIN s = 1..d BY <1>13, <1>16 DEF ScP!Laid
  <2> HIDE DEF s
  <2> QED BY <1>16, <2>1
<1>18. count \in 0..d /\ d - count = k - f BY <1>5, <1>6, <1>16
<1>19. AreaPlaces(q, r.subs_body) = SubSeq(s, 1, d - count)
  <2>1. \A i \in 1..(k - f) : i \in 1..(n - f) /\ f + i \in 1..k BY <1>5, <1>6
  <2>2. \A i \in 1..(k - f) : PlaceOf(q.vars_vect[f + i]) = s[i] BY <1>7, <1>13, <2>1
  <2>3. AreaPlaces(q, r.subs_body) = [i \in 1..(k - f) |-> s[i]] BY <1>13, <2>2
  <2> HIDE DEF s
  <2>4. SubSeq(s, 1, k - f) = [i \in 1..(k - f) |-> s[i]] BY <1>14, <1>17, <1>18
  <2> QED BY <1>18, <2>3, <2>4
<1>20. left[count] = IF count = 0 THEN r.heap_pnt ELSE s[d - count + 1].offs
  <2>1. CASE count = 0 BY <1>4, <2>1 DEF Returns
  <2>2. CASE count # 0
    <3>1. count \in 1..count BY <1>5, <2>2
    <3>2. left[count] = r.vars_vect[n - count + 1].mem_offs
      BY <1>1, <1>2, <1>4, <3>1, LeftIs
    <3>3. d - count + 1 \in 1..(n - f) /\ f + (d - count + 1) = n - count + 1 BY <1>5, <1>16, <2>2
    <3>4. s[d - count + 1].offs = r.vars_vect[f + (d - count + 1)].mem_offs
      BY <1>13, <3>3 DEF PlaceOf
    <3> QED BY <2>2, <3>2, <3>3, <3>4
  <2> QED BY <2>1, <2>2
<1> QED BY <1>15, <1>17, <1>18, <1>19, <1>20 DEF PlacesLeft

(* The heap pointer they give back is never negative: no assertion fails.    *)
LEMMA PlacesReturned ==
  ASSUME NEW r, Sound(r), VarsIn(r), Len(r.block_vect) > 0,
         ScP!Laid(AreaPlaces(r, r.subs_body), 0, r.heap_pnt)
  PROVE  GivesBack(r)
<1>1. PICK n \in Nat : n = Len(r.vars_vect) BY NumbersAre
<1>2. PICK m \in 0..n : Holds(r, m, n) BY <1>1, OwnArea
<1>3. ASSUME NEW left, NEW count, Returns(r, left, count), NEW k \in 1..count PROVE left[k] >= 0
  <2>1. /\ left[k] = r.vars_vect[n - k + 1].mem_offs
        /\ r.vars_vect[n - k + 1].mem_offs \in Nat
    BY <1>1, <1>2, <1>3, LeftIs, SMTT(30)
  <2> QED BY <2>1
<1> QED BY <1>3 DEF GivesBack

(* No variables, no places.                                                  *)
LEMMA NoPlaces == ASSUME NEW r PROVE [i \in 1..0 |-> PlaceOf(r.vars_vect[i])] = <<>>
<1> DEFINE s == [i \in 1..0 |-> PlaceOf(r.vars_vect[i])]
<1>1. s \in [1..0 -> {}] OBVIOUS
<1> HIDE DEF s
<1>2. s \in Seq({}) /\ Len(s) = 0 BY <1>1, SeqFrom
<1>3. s = <<>> BY <1>2
<1> QED BY <1>3 DEF s

(* When a routine ends, what is left are the main part's variables.          *)
LEMMA EndPlaces ==
  ASSUME NEW r, Sound(r), VarsIn(r), NEW q, Sound(q), VarsIn(q), NEW left, NEW count, NEW blocks,
         Shrinks(r, q, left, count, blocks), Len(r.block_vect) = 1, r.subs_body, q.subs_body = FALSE
  PROVE  AreaPlaces(q, TRUE) = <<>> /\ AreaPlaces(q, FALSE) = AreaPlaces(r, FALSE)
<1>1. PICK n \in Nat : n = Len(r.vars_vect) BY NumbersAre
<1>2. PICK m \in 0..n : Holds(r, m, n) BY <1>1, OwnArea
<1>3. Returns(r, left, count) /\ r.vars_vect \in Seq(VarType) /\ Len(r.block_vect) > 0
  BY DEF Shrinks, Sound, Result
<1>4. OwnFrom(r, m) = m /\ (~r.subs_body) = FALSE BY DEF OwnFrom
<1>5. count \in 0..(n - m) BY <1>1, <1>2, <1>3, <1>4, OwnReturned
<1>6. PICK k \in Nat : k = n - count BY <1>5
<1>7. Len(q.vars_vect) = k /\ \A i \in 1..k : q.vars_vect[i] = r.vars_vect[i] /\ i \in 1..n
  <2>1. q.vars_vect = SubSeq(r.vars_vect, 1, k) BY <1>1, <1>6 DEF Shrinks
  <2>2. 1..k \subseteq 1..n BY <1>5, <1>6
  <2> QED BY <1>1, <1>3, <1>5, <1>6, <2>1, <2>2
<1>8. PICK l \in 0..k : Holds(q, l, k) BY <1>7, OwnArea
<1>9. l = k /\ OwnFrom(q, l) = 0 /\ (~q.subs_body) = TRUE BY <1>8 DEF OwnFrom, Holds
<1>10. k = m
  <2>1. SUFFICES ASSUME m < k PROVE FALSE
    BY <1>5, <1>6
  <2>2. k \in 1..(Len(r.vars_vect) - count) /\ k \in 1..n BY <1>1, <1>5, <1>6, <2>1
  <2>3. /\ r.vars_vect[k].in_block \in Nat /\ r.vars_vect[k].in_block < 1
    BY <1>3, <2>2, VarsLeft
  <2>4. r.vars_vect[k].subs_body BY <1>2, <2>1, <2>2 DEF Holds, SplitAt
  <2>5. r.vars_vect[k].in_block > 0 BY <1>1, <2>2, <2>4 DEF VarsIn, InAreas
  <2> QED BY <2>3, <2>5
<1>11. /\ AreaPlaces(r, FALSE) = [i \in 1..m |-> PlaceOf(r.vars_vect[i])]
       /\ AreaPlaces(q, FALSE) = [i \in 1..(k - 0) |-> PlaceOf(q.vars_vect[0 + i])]
       /\ AreaPlaces(q, TRUE) = [i \in 1..0 |-> PlaceOf(q.vars_vect[i])]
  BY <1>2, <1>4, <1>8, <1>9 DEF Holds
<1>12. k - 0 = m /\ \A i \in 1..m : 0 + i = i /\ i \in 1..k BY <1>10
<1>13. \A i \in 1..m : PlaceOf(q.vars_vect[0 + i]) = PlaceOf(r.vars_vect[i]) BY <1>7, <1>12
<1>14. AreaPlaces(q, FALSE) = AreaPlaces(r, FALSE) BY <1>11, <1>12, <1>13
<1>15. AreaPlaces(q, TRUE) = <<>> BY <1>11, NoPlaces
<1> QED BY <1>14, <1>15

(* The places of a routine's parameters.                                     *)
Parameters(n) == [i \in 1..n |-> [offs |-> FptBytes * (i - 1), size |-> FptBytes]]

(* They lie one behind the other from the beginning.                         *)
LEMMA ParametersLaid ==
  ASSUME NEW n \in Nat
  PROVE  ScP!Laid(Parameters(n), 0, FptBytes * n) /\ FptBytes * n \in Nat
<1> DEFINE s == Parameters(n)
<1>1. FptBytes = 4 BY DEF FptBytes
<1>2. \A i \in 1..n : s[i] \in ScP!Place /\ s[i].offs = 4 * (i - 1) /\ ScP!End(s[i]) = 4 * i
  BY <1>1 DEF Parameters, ScP!Place, ScP!End
<1>3. s \in [1..n -> ScP!Place] /\ DOMAIN s = 1..n
  <2>1. s = [i \in 1..n |-> s[i]] BY DEF Parameters
  <2> HIDE DEF s
  <2> QED BY <1>2, <2>1
<1> HIDE DEF s
<1>4. s \in Seq(ScP!Place) /\ Len(s) = n
  BY <1>3, SeqFrom
<1>5. /\ \A i \in DOMAIN s : 0 <= s[i].offs /\ ScP!End(s[i]) <= 4 * n
      /\ \A i, j \in DOMAIN s : i < j => ScP!End(s[i]) <= s[j].offs
      /\ \A i \in DOMAIN s : i = 1 => s[i].offs = 0
      /\ \A i \in DOMAIN s : i = n => ScP!End(s[i]) = 4 * n
  BY <1>2, <1>3
<1>6. \A i \in DOMAIN s : i > 1 => s[i].offs = ScP!End(s[i - 1])
  <2> SUFFICES ASSUME NEW i \in 1..n, i > 1 PROVE s[i].offs = ScP!End(s[i - 1])
    BY <1>3
  <2>1. i - 1 \in 1..n OBVIOUS
  <2>2. s[i].offs = 4 * (i - 1) /\ ScP!End(s[i - 1]) = 4 * (i - 1) BY <1>2, <2>1
  <2> QED BY <2>2
<1>7. s = <<>> => 0 = 4 * n
  <2>1. s = <<>> => Len(s) = 0 OBVIOUS
  <2> QED BY <1>4, <2>1
<1>8. ScP!Laid(s, 0, 4 * n) BY <1>4, <1>5, <1>6, <1>7 DEF ScP!Laid
<1> QED BY <1>1, <1>8 DEF s

(* When a routine begins, its area has the parameters and the main part's    *)
(* is as it was.                                                             *)
LEMMA BeginPlaces ==
  ASSUME NEW r, Sound(r), VarsIn(r), NEW q, Sound(q), VarsIn(q), Enrols(r, q), r.subs_body = FALSE
  PROVE  /\ AreaPlaces(r, TRUE) = <<>> /\ AreaPlaces(q, FALSE) = AreaPlaces(r, FALSE)
         /\ \E k \in Nat : AreaPlaces(q, TRUE) = Parameters(k) /\ q.heap_pnt = FptBytes * k
<1>1. PICK n \in Nat : n = Len(r.vars_vect) BY NumbersAre
<1>2. PICK m \in Nat : m = Len(q.vars_vect) BY NumbersAre
<1>3. /\ m >= n
      /\ \A k \in 1..n : q.vars_vect[k] = r.vars_vect[k]
      /\ \A k \in (n + 1)..m :
           /\ q.vars_vect[k].mem_size = FptBytes
           /\ q.vars_vect[k].subs_body = TRUE
           /\ q.vars_vect[k].mem_offs = FptBytes * (k - n - 1)
      /\ q.heap_pnt = FptBytes * (m - n)
      /\ q.subs_body = TRUE
  BY <1>1, <1>2 DEF Enrols
<1>4. PICK j \in 0..n : Holds(r, j, n) BY <1>1, OwnArea
<1>5. j = n /\ OwnFrom(r, j) = 0 /\ (~r.subs_body) = TRUE BY <1>4 DEF OwnFrom, Holds
<1>6. PICK l \in 0..m : Holds(q, l, m) BY <1>2, OwnArea
<1>7. OwnFrom(q, l) = l /\ (~q.subs_body) = FALSE BY <1>3 DEF OwnFrom
<1>8. l = n
  <2>1. /\ \A i \in 1..n : r.vars_vect[i].subs_body <=> i > n
        /\ \A i \in 1..m : q.vars_vect[i].subs_body <=> i > l
    BY <1>4, <1>5, <1>6 DEF Holds, SplitAt
  <2>2. l < n => (n > l <=> n > n)
    <3>1. l < n => n \in 1..n /\ n \in 1..m BY <1>3
    <3> QED BY <1>3, <2>1, <3>1
  <2>3. n < l => (l > l)
    <3> SUFFICES ASSUME n < l PROVE l > l
      OBVIOUS
    <3>1. l \in (n + 1)..m /\ l \in 1..m OBVIOUS
    <3>2. q.vars_vect[l].subs_body BY <1>3, <3>1
    <3> QED BY <2>1, <3>1, <3>2
  <2> QED BY <2>2, <2>3
<1>9. /\ AreaPlaces(r, FALSE) = [i \in 1..(n - 0) |-> PlaceOf(r.vars_vect[0 + i])]
      /\ AreaPlaces(r, TRUE) = [i \in 1..0 |-> PlaceOf(r.vars_vect[i])]
      /\ AreaPlaces(q, TRUE) = [i \in 1..(m - n) |-> PlaceOf(q.vars_vect[n + i])]
      /\ AreaPlaces(q, FALSE) = [i \in 1..n |-> PlaceOf(q.vars_vect[i])]
  BY <1>3, <1>4, <1>5, <1>6, <1>7, <1>8 DEF Holds
<1>10. AreaPlaces(q, FALSE) = AreaPlaces(r, FALSE)
  <2>1. n - 0 = n /\ \A i \in 1..n : 0 + i = i OBVIOUS
  <2>2. \A i \in 1..n : PlaceOf(q.vars_vect[i]) = PlaceOf(r.vars_vect[0 + i]) BY <1>3, <2>1
  <2> QED BY <1>9, <2>1, <2>2
<1>11. PICK k \in Nat : k = m - n BY <1>3
<1>12. AreaPlaces(q, TRUE) = Parameters(k)
  <2>1. \A i \in 1..k : n + i \in (n + 1)..m /\ n + i - n - 1 = i - 1 BY <1>11
  <2>2. \A i \in 1..k : PlaceOf(q.vars_vect[n + i]) = [offs |-> FptBytes * (i - 1), size |-> FptBytes]
    BY <1>3, <2>1 DEF PlaceOf
  <2> QED BY <1>9, <1>11, <2>2 DEF Parameters
<1>13. AreaPlaces(r, TRUE) = <<>> BY <1>9, NoPlaces
<1>14. q.heap_pnt = FptBytes * k BY <1>3, <1>11
<1> QED BY <1>10, <1>12, <1>13, <1>14

-----------------------------------------------------------------------------
(* What Scopes sees.                                                         *)

(* The registry of variables and the heap registers of any record, as Nesting *)
(* shows them to Scopes.                                                     *)
AreaReg(r, a, running, aside) == IF a = r.subs_body THEN running ELSE IF a THEN 0 ELSE aside
(* What Scopes sees of the compiler.                                         *)
Sees(r) ==
  [places |-> [a \in BOOLEAN |-> AreaPlaces(r, a)],
   pnt    |-> [a \in BOOLEAN |-> AreaReg(r, a, r.heap_pnt, r.heap_pnt_back)],
   most   |-> [a \in BOOLEAN |-> AreaReg(r, a, r.heap_memory_max, r.heap_memory_max_back)],
   sub    |-> r.subs_body,
   funcs  |-> r.heap_memory_max_funcs]

(* The steps of Scopes, between two such views.                              *)
DeclareStep(s, t) ==
  LET top == t.pnt[s.sub]
      p   == [offs |-> s.pnt[s.sub], size |-> top - s.pnt[s.sub]]
  IN  /\ top \in Nat /\ s.pnt[s.sub] < top
      /\ t.pnt = [s.pnt EXCEPT ![s.sub] = top]
      /\ t.places = [s.places EXCEPT ![s.sub] = Append(@, p)]
      /\ t.most = [s.most EXCEPT ![s.sub] = ScP!Greater(@, top)]
      /\ t.sub = s.sub /\ t.funcs = s.funcs
(* The last variables are forgotten.                                         *)
ForgetStep(s, t) ==
  \E n \in 0..(Len(s.places[s.sub]) - 1) :
    /\ t.pnt = [s.pnt EXCEPT ![s.sub] = s.places[s.sub][n + 1].offs]
    /\ t.places = [s.places EXCEPT ![s.sub] = SubSeq(@, 1, n)]
    /\ t.most = s.most /\ t.sub = s.sub /\ t.funcs = s.funcs
(* A routine begins with its parameters.                                     *)
BeginStep(s, t) ==
  /\ ~s.sub /\ t.sub = TRUE
  /\ t.pnt[TRUE] \in Nat /\ ScP!Laid(t.places[TRUE], 0, t.pnt[TRUE])
  /\ t.pnt = [s.pnt EXCEPT ![TRUE] = t.pnt[TRUE]]
  /\ t.places = [s.places EXCEPT ![TRUE] = t.places[TRUE]]
  /\ t.most = [s.most EXCEPT ![TRUE] = t.pnt[TRUE]]
  /\ t.funcs = s.funcs
(* A routine ends.                                                           *)
EndStep(s, t) ==
  /\ s.sub /\ t.sub = FALSE
  /\ t.places = [s.places EXCEPT ![TRUE] = <<>>]
  /\ t.pnt = [s.pnt EXCEPT ![TRUE] = 0]
  /\ t.most = [s.most EXCEPT ![TRUE] = 0]
  /\ t.funcs = s.funcs + s.most[TRUE]
(* Any of them, or nothing.                                                  *)
ScopeStep(s, t) == DeclareStep(s, t) \/ ForgetStep(s, t) \/ BeginStep(s, t) \/ EndStep(s, t) \/ t = s

(* Both areas are laid out from their beginning, within what they ask for.   *)
LaidOut(s) ==
  \A a \in BOOLEAN : /\ s.pnt[a] \in Nat /\ s.most[a] \in Nat
                     /\ ScP!Laid(s.places[a], 0, s.pnt[a])
                     /\ s.pnt[a] <= s.most[a]

(* The area the compiler works in, and the other one.                        *)
LEMMA SeesIs ==
  ASSUME NEW r, Sound(r)
  PROVE  LET s == Sees(r)
         IN  /\ s.sub = r.subs_body /\ s.funcs = r.heap_memory_max_funcs
             /\ r.subs_body \in BOOLEAN
             /\ \A a \in BOOLEAN : s.places[a] = AreaPlaces(r, a)
             /\ s.pnt[r.subs_body] = r.heap_pnt
             /\ s.most[r.subs_body] = r.heap_memory_max
             /\ s.pnt[~r.subs_body] = IF r.subs_body THEN r.heap_pnt_back ELSE 0
             /\ s.most[~r.subs_body] = IF r.subs_body THEN r.heap_memory_max_back ELSE 0
             /\ s.places = [a \in BOOLEAN |-> s.places[a]]
             /\ s.pnt = [a \in BOOLEAN |-> s.pnt[a]]
             /\ s.most = [a \in BOOLEAN |-> s.most[a]]
<1>1. r.subs_body \in BOOLEAN BY DEF Sound, Result
<1>2. r.subs_body = TRUE \/ r.subs_body = FALSE BY <1>1
<1>3. \A u, v : /\ AreaReg(r, r.subs_body, u, v) = u
                /\ AreaReg(r, ~r.subs_body, u, v) = IF r.subs_body THEN v ELSE 0
  BY <1>2 DEF AreaReg
<1> HIDE DEF AreaReg
<1> QED BY <1>1, <1>3 DEF Sees

(* A function on both areas that changes at one of them.                     *)
LEMMA AreaChanges ==
  ASSUME NEW f, NEW g, f = [a \in BOOLEAN |-> f[a]], g = [a \in BOOLEAN |-> g[a]],
         NEW s \in BOOLEAN, g[~s] = f[~s]
  PROVE  g = [f EXCEPT ![s] = g[s]]
<1>1. CASE s = TRUE
  <2>1. g[FALSE] = f[FALSE] BY <1>1
  <2> QED BY <1>1, <2>1
<1>2. CASE s = FALSE
  <2>1. g[TRUE] = f[TRUE] BY <1>2
  <2> QED BY <1>2, <2>1
<1> QED BY <1>1, <1>2

(* What keeps variables and routine shows Scopes the same.                   *)
LEMMA SeesSame ==
  ASSUME NEW r, NEW q, Keeps(r, q) PROVE Sees(q) = Sees(r)
BY DEF Keeps, SameVars, SameRoutine, Sees, AreaReg, AreaPlaces

(* What Scopes sees of r while the compiler works in area b.                 *)
SeenAs(r, b) ==
  LET s == Sees(r)
  IN  /\ s.sub = b /\ s.funcs = r.heap_memory_max_funcs
      /\ s.places[b] = AreaPlaces(r, b) /\ s.places[~b] = AreaPlaces(r, ~b)
      /\ s.pnt[b] = r.heap_pnt /\ s.most[b] = r.heap_memory_max
      /\ s.pnt[~b] = (IF b THEN r.heap_pnt_back ELSE 0)
      /\ s.most[~b] = (IF b THEN r.heap_memory_max_back ELSE 0)
      /\ s.places = [a \in BOOLEAN |-> s.places[a]]
      /\ s.pnt = [a \in BOOLEAN |-> s.pnt[a]]
      /\ s.most = [a \in BOOLEAN |-> s.most[a]]

(* It is so for every sound result.                                          *)
LEMMA SeesAs == ASSUME NEW r, Sound(r), NEW b \in BOOLEAN, b = r.subs_body PROVE SeenAs(r, b)
<1>1. \A c \in BOOLEAN : (~c) \in BOOLEAN OBVIOUS
<1>2. SeenAs(r, r.subs_body) BY SeesIs, <1>1, Zenon DEF SeenAs
<1> QED BY <1>2, Zenon

(* A variable more is a Declare of Scopes.                                   *)
LEMMA DeclareIs ==
  ASSUME NEW r, Sound(r), VarsIn(r), LaidOut(Sees(r)), NEW q, Sound(q), VarsIn(q),
         NEW size \in Nat, size > 0, Gains(r, q, size), SameRoutine(r, q)
  PROVE  DeclareStep(Sees(r), Sees(q))
<1> DEFINE s == Sees(r)
           t == Sees(q)
<1>1. PICK b \in BOOLEAN : b = r.subs_body /\ b = q.subs_body
  BY DEF SameRoutine, Sound, Result
<1>2. SeenAs(r, b) /\ SeenAs(q, b) BY <1>1, SeesAs, Zenon
<1>3. /\ s.sub = b /\ t.sub = b /\ s.funcs = t.funcs
      /\ s.places[b] = AreaPlaces(r, b) /\ s.places[~b] = AreaPlaces(r, ~b)
      /\ t.places[b] = AreaPlaces(q, b) /\ t.places[~b] = AreaPlaces(q, ~b)
      /\ s.pnt[b] = r.heap_pnt /\ t.pnt[b] = q.heap_pnt /\ t.pnt[~b] = s.pnt[~b]
      /\ s.most[b] = r.heap_memory_max /\ t.most[b] = q.heap_memory_max /\ t.most[~b] = s.most[~b]
      /\ s.places = [a \in BOOLEAN |-> s.places[a]] /\ t.places = [a \in BOOLEAN |-> t.places[a]]
      /\ s.pnt = [a \in BOOLEAN |-> s.pnt[a]] /\ t.pnt = [a \in BOOLEAN |-> t.pnt[a]]
      /\ s.most = [a \in BOOLEAN |-> s.most[a]] /\ t.most = [a \in BOOLEAN |-> t.most[a]]
  BY <1>2, Zenon DEF SeenAs, SameRoutine
<1>13. s.sub \in BOOLEAN BY <1>3
<1>4. r.heap_pnt \in Nat /\ r.heap_memory_max \in Nat BY <1>1, <1>3 DEF LaidOut
<1>5. q.heap_pnt = r.heap_pnt + size /\ q.heap_memory_max = Greatest(r.heap_memory_max, q.heap_pnt)
  BY DEF Gains
<1>6. /\ t.places[b] = Append(s.places[b], [offs |-> r.heap_pnt, size |-> size])
      /\ t.places[~b] = s.places[~b]
  <2>1. q.subs_body = r.subs_body BY DEF SameRoutine
  <2>2. /\ AreaPlaces(q, r.subs_body)
              = Append(AreaPlaces(r, r.subs_body), [offs |-> r.heap_pnt, size |-> size])
        /\ AreaPlaces(q, ~r.subs_body) = AreaPlaces(r, ~r.subs_body)
    BY <2>1, GainPlaces, Zenon
  <2>3. /\ AreaPlaces(q, b) = Append(AreaPlaces(r, b), [offs |-> r.heap_pnt, size |-> size])
        /\ AreaPlaces(q, ~b) = AreaPlaces(r, ~b)
    BY <1>1, <2>2, Zenon
  <2> QED BY <1>3, <2>3, Zenon
<1> HIDE DEF s, t
<1>7. /\ t.pnt[b] \in Nat /\ s.pnt[b] < t.pnt[b] /\ t.pnt[b] - s.pnt[b] = size
      /\ t.most[b] = ScP!Greater(s.most[b], t.pnt[b])
  BY <1>3, <1>4, <1>5 DEF Greatest, ScP!Greater
<1>8. /\ t.places = [s.places EXCEPT ![b] = t.places[b]]
      /\ t.pnt = [s.pnt EXCEPT ![b] = t.pnt[b]]
      /\ t.most = [s.most EXCEPT ![b] = t.most[b]]
  <2> DEFINE Both(f) == f = [a \in BOOLEAN |-> f[a]]
  <2>1. /\ Both(s.places) /\ Both(t.places) /\ Both(s.pnt) /\ Both(t.pnt)
        /\ Both(s.most) /\ Both(t.most)
    BY <1>3, Zenon
  <2>2. \A f, g : Both(f) /\ Both(g) /\ g[~b] = f[~b] => g = [f EXCEPT ![b] = g[b]]
    BY <1>1, AreaChanges, Zenon
  <2> HIDE DEF Both
  <2>3. t.places = [s.places EXCEPT ![b] = t.places[b]] BY <1>6, <2>1, <2>2, Zenon
  <2>4. t.pnt = [s.pnt EXCEPT ![b] = t.pnt[b]] BY <1>3, <2>1, <2>2, Zenon
  <2>5. t.most = [s.most EXCEPT ![b] = t.most[b]] BY <1>3, <2>1, <2>2, Zenon
  <2> QED BY <2>3, <2>4, <2>5, Zenon
<1>9. /\ t.places = [s.places EXCEPT ![b] = Append(s.places[b], [offs |-> s.pnt[b], size |-> t.pnt[b] - s.pnt[b]])]
      /\ t.most = [s.most EXCEPT ![b] = ScP!Greater(s.most[b], t.pnt[b])]
  BY <1>3, <1>6, <1>7, <1>8
<1>10. DeclareStep(s, t) BY <1>3, <1>7, <1>8, <1>9 DEF DeclareStep
<1> QED BY <1>10 DEF s, t

(* A block that closes is a Forget, or nothing where it has no variables.    *)
LEMMA ForgetIs ==
  ASSUME NEW r, Sound(r), VarsIn(r), LaidOut(Sees(r)), NEW q, Sound(q), VarsIn(q),
         NEW left, NEW count, NEW blocks, Shrinks(r, q, left, count, blocks), Len(r.block_vect) > 0,
         SameRoutine(r, q), q.heap_pnt = left[count], q.heap_memory_max = r.heap_memory_max
  PROVE  ForgetStep(Sees(r), Sees(q)) \/ Sees(q) = Sees(r)
<1> DEFINE s == Sees(r)
           t == Sees(q)
<1>1. PICK b \in BOOLEAN : b = r.subs_body /\ b = q.subs_body
  BY DEF SameRoutine, Sound, Result
<1>2. SeenAs(r, b) /\ SeenAs(q, b) BY <1>1, SeesAs, Zenon
<1>3. /\ s.sub = b /\ t.sub = b /\ s.funcs = t.funcs
      /\ s.places[b] = AreaPlaces(r, b) /\ s.places[~b] = AreaPlaces(r, ~b)
      /\ t.places[b] = AreaPlaces(q, b) /\ t.places[~b] = AreaPlaces(q, ~b)
      /\ s.pnt[b] = r.heap_pnt /\ t.pnt[b] = q.heap_pnt /\ t.pnt[~b] = s.pnt[~b]
      /\ s.most[b] = r.heap_memory_max /\ t.most[b] = q.heap_memory_max /\ t.most[~b] = s.most[~b]
      /\ s.places = [a \in BOOLEAN |-> s.places[a]] /\ t.places = [a \in BOOLEAN |-> t.places[a]]
      /\ s.pnt = [a \in BOOLEAN |-> s.pnt[a]] /\ t.pnt = [a \in BOOLEAN |-> t.pnt[a]]
      /\ s.most = [a \in BOOLEAN |-> s.most[a]] /\ t.most = [a \in BOOLEAN |-> t.most[a]]
  BY <1>2, Zenon DEF SeenAs, SameRoutine
<1>13. s.sub \in BOOLEAN BY <1>3
<1>4. ScP!Laid(s.places[b], 0, s.pnt[b]) BY DEF LaidOut
<1>14. ScP!Laid(AreaPlaces(r, r.subs_body), 0, r.heap_pnt)
  <2>1. ScP!Laid(AreaPlaces(r, b), 0, r.heap_pnt) BY <1>3, <1>4, Zenon
  <2> QED BY <1>1, <2>1, Zenon
<1>15. PlacesLeft(r, q, r.subs_body, left, count) BY <1>14, ShrinkPlaces, Zenon
<1>16. PlacesLeft(r, q, b, left, count) BY <1>1, <1>15, Zenon
<1>17. /\ s.places[b] = AreaPlaces(r, b) /\ s.places[~b] = AreaPlaces(r, ~b)
       /\ t.places[b] = AreaPlaces(q, b) /\ t.places[~b] = AreaPlaces(q, ~b)
       /\ s.pnt[b] = r.heap_pnt /\ t.pnt[b] = left[count]
  BY <1>3, Zenon
<1>5. PICK d \in Nat : d = Len(s.places[b]) /\ count \in 0..d
  BY <1>16, <1>17 DEF PlacesLeft
<1>6. /\ t.places[b] = SubSeq(s.places[b], 1, d - count)
      /\ t.places[~b] = s.places[~b]
      /\ t.pnt[b] = IF count = 0 THEN s.pnt[b] ELSE s.places[b][d - count + 1].offs
  <2> HIDE DEF s, t
  <2>1. d = Len(AreaPlaces(r, b)) BY <1>5, <1>17
  <2> QED BY <1>16, <1>17, <2>1 DEF PlacesLeft
<1>7. t.most[b] = s.most[b] BY <1>3
<1>8. s.places[b] \in Seq(ScP!Place) BY <1>4 DEF ScP!Laid
<1>9. Sees(q) = [places |-> t.places, pnt |-> t.pnt, most |-> t.most, sub |-> t.sub, funcs |-> t.funcs]
      /\ Sees(r) = [places |-> s.places, pnt |-> s.pnt, most |-> s.most, sub |-> s.sub, funcs |-> s.funcs]
  BY DEF Sees
<1> HIDE DEF s, t
<1>10. t.most = s.most
  <2>1. \A a \in BOOLEAN : t.most[a] = s.most[a]
    <3>1. \A a \in BOOLEAN : a = b \/ a = ~b OBVIOUS
    <3> QED BY <1>3, <1>7, <3>1
  <2> QED BY <1>3, <2>1
<1>11. CASE count = 0
  <2>1. t.places[b] = s.places[b]
    <3>1. d - count = d BY <1>11
    <3>2. SubSeq(s.places[b], 1, d) = s.places[b] BY <1>5, <1>8
    <3> QED BY <1>6, <3>1, <3>2
  <2>2. t.pnt[b] = s.pnt[b] BY <1>6, <1>11
  <2>3. \A a \in BOOLEAN : t.places[a] = s.places[a] /\ t.pnt[a] = s.pnt[a]
    <3>1. \A a \in BOOLEAN : a = b \/ a = ~b OBVIOUS
    <3> QED BY <1>3, <1>6, <2>1, <2>2, <3>1
  <2>4. t.places = s.places /\ t.pnt = s.pnt BY <1>3, <2>3
  <2> QED BY <1>3, <1>9, <1>10, <2>4
<1>12. CASE count # 0
  <2>1. /\ t.places = [s.places EXCEPT ![b] = t.places[b]]
        /\ t.pnt = [s.pnt EXCEPT ![b] = t.pnt[b]]
    <3> DEFINE Both(f) == f = [a \in BOOLEAN |-> f[a]]
    <3>1. Both(s.places) /\ Both(t.places) /\ Both(s.pnt) /\ Both(t.pnt) BY <1>3, Zenon
    <3>2. \A f, g : Both(f) /\ Both(g) /\ g[~b] = f[~b] => g = [f EXCEPT ![b] = g[b]]
      BY <1>1, AreaChanges, Zenon
    <3> HIDE DEF Both
    <3>3. t.places = [s.places EXCEPT ![b] = t.places[b]] BY <1>6, <3>1, <3>2, Zenon
    <3>4. t.pnt = [s.pnt EXCEPT ![b] = t.pnt[b]] BY <1>3, <3>1, <3>2, Zenon
    <3> QED BY <3>3, <3>4, Zenon
  <2>5. d - count \in 0..(d - 1) BY <1>5, <1>12
  <2>2. PICK n \in 0..(d - 1) : n = d - count BY <2>5
  <2>3. /\ t.places = [s.places EXCEPT ![b] = SubSeq(s.places[b], 1, n)]
        /\ t.pnt = [s.pnt EXCEPT ![b] = s.places[b][n + 1].offs]
    BY <1>6, <1>12, <2>1, <2>2
  <2>4. ForgetStep(s, t) BY <1>3, <1>5, <1>10, <2>2, <2>3 DEF ForgetStep
  <2> QED BY <2>4 DEF s, t
<1> QED BY <1>11, <1>12

(* The end of a routine is an EndSub.                                        *)
LEMMA EndIs ==
  ASSUME NEW r, Sound(r), VarsIn(r), NEW q, Sound(q), VarsIn(q),
         NEW left, NEW count, NEW blocks, Shrinks(r, q, left, count, blocks), Len(r.block_vect) = 1,
         r.func_info # NULL, q.subs_body = FALSE,
         q.heap_memory_max_funcs = r.heap_memory_max_funcs + r.heap_memory_max,
         q.heap_memory_max = r.heap_memory_max_back, q.heap_pnt = r.heap_pnt_back
  PROVE  EndStep(Sees(r), Sees(q))
<1> DEFINE s == Sees(r)
           t == Sees(q)
           Both(f) == f = [a \in BOOLEAN |-> f[a]]
<1>1. r.subs_body = TRUE BY DEF Sound, Result, RoutineRefs
<1>2. SeenAs(r, TRUE) /\ SeenAs(q, FALSE) BY <1>1, SeesAs, Zenon
<1>3. (~TRUE) = FALSE /\ (~FALSE) = TRUE OBVIOUS
<1>4. /\ s.sub = TRUE /\ t.sub = FALSE
      /\ s.funcs = r.heap_memory_max_funcs /\ t.funcs = q.heap_memory_max_funcs
      /\ s.places[FALSE] = AreaPlaces(r, FALSE)
      /\ t.places[TRUE] = AreaPlaces(q, TRUE) /\ t.places[FALSE] = AreaPlaces(q, FALSE)
      /\ s.pnt[FALSE] = r.heap_pnt_back /\ s.most[FALSE] = r.heap_memory_max_back
      /\ s.most[TRUE] = r.heap_memory_max
      /\ t.pnt[FALSE] = q.heap_pnt /\ t.most[FALSE] = q.heap_memory_max
      /\ t.pnt[TRUE] = 0 /\ t.most[TRUE] = 0
      /\ Both(s.places) /\ Both(t.places) /\ Both(s.pnt) /\ Both(t.pnt)
      /\ Both(s.most) /\ Both(t.most)
  BY <1>2, <1>3 DEF SeenAs
<1>5. AreaPlaces(q, TRUE) = <<>> /\ AreaPlaces(q, FALSE) = AreaPlaces(r, FALSE)
  BY <1>1, EndPlaces
<1>6. /\ t.places[TRUE] = <<>> /\ t.places[FALSE] = s.places[FALSE]
      /\ t.pnt[FALSE] = s.pnt[FALSE] /\ t.most[FALSE] = s.most[FALSE]
      /\ t.funcs = s.funcs + s.most[TRUE]
  BY <1>4, <1>5
<1>7. \A f, g : Both(f) /\ Both(g) /\ g[FALSE] = f[FALSE] => g = [f EXCEPT ![TRUE] = g[TRUE]]
  <2> SUFFICES ASSUME NEW f, NEW g, Both(f), Both(g), g[FALSE] = f[FALSE]
               PROVE  g = [f EXCEPT ![TRUE] = g[TRUE]]
    OBVIOUS
  <2>1. g[~TRUE] = f[~TRUE] BY <1>3
  <2> QED BY <2>1, AreaChanges
<1> HIDE DEF s, t, Both
<1>8. /\ t.places = [s.places EXCEPT ![TRUE] = <<>>]
      /\ t.pnt = [s.pnt EXCEPT ![TRUE] = 0]
      /\ t.most = [s.most EXCEPT ![TRUE] = 0]
  <2>1. t.places = [s.places EXCEPT ![TRUE] = t.places[TRUE]] BY <1>4, <1>6, <1>7, Zenon
  <2>2. t.pnt = [s.pnt EXCEPT ![TRUE] = t.pnt[TRUE]] BY <1>4, <1>6, <1>7, Zenon
  <2>3. t.most = [s.most EXCEPT ![TRUE] = t.most[TRUE]] BY <1>4, <1>6, <1>7, Zenon
  <2> QED BY <1>4, <1>6, <2>1, <2>2, <2>3
<1>9. EndStep(s, t) BY <1>4, <1>6, <1>8 DEF EndStep
<1> QED BY <1>9 DEF s, t

(* The start of a routine is a Begin.                                        *)
LEMMA BeginIs ==
  ASSUME NEW r, Sound(r), VarsIn(r), NEW q, Sound(q), VarsIn(q), Enrols(r, q), r.subs_body = FALSE
  PROVE  BeginStep(Sees(r), Sees(q))
<1> DEFINE s == Sees(r)
           t == Sees(q)
           Both(f) == f = [a \in BOOLEAN |-> f[a]]
<1>1. q.subs_body = TRUE BY DEF Enrols
<1>2. SeenAs(r, FALSE) /\ SeenAs(q, TRUE) BY <1>1, SeesAs, Zenon
<1>3. (~TRUE) = FALSE /\ (~FALSE) = TRUE OBVIOUS
<1>4. /\ s.sub = FALSE /\ t.sub = TRUE
      /\ s.funcs = r.heap_memory_max_funcs /\ t.funcs = q.heap_memory_max_funcs
      /\ s.places[FALSE] = AreaPlaces(r, FALSE)
      /\ t.places[TRUE] = AreaPlaces(q, TRUE) /\ t.places[FALSE] = AreaPlaces(q, FALSE)
      /\ s.pnt[FALSE] = r.heap_pnt /\ s.most[FALSE] = r.heap_memory_max
      /\ t.pnt[TRUE] = q.heap_pnt /\ t.most[TRUE] = q.heap_memory_max
      /\ t.pnt[FALSE] = q.heap_pnt_back /\ t.most[FALSE] = q.heap_memory_max_back
      /\ Both(s.places) /\ Both(t.places) /\ Both(s.pnt) /\ Both(t.pnt)
      /\ Both(s.most) /\ Both(t.most)
  BY <1>2, <1>3 DEF SeenAs
<1>5. /\ q.heap_memory_max = q.heap_pnt
      /\ q.heap_pnt_back = r.heap_pnt /\ q.heap_memory_max_back = r.heap_memory_max
      /\ q.heap_memory_max_funcs = r.heap_memory_max_funcs
  BY DEF Enrols
<1>6. /\ AreaPlaces(q, FALSE) = AreaPlaces(r, FALSE)
      /\ \E k \in Nat : AreaPlaces(q, TRUE) = Parameters(k) /\ q.heap_pnt = FptBytes * k
  BY BeginPlaces
<1>7. ScP!Laid(AreaPlaces(q, TRUE), 0, q.heap_pnt) /\ q.heap_pnt \in Nat
  BY <1>6, ParametersLaid, Zenon
<1>8. /\ t.places[FALSE] = s.places[FALSE] /\ t.pnt[FALSE] = s.pnt[FALSE]
      /\ t.most[FALSE] = s.most[FALSE] /\ t.funcs = s.funcs
      /\ t.most[TRUE] = t.pnt[TRUE]
      /\ t.pnt[TRUE] \in Nat /\ ScP!Laid(t.places[TRUE], 0, t.pnt[TRUE])
  BY <1>4, <1>5, <1>6, <1>7, Zenon
<1>9. \A f, g : Both(f) /\ Both(g) /\ g[FALSE] = f[FALSE] => g = [f EXCEPT ![TRUE] = g[TRUE]]
  <2> SUFFICES ASSUME NEW f, NEW g, Both(f), Both(g), g[FALSE] = f[FALSE]
               PROVE  g = [f EXCEPT ![TRUE] = g[TRUE]]
    OBVIOUS
  <2>1. g[~TRUE] = f[~TRUE] BY <1>3
  <2> QED BY <2>1, AreaChanges
<1> HIDE DEF s, t, Both
<1>10. /\ t.places = [s.places EXCEPT ![TRUE] = t.places[TRUE]]
       /\ t.pnt = [s.pnt EXCEPT ![TRUE] = t.pnt[TRUE]]
       /\ t.most = [s.most EXCEPT ![TRUE] = t.pnt[TRUE]]
  <2>1. t.places = [s.places EXCEPT ![TRUE] = t.places[TRUE]] BY <1>4, <1>8, <1>9, Zenon
  <2>2. t.pnt = [s.pnt EXCEPT ![TRUE] = t.pnt[TRUE]] BY <1>4, <1>8, <1>9, Zenon
  <2>3. t.most = [s.most EXCEPT ![TRUE] = t.most[TRUE]] BY <1>4, <1>8, <1>9, Zenon
  <2> QED BY <1>8, <2>1, <2>2, <2>3, Zenon
<1>11. BeginStep(s, t) BY <1>4, <1>8, <1>10, Zenon DEF BeginStep
<1> QED BY <1>11 DEF s, t

-----------------------------------------------------------------------------
(* The labels of the blocks.                                                 *)

(* A block's label is there, and the reference to it was made when it was    *)
(* the last one.                                                             *)
Points(r, p) ==
  /\ p.label \in 1..Len(r.labels_vect)
  /\ p.steps = (p.label + VECTOR_STEP_SIZE - 1) \div VECTOR_STEP_SIZE

(* And it waits for its place in the routine that is being compiled.         *)
Waits(r, p) ==
  /\ Points(r, p)
  /\ r.labels_vect[p.label].name = AutoName
  /\ r.labels_vect[p.label].code_offs = -1
  /\ r.labels_vect[p.label].func_info = r.func_info

(* The label of block i's end.                                               *)
EndOf(r, i) == r.block_vect[i].label_end

(* The first m blocks: a branch and a loop have the label of their end, a    *)
(* loop that of its beginning; the ends wait for their places, each for its  *)
(* own.                                                                      *)
LabelsIn(r, m) ==
  \A i \in 1..m :
    /\ Labelling(r.block_vect[i].block_type) => EndOf(r, i) # NoLabel
    /\ r.block_vect[i].block_type = "bt_loop" => Points(r, r.block_vect[i].label_begin)
    /\ EndOf(r, i) # NoLabel => Waits(r, EndOf(r, i))
    /\ \A j \in 1..m : EndOf(r, i) # NoLabel /\ EndOf(r, j) # NoLabel /\ i # j
                       => EndOf(r, i).label # EndOf(r, j).label

(* The vector of labels has not outgrown its first chunk, or does not move.  *)
FewLabels(r) == ReallocMoves => Len(r.labels_vect) <= VECTOR_STEP_SIZE

(* A number of labels up to a chunk takes one chunk.                         *)
LEMMA OneChunk ==
  ASSUME NEW v \in Nat \ {0}, NEW x \in 1..v PROVE (x + v - 1) \div v = 1
<1>1. PICK d \in Int : d = (x + v - 1) \div v OBVIOUS
<1>2. v * d <= x + v - 1 /\ x + v - 1 < v * d + v BY <1>1
<1>3. d <= 0 => v * d <= 0 BY <1>1
<1>4. d >= 2 => v * d >= 2 * v BY <1>1
<1>5. d = 1 BY <1>2, <1>3, <1>4
<1> QED BY <1>1, <1>5

(* Then no reference to a block's label leads nowhere.                       *)
LEMMA NotDangling ==
  ASSUME NEW r, Sound(r), NEW p, Points(r, p), FewLabels(r)
  PROVE  ~Dangling(r, p)
<1> SUFFICES ASSUME ReallocMoves PROVE p.steps = Steps(r)
  BY DEF Dangling
<1>1. PICK v \in Nat \ {0} : v = VECTOR_STEP_SIZE BY BlocksAssumption
<1>2. PICK n \in Nat : n = Len(r.labels_vect) BY NumbersAre
<1>3. n <= v /\ p.label \in 1..n BY <1>1, <1>2 DEF FewLabels, Points
<1>4. p.label \in 1..v /\ n \in 1..v BY <1>1, <1>3
<1>5. p.steps = 1 BY <1>1, <1>4, OneChunk DEF Points
<1>6. Steps(r) = 1 BY <1>1, <1>2, <1>4, OneChunk DEF Steps
<1> QED BY <1>5, <1>6

(* Labels of blocks stay as they are, but for label x.                       *)
Carries(r, q, x) ==
  /\ Sound(q) /\ q.func_info = r.func_info
  /\ Len(q.labels_vect) >= Len(r.labels_vect)
  /\ \A i \in 1..Len(r.labels_vect) :
       i # x /\ r.labels_vect[i].name = AutoName =>
         /\ q.labels_vect[i].name = AutoName
         /\ q.labels_vect[i].code_offs = r.labels_vect[i].code_offs
         /\ q.labels_vect[i].func_info = r.labels_vect[i].func_info

(* The first m blocks stay.                                                  *)
SameFirst(r, q, m) == \A k \in 1..m : q.block_vect[k] = r.block_vect[k]

(* No end of the first m blocks is label x.                                  *)
Spared(r, m, x) == \A k \in 1..m : EndOf(r, k) # NoLabel => EndOf(r, k).label # x

(* What waits goes on waiting.                                               *)
LEMMA WaitsOn ==
  ASSUME NEW r, Sound(r), NEW q, NEW x, Carries(r, q, x), NEW p
  PROVE  /\ Points(r, p) => Points(q, p)
         /\ Waits(r, p) /\ p.label # x => Waits(q, p)
<1>1. PICK n \in Nat : n = Len(r.labels_vect) BY NumbersAre
<1>2. PICK m \in Nat : m = Len(q.labels_vect) BY NumbersAre DEF Carries
<1>3. n <= m BY <1>1, <1>2 DEF Carries
<1>4. \A i \in 1..n : i \in 1..m BY <1>3
<1>5. Points(r, p) => Points(q, p) BY <1>1, <1>2, <1>4 DEF Points
<1>6. ASSUME Waits(r, p), p.label # x PROVE Waits(q, p)
  BY <1>1, <1>5, <1>6 DEF Waits, Points, Carries
<1> QED BY <1>5, <1>6

(* So do those of the blocks that stay.                                      *)
LEMMA LabelsOn ==
  ASSUME NEW r, Sound(r), NEW q, NEW x, Carries(r, q, x), NEW m \in Nat, SameFirst(r, q, m),
         LabelsIn(r, m), Spared(r, m, x)
  PROVE  LabelsIn(q, m)
<1>1. \A i \in 1..m : EndOf(q, i) = EndOf(r, i) /\ q.block_vect[i] = r.block_vect[i]
  BY DEF SameFirst, EndOf
<1> SUFFICES ASSUME NEW i \in 1..m
             PROVE  /\ Labelling(q.block_vect[i].block_type) => EndOf(q, i) # NoLabel
                    /\ q.block_vect[i].block_type = "bt_loop" => Points(q, q.block_vect[i].label_begin)
                    /\ EndOf(q, i) # NoLabel => Waits(q, EndOf(q, i))
                    /\ \A j \in 1..m : EndOf(q, i) # NoLabel /\ EndOf(q, j) # NoLabel /\ i # j
                                       => EndOf(q, i).label # EndOf(q, j).label
  BY DEF LabelsIn
<1>2. Labelling(q.block_vect[i].block_type) => EndOf(q, i) # NoLabel BY <1>1 DEF LabelsIn
<1>3. q.block_vect[i].block_type = "bt_loop" => Points(q, q.block_vect[i].label_begin)
  BY <1>1, WaitsOn DEF LabelsIn
<1>4. EndOf(q, i) # NoLabel => Waits(q, EndOf(q, i))
  <2> SUFFICES ASSUME EndOf(q, i) # NoLabel PROVE Waits(q, EndOf(q, i))
    OBVIOUS
  <2>1. Waits(r, EndOf(r, i)) /\ EndOf(r, i).label # x BY <1>1 DEF LabelsIn, Spared
  <2> QED BY <1>1, <2>1, WaitsOn
<1>5. \A j \in 1..m : EndOf(q, i) # NoLabel /\ EndOf(q, j) # NoLabel /\ i # j
                      => EndOf(q, i).label # EndOf(q, j).label
  BY <1>1, Zenon DEF LabelsIn
<1> QED BY <1>2, <1>3, <1>4, <1>5

(* Fewer blocks.                                                             *)
LEMMA LabelsFewer ==
  ASSUME NEW r, NEW m \in Nat, LabelsIn(r, m), NEW k \in 0..m
  PROVE  LabelsIn(r, k)
<1>1. \A i \in 1..k : i \in 1..m OBVIOUS
<1> QED BY <1>1 DEF LabelsIn

(* Labels are numbered from 1.                                               *)
LEMMA NoneSpared ==
  ASSUME NEW r, Sound(r), NEW m \in Nat, LabelsIn(r, m) PROVE Spared(r, m, 0)
<1>1. Len(r.labels_vect) \in Nat BY NumbersAre
<1> QED BY <1>1 DEF LabelsIn, Spared, Waits, Points

(* A block more, with a label of its own.                                    *)
LEMMA LabelsMore ==
  ASSUME NEW r, NEW m \in Nat, LabelsIn(r, m),
         Labelling(r.block_vect[m + 1].block_type) => EndOf(r, m + 1) # NoLabel,
         r.block_vect[m + 1].block_type = "bt_loop" => Points(r, r.block_vect[m + 1].label_begin),
         EndOf(r, m + 1) # NoLabel => Waits(r, EndOf(r, m + 1)) /\ Spared(r, m, EndOf(r, m + 1).label)
  PROVE  LabelsIn(r, m + 1)
<1>1. PICK n \in Nat : n = m + 1 OBVIOUS
<1>2. \A i \in 1..n : i = n \/ i \in 1..m BY <1>1
<1>3. n \notin 1..m BY <1>1
<1> SUFFICES ASSUME NEW i \in 1..n
             PROVE  /\ Labelling(r.block_vect[i].block_type) => EndOf(r, i) # NoLabel
                    /\ r.block_vect[i].block_type = "bt_loop" => Points(r, r.block_vect[i].label_begin)
                    /\ EndOf(r, i) # NoLabel => Waits(r, EndOf(r, i))
                    /\ \A j \in 1..n : EndOf(r, i) # NoLabel /\ EndOf(r, j) # NoLabel /\ i # j
                                       => EndOf(r, i).label # EndOf(r, j).label
  BY <1>1 DEF LabelsIn
<1>4. CASE i = n
  <2>1. \A j \in 1..n : EndOf(r, n) # NoLabel /\ EndOf(r, j) # NoLabel /\ n # j
                        => EndOf(r, n).label # EndOf(r, j).label
    BY <1>1, <1>2, Zenon DEF Spared
  <2> QED BY <1>1, <1>4, <2>1, Zenon
<1>5. CASE i \in 1..m
  <2>1. \A j \in 1..n : EndOf(r, i) # NoLabel /\ EndOf(r, j) # NoLabel /\ i # j
                        => EndOf(r, i).label # EndOf(r, j).label
    BY <1>1, <1>2, <1>5, Zenon DEF Spared, LabelsIn
  <2> QED BY <1>5, <2>1, Zenon DEF LabelsIn
<1> QED BY <1>2, <1>4, <1>5

(* What the steps of a line leave of the labels.                             *)
LEMMA StaysCarries ==
  ASSUME NEW r, Sound(r), NEW q, Stays(r, q)
  PROVE  Carries(r, q, 0) /\ \A m : SameFirst(r, q, m)
BY DEF Stays, SameRoutine, Carries, SameFirst

(* So does a step that keeps the registries.                                 *)
LEMMA KeptCarries ==
  ASSUME NEW r, Sound(r), NEW q, Sound(q), Kept(r, q)
  PROVE  /\ Carries(r, q, 0) /\ \A m : SameFirst(r, q, m)
         /\ q.block_vect = r.block_vect /\ Len(q.labels_vect) = Len(r.labels_vect)
BY KeptSteady, StaysCarries DEF Steady, Kept, SameBlocks, SameLabels

(* A label finds its place, the others stay as they are.                     *)
LEMMA LandsCarries ==
  ASSUME NEW r, Sound(r), NEW p, NEW q, Lands(r, q, p)
  PROVE  /\ Carries(r, q, p.label) /\ \A m : SameFirst(r, q, m)
         /\ q.block_vect = r.block_vect /\ Len(q.labels_vect) = Len(r.labels_vect)
         /\ Waits(r, p) => q.pe = "no_error"
         /\ Waits(r, p) /\ ~r.lost /\ FewLabels(r) => Ok(q)
<1>1. Len(r.labels_vect) \in Nat BY NumbersAre
<1>2. Waits(r, p) => q.pe = "no_error" BY DEF Lands, Waits
<1>3. Waits(r, p) /\ ~r.lost /\ FewLabels(r) => Ok(q)
  <2> SUFFICES ASSUME Waits(r, p), ~r.lost, FewLabels(r) PROVE Ok(q)
    OBVIOUS
  <2>1. ~Dangling(r, p) BY NotDangling DEF Waits
  <2> QED BY <1>2, <2>1 DEF Ok, Lands
<1> QED BY <1>1, <1>2, <1>3 DEF Lands, SameRoutine, SameBlocks, Carries, SameFirst

(* The last label is there.                                                  *)
LEMMA LastPoints ==
  ASSUME NEW q, Sound(q), Len(q.labels_vect) > 0
  PROVE  Points(q, LastLabel(q)) /\ LastLabel(q) # NoLabel /\ LastLabel(q).label = Len(q.labels_vect)
<1>1. PICK n \in Nat : n = Len(q.labels_vect) /\ n > 0 BY NumbersAre
<1>2. LastLabel(q).label = n /\ LastLabel(q).steps = Steps(q) BY <1>1 DEF LastLabel, Pnt
<1>3. NoLabel.label = 0 BY NoLabelIs
<1>4. n \in 1..n /\ n # 0 BY <1>1
<1> QED BY <1>1, <1>2, <1>3, <1>4 DEF Points, Steps

(* The labels of the first blocks are older.                                 *)
LEMMA NewSpared ==
  ASSUME NEW r, Sound(r), NEW m \in Nat, LabelsIn(r, m), NEW q, SameFirst(r, q, m), NEW x \in Nat,
         x > Len(r.labels_vect)
  PROVE  Spared(q, m, x)
<1>1. PICK n \in Nat : n = Len(r.labels_vect) BY NumbersAre
<1> SUFFICES ASSUME NEW k \in 1..m, EndOf(q, k) # NoLabel PROVE EndOf(q, k).label # x
  BY DEF Spared
<1>2. EndOf(q, k) = EndOf(r, k) BY DEF SameFirst, EndOf
<1>3. EndOf(r, k).label \in 1..n BY <1>1, <1>2 DEF LabelsIn, Waits, Points
<1> QED BY <1>1, <1>2, <1>3

(* A block opens.                                                            *)
LEMMA OpensCarries ==
  ASSUME NEW r, Sound(r), NEW type \in BlockKind, NEW q, Opens(r, q, type)
  PROVE  /\ Carries(r, q, 0) /\ SameFirst(r, q, Len(r.block_vect))
         /\ Len(q.block_vect) = Len(r.block_vect) + 1
         /\ q.block_vect[Len(r.block_vect) + 1].block_type = type
         /\ q.lost = r.lost
         /\ ~Labelling(type) => q.pe = r.pe /\ EndOf(q, Len(r.block_vect) + 1) = NoLabel
         /\ Labelling(type) => /\ EndOf(q, Len(r.block_vect) + 1) = LastLabel(q)
                               /\ Waits(q, LastLabel(q)) /\ LastLabel(q) # NoLabel
                               /\ q.pe = "no_error"
                               /\ LastLabel(q).label \in Nat /\ LastLabel(q).label > Len(r.labels_vect)
<1>1. PICK n \in Nat : n = Len(r.labels_vect) BY NumbersAre
<1>2. PICK m \in Nat : m = Len(r.block_vect) BY NumbersAre
<1>3. Last(q.block_vect) = q.block_vect[m + 1] BY <1>2 DEF Opens, Last
<1>4. Sound(q) /\ q.func_info = r.func_info BY DEF Opens, SameRoutine
<1>5. Labelling(type) => Len(q.labels_vect) = n + 1 BY <1>1 DEF Opens
<1>6. ~Labelling(type) => q.labels_vect = r.labels_vect BY DEF Opens
<1>7. \A i \in 1..n : q.labels_vect[i] = r.labels_vect[i]
  BY <1>1, <1>6 DEF Opens
<1>8. Len(q.labels_vect) >= n BY <1>1, <1>5, <1>6
<1>9. Carries(r, q, 0) BY <1>1, <1>4, <1>7, <1>8 DEF Carries
<1>10. ASSUME Labelling(type)
       PROVE  /\ Waits(q, LastLabel(q)) /\ LastLabel(q) # NoLabel
              /\ LastLabel(q).label \in Nat /\ LastLabel(q).label > n
  <2>1. Points(q, LastLabel(q)) /\ LastLabel(q) # NoLabel /\ LastLabel(q).label = n + 1
    BY <1>4, <1>5, <1>10, LastPoints
  <2>2. /\ q.labels_vect[n + 1].name = AutoName /\ q.labels_vect[n + 1].func_info = r.func_info
        /\ q.labels_vect[n + 1].code_offs = -1
    BY <1>5, <1>10 DEF Opens
  <2> QED BY <1>4, <2>1, <2>2 DEF Waits
<1> QED BY <1>1, <1>2, <1>3, <1>9, <1>10 DEF Opens, SameFirst, EndOf

(* A block that is no loop: its labels are those of the others and its own.  *)
LEMMA OpensHolds ==
  ASSUME NEW r, Sound(r), NEW type \in BlockKind, type # "bt_loop", NEW q, Opens(r, q, type),
         LabelsIn(r, Len(r.block_vect))
  PROVE  LabelsIn(q, Len(q.block_vect))
<1>1. PICK m \in Nat : m = Len(r.block_vect) BY NumbersAre
<1>2. /\ Carries(r, q, 0) /\ SameFirst(r, q, m)
      /\ Len(q.block_vect) = m + 1
      /\ q.block_vect[m + 1].block_type = type
      /\ ~Labelling(type) => EndOf(q, m + 1) = NoLabel
      /\ Labelling(type) => /\ EndOf(q, m + 1) = LastLabel(q)
                            /\ Waits(q, LastLabel(q)) /\ LastLabel(q) # NoLabel
                            /\ LastLabel(q).label \in Nat /\ LastLabel(q).label > Len(r.labels_vect)
  BY <1>1, OpensCarries
<1>3. LabelsIn(q, m) BY <1>1, <1>2, LabelsOn, NoneSpared
<1>4. EndOf(q, m + 1) # NoLabel => Waits(q, EndOf(q, m + 1)) /\ Spared(q, m, EndOf(q, m + 1).label)
  BY <1>1, <1>2, NewSpared
<1> QED BY <1>2, <1>3, <1>4, LabelsMore

(* A condition that is tested.                                               *)
LEMMA TestsHolds ==
  ASSUME NEW r, Sound(r), NEW q, Tests(r, q)
  PROVE  /\ LabelsIn(r, Len(r.block_vect)) => LabelsIn(q, Len(q.block_vect))
         /\ Points(r, Block(r).label_end) /\ ~r.lost /\ FewLabels(r) => Ok(q)
         /\ Len(q.labels_vect) = Len(r.labels_vect) /\ q.block_vect = r.block_vect
<1>1. Len(r.block_vect) \in Nat BY NumbersAre
<1>2. /\ Carries(r, q, 0) /\ \A m : SameFirst(r, q, m)
      /\ q.block_vect = r.block_vect /\ Len(q.labels_vect) = Len(r.labels_vect)
  BY KeptCarries DEF Tests
<1>3. LabelsIn(r, Len(r.block_vect)) => LabelsIn(q, Len(q.block_vect))
  BY <1>1, <1>2, LabelsOn, NoneSpared
<1>4. Points(r, Block(r).label_end) /\ ~r.lost /\ FewLabels(r) => Ok(q)
  BY NotDangling DEF Tests, Ok
<1> QED BY <1>2, <1>3, <1>4

(* And code.                                                                 *)
LEMMA EmitsHolds ==
  ASSUME NEW r, Sound(r), NEW q, Emits(r, q)
  PROVE  /\ LabelsIn(r, Len(r.block_vect)) => LabelsIn(q, Len(q.block_vect))
         /\ Len(q.labels_vect) = Len(r.labels_vect) /\ q.block_vect = r.block_vect /\ q.lost = r.lost
<1>1. Len(r.block_vect) \in Nat BY NumbersAre
<1>2. /\ Carries(r, q, 0) /\ \A m : SameFirst(r, q, m)
      /\ q.block_vect = r.block_vect /\ Len(q.labels_vect) = Len(r.labels_vect)
  BY KeptCarries DEF Emits
<1> QED BY <1>1, <1>2, LabelsOn, NoneSpared DEF Emits

(* The branch of a condition.                                                *)
LEMMA BranchHolds ==
  ASSUME NEW r, Sound(r), LabelsIn(r, Len(r.block_vect)), NEW e, NEW q, OpensBranch(r, q, e)
  PROVE  /\ LabelsIn(q, Len(q.block_vect))
         /\ ~r.lost /\ FewLabels(q) => Ok(q)
<1>1. PICK t, s : Emits(r, t) /\ Opens(t, s, "bt_if") /\ Tests(s, q) BY DEF OpensBranch
<1>2. Sound(t) /\ Sound(s) BY <1>1 DEF Emits, Opens
<1>3. LabelsIn(t, Len(t.block_vect)) /\ t.lost = r.lost BY <1>1, EmitsHolds
<1>4. "bt_if" \in BlockKind /\ "bt_if" # "bt_loop" /\ Labelling("bt_if") BY DEF BlockKind, Labelling
<1>5. LabelsIn(s, Len(s.block_vect)) BY <1>1, <1>2, <1>3, <1>4, OpensHolds
<1>6. /\ LabelsIn(q, Len(q.block_vect))
      /\ Points(s, Block(s).label_end) /\ ~s.lost /\ FewLabels(s) => Ok(q)
      /\ Len(q.labels_vect) = Len(s.labels_vect)
  BY <1>1, <1>2, <1>5, TestsHolds
<1>7. /\ Block(s).label_end = LastLabel(s) /\ Waits(s, LastLabel(s)) /\ s.lost = t.lost
  <2>1. PICK m \in Nat : m = Len(t.block_vect) BY <1>2, NumbersAre
  <2>2. /\ EndOf(s, m + 1) = LastLabel(s) /\ Waits(s, LastLabel(s)) /\ s.lost = t.lost
        /\ Len(s.block_vect) = m + 1
    BY <1>1, <1>2, <1>4, <2>1, OpensCarries
  <2> QED BY <2>2 DEF EndOf, Block, Last
<1> QED BY <1>3, <1>6, <1>7 DEF FewLabels, Waits

(* A block gets a label more.                                                *)
LEMMA LabelledCarries ==
  ASSUME NEW r, Sound(r), NEW q, NEW n \in Nat, NEW begin \in BOOLEAN, Labelled(r, q, n, begin)
  PROVE  /\ Carries(r, q, 0) /\ q.lost = r.lost /\ q.pe = "no_error"
         /\ Len(q.block_vect) = Len(r.block_vect)
         /\ \A m \in 0..Len(r.block_vect) : m < n => SameFirst(r, q, m)
         /\ Points(q, LastLabel(q)) /\ LastLabel(q) # NoLabel
         /\ LastLabel(q).label \in Nat /\ LastLabel(q).label > Len(r.labels_vect)
         /\ ~begin => Waits(q, LastLabel(q))
<1>1. PICK k \in Nat : k = Len(r.labels_vect) BY NumbersAre
<1>2. PICK b \in Nat : b = Len(r.block_vect) BY NumbersAre
<1>3. Sound(q) /\ q.func_info = r.func_info /\ Len(q.block_vect) = b /\ Len(q.labels_vect) = k + 1
  BY <1>1, <1>2 DEF Labelled, Moves, SameRoutine
<1>4. \A i \in 1..k : q.labels_vect[i] = r.labels_vect[i] BY <1>1 DEF Labelled
<1>5. Carries(r, q, 0) BY <1>1, <1>3, <1>4 DEF Carries
<1>6. ASSUME NEW m \in 0..b, m < n PROVE SameFirst(r, q, m)
  <2>1. \A i \in 1..m : i \in 1..b /\ i # n BY <1>6
  <2>2. \A i \in 1..b : i # n => q.block_vect[i] = r.block_vect[i] BY <1>2 DEF Labelled
  <2> QED BY <2>1, <2>2 DEF SameFirst
<1>7. /\ Points(q, LastLabel(q)) /\ LastLabel(q) # NoLabel
      /\ LastLabel(q).label = k + 1
  BY <1>1, <1>3, LastPoints
<1>8. ~begin => Waits(q, LastLabel(q))
  BY <1>3, <1>7 DEF Waits, Labelled
<1> QED BY <1>1, <1>2, <1>3, <1>5, <1>6, <1>7, <1>8 DEF Labelled

(* A loop: the label of its end, then that of its beginning.                 *)
LEMMA LoopHolds ==
  ASSUME NEW r, Sound(r), LabelsIn(r, Len(r.block_vect)), NEW e, NEW q, OpensLoop(r, q, e)
  PROVE  /\ Ok(q) => LabelsIn(q, Len(q.block_vect))
         /\ ~r.lost /\ e \in Values /\ FewLabels(q) => Ok(q)
<1>1. PICK s, t, u : /\ Opens(r, s, "bt_loop")
                     /\ Labelled(s, t, Len(s.block_vect), TRUE)
                     /\ Emits(t, u) /\ (e \in Values => u.pe = "no_error")
                     /\ Ok(q) \/ Ok(u) => IF e = "number" THEN q = u ELSE Tests(u, q)
  BY DEF OpensLoop
<1>2. PICK n \in Nat : n = Len(r.block_vect) BY NumbersAre
<1>3. "bt_loop" \in BlockKind /\ Labelling("bt_loop") BY DEF BlockKind, Labelling
<1>4. Sound(s) BY <1>1 DEF Opens
<1>5. /\ Carries(r, s, 0) /\ SameFirst(r, s, n) /\ Len(s.block_vect) = n + 1
      /\ s.block_vect[n + 1].block_type = "bt_loop" /\ s.lost = r.lost
      /\ EndOf(s, n + 1) = LastLabel(s) /\ Waits(s, LastLabel(s)) /\ LastLabel(s) # NoLabel
      /\ LastLabel(s).label \in Nat /\ LastLabel(s).label > Len(r.labels_vect)
  BY <1>1, <1>2, <1>3, OpensCarries
<1>6. LabelsIn(s, n) BY <1>2, <1>5, LabelsOn, NoneSpared
<1>7. Labelled(s, t, n + 1, TRUE) BY <1>1, <1>5
<1>8. /\ Carries(s, t, 0) /\ t.lost = s.lost /\ Len(t.block_vect) = n + 1
      /\ SameFirst(s, t, n) /\ Points(t, LastLabel(t))
  <2>1. n + 1 \in Nat /\ TRUE \in BOOLEAN /\ n \in 0..(n + 1) /\ n < n + 1 OBVIOUS
  <2> QED BY <1>4, <1>5, <1>7, <2>1, LabelledCarries
<1>9. Sound(t) BY <1>8 DEF Carries
<1>10. t.block_vect[n + 1] = Ended(s.block_vect[n + 1], TRUE, LastLabel(t))
  <2>1. n + 1 \in 1..Len(s.block_vect) BY <1>5
  <2> QED BY <1>7, <2>1 DEF Labelled
<1>11. /\ t.block_vect[n + 1].block_type = "bt_loop" /\ EndOf(t, n + 1) = LastLabel(s)
       /\ t.block_vect[n + 1].label_begin = LastLabel(t)
  <2>1. s.block_vect[n + 1] \in BlockType
    <3>1. n + 1 \in 1..Len(s.block_vect) BY <1>5
    <3> QED BY <1>4, <3>1, BlockIs
  <2> QED BY <1>5, <1>10, <2>1 DEF Ended, BlockType, EndOf
<1>12. LabelsIn(t, n) BY <1>4, <1>6, <1>8, LabelsOn, NoneSpared
<1>13. SameFirst(r, t, n) BY <1>5, <1>8 DEF SameFirst
<1>14. Waits(t, LastLabel(s)) /\ Spared(t, n, LastLabel(s).label)
  <2>1. LastLabel(s).label # 0
    <3>1. Len(r.labels_vect) \in Nat BY NumbersAre
    <3> QED BY <1>5, <3>1
  <2>2. Waits(t, LastLabel(s)) BY <1>4, <1>5, <1>8, <2>1, WaitsOn
  <2>3. Spared(t, n, LastLabel(s).label) BY <1>2, <1>5, <1>13, NewSpared
  <2> QED BY <2>2, <2>3
<1>15. LabelsIn(t, n + 1) BY <1>5, <1>8, <1>11, <1>12, <1>14, LabelsMore
<1>16. /\ LabelsIn(u, Len(u.block_vect)) /\ Len(u.labels_vect) = Len(t.labels_vect)
       /\ u.block_vect = t.block_vect /\ u.lost = t.lost
  BY <1>1, <1>8, <1>9, <1>15, EmitsHolds
<1>17. Sound(u) BY <1>1 DEF Emits
<1>18. Points(u, Block(u).label_end)
  <2>1. Block(u).label_end = EndOf(u, n + 1) BY <1>8, <1>16 DEF Block, Last, EndOf
  <2>2. EndOf(u, n + 1) # NoLabel /\ n + 1 \in 1..Len(u.block_vect) BY <1>5, <1>8, <1>11, <1>16 DEF EndOf
  <2> QED BY <1>16, <2>1, <2>2 DEF LabelsIn, Waits
<1>19. ASSUME Ok(q) PROVE LabelsIn(q, Len(q.block_vect))
  <2>1. CASE e = "number" BY <1>1, <1>16, <1>19, <2>1
  <2>2. CASE e # "number"
    <3>1. Tests(u, q) BY <1>1, <1>19, <2>2
    <3> QED BY <1>16, <1>17, <3>1, TestsHolds
  <2> QED BY <2>1, <2>2
<1>20. ASSUME ~r.lost, e \in Values, FewLabels(q) PROVE Ok(q)
  <2>1. Ok(u) BY <1>1, <1>5, <1>8, <1>16, <1>20 DEF Ok
  <2>2. CASE e = "number" BY <1>1, <2>1, <2>2
  <2>3. CASE e # "number"
    <3>1. Tests(u, q) BY <1>1, <2>1, <2>3
    <3>2. FewLabels(u)
      <4>1. Len(q.labels_vect) = Len(u.labels_vect) BY <1>17, <3>1, TestsHolds
      <4> QED BY <1>20, <4>1 DEF FewLabels
    <3> QED BY <1>17, <1>18, <2>1, <3>1, <3>2, TestsHolds DEF Ok
  <2> QED BY <2>2, <2>3
<1> QED BY <1>19, <1>20

(* The variables go, the labels stay.                                        *)
LEMMA VarsCarry ==
  ASSUME NEW r, Sound(r), NEW u, Sound(u), OnlyVars(r, u)
  PROVE  /\ Carries(r, u, 0) /\ \A m : SameFirst(r, u, m)
         /\ u.block_vect = r.block_vect /\ u.lost = r.lost
         /\ Len(u.labels_vect) = Len(r.labels_vect)
<1>1. Len(r.labels_vect) \in Nat BY NumbersAre
<1> QED BY <1>1 DEF OnlyVars, SameRoutine, SameBlocks, Carries, SameFirst

(* What ends block n, which is b: its own label waits, and those of the      *)
(* first m blocks, which are others.                                         *)
Ending(r, m, b) ==
  /\ LabelsIn(r, m)
  /\ b.label_end # NoLabel => Waits(r, b.label_end) /\ Spared(r, m, b.label_end.label)

(* A block's labels and those below it.                                      *)
LEMMA EndingIs ==
  ASSUME NEW r, NEW n \in Nat, n > 0, LabelsIn(r, n), NEW m \in 0..(n - 1)
  PROVE  Ending(r, m, r.block_vect[n])
<1>1. n \in 1..n /\ m \in 0..n /\ \A k \in 1..m : k \in 1..n /\ k # n OBVIOUS
<1>2. LabelsIn(r, m) BY <1>1, LabelsFewer
<1>3. r.block_vect[n].label_end = EndOf(r, n) BY DEF EndOf
<1>4. EndOf(r, n) # NoLabel => Waits(r, EndOf(r, n)) BY <1>1 DEF LabelsIn
<1>5. EndOf(r, n) # NoLabel => Spared(r, m, EndOf(r, n).label)
  BY <1>1 DEF LabelsIn, Spared
<1> QED BY <1>2, <1>3, <1>4, <1>5 DEF Ending

(* They go on doing so while other labels change.                            *)
LEMMA EndingOn ==
  ASSUME NEW r, Sound(r), NEW q, NEW x, Carries(r, q, x), NEW m \in Nat, SameFirst(r, q, m), Spared(r, m, x),
         NEW b, Ending(r, m, b), b.label_end # NoLabel => b.label_end.label # x
  PROVE  Ending(q, m, b)
<1>1. LabelsIn(q, m) BY LabelsOn DEF Ending
<1>2. ASSUME b.label_end # NoLabel PROVE Waits(q, b.label_end) /\ Spared(q, m, b.label_end.label)
  <2>1. Waits(q, b.label_end) BY <1>2, WaitsOn DEF Ending
  <2>2. Spared(q, m, b.label_end.label) BY <1>2 DEF Ending, Spared, SameFirst, EndOf
  <2> QED BY <2>1, <2>2
<1> QED BY <1>1, <1>2 DEF Ending

(* The condition of a branch gets a label of its own.                        *)
LEMMA ReadiesHolds ==
  ASSUME NEW u, Sound(u), NEW n \in Nat, n > 0, n = Len(u.block_vect), LabelsIn(u, n), u.pe = "no_error",
         NEW wanted, wanted => n > 1 /\ u.block_vect[n - 1].block_type = "bt_condition",
         NEW e, Readies(u, e, n, wanted)
  PROVE  /\ Sound(e) /\ LabelsIn(e, n) /\ e.lost = u.lost /\ e.pe = "no_error"
         /\ e.block_vect[n] = u.block_vect[n] /\ e.func_info = u.func_info
         /\ Len(e.block_vect) = n
         /\ wanted => EndOf(e, n - 1) # NoLabel
<1>1. CASE wanted /\ u.block_vect[n - 1].label_end = NoLabel
  <2>1. Labelled(u, e, n - 1, FALSE) BY <1>1 DEF Readies
  <2>2. PICK m \in Nat : n = m + 2
    <3>1. n - 2 \in Nat /\ n = n - 2 + 2 BY <1>1
    <3> QED BY <3>1
  <2>3. n - 1 = m + 1 /\ m + 1 \in Nat /\ FALSE \in BOOLEAN /\ m \in 0..n /\ m < m + 1 BY <2>2
  <2>4. /\ Carries(u, e, 0) /\ e.lost = u.lost /\ e.pe = "no_error" /\ Len(e.block_vect) = n
        /\ SameFirst(u, e, m) /\ LastLabel(e) # NoLabel
        /\ LastLabel(e).label \in Nat /\ LastLabel(e).label > Len(u.labels_vect)
        /\ Waits(e, LastLabel(e))
    BY <2>1, <2>3, LabelledCarries
  <2>5. /\ e.block_vect[m + 1] = Ended(u.block_vect[m + 1], FALSE, LastLabel(e))
        /\ e.block_vect[n] = u.block_vect[n]
    <3>1. m + 1 \in 1..Len(u.block_vect) /\ n \in 1..Len(u.block_vect) /\ n # m + 1 BY <2>2
    <3> QED BY <2>1, <2>3, <3>1 DEF Labelled
  <2>6. e.block_vect[m + 1].block_type = "bt_condition" /\ EndOf(e, m + 1) = LastLabel(e)
    <3>1. m + 1 \in 1..Len(u.block_vect) BY <2>2
    <3>2. u.block_vect[m + 1] \in BlockType BY <3>1, BlockIs
    <3> QED BY <1>1, <2>3, <2>5, <3>2 DEF Ended, BlockType, EndOf
  <2>7. Ending(u, m, u.block_vect[n])
    <3>1. m \in 0..(n - 1) BY <2>2
    <3> QED BY <3>1, EndingIs
  <2>8. LabelsIn(u, m) /\ Spared(u, m, 0) BY <2>7, NoneSpared DEF Ending
  <2>9. u.block_vect[n].label_end # NoLabel =>
          u.block_vect[n].label_end.label # 0 /\ u.block_vect[n].label_end.label \in 1..Len(u.labels_vect)
    <3>1. Len(u.labels_vect) \in Nat BY NumbersAre
    <3> QED BY <2>7, <3>1 DEF Ending, Waits, Points
  <2>10. Ending(e, m, u.block_vect[n]) BY <2>4, <2>7, <2>8, <2>9, EndingOn
  <2>11. LabelsIn(e, m + 1)
    <3>1. Spared(e, m, LastLabel(e).label) BY <2>4, <2>8, NewSpared
    <3>2. ~Labelling("bt_condition") BY DEF Labelling
    <3> QED BY <2>4, <2>6, <2>10, <3>1, <3>2, LabelsMore DEF Ending
  <2>12. u.block_vect[n].label_end # NoLabel => Spared(e, m + 1, u.block_vect[n].label_end.label)
    <3> SUFFICES ASSUME u.block_vect[n].label_end # NoLabel, NEW k \in 1..(m + 1), EndOf(e, k) # NoLabel
                 PROVE  EndOf(e, k).label # u.block_vect[n].label_end.label
      BY DEF Spared
    <3>1. CASE k \in 1..m BY <2>10, <3>1 DEF Ending, Spared
    <3>2. CASE k = m + 1
      <4>1. Len(u.labels_vect) \in Nat BY NumbersAre
      <4> QED BY <2>4, <2>6, <2>9, <3>2, <4>1
    <3> QED BY <3>1, <3>2
  <2>13. LabelsIn(e, m + 1 + 1)
    <3>1. m + 1 + 1 = n BY <2>2
    <3>2. u.block_vect[n].block_type = "bt_loop" => Points(e, u.block_vect[n].label_begin)
      <4>1. n \in 1..n OBVIOUS
      <4>2. u.block_vect[n].block_type = "bt_loop" => Points(u, u.block_vect[n].label_begin)
        BY <4>1 DEF LabelsIn
      <4> QED BY <2>4, <4>2, WaitsOn
    <3>3. Labelling(u.block_vect[n].block_type) => u.block_vect[n].label_end # NoLabel
      <4>1. n \in 1..n OBVIOUS
      <4> QED BY <4>1 DEF LabelsIn, EndOf
    <3>4. EndOf(e, n) = u.block_vect[n].label_end BY <2>5 DEF EndOf
    <3>5. EndOf(e, n) # NoLabel => Waits(e, EndOf(e, n)) /\ Spared(e, m + 1, EndOf(e, n).label)
      BY <2>10, <2>12, <3>4 DEF Ending
    <3>6. Labelling(e.block_vect[n].block_type) => EndOf(e, n) # NoLabel BY <2>5, <3>3, <3>4
    <3>7. e.block_vect[n].block_type = "bt_loop" => Points(e, e.block_vect[n].label_begin) BY <2>5, <3>2
    <3> HIDE DEF Labelling
    <3> QED BY <2>3, <2>11, <3>1, <3>5, <3>6, <3>7, LabelsMore
  <2> QED BY <2>2, <2>3, <2>4, <2>5, <2>6, <2>13 DEF Carries
<1>2. CASE ~(wanted /\ u.block_vect[n - 1].label_end = NoLabel)
  <2>1. e = u BY <1>2 DEF Readies
  <2> QED BY <1>2, <2>1 DEF EndOf
<1> QED BY <1>1, <1>2

(* A jump to a label that is there is found.                                 *)
LEMMA LeapsCarries ==
  ASSUME NEW e, Sound(e), NEW p, Points(e, p), NEW s, Leaps(e, s, p)
  PROVE  /\ Carries(e, s, 0) /\ \A m : SameFirst(e, s, m)
         /\ s.block_vect = e.block_vect /\ Len(s.labels_vect) = Len(e.labels_vect)
         /\ ~e.lost /\ FewLabels(e) => ~s.lost
<1>1. /\ Carries(e, s, 0) /\ \A m : SameFirst(e, s, m)
      /\ s.block_vect = e.block_vect /\ Len(s.labels_vect) = Len(e.labels_vect)
  BY KeptCarries DEF Leaps
<1>2. ~e.lost /\ FewLabels(e) => ~s.lost BY NotDangling DEF Leaps
<1> QED BY <1>1, <1>2

(* How block b is left, with m blocks to stay: its own label still waits.    *)
Left(e, s, m, b) ==
  /\ Sound(s) /\ Ending(s, m, b)
  /\ s.block_vect = e.block_vect /\ Len(s.labels_vect) = Len(e.labels_vect) /\ s.func_info = e.func_info
  /\ ~e.lost /\ FewLabels(e) => ~s.lost
  /\ b.label_end = NoLabel => s.pe = "no_error"

(* A block is left by a jump to a label that is there, or with its           *)
(* condition.                                                                *)
LEMMA LeavesHolds ==
  ASSUME NEW e, Sound(e), NEW n \in Nat, n > 0, LabelsIn(e, n), e.pe = "no_error",
         NEW b, b = e.block_vect[n], NEW behind \in BOOLEAN,
         IsBranch(b) => n > 1,
         IsBranch(b) /\ behind => b.block_type = "bt_if" /\ EndOf(e, n - 1) # NoLabel,
         NEW s, LeavesBy(e, s, n, b, behind),
         NEW m \in Nat, m = IF IsBranch(b) /\ ~behind THEN n - 2 ELSE n - 1
  PROVE  Left(e, s, m, b)
<1>1. m \in 0..(n - 1) /\ n \in 1..n OBVIOUS
<1>2. Ending(e, m, b) BY <1>1, EndingIs
<1>3. LabelsIn(e, m) /\ Spared(e, m, 0) BY <1>2, NoneSpared DEF Ending
<1>4. b.label_end # NoLabel => b.label_end.label # 0
  <2>1. Len(e.labels_vect) \in Nat BY NumbersAre
  <2> QED BY <1>2, <2>1 DEF Ending, Waits, Points
<1>5. Labelling(b.block_type) => b.label_end # NoLabel BY <1>1 DEF LabelsIn, EndOf
<1>6. ASSUME NEW p, Points(e, p), Leaps(e, s, p), Labelling(b.block_type) PROVE Left(e, s, m, b)
  <2>1. /\ Carries(e, s, 0) /\ SameFirst(e, s, m)
        /\ s.block_vect = e.block_vect /\ Len(s.labels_vect) = Len(e.labels_vect)
        /\ ~e.lost /\ FewLabels(e) => ~s.lost
    BY <1>6, LeapsCarries
  <2>2. Ending(s, m, b) BY <1>2, <1>3, <1>4, <2>1, EndingOn
  <2> QED BY <1>5, <1>6, <2>1, <2>2 DEF Left, Carries
<1>7. ASSUME s = e PROVE Left(e, s, m, b) BY <1>2, <1>7 DEF Left
<1>8. CASE b.block_type = "bt_loop"
  <2>1. Points(e, b.label_begin) BY <1>1, <1>8 DEF LabelsIn
  <2>2. Leaps(e, s, b.label_begin) BY <1>8 DEF LeavesBy
  <2>3. Labelling(b.block_type) BY <1>8 DEF Labelling
  <2> QED BY <1>6, <2>1, <2>2, <2>3
<1>9. CASE IsBranch(b) /\ behind
  <2>1. Leaps(e, s, EndOf(e, n - 1)) BY <1>9 DEF LeavesBy, EndOf
  <2>2. n - 1 \in 1..n BY <1>9
  <2>3. Points(e, EndOf(e, n - 1)) BY <1>9, <2>2 DEF LabelsIn, Waits
  <2>4. Labelling(b.block_type) BY <1>9 DEF Labelling
  <2> QED BY <1>6, <2>1, <2>3, <2>4
<1>10. CASE IsBranch(b) /\ ~behind
  <2>1. PICK p : p = EndOf(e, n - 1) OBVIOUS
  <2>2. CASE p = NoLabel
    <3>1. s = e BY <1>10, <2>1, <2>2 DEF LeavesBy, EndOf
    <3> QED BY <1>7, <3>1
  <2>3. CASE p # NoLabel
    <3>1. Lands(e, s, p) BY <1>10, <2>1, <2>3 DEF LeavesBy, EndOf
    <3>2. n - 1 \in 1..n /\ n - 1 # n /\ \A k \in 1..m : k \in 1..n /\ k # n - 1 BY <1>10
    <3>3. Waits(e, p) BY <2>1, <2>3, <3>2 DEF LabelsIn
    <3>4. Spared(e, m, p.label) BY <2>1, <2>3, <3>2 DEF LabelsIn, Spared
    <3>5. b.label_end # NoLabel => b.label_end.label # p.label
      BY <1>1, <2>1, <2>3, <3>2, Zenon DEF LabelsIn, EndOf
    <3>6. /\ Carries(e, s, p.label) /\ SameFirst(e, s, m)
          /\ s.block_vect = e.block_vect /\ Len(s.labels_vect) = Len(e.labels_vect)
          /\ s.pe = "no_error"
          /\ ~e.lost /\ FewLabels(e) => Ok(s)
      BY <3>1, <3>3, LandsCarries
    <3>7. Ending(s, m, b) BY <1>2, <3>4, <3>5, <3>6, EndingOn
    <3> QED BY <3>6, <3>7 DEF Left, Carries, Ok
  <2> QED BY <2>2, <2>3
<1>11. CASE b.block_type # "bt_loop" /\ ~IsBranch(b)
  <2>1. s = e BY <1>11 DEF LeavesBy
  <2> QED BY <1>7, <2>1
<1> QED BY <1>8, <1>9, <1>10, <1>11

(* A block closes: the labels of those that stay go on waiting, and it is    *)
(* accepted.                                                                 *)
LEMMA CloseHolds ==
  ASSUME NEW r, Sound(r), Proper(r), GivesBack(r), LabelsIn(r, Len(r.block_vect)), NEW behind \in BOOLEAN,
         IsBranch(Block(r)) /\ behind => Block(r).block_type = "bt_if",
         NEW q, ClosesBy(r, q, behind)
  PROVE  /\ LabelsIn(q, Len(q.block_vect))
         /\ ~r.lost /\ FewLabels(q) => Ok(q)
<1>1. PICK n \in Nat : n = Len(r.block_vect) BY NumbersAre
<1>2. PICK b : b = Block(r) OBVIOUS
<1>3. n > 0 /\ b = r.block_vect[n] /\ (IsBranch(b) => n > 1 /\ r.block_vect[n - 1].block_type = "bt_condition")
  BY <1>1, <1>2 DEF Proper, Block, Last
<1>4. PICK u, left, count, e, s, l :
        /\ Returns(r, left, count) /\ Unregisters(r, u, left, count)
        /\ Readies(u, e, n, IsBranch(b) /\ behind)
        /\ LeavesBy(e, s, n, b, behind)
        /\ EndsBy(s, l, b)
        /\ Drops(l, q, IsBranch(b) /\ ~behind)
  BY <1>1, <1>2 DEF ClosesBy
<1>5. Sound(u) /\ OnlyVars(r, u) /\ u.pe = "no_error"
  <2>1. \A k \in 1..count : left[k] >= 0 BY <1>4 DEF GivesBack
  <2>2. count \in 0..Len(r.vars_vect) /\ left \in [0..Len(r.vars_vect) -> Int] BY <1>4 DEF Returns
  <2>3. Len(r.vars_vect) \in Nat BY NumbersAre
  <2>4. \A k \in 1..count : k \in 0..Len(r.vars_vect) BY <2>2, <2>3
  <2>5. ~\E k \in 1..count : left[k] < 0 BY <2>1, <2>2, <2>4
  <2> QED BY <1>4, <2>5 DEF Unregisters
<1>6. /\ Carries(r, u, 0) /\ SameFirst(r, u, n) /\ u.block_vect = r.block_vect /\ u.lost = r.lost
      /\ Len(u.labels_vect) = Len(r.labels_vect)
  BY <1>5, VarsCarry
<1>7. LabelsIn(u, n) BY <1>1, <1>6, LabelsOn, NoneSpared
<1>8. /\ Sound(e) /\ LabelsIn(e, n) /\ e.lost = u.lost /\ e.pe = "no_error"
      /\ e.block_vect[n] = b /\ e.func_info = u.func_info /\ Len(e.block_vect) = n
      /\ IsBranch(b) /\ behind => EndOf(e, n - 1) # NoLabel
  <2>1. PICK wanted \in BOOLEAN : wanted <=> (IsBranch(b) /\ behind) OBVIOUS
  <2>2. Readies(u, e, n, wanted) BY <1>4, <2>1 DEF Readies
  <2>3. wanted => n > 1 /\ u.block_vect[n - 1].block_type = "bt_condition" BY <1>3, <1>6, <2>1
  <2>4. n = Len(u.block_vect) /\ u.block_vect[n] = b BY <1>1, <1>3, <1>6
  <2>5. /\ Sound(e) /\ LabelsIn(e, n) /\ e.lost = u.lost /\ e.pe = "no_error"
        /\ e.block_vect[n] = u.block_vect[n] /\ e.func_info = u.func_info /\ Len(e.block_vect) = n
        /\ wanted => EndOf(e, n - 1) # NoLabel
    BY <1>3, <1>5, <1>7, <2>2, <2>3, <2>4, ReadiesHolds
  <2> QED BY <2>1, <2>4, <2>5
<1>9. PICK m \in Nat : m = IF IsBranch(b) /\ ~behind THEN n - 2 ELSE n - 1 BY <1>3
<1>10. Left(e, s, m, b)
  <2>1. IsBranch(b) => n > 1 BY <1>3
  <2>2. IsBranch(b) /\ behind => b.block_type = "bt_if" BY <1>2
  <2> HIDE DEF IsBranch, Left
  <2> QED BY <1>3, <1>4, <1>8, <1>9, <2>1, <2>2, LeavesHolds
<1>11. Sound(s) /\ Ending(s, m, b) /\ s.block_vect = e.block_vect /\ Len(s.labels_vect) = Len(e.labels_vect)
       /\ s.func_info = e.func_info
  BY <1>10 DEF Left
<1>12. /\ Sound(l) /\ LabelsIn(l, m) /\ l.block_vect = s.block_vect /\ Len(l.labels_vect) = Len(s.labels_vect)
       /\ l.func_info = s.func_info
       /\ l.pe = "no_error" /\ (~e.lost /\ FewLabels(e) => ~l.lost)
  <2>1. CASE b.label_end = NoLabel
    <3>1. l = s BY <1>4, <2>1 DEF EndsBy
    <3> QED BY <1>10, <2>1, <3>1 DEF Left, Ending
  <2>2. CASE b.label_end # NoLabel
    <3>1. PICK p : p = b.label_end OBVIOUS
    <3>2. Lands(s, l, p) BY <1>4, <2>2, <3>1 DEF EndsBy
    <3>3. Waits(s, p) /\ Spared(s, m, p.label) /\ LabelsIn(s, m) BY <1>11, <2>2, <3>1 DEF Ending
    <3>4. /\ Carries(s, l, p.label) /\ SameFirst(s, l, m) /\ l.block_vect = s.block_vect
          /\ Len(l.labels_vect) = Len(s.labels_vect) /\ l.pe = "no_error"
          /\ ~s.lost /\ FewLabels(s) => Ok(l)
      BY <1>11, <3>2, <3>3, LandsCarries
    <3>5. LabelsIn(l, m) BY <1>11, <3>3, <3>4, LabelsOn
    <3>6. ~e.lost /\ FewLabels(e) => ~l.lost
      <4>1. FewLabels(e) => FewLabels(s) BY <1>11 DEF FewLabels
      <4> QED BY <1>10, <3>4, <4>1 DEF Left, Ok
    <3> QED BY <3>4, <3>5, <3>6 DEF Carries
  <2> QED BY <2>1, <2>2
<1>13. Len(l.block_vect) = n BY <1>8, <1>11, <1>12
<1>14. LabelsIn(q, Len(q.block_vect)) /\ q.lost = l.lost /\ q.pe = "no_error"
       /\ Len(q.labels_vect) = Len(l.labels_vect)
  <2>1. PICK both \in BOOLEAN : both <=> (IsBranch(b) /\ ~behind) OBVIOUS
  <2>2. Drops(l, q, both) BY <1>4, <2>1 DEF Drops
  <2>3. m = IF both THEN n - 2 ELSE n - 1 BY <1>9, <2>1
  <2>4. both => n > 1 BY <1>3, <2>1
  <2>5. CASE /\ Keeps(l, q) /\ q.pe = l.pe /\ q.labels_vect = l.labels_vect
             /\ Len(q.block_vect) = IF both THEN n - 2 ELSE n - 1
             /\ \A k \in 1..Len(q.block_vect) : q.block_vect[k] = l.block_vect[k]
    <3>1. Len(q.block_vect) = m BY <2>3, <2>5
    <3>2. SameFirst(l, q, m) BY <2>5, <3>1 DEF SameFirst
    <3>3. Carries(l, q, 0)
      <4>1. Len(l.labels_vect) \in Nat BY <1>12, NumbersAre
      <4> QED BY <2>5, <4>1 DEF Carries, Keeps, SameRoutine
    <3>4. LabelsIn(q, m) BY <1>12, <3>2, <3>3, LabelsOn, NoneSpared
    <3> QED BY <1>12, <2>2, <2>5, <3>1, <3>4 DEF Drops
  <2>6. CASE n = 1 /\ both BY <2>4, <2>6
  <2>7. CASE EndsRoutine(l, q) /\ SameLabels(l, q) /\ q.pe = "no_error"
    <3>1. Len(q.block_vect) = 0 /\ \A i \in 1..0 : FALSE BY <2>7 DEF EndsRoutine
    <3>2. LabelsIn(q, 0) BY <3>1 DEF LabelsIn
    <3> QED BY <2>2, <2>7, <3>1, <3>2 DEF Drops, SameLabels
  <2> QED BY <1>13, <2>2, <2>5, <2>6, <2>7 DEF Drops
<1>15. ~r.lost /\ FewLabels(q) => Ok(q)
  <2> SUFFICES ASSUME ~r.lost, FewLabels(q) PROVE ~q.lost
    BY <1>14 DEF Ok
  <2>1. FewLabels(e) BY <1>11, <1>12, <1>14 DEF FewLabels
  <2> QED BY <1>6, <1>8, <1>12, <1>14, <2>1
<1> QED BY <1>14, <1>15

-----------------------------------------------------------------------------
(* The steps of lines.                                                       *)

(* The compiler between two lines: its blocks are those of T, its variables  *)
(* are in their blocks and have their places.                                *)
Orders(r, L, T) == Sound(r) /\ Stack(r, L, T) /\ VarsIn(r) /\ LaidOut(Sees(r))
(* A line's step: the blocks are then those of U, and Scopes sees a step of  *)
(* its own.                                                                  *)
Turns(r, q, K, U) == Stack(q, K, U) /\ VarsIn(q) /\ ScopeStep(Sees(r), Sees(q))

(* The area the compiler works in is laid out.                               *)
LEMMA OrdersLaid ==
  ASSUME NEW r, Sound(r), LaidOut(Sees(r))
  PROVE  ScP!Laid(AreaPlaces(r, r.subs_body), 0, r.heap_pnt)
<1>1. PICK b \in BOOLEAN : b = r.subs_body BY DEF Sound, Result
<1>2. SeenAs(r, b) BY <1>1, SeesAs, Zenon
<1>3. ScP!Laid(Sees(r).places[b], 0, Sees(r).pnt[b]) BY DEF LaidOut
<1>4. Sees(r).places[b] = AreaPlaces(r, b) /\ Sees(r).pnt[b] = r.heap_pnt BY <1>2, Zenon DEF SeenAs
<1>5. ScP!Laid(AreaPlaces(r, b), 0, r.heap_pnt) BY <1>3, <1>4, Zenon
<1> QED BY <1>1, <1>5, Zenon

(* A line that only puts code.                                               *)
LEMMA SameTurns ==
  ASSUME NEW r, NEW L \in Nat, NEW T, Orders(r, L, T), NEW q, Keeps(r, q), q.block_vect = r.block_vect,
         NEW U, \A m \in 1..L : U[m] = T[m]
  PROVE  Turns(r, q, L, U) /\ Sees(q) = Sees(r)
<1>1. Sound(r) /\ Stack(r, L, T) /\ VarsIn(r) /\ Sound(q) BY DEF Orders, Keeps
<1>2. SameTypes(r, q, Len(r.block_vect)) /\ Len(q.block_vect) = Len(r.block_vect)
      /\ Len(r.block_vect) \in Nat
  BY <1>1, NumbersAre DEF SameTypes
<1>3. Stack(q, L, U) BY <1>1, <1>2, StackSame
<1>4. /\ q.vars_vect = r.vars_vect /\ q.func_info = r.func_info /\ q.subs_body = r.subs_body
      /\ Len(q.block_vect) >= Len(r.block_vect)
  BY <1>2 DEF Keeps, SameVars, SameRoutine
<1>5. VarsIn(q) BY <1>1, <1>2, <1>4, VarsSame
<1>6. Sees(q) = Sees(r) BY SeesSame
<1> QED BY <1>3, <1>5, <1>6 DEF Turns, ScopeStep

(* A line that declares a variable.                                          *)
LEMMA DeclareTurns ==
  ASSUME NEW r, NEW L \in Nat, NEW T, Orders(r, L, T), NEW q, Stays(r, q),
         NEW size \in Nat, size > 0, Gains(r, q, size), NEW U, \A m \in 1..L : U[m] = T[m]
  PROVE  Turns(r, q, L, U)
<1>1. Sound(r) /\ Stack(r, L, T) /\ VarsIn(r) /\ LaidOut(Sees(r)) BY DEF Orders
<1>2. /\ Sound(q) /\ SameRoutine(r, q) /\ q.block_vect = r.block_vect
      /\ q.func_info = r.func_info /\ q.subs_body = r.subs_body
  BY DEF Stays, SameRoutine
<1>3. SameTypes(r, q, Len(r.block_vect)) /\ Len(q.block_vect) = Len(r.block_vect)
  BY <1>2 DEF SameTypes
<1>4. Stack(q, L, U) BY <1>1, <1>3, StackSame
<1>5. r.block_vect # <<>> => Block(r).block_type # "bt_condition"
  <2>1. /\ L = 0 <=> r.block_vect = <<>>
        /\ L > 0 => Block(r).block_type = T[L] /\ T[L] # "bt_condition"
    BY <1>1, StackTop
  <2> QED BY <2>1
<1>6. VarsIn(q) BY <1>1, <1>2, <1>5, VarsGain
<1>7. DeclareStep(Sees(r), Sees(q)) BY <1>1, <1>2, <1>6, DeclareIs
<1> QED BY <1>4, <1>6, <1>7 DEF Turns, ScopeStep

(* A line that opens a block.                                                *)
LEMMA PushTurns ==
  ASSUME NEW r, NEW L \in Nat, NEW T, Orders(r, L, T), NEW q, Keeps(r, q),
         NEW type, type # "bt_condition",
         Len(q.block_vect) = Len(r.block_vect) + Room(type),
         SameTypes(r, q, Len(r.block_vect)),
         q.block_vect[Len(q.block_vect)].block_type = type,
         type \in Branches => L > 0 /\ q.block_vect[Len(r.block_vect) + 1].block_type = "bt_condition",
         NEW U, U[L + 1] = type, \A m \in 1..L : U[m] = T[m]
  PROVE  Turns(r, q, L + 1, U)
<1>1. Sound(r) /\ Stack(r, L, T) /\ VarsIn(r) /\ Sound(q) BY DEF Orders, Keeps
<1>2. Stack(q, L + 1, U) BY <1>1, StackPush
<1>3. Room(type) \in {1, 2} /\ Len(r.block_vect) \in Nat BY <1>1, NumbersAre DEF Room
<1>4. /\ q.vars_vect = r.vars_vect /\ q.func_info = r.func_info /\ q.subs_body = r.subs_body
      /\ Len(q.block_vect) >= Len(r.block_vect)
  BY <1>3 DEF Keeps, SameVars, SameRoutine
<1>5. VarsIn(q) BY <1>1, <1>4, VarsSame
<1>6. Sees(q) = Sees(r) BY SeesSame
<1> QED BY <1>2, <1>5, <1>6 DEF Turns, ScopeStep

(* A line that begins a routine.                                             *)
LEMMA BeginTurns ==
  ASSUME NEW r, NEW T, Orders(r, 0, T), NEW q, Sound(q), StartsBody(r, q), NEW U, U[1] = "bt_proc"
  PROVE  Turns(r, q, 1, U)
<1>1. Sound(r) /\ Stack(r, 0, T) /\ VarsIn(r) BY DEF Orders
<1>2. r.block_vect = <<>>
  <2>1. 0 \in Nat OBVIOUS
  <2> QED BY <1>1, <2>1, StackTop, Zenon
<1>3. r.func_info = NULL /\ r.subs_body = FALSE BY <1>1, <1>2 DEF VarsIn, Sound, RoutineRefs, Result
<1>4. Enrols(r, q) BY <1>1, StartEnrols
<1>5. VarsIn(q) BY <1>1, <1>2, <1>3, <1>4, VarsBegin
<1>6. BeginStep(Sees(r), Sees(q)) BY <1>1, <1>3, <1>4, <1>5, BeginIs
<1>7. Stack(q, 0 + 1, U)
  <2>1. /\ Len(q.block_vect) = Len(r.block_vect) + Room("bt_proc")
        /\ SameTypes(r, q, Len(r.block_vect))
        /\ q.block_vect[Len(q.block_vect)].block_type = "bt_proc"
        /\ "bt_proc" \notin Branches /\ "bt_proc" # "bt_condition"
    BY <1>4 DEF Enrols, Room, Branches
  <2>2. U[0 + 1] = "bt_proc" /\ \A m \in 1..0 : U[m] = T[m] OBVIOUS
  <2>3. 0 \in Nat OBVIOUS
  <2> QED BY <1>1, <2>1, <2>2, <2>3, StackPush, Zenon
<1>8. Stack(q, 1, U)
  <2>1. 0 + 1 = 1 OBVIOUS
  <2> QED BY <1>7, <2>1
<1> QED BY <1>5, <1>6, <1>8 DEF Turns, ScopeStep

(* A block closes: what it had is given back, or its routine ends.           *)
LEMMA CloseTurns ==
  ASSUME NEW r, NEW L \in Nat, L > 0, NEW T, Orders(r, L, T), NEW behind \in BOOLEAN,
         NEW q, Sound(q), Ok(q), ClosesBy(r, q, behind)
  PROVE  /\ VarsIn(q) /\ ScopeStep(Sees(r), Sees(q))
         /\ Len(q.block_vect) = Len(r.block_vect) - Dropped(r, behind)
         /\ SameTypes(r, q, Len(q.block_vect))
<1>1. Sound(r) /\ Stack(r, L, T) /\ VarsIn(r) /\ LaidOut(Sees(r)) BY DEF Orders
<1>2. PICK n \in Nat : n = Len(r.block_vect) BY <1>1, NumbersAre
<1>3. /\ Block(r).block_type = T[L] /\ Proper(r) /\ n > 0
      /\ T[L] \in Branches => n > 2
  BY <1>1, <1>2, StackTop DEF Proper
<1>4. ScP!Laid(AreaPlaces(r, r.subs_body), 0, r.heap_pnt) BY <1>1, OrdersLaid
<1>5. GivesBack(r) BY <1>1, <1>2, <1>3, <1>4, PlacesReturned
<1>6. PICK blocks : blocks = Dropped(r, behind) OBVIOUS
<1>7. PICK left, count : Shrinks(r, q, left, count, blocks)
  BY <1>1, <1>3, <1>5, <1>6, CloseShrinks
<1>8. blocks \in {1, 2} /\ (blocks = 2 => IsBranch(Block(r))) BY <1>6 DEF Dropped
<1>9. blocks = 2 => /\ Len(r.block_vect) > 2
                    /\ r.block_vect[Len(r.block_vect) - 1].block_type = "bt_condition"
  BY <1>2, <1>3, <1>8 DEF Proper, IsBranch, Branches
<1>10. VarsIn(q) BY <1>1, <1>2, <1>3, <1>7, <1>8, <1>9, VarsClose
<1>11. ScopeStep(Sees(r), Sees(q))
  <2>1. CASE SameRoutine(r, q) /\ q.heap_pnt = left[count] /\ q.heap_memory_max = r.heap_memory_max
    <3>1. ForgetStep(Sees(r), Sees(q)) \/ Sees(q) = Sees(r)
      BY <1>1, <1>2, <1>3, <1>7, <1>10, <2>1, ForgetIs
    <3> QED BY <3>1 DEF ScopeStep
  <2>2. CASE /\ Len(r.block_vect) = 1 /\ blocks = 1
             /\ r.func_info # NULL /\ q.func_info = NULL /\ q.subs_body = FALSE
             /\ q.heap_memory_max_funcs = r.heap_memory_max_funcs + r.heap_memory_max
             /\ q.heap_memory_max = r.heap_memory_max_back
             /\ q.heap_pnt = r.heap_pnt_back
    <3>1. EndStep(Sees(r), Sees(q)) BY <1>1, <1>7, <1>10, <2>2, EndIs
    <3> QED BY <3>1 DEF ScopeStep
  <2> QED BY <1>7, <2>1, <2>2 DEF Shrinks
<1> QED BY <1>6, <1>7, <1>10, <1>11 DEF Shrinks
=============================================================================
