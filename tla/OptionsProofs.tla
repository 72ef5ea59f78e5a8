--------------------------- MODULE OptionsProofs ---------------------------
(***************************************************************************)
(* Proofs about Options, for any number of goroutines and calls, any       *)
(* options and any structs of the caller.                                  *)
(***************************************************************************)
EXTENDS Options, FiniteSetTheorems, WellFoundedInduction, TLAPS

USE DEF Kinds

\* A call works through its options; the struct it is filling in is of the kind of
\* the option at work.
InvCalls ==
  /\ call = [p \in Procs |-> call[p]]
  /\ \A p \in Procs :
       /\ DOMAIN call[p] = {"running", "opts", "todo", "cur", "subs", "meant"}
       /\ call[p].todo \in Seq(OptionTypes \cup {Nil})
       /\ call[p].subs \in Seq(SubOptions \cup {Nil})
       /\ call[p].cur # Nil =>
            /\ call[p].todo # <<>>
            /\ heap[call[p].cur].kind \in {"preset", "compat"}

InvCaller ==
  /\ Len(CallerHeap) <= Len(heap)
  /\ \A a \in 1..Len(CallerHeap) : heap[a] = CallerHeap[a]

IInv ==
  /\ TypeOK
  /\ InvCalls
  /\ InvCaller
  /\ NobodyElseReaches
  /\ ProvidersKeepSettings

\* What a step leaves of the results there are.
MeaningsStay == \A r \in results : Meaning(heap', r.opts) = Meaning(heap, r.opts)
-----------------------------------------------------------------------------
(***************************************************************************)
(* What lists of options say, one option and one suboption at a time.      *)
(***************************************************************************)

\* A set of positions that is not empty has a greatest one.
LEMMA Greatest ==
  ASSUME NEW n \in Nat, NEW S \in SUBSET (1..n), S # {}
  PROVE  Max(S) \in S /\ \A y \in S : y <= Max(S)
  <1> DEFINE Above(x) == {y \in S : y > x}
             All == {Above(x) : x \in S}
             R == StrictSubsetOrdering(S)
  <1>1. IsFiniteSet(S)
    <2>1. IsFiniteSet(1..n) BY FS_Interval
    <2> QED BY <2>1, FS_Subset
  <1>2. IsWellFoundedOn(R, FiniteSubsetsOf(S)) BY FS_StrictSubsetOrderingWellFounded
  <1>3. \A x \in S : Above(x) \in FiniteSubsetsOf(S)
    BY <1>1, FS_Subset DEF FiniteSubsetsOf
  <1>4. All \subseteq FiniteSubsetsOf(S) /\ All # {} BY <1>3
  <1>5. PICK a \in All : \A b \in All : <<b, a>> \notin R
    <2> HIDE DEF R, All
    <2> QED BY <1>2, <1>4, WFMin
  <1>6. PICK x \in S : a = Above(x) BY <1>5
  <1>7. \A y \in S : y <= x
    <2> SUFFICES ASSUME NEW y \in S, y > x PROVE FALSE OBVIOUS
    <2>0. x \in Int /\ y \in Int /\ \A z \in S : z \in Int OBVIOUS
    <2>1. \A z \in S : z > y => z > x BY <2>0
    <2>3. ~(y > y) BY <2>0
    <2>4. Above(y) \subseteq Above(x) /\ y \in Above(x) /\ y \notin Above(y)
      BY <2>1, <2>3
    <2>2. <<Above(y), Above(x)>> \in R
      BY <2>4 DEF StrictSubsetOrdering
    <2> QED BY <1>5, <1>6, <2>2
  <1>8. \E m \in S : \A y \in S : m >= y BY <1>7
  <1> QED BY <1>8 DEF Max

\* What is said after b.
Over(a, b) == IF a # {} THEN a ELSE b

\* The last of a sequence, by the last of its tail.
LEMMA LastStep ==
  ASSUME NEW n \in Nat, NEW f, DOMAIN f = 1..(n + 1),
         NEW g, g = [i \in 1..n |-> f[i + 1]]
  PROVE  LastSaid(f) = Over(LastSaid(g), f[1])
<1> DEFINE F == {i \in DOMAIN f : f[i] # {}}
           G == {i \in DOMAIN g : g[i] # {}}
<1>1. DOMAIN g = 1..n /\ \A i \in 1..n : g[i] = f[i + 1] OBVIOUS
<1>2. CASE G = {}
  <2>1. \A i \in 2..(n + 1) : i - 1 \in 1..n /\ f[i] = g[i - 1] BY <1>1
  <2>2. \A i \in 2..(n + 1) : f[i] = {} BY <1>1, <1>2, <2>1
  <2>3. F \subseteq {1}
    <3>1. \A i \in 1..(n + 1) : i = 1 \/ i \in 2..(n + 1) OBVIOUS
    <3> QED BY <2>2, <3>1
  <2>4. LastSaid(g) = {} BY <1>2 DEF LastSaid
  <2>5. CASE F = {}
    <3>1. 1 \in DOMAIN f OBVIOUS
    <3>2. f[1] = {} BY <2>5, <3>1
    <3> QED BY <2>4, <2>5, <3>2 DEF LastSaid, Over
  <2>6. CASE F # {}
    <3>1. F = {1} BY <2>3, <2>6
    <3>2. F \in SUBSET (1..(n + 1)) /\ n + 1 \in Nat OBVIOUS
    <3>3. Max(F) = 1
      <4> HIDE DEF F
      <4>1. Max(F) \in F BY <2>6, <3>2, Greatest
      <4> QED BY <3>1, <4>1
    <3>4. LastSaid(f) = f[Max(F)] BY <2>6 DEF LastSaid
    <3> QED BY <2>4, <3>3, <3>4 DEF Over
  <2> QED BY <2>5, <2>6
<1>3. CASE G # {}
  <2>1. G \in SUBSET (1..n) /\ F \in SUBSET (1..(n + 1)) /\ n + 1 \in Nat OBVIOUS
  <2>2. Max(G) \in G /\ \A y \in G : y <= Max(G)
    <3> HIDE DEF G, F
    <3> QED BY <1>3, <2>1, Greatest
  <2>3. PICK m : m = Max(G) OBVIOUS
  <2>4. m \in 1..n /\ g[m] # {} /\ \A y \in G : y <= m BY <2>1, <2>2, <2>3
  <2>5. m + 1 \in F BY <1>1, <2>4
  <2>6. \A y \in F : y <= m + 1
    <3>0. m + 1 \in Int /\ \A y \in F : y \in Int BY <2>1, <2>4
    <3> SUFFICES ASSUME NEW y \in F, y > m + 1 PROVE FALSE BY <3>0
    <3>1. y \in 1..(n + 1) /\ f[y] # {} OBVIOUS
    <3>2. y - 1 \in 1..n /\ y = (y - 1) + 1 /\ y - 1 > m BY <2>4, <3>1
    <3>3. g[y - 1] = f[y] BY <1>1, <3>2
    <3>4. y - 1 \in G BY <1>1, <3>1, <3>2, <3>3
    <3> QED BY <2>4, <3>2, <3>4
  <2>7. F # {} BY <2>5
  <2>8. Max(F) \in F /\ \A y \in F : y <= Max(F)
    <3> HIDE DEF F, G
    <3> QED BY <2>1, <2>7, Greatest
  <2>9. Max(F) = m + 1
    <3>1. PICK x : x = Max(F) OBVIOUS
    <3>2. x \in F /\ x \in 1..(n + 1) /\ m + 1 <= x /\ x <= m + 1
      BY <2>1, <2>5, <2>6, <2>8, <3>1
    <3> QED BY <2>4, <3>1, <3>2
  <2>10. LastSaid(f) = f[m + 1] BY <2>7, <2>9 DEF LastSaid
  <2>11. LastSaid(g) = g[m] BY <1>3, <2>3 DEF LastSaid
  <2> QED BY <1>1, <2>4, <2>10, <2>11 DEF Over
<1> QED BY <1>2, <1>3

\* Nobody there, nothing said.
LEMMA LastEmpty ==
  ASSUME NEW f, DOMAIN f = {}
  PROVE  LastSaid(f) = {}
BY DEF LastSaid

\* What is said first counts if nothing is said after it.
LEMMA Otherwise ==
  ASSUME NEW a, NEW b, NEW x
  PROVE  The(a, The(b, x)) = The(Over(a, b), x)
<1>1. CASE a = {} BY <1>1 DEF The, Over
<1>2. CASE a # {}
  <2>1. Over(a, b) = a BY <1>2 DEF Over
  <2> QED BY <1>2, <2>1 DEF The
<1> QED BY <1>1, <1>2

\* What is said is what counts.
LEMMA TheOnly ==
  ASSUME NEW a, NEW x
  PROVE  The({a}, x) = a
BY DEF The

\* What is built in two goes is what is built in one.
LEMMA BuiltTwice ==
  ASSUME NEW kind, NEW old, NEW t1, NEW v1, NEW t2, NEW v2
  PROVE  Built(kind, Built(kind, old, t1, v1), t2, v2)
           = Built(kind, old, Over(t2, t1), [k \in Keys |-> Over(v2[k], v1[k])])
<1>1. PICK text : text = The(t1, The({struct.text : struct \in old}, "")) OBVIOUS
<1>2. PICK map : map = [k \in Keys |-> The(v1[k], The({struct.map[k] : struct \in old}, Absent))]
  OBVIOUS
<1>3. PICK one : one = IF kind = "preset"
                       THEN [kind |-> kind, enabled |-> TRUE, text |-> text, map |-> map]
                       ELSE [kind |-> kind, text |-> text, map |-> map]
  OBVIOUS
<1>4. Built(kind, old, t1, v1) = {one} BY <1>1, <1>2, <1>3 DEF Built
<1>5. one.text = text /\ one.map = map BY <1>3
<1>6. The(t2, The({struct.text : struct \in {one}}, ""))
        = The(Over(t2, t1), The({struct.text : struct \in old}, ""))
  <2>1. {struct.text : struct \in {one}} = {text} BY <1>5
  <2>2. The({text}, "") = text BY TheOnly
  <2>3. PICK was : was = The({struct.text : struct \in old}, "") OBVIOUS
  <2>4. text = The(t1, was) BY <1>1, <2>3
  <2>5. The(t2, The(t1, was)) = The(Over(t2, t1), was) BY Otherwise
  <2> QED BY <2>1, <2>2, <2>3, <2>4, <2>5
<1>7. DEFINE both == [k \in Keys |-> Over(v2[k], v1[k])]
<1>8. ASSUME NEW k \in Keys
      PROVE  The(v2[k], The({struct.map[k] : struct \in {one}}, Absent))
               = The(both[k], The({struct.map[k] : struct \in old}, Absent))
  <2>1. {struct.map[k] : struct \in {one}} = {map[k]} BY <1>5
  <2>2. The({map[k]}, Absent) = map[k] BY TheOnly
  <2>3. map[k] = The(v1[k], The({struct.map[k] : struct \in old}, Absent)) BY <1>2
  <2>4. both[k] = Over(v2[k], v1[k]) OBVIOUS
  <2>5. PICK was : was = The({struct.map[k] : struct \in old}, Absent) OBVIOUS
  <2>6. map[k] = The(v1[k], was) BY <2>3, <2>5
  <2>7. The(v2[k], The(v1[k], was)) = The(Over(v2[k], v1[k]), was) BY Otherwise
  <2> HIDE DEF both
  <2> QED BY <2>1, <2>2, <2>4, <2>5, <2>6, <2>7
<1>9. [k \in Keys |-> The(v2[k], The({struct.map[k] : struct \in {one}}, Absent))]
        = [k \in Keys |-> The(both[k], The({struct.map[k] : struct \in old}, Absent))]
  <2> HIDE DEF both
  <2> QED BY <1>8
<1> HIDE DEF both
<1>10. Built(kind, {one}, t2, v2) = Built(kind, old, Over(t2, t1), both)
  BY <1>6, <1>9 DEF Built
<1> QED BY <1>4, <1>10 DEF both

\* What is built has the text and the values that are said, or else what there was.
LEMMA BuiltFields ==
  ASSUME NEW kind, NEW a, NEW said, NEW put, NEW built, Built(kind, {a}, said, put) = {built}
  PROVE  /\ built.text = The(said, a.text)
         /\ \A k \in Keys : built.map[k] = The(put[k], a.map[k])
<1>1. PICK t : t = The(said, The({struct.text : struct \in {a}}, "")) OBVIOUS
<1>2. PICK map : map = [k \in Keys |-> The(put[k], The({struct.map[k] : struct \in {a}}, Absent))]
  OBVIOUS
<1>3. PICK new : new = IF kind = "preset"
                       THEN [kind |-> kind, enabled |-> TRUE, text |-> t, map |-> map]
                       ELSE [kind |-> kind, text |-> t, map |-> map]
  OBVIOUS
<1>4. Built(kind, {a}, said, put) = {new} BY <1>1, <1>2, <1>3 DEF Built
<1>5. new.text = t /\ new.map = map BY <1>3
<1>6. t = The(said, a.text)
  <2>1. {struct.text : struct \in {a}} = {a.text} OBVIOUS
  <2> QED BY <1>1, <2>1, TheOnly
<1>7. ASSUME NEW k \in Keys
      PROVE  map[k] = The(put[k], a.map[k])
  <2>1. {struct.map[k] : struct \in {a}} = {a.map[k]} OBVIOUS
  <2>2. The({a.map[k]}, Absent) = a.map[k] BY TheOnly
  <2> QED BY <1>2, <2>1, <2>2
<1>8. built = new BY <1>4
<1> QED BY <1>5, <1>6, <1>7, <1>8

\* What is built depends on the text and the map of what there was.
LEMMA BuiltFrom ==
  ASSUME NEW kind, NEW a, NEW b, a.text = b.text, \A k \in Keys : a.map[k] = b.map[k],
         NEW said, NEW put
  PROVE  Built(kind, {a}, said, put) = Built(kind, {b}, said, put)
<1>1. {struct.text : struct \in {a}} = {struct.text : struct \in {b}} OBVIOUS
<1>2. \A k \in Keys : {struct.map[k] : struct \in {a}} = {struct.map[k] : struct \in {b}}
  OBVIOUS
<1> QED BY <1>1, <1>2 DEF Built

\* A struct without text and entries is as good as none.
LEMMA BuiltFromNothing ==
  ASSUME NEW kind, NEW a, NEW empty, empty = "", a.text = empty, \A k \in Keys : a.map[k] = Absent,
         NEW said, NEW put
  PROVE  Built(kind, {a}, said, put) = Built(kind, {}, said, put)
<1>1. {struct.text : struct \in {a}} = {""} /\ {struct.text : struct \in {}} = {} OBVIOUS
<1>2. The({""}, "") = "" /\ The({}, "") = "" BY DEF The
<1>3. ASSUME NEW k \in Keys
      PROVE  The({struct.map[k] : struct \in {a}}, Absent)
               = The({struct.map[k] : struct \in {}}, Absent)
  <2>1. {struct.map[k] : struct \in {a}} = {Absent} /\ {struct.map[k] : struct \in {}} = {}
    OBVIOUS
  <2>2. The({Absent}, Absent) = Absent /\ The({}, Absent) = Absent BY DEF The
  <2> QED BY <2>1, <2>2
<1>4. The({struct.text : struct \in {a}}, "") = The({struct.text : struct \in {}}, "")
  BY <1>1, <1>2
<1> QED BY <1>3, <1>4 DEF Built

\* Nothing said, nothing changed.
LEMMA BuiltSame ==
  ASSUME NEW kind, NEW a, NEW text, NEW map, map = [k \in Keys |-> map[k]],
         a = IF kind = "preset"
               THEN [kind |-> kind, enabled |-> TRUE, text |-> text, map |-> map]
               ELSE [kind |-> kind, text |-> text, map |-> map]
  PROVE  Built(kind, {a}, {}, [k \in Keys |-> {}]) = {a}
<1>1. a.text = text /\ a.map = map OBVIOUS
<1>2. The({}, The({struct.text : struct \in {a}}, "")) = text
  <2>1. {struct.text : struct \in {a}} = {text} BY <1>1
  <2> QED BY <2>1, TheOnly DEF The
<1>3. PICK value : value = [k \in Keys |-> {}] OBVIOUS
<1>4. ASSUME NEW k \in Keys
      PROVE  The(value[k], The({struct.map[k] : struct \in {a}}, Absent)) = map[k]
  <2>1. {struct.map[k] : struct \in {a}} = {map[k]} BY <1>1
  <2>2. value[k] = {} BY <1>3
  <2>3. The({map[k]}, Absent) = map[k] BY TheOnly
  <2> QED BY <2>1, <2>2, <2>3 DEF The
<1>5. [k \in Keys |-> The(value[k], The({struct.map[k] : struct \in {a}}, Absent))] = map
  BY <1>4
<1>6. Built(kind, {a}, {}, value) = {a} BY <1>2, <1>5 DEF Built
<1> QED BY <1>3, <1>6

-----------------------------------------------------------------------------
\* What a list says, by its head and its tail.
LEMMA Behead ==
  ASSUME NEW S, NEW list \in Seq(S), list # <<>>
  PROVE  \E n \in Nat :
           /\ DOMAIN list = 1..(n + 1) /\ DOMAIN Tail(list) = 1..n
           /\ Head(list) = list[1]
           /\ \A i \in 1..n : Tail(list)[i] = list[i + 1]
<1>1. PICK n \in Nat : Len(list) = n + 1
  <2>1. Len(list) \in Nat /\ Len(list) # 0 OBVIOUS
  <2>2. Len(list) - 1 \in Nat /\ Len(list) = (Len(list) - 1) + 1 BY <2>1
  <2> QED BY <2>2
<1> QED BY <1>1

\* One option at a time: whether there is one of a kind,
LEMMA HasStep ==
  ASSUME NEW S, NEW list \in Seq(S), list # <<>>, NEW kind
  PROVE  Has(list, kind) <=> IsA(Head(list), kind) \/ Has(Tail(list), kind)
<1>1. PICK n \in Nat :
        /\ DOMAIN list = 1..(n + 1) /\ DOMAIN Tail(list) = 1..n
        /\ Head(list) = list[1]
        /\ \A i \in 1..n : Tail(list)[i] = list[i + 1]
  BY Behead
<1>2. ASSUME Has(list, kind), ~IsA(Head(list), kind)
      PROVE  Has(Tail(list), kind)
  <2>1. PICK i \in 1..(n + 1) : IsA(list[i], kind) BY <1>1, <1>2 DEF Has
  <2>2. i # 1 BY <1>1, <1>2, <2>1
  <2>3. i - 1 \in 1..n /\ i = (i - 1) + 1 BY <2>2
  <2>4. Tail(list)[i - 1] = list[i] BY <1>1, <2>3
  <2> QED BY <1>1, <2>1, <2>3, <2>4 DEF Has
<1>3. IsA(Head(list), kind) => Has(list, kind) BY <1>1 DEF Has
<1>4. ASSUME Has(Tail(list), kind)
      PROVE  Has(list, kind)
  <2>1. PICK i \in 1..n : IsA(Tail(list)[i], kind) BY <1>1, <1>4 DEF Has
  <2>2. i + 1 \in 1..(n + 1) /\ IsA(list[i + 1], kind) BY <1>1, <2>1
  <2> QED BY <1>1, <2>2 DEF Has
<1> QED BY <1>2, <1>3, <1>4

\* what the suboptions say of the text,
LEMMA TextOfStep ==
  ASSUME NEW S, NEW subs \in Seq(S), subs # <<>>
  PROVE  TextOf(subs) = Over(TextOf(Tail(subs)), TextSaid(Head(subs)))
<1>1. PICK n \in Nat :
        /\ DOMAIN subs = 1..(n + 1) /\ DOMAIN Tail(subs) = 1..n
        /\ Head(subs) = subs[1]
        /\ \A i \in 1..n : Tail(subs)[i] = subs[i + 1]
  BY Behead
<1>2. PICK f : f = [i \in DOMAIN subs |-> TextSaid(subs[i])] OBVIOUS
<1>3. PICK g : g = [i \in DOMAIN Tail(subs) |-> TextSaid(Tail(subs)[i])] OBVIOUS
<1>4. /\ DOMAIN f = 1..(n + 1) /\ f[1] = TextSaid(Head(subs))
      /\ g = [i \in 1..n |-> f[i + 1]]
  BY <1>1, <1>2, <1>3
<1>5. LastSaid(f) = Over(LastSaid(g), f[1]) BY <1>1, <1>4, LastStep
<1> QED BY <1>2, <1>3, <1>4, <1>5 DEF TextOf

\* what they say of a key,
LEMMA ValueOfStep ==
  ASSUME NEW S, NEW subs \in Seq(S), subs # <<>>, NEW k
  PROVE  ValueOf(subs, k) = Over(ValueOf(Tail(subs), k), ValueSaid(Head(subs), k))
<1>1. PICK n \in Nat :
        /\ DOMAIN subs = 1..(n + 1) /\ DOMAIN Tail(subs) = 1..n
        /\ Head(subs) = subs[1]
        /\ \A i \in 1..n : Tail(subs)[i] = subs[i + 1]
  BY Behead
<1>2. PICK f : f = [i \in DOMAIN subs |-> ValueSaid(subs[i], k)] OBVIOUS
<1>3. PICK g : g = [i \in DOMAIN Tail(subs) |-> ValueSaid(Tail(subs)[i], k)] OBVIOUS
<1>4. /\ DOMAIN f = 1..(n + 1) /\ f[1] = ValueSaid(Head(subs), k)
      /\ g = [i \in 1..n |-> f[i + 1]]
  BY <1>1, <1>2, <1>3
<1>5. LastSaid(f) = Over(LastSaid(g), f[1]) BY <1>1, <1>4, LastStep
<1> QED BY <1>2, <1>3, <1>4, <1>5 DEF ValueOf

\* what the options of a kind say of the text,
LEMMA TextInStep ==
  ASSUME NEW S, NEW list \in Seq(S), list # <<>>, NEW kind
  PROVE  TextIn(list, kind)
           = Over(TextIn(Tail(list), kind),
                  IF IsA(Head(list), kind) THEN TextOf(Head(list).subs) ELSE {})
<1>1. PICK n \in Nat :
        /\ DOMAIN list = 1..(n + 1) /\ DOMAIN Tail(list) = 1..n
        /\ Head(list) = list[1]
        /\ \A i \in 1..n : Tail(list)[i] = list[i + 1]
  BY Behead
<1>2. PICK f : f = [i \in DOMAIN list |->
                     IF IsA(list[i], kind) THEN TextOf(list[i].subs) ELSE {}]
  OBVIOUS
<1>3. PICK g : g = [i \in DOMAIN Tail(list) |->
                     IF IsA(Tail(list)[i], kind) THEN TextOf(Tail(list)[i].subs) ELSE {}]
  OBVIOUS
<1>4. /\ DOMAIN f = 1..(n + 1)
      /\ f[1] = IF IsA(Head(list), kind) THEN TextOf(Head(list).subs) ELSE {}
      /\ g = [i \in 1..n |-> f[i + 1]]
  BY <1>1, <1>2, <1>3
<1>5. LastSaid(f) = Over(LastSaid(g), f[1]) BY <1>1, <1>4, LastStep
<1> QED BY <1>2, <1>3, <1>4, <1>5 DEF TextIn

\* what they say of a key,
LEMMA ValueInStep ==
  ASSUME NEW S, NEW list \in Seq(S), list # <<>>, NEW kind, NEW k
  PROVE  ValueIn(list, kind, k)
           = Over(ValueIn(Tail(list), kind, k),
                  IF IsA(Head(list), kind) THEN ValueOf(Head(list).subs, k) ELSE {})
<1>1. PICK n \in Nat :
        /\ DOMAIN list = 1..(n + 1) /\ DOMAIN Tail(list) = 1..n
        /\ Head(list) = list[1]
        /\ \A i \in 1..n : Tail(list)[i] = list[i + 1]
  BY Behead
<1>2. PICK f : f = [i \in DOMAIN list |->
                     IF IsA(list[i], kind) THEN ValueOf(list[i].subs, k) ELSE {}]
  OBVIOUS
<1>3. PICK g : g = [i \in DOMAIN Tail(list) |->
                     IF IsA(Tail(list)[i], kind) THEN ValueOf(Tail(list)[i].subs, k) ELSE {}]
  OBVIOUS
<1>4. /\ DOMAIN f = 1..(n + 1)
      /\ f[1] = IF IsA(Head(list), kind) THEN ValueOf(Head(list).subs, k) ELSE {}
      /\ g = [i \in 1..n |-> f[i + 1]]
  BY <1>1, <1>2, <1>3
<1>5. LastSaid(f) = Over(LastSaid(g), f[1]) BY <1>1, <1>4, LastStep
<1> QED BY <1>2, <1>3, <1>4, <1>5 DEF ValueIn

\* and what they make anew.
LEMMA MadeStep ==
  ASSUME NEW S, NEW list \in Seq(S), list # <<>>, NEW kind
  PROVE  LET made == LastSaid([i \in DOMAIN list |-> Made(list[i], kind)])
             rest == LastSaid([i \in DOMAIN Tail(list) |-> Made(Tail(list)[i], kind)])
         IN  made = Over(rest, Made(Head(list), kind))
<1>1. PICK n \in Nat :
        /\ DOMAIN list = 1..(n + 1) /\ DOMAIN Tail(list) = 1..n
        /\ Head(list) = list[1]
        /\ \A i \in 1..n : Tail(list)[i] = list[i + 1]
  BY Behead
<1>2. PICK f : f = [i \in DOMAIN list |-> Made(list[i], kind)] OBVIOUS
<1>3. PICK g : g = [i \in DOMAIN Tail(list) |-> Made(Tail(list)[i], kind)] OBVIOUS
<1>4. /\ DOMAIN f = 1..(n + 1) /\ f[1] = Made(Head(list), kind)
      /\ g = [i \in 1..n |-> f[i + 1]]
  BY <1>1, <1>2, <1>3
<1>5. LastSaid(f) = Over(LastSaid(g), f[1]) BY <1>1, <1>4, LastStep
<1> QED BY <1>2, <1>3, <1>4, <1>5

\* Without an option of a kind nothing is said of it.
LEMMA NothingIn ==
  ASSUME NEW list, NEW kind, ~Has(list, kind)
  PROVE  TextIn(list, kind) = {} /\ \A k \in Keys : ValueIn(list, kind, k) = {}
BY DEF Has, TextIn, ValueIn, LastSaid

\* What a call is meant to return is settled one option at a time.
LEMMA MeantNothing ==
  ASSUME NEW kind, NEW old
  PROVE  MeantOf(kind, old, <<>>) = old
<1>1. ~Has(<<>>, kind) BY DEF Has
<1>2. LastSaid([i \in DOMAIN <<>> |-> Made(<<>>[i], kind)]) = {} BY LastEmpty
<1> QED BY <1>1, <1>2 DEF MeantOf

\* An option of another kind, or a nil one, leaves a kind alone.
LEMMA MeantOther ==
  ASSUME NEW S, NEW list \in Seq(S), list # <<>>, NEW kind \in Kinds, NEW old,
         ~IsA(Head(list), kind)
  PROVE  MeantOf(kind, old, list) = MeantOf(kind, old, Tail(list))
<1>1. Has(list, kind) <=> Has(Tail(list), kind) BY HasStep
<1>2. TextIn(list, kind) = TextIn(Tail(list), kind) BY TextInStep DEF Over
<1>3. ASSUME NEW k \in Keys
      PROVE  ValueIn(list, kind, k) = ValueIn(Tail(list), kind, k)
  <2>1. ValueIn(list, kind, k) = Over(ValueIn(Tail(list), kind, k), {}) BY ValueInStep
  <2> QED BY <2>1 DEF Over
<1>4. LastSaid([i \in DOMAIN list |-> Made(list[i], kind)])
        = LastSaid([i \in DOMAIN Tail(list) |-> Made(Tail(list)[i], kind)])
  <2>1. Made(Head(list), kind) = {} BY DEF Made
  <2> QED BY <2>1, MadeStep DEF Over
<1>5. [k \in Keys |-> ValueIn(list, kind, k)] = [k \in Keys |-> ValueIn(Tail(list), kind, k)]
  BY <1>3
<1> QED BY <1>1, <1>2, <1>4, <1>5 DEF MeantOf

\* An option with suboptions builds on what was there.
LEMMA MeantBuilt ==
  ASSUME NEW S, NEW list \in Seq(S), list # <<>>, NEW kind \in {"preset", "compat"},
         NEW old, IsA(Head(list), kind)
  PROVE  MeantOf(kind, old, list)
           = MeantOf(kind, Built(kind, old, TextOf(Head(list).subs),
                                 [k \in Keys |-> ValueOf(Head(list).subs, k)]),
                     Tail(list))
<1>1. PICK text, value : text = TextOf(Head(list).subs)
                         /\ value = [k \in Keys |-> ValueOf(Head(list).subs, k)]
  OBVIOUS
<1>2. PICK text2, value2 : text2 = TextIn(Tail(list), kind)
                           /\ value2 = [k \in Keys |-> ValueIn(Tail(list), kind, k)]
  OBVIOUS
<1>3. TextIn(list, kind) = Over(text2, text) BY <1>1, <1>2, TextInStep
<1>4. [k \in Keys |-> ValueIn(list, kind, k)]
        = [k \in Keys |-> Over(value2[k], value[k])]
  <2> SUFFICES ASSUME NEW k \in Keys
      PROVE  ValueIn(list, kind, k) = Over(value2[k], value[k])
    OBVIOUS
  <2>1. value2[k] = ValueIn(Tail(list), kind, k) /\ value[k] = ValueOf(Head(list).subs, k)
    BY <1>1, <1>2
  <2> QED BY <2>1, ValueInStep
<1>5. PICK mid : mid = Built(kind, old, text, value) OBVIOUS
<1>6. MeantOf(kind, old, list) = Built(kind, mid, text2, value2)
  <2>1. Has(list, kind) BY HasStep
  <2>2. MeantOf(kind, old, list)
          = Built(kind, old, TextIn(list, kind), [k \in Keys |-> ValueIn(list, kind, k)])
    BY <2>1 DEF MeantOf
  <2> QED BY <1>3, <1>4, <1>5, <2>2, BuiltTwice
<1>7. CASE Has(Tail(list), kind)
  <2>1. MeantOf(kind, mid, Tail(list)) = Built(kind, mid, text2, value2)
    BY <1>2, <1>7 DEF MeantOf
  <2> QED BY <1>1, <1>5, <1>6, <2>1
<1>8. CASE ~Has(Tail(list), kind)
  <2>1. text2 = {} /\ \A k \in Keys : value2[k] = {} BY <1>2, <1>8, NothingIn
  <2>2. value2 = [k \in Keys |-> {}] BY <1>2, <2>1
  <2>3. [k \in Keys |-> Over(value2[k], value[k])] = value
    BY <1>1, <2>1 DEF Over
  <2>4. Over(text2, text) = text BY <2>1 DEF Over
  <2>5. Built(kind, mid, text2, value2) = mid BY <1>5, <2>3, <2>4, BuiltTwice
  <2>6. MeantOf(kind, mid, Tail(list)) = mid BY <1>8 DEF MeantOf
  <2> QED BY <1>1, <1>5, <1>6, <2>5, <2>6
<1> QED BY <1>7, <1>8

\* One without makes it anew.
LEMMA MeantMade ==
  ASSUME NEW S, NEW list \in Seq(S), list # <<>>, NEW kind \in {"capture", "dev"},
         NEW old, IsA(Head(list), kind)
  PROVE  MeantOf(kind, old, list) = MeantOf(kind, Made(Head(list), kind), Tail(list))
<1>1. PICK rest : rest = LastSaid([i \in DOMAIN Tail(list) |-> Made(Tail(list)[i], kind)])
  OBVIOUS
<1>2. PICK made : made = LastSaid([i \in DOMAIN list |-> Made(list[i], kind)]) OBVIOUS
<1>3. made = Over(rest, Made(Head(list), kind)) BY <1>1, <1>2, MadeStep
<1>4. Made(Head(list), kind) # {} BY DEF Made
<1>5. MeantOf(kind, old, list) = made BY <1>2, <1>3, <1>4 DEF MeantOf, Over
<1>6. MeantOf(kind, Made(Head(list), kind), Tail(list)) = made BY <1>1, <1>3 DEF MeantOf, Over
<1> QED BY <1>5, <1>6
-----------------------------------------------------------------------------
(***************************************************************************)
(* The heap.                                                               *)
(***************************************************************************)

\* An address of a heap is not nil.
LEMMA Domains ==
  ASSUME NEW h \in Seq(Cells)
  PROVE  /\ Len(h) \in Nat /\ DOMAIN h = 1..Len(h) /\ DOMAIN h \subseteq Addresses
         /\ Nil \notin DOMAIN h
         /\ \A a \in DOMAIN h : h[a] \in Cells
<1>1. Len(h) \in Nat /\ DOMAIN h = 1..Len(h) /\ \A a \in DOMAIN h : h[a] \in Cells
  OBVIOUS
<1>2. DOMAIN h \subseteq Addresses BY <1>1 DEF Addresses
<1>3. Nil \notin Addresses BY OptionsAssumption
<1> QED BY <1>1, <1>2, <1>3

\* What a heap has in a place is told by its kind.
LEMMA CellKinds ==
  ASSUME NEW cell \in Cells
  PROVE  /\ cell.kind = "map" => cell \in MapCells
         /\ cell.kind = "preset" => cell \in PresetCells
         /\ cell.kind = "compat" => cell \in CompatCells
BY DEF Cells, MapCells, PresetCells, CompatCells, CaptureCells, DevCells

\* A new cell leaves the others as they are.
LEMMA NewCell ==
  ASSUME NEW h, WellFormed(h), NEW cell \in Cells,
         cell.kind \in {"preset", "compat"} => Points(h, cell.map, "map")
  PROVE  /\ WellFormed(Append(h, cell))
         /\ Len(Append(h, cell)) = Len(h) + 1
         /\ DOMAIN Append(h, cell) = 1..(Len(h) + 1)
         /\ \A a \in DOMAIN h : Append(h, cell)[a] = h[a]
         /\ Append(h, cell)[Len(h) + 1] = cell
<1> DEFINE new == Append(h, cell)
<1>1. h \in Seq(Cells) BY DEF WellFormed
<1>2. /\ new \in Seq(Cells) /\ Len(h) \in Nat /\ Len(new) = Len(h) + 1
      /\ DOMAIN new = 1..(Len(h) + 1) /\ DOMAIN h = 1..Len(h)
      /\ \A a \in DOMAIN h : new[a] = h[a]
      /\ new[Len(h) + 1] = cell
  BY <1>1
<1> HIDE DEF new
<1>3. \A a \in DOMAIN h : a \in DOMAIN new BY <1>2
<1>4. \A a \in DOMAIN new :
        new[a].kind \in {"preset", "compat"} => Points(new, new[a].map, "map")
  <2> TAKE a \in DOMAIN new
  <2>1. CASE a \in DOMAIN h BY <1>2, <1>3, <2>1 DEF WellFormed, Points
  <2>2. CASE a = Len(h) + 1 BY <1>2, <1>3, <2>2 DEF Points
  <2> QED BY <1>2, <2>1, <2>2
<1>5. WellFormed(new) BY <1>2, <1>4 DEF WellFormed
<1> QED BY <1>2, <1>5 DEF new

\* Options mean the same as long as what they reach stays the same.
LEMMA OptionsStable ==
  ASSUME NEW h, NEW h2, WellFormed(h), h2 \in Seq(Cells), Len(h) <= Len(h2),
         NEW o, WellFormedOptions(h, o),
         \A a \in Reach(h, o) : a \in DOMAIN h => h2[a] = h[a]
  PROVE  /\ WellFormedOptions(h2, o)
         /\ Reach(h2, o) = Reach(h, o)
         /\ Meaning(h2, o) = Meaning(h, o)
<1>1. h \in Seq(Cells) BY DEF WellFormed
<1>2. DOMAIN h \subseteq DOMAIN h2 BY <1>1, Domains
<1>3. \A kind \in {"preset", "compat", "capture", "dev"} :
        o[kind] = Nil \/ (o[kind] \in DOMAIN h /\ h[o[kind]].kind = kind)
  BY DEF WellFormedOptions, Points
<1>4. /\ o.preset # Nil => o.preset \in DOMAIN h /\ h2[o.preset] = h[o.preset]
                             /\ h[o.preset].kind = "preset"
      /\ o.compat # Nil => o.compat \in DOMAIN h /\ h2[o.compat] = h[o.compat]
                             /\ h[o.compat].kind = "compat"
      /\ o.capture # Nil => o.capture \in DOMAIN h /\ h2[o.capture] = h[o.capture]
      /\ o.dev # Nil => o.dev \in DOMAIN h /\ h2[o.dev] = h[o.dev]
  BY <1>3 DEF Reach
<1>5. ASSUME NEW a, a \in {o.preset, o.compat}, a # Nil
      PROVE  EntriesAt(h2, h2[a].map) = EntriesAt(h, h[a].map)
  <2>1. Points(h, h[a].map, "map") BY <1>4, <1>5 DEF WellFormed
  <2>2. h[a].map \in Reach(h, o) BY <1>5 DEF Reach
  <2> QED BY <1>4, <1>5, <2>1, <2>2 DEF EntriesAt, Points
<1>6. WellFormedOptions(h2, o) BY <1>2, <1>3, <1>4 DEF WellFormedOptions, Points
<1>7. Reach(h2, o) = Reach(h, o) BY <1>4 DEF Reach
<1>8. Meaning(h2, o) = Meaning(h, o)
  <2>1. Read(h2, o.preset) = Read(h, o.preset) BY <1>4, <1>5 DEF Read
  <2>2. Read(h2, o.compat) = Read(h, o.compat) BY <1>4, <1>5 DEF Read
  <2>3. \A kind \in {"capture", "dev"} : o[kind] # Nil => h[o[kind]].kind = kind
    BY <1>3
  <2>4. Read(h2, o.capture) = Read(h, o.capture) /\ Read(h2, o.dev) = Read(h, o.dev)
    BY <1>4, <2>3 DEF Read
  <2>5. \A kind \in Kinds : Read(h2, o[kind]) = Read(h, o[kind]) BY <2>1, <2>2, <2>4
  <2> QED BY <2>5 DEF Meaning
<1> QED BY <1>6, <1>7, <1>8

\* So do the settings of providers.
LEMMA SettingsStable ==
  ASSUME NEW h, NEW h2, WellFormed(h), h2 \in Seq(Cells), Len(h) <= Len(h2),
         NEW kept, Points(h, kept.compat, "compat"), Points(h, kept.capture, "capture"),
         Points(h, kept.headers, "map"),
         \A a \in Held(h, kept) : a \in DOMAIN h => h2[a] = h[a]
  PROVE  /\ Points(h2, kept.compat, "compat") /\ Points(h2, kept.capture, "capture")
         /\ Points(h2, kept.headers, "map")
         /\ Held(h2, kept) = Held(h, kept)
         /\ Settings(h2, kept) = Settings(h, kept)
<1>1. h \in Seq(Cells) BY DEF WellFormed
<1>2. DOMAIN h \subseteq DOMAIN h2 BY <1>1, Domains
<1>3. /\ kept.compat # Nil => kept.compat \in DOMAIN h /\ h2[kept.compat] = h[kept.compat]
                                /\ h[kept.compat].kind = "compat"
      /\ kept.capture # Nil => kept.capture \in DOMAIN h
                                 /\ h2[kept.capture] = h[kept.capture]
      /\ kept.headers # Nil => kept.headers \in DOMAIN h
                                 /\ h2[kept.headers] = h[kept.headers]
  BY DEF Points, Held
<1>4. /\ Points(h2, kept.compat, "compat") /\ Points(h2, kept.capture, "capture")
      /\ Points(h2, kept.headers, "map")
  BY <1>2, <1>3 DEF Points
<1>5. Held(h2, kept) = Held(h, kept) BY <1>3 DEF Held
<1>6. Settings(h2, kept) = Settings(h, kept)
  <2>1. kept.compat # Nil =>
          EntriesAt(h2, h2[kept.compat].map) = EntriesAt(h, h[kept.compat].map)
    <3> SUFFICES ASSUME kept.compat # Nil
        PROVE  EntriesAt(h2, h2[kept.compat].map) = EntriesAt(h, h[kept.compat].map)
      OBVIOUS
    <3>1. Points(h, h[kept.compat].map, "map") BY <1>3 DEF WellFormed
    <3>2. h[kept.compat].map \in Held(h, kept) BY DEF Held
    <3> QED BY <1>3, <3>1, <3>2 DEF EntriesAt, Points
  <2>2. Read(h2, kept.compat) = Read(h, kept.compat) BY <1>3, <2>1 DEF Read
  <2>3. Read(h2, kept.capture) = Read(h, kept.capture) BY <1>3 DEF Read, Points
  <2>4. EntriesAt(h2, kept.headers) = EntriesAt(h, kept.headers) BY <1>3 DEF EntriesAt
  <2> QED BY <2>2, <2>3, <2>4 DEF Settings
<1> QED BY <1>4, <1>5, <1>6

\* A cell that is written to stays of its kind.
LEMMA RewrittenCell ==
  ASSUME NEW h, WellFormed(h), NEW a \in DOMAIN h, NEW cell \in Cells,
         cell.kind = h[a].kind,
         cell.kind \in {"preset", "compat"} => Points(h, cell.map, "map")
  PROVE  LET new == [h EXCEPT ![a] = cell]
         IN /\ WellFormed(new) /\ Len(new) = Len(h) /\ DOMAIN new = DOMAIN h
            /\ new[a] = cell /\ \A b \in DOMAIN h \ {a} : new[b] = h[b]
<1> DEFINE new == [h EXCEPT ![a] = cell]
<1>1. h \in Seq(Cells) BY DEF WellFormed
<1>2. /\ new \in Seq(Cells) /\ Len(new) = Len(h) /\ DOMAIN new = DOMAIN h
      /\ new[a] = cell /\ \A b \in DOMAIN h \ {a} : new[b] = h[b]
  BY <1>1
<1> HIDE DEF new
<1>3. \A b \in DOMAIN h : new[b].kind = h[b].kind BY <1>2
<1>4. \A b \in DOMAIN new :
        new[b].kind \in {"preset", "compat"} => Points(new, new[b].map, "map")
  <2> TAKE b \in DOMAIN new
  <2>1. CASE b = a BY <1>2, <1>3, <2>1 DEF Points
  <2>2. CASE b # a BY <1>2, <1>3, <2>2 DEF WellFormed, Points
  <2> QED BY <2>1, <2>2
<1>5. WellFormed(new) BY <1>2, <1>4 DEF WellFormed
<1> QED BY <1>2, <1>5 DEF new

\* Options and calls lead into the heap.
LEMMA Inside ==
  ASSUME IInv
  PROVE  /\ \A r \in results : Reach(heap, r.opts) \subseteq DOMAIN heap \cup {Nil}
         /\ \A q \in Procs : Reach(heap, call[q].opts) \subseteq DOMAIN heap \cup {Nil}
         /\ \A l \in live : Held(heap, l.kept) \subseteq DOMAIN heap \cup {Nil}
         /\ \A q \in Procs : Own(q) \subseteq DOMAIN heap
<1> USE DEF IInv, TypeOK
<1>1. WellFormed(heap) /\ heap \in Seq(Cells) BY DEF WellFormed
<1>2. \A a \in DOMAIN heap : heap[a].kind \in {"preset", "compat"} =>
        heap[a].map \in DOMAIN heap \cup {Nil}
  BY <1>1 DEF WellFormed, Points
<1>3. ASSUME NEW o, WellFormedOptions(heap, o)
      PROVE  Reach(heap, o) \subseteq DOMAIN heap \cup {Nil}
  BY <1>2, <1>3 DEF WellFormedOptions, Points, Reach
<1>4. \A l \in live : Held(heap, l.kept) \subseteq DOMAIN heap \cup {Nil}
  BY <1>2 DEF Points, Held
<1>5. \A q \in Procs : Own(q) \subseteq DOMAIN heap BY <1>2 DEF Own, InvCalls
<1> QED BY <1>3, <1>4, <1>5

\* A step that adds cells and writes at most to those a call owns is not seen by
\* anybody else.
LEMMA Frame ==
  ASSUME IInv, WellFormed(heap'), Len(heap) <= Len(heap'),
         NEW W, W = {} \/ \E p \in Procs : W = Own(p),
         \A a \in DOMAIN heap \ W : heap'[a] = heap[a]
  PROVE  /\ InvCaller'
         /\ \A r \in results :
              /\ WellFormedOptions(heap', r.opts)
              /\ Reach(heap', r.opts) = Reach(heap, r.opts)
              /\ Meaning(heap', r.opts) = Meaning(heap, r.opts)
         /\ \A q \in Procs :
              /\ WellFormedOptions(heap', call[q].opts)
              /\ Reach(heap', call[q].opts) = Reach(heap, call[q].opts)
              /\ Meaning(heap', call[q].opts) = Meaning(heap, call[q].opts)
         /\ \A l \in live :
              /\ Points(heap', l.kept.compat, "compat")
              /\ Points(heap', l.kept.capture, "capture")
              /\ Points(heap', l.kept.headers, "map")
              /\ Held(heap', l.kept) = Held(heap, l.kept)
              /\ Settings(heap', l.kept) = Settings(heap, l.kept)
<1>1. /\ WellFormed(heap) /\ heap \in Seq(Cells) /\ heap' \in Seq(Cells)
      /\ DOMAIN heap = 1..Len(heap) /\ Len(heap) \in Nat
      /\ CallerHeap \in Seq(Cells)
  BY OptionsAssumption, Domains DEF WellFormed, IInv, TypeOK
<1>2. InvCaller'
  <2>1. \A a \in 1..Len(CallerHeap) : a \in DOMAIN heap /\ a \notin W
    BY <1>1 DEF IInv, InvCaller, NobodyElseReaches
  <2> QED BY <1>1, <2>1 DEF IInv, InvCaller
<1>3. \A r \in results :
        /\ WellFormedOptions(heap', r.opts)
        /\ Reach(heap', r.opts) = Reach(heap, r.opts)
        /\ Meaning(heap', r.opts) = Meaning(heap, r.opts)
  <2> TAKE r \in results
  <2>1. \A a \in Reach(heap, r.opts) : a \in DOMAIN heap => heap'[a] = heap[a]
    BY DEF IInv, NobodyElseReaches
  <2>2. WellFormedOptions(heap, r.opts) BY DEF IInv, TypeOK
  <2>3. PICK o : o = r.opts OBVIOUS
  <2>4. WellFormedOptions(heap, o) BY <2>2, <2>3
  <2>5. \A a \in Reach(heap, o) : a \in DOMAIN heap => heap'[a] = heap[a] BY <2>1, <2>3
  <2>6. /\ WellFormedOptions(heap', o)
        /\ Reach(heap', o) = Reach(heap, o)
        /\ Meaning(heap', o) = Meaning(heap, o)
    BY <1>1, <2>4, <2>5, OptionsStable
  <2> QED BY <2>3, <2>6
<1>4. \A q \in Procs :
        /\ WellFormedOptions(heap', call[q].opts)
        /\ Reach(heap', call[q].opts) = Reach(heap, call[q].opts)
        /\ Meaning(heap', call[q].opts) = Meaning(heap, call[q].opts)
  <2> TAKE q \in Procs
  <2>1. \A a \in Reach(heap, call[q].opts) : a \in DOMAIN heap => heap'[a] = heap[a]
    BY DEF IInv, NobodyElseReaches
  <2>2. WellFormedOptions(heap, call[q].opts) BY DEF IInv, TypeOK
  <2>3. PICK o : o = call[q].opts OBVIOUS
  <2>4. WellFormedOptions(heap, o) BY <2>2, <2>3
  <2>5. \A a \in Reach(heap, o) : a \in DOMAIN heap => heap'[a] = heap[a] BY <2>1, <2>3
  <2>6. /\ WellFormedOptions(heap', o)
        /\ Reach(heap', o) = Reach(heap, o)
        /\ Meaning(heap', o) = Meaning(heap, o)
    BY <1>1, <2>4, <2>5, OptionsStable
  <2> QED BY <2>3, <2>6
<1>5. \A l \in live :
        /\ Points(heap', l.kept.compat, "compat")
        /\ Points(heap', l.kept.capture, "capture")
        /\ Points(heap', l.kept.headers, "map")
        /\ Held(heap', l.kept) = Held(heap, l.kept)
        /\ Settings(heap', l.kept) = Settings(heap, l.kept)
  <2> TAKE l \in live
  <2>1. \A a \in Held(heap, l.kept) : a \in DOMAIN heap => heap'[a] = heap[a]
    BY DEF IInv, NobodyElseReaches
  <2>2. /\ Points(heap, l.kept.compat, "compat") /\ Points(heap, l.kept.capture, "capture")
        /\ Points(heap, l.kept.headers, "map")
    BY DEF IInv, TypeOK
  <2> QED BY <1>1, <2>1, <2>2, SettingsStable
<1> QED BY <1>2, <1>3, <1>4, <1>5

\* The step of a call: it writes to what it owns, and owns what it makes.
LEMMA CallInv ==
  ASSUME IInv, NEW p \in Procs, WellFormed(heap'), Len(heap) <= Len(heap'),
         \A a \in DOMAIN heap \ Own(p) : heap'[a] = heap[a],
         call' = [call EXCEPT ![p] = call'[p]],
         DOMAIN call'[p] = {"running", "opts", "todo", "cur", "subs", "meant"},
         call'[p].running \in BOOLEAN,
         call'[p].todo \in Seq(OptionTypes \cup {Nil}),
         call'[p].subs \in Seq(SubOptions \cup {Nil}),
         call'[p].cur \in DOMAIN heap' \cup {Nil},
         call'[p].cur # Nil =>
           call'[p].todo # <<>> /\ heap'[call'[p].cur].kind \in {"preset", "compat"},
         WellFormedOptions(heap', call'[p].opts),
         \A a \in Own(p)' : a \in Own(p) \/ a \in DOMAIN heap' \ DOMAIN heap,
         \A a \in Reach(heap', call'[p].opts) :
           /\ a \notin Own(p)'
           /\ \/ a \in Reach(heap, call[p].opts) \cup Own(p) \cup {Nil}
              \/ a \in DOMAIN heap' \ DOMAIN heap
              \/ \E r \in results : a \in Reach(heap, r.opts),
         \A r \in results' : r \in results \/ r.opts = call[p].opts,
         live' = live, calls' \in 0..MaxCalls
  PROVE  IInv' /\ MeaningsStay
<1> USE DEF IInv
<1>1. PICK W : W = Own(p) OBVIOUS
<1>2. /\ WellFormed(heap) /\ heap \in Seq(Cells) /\ heap' \in Seq(Cells)
      /\ DOMAIN heap = 1..Len(heap) /\ DOMAIN heap' = 1..Len(heap')
      /\ Len(heap) \in Nat /\ Len(heap') \in Nat
      /\ Nil \notin DOMAIN heap /\ Nil \notin DOMAIN heap'
      /\ CallerHeap \in Seq(Cells) /\ Len(CallerHeap) \in Nat
  BY OptionsAssumption, Domains DEF WellFormed, TypeOK
<1>3. /\ InvCaller'
      /\ \A r \in results :
           /\ WellFormedOptions(heap', r.opts)
           /\ Reach(heap', r.opts) = Reach(heap, r.opts)
           /\ Meaning(heap', r.opts) = Meaning(heap, r.opts)
      /\ \A q \in Procs :
           /\ WellFormedOptions(heap', call[q].opts)
           /\ Reach(heap', call[q].opts) = Reach(heap, call[q].opts)
      /\ \A l \in live :
           /\ Points(heap', l.kept.compat, "compat")
           /\ Points(heap', l.kept.capture, "capture")
           /\ Points(heap', l.kept.headers, "map")
           /\ Held(heap', l.kept) = Held(heap, l.kept)
           /\ Settings(heap', l.kept) = Settings(heap, l.kept)
  BY <1>1, Frame
<1>4. \A q \in Procs \ {p} : call'[q] = call[q] BY DEF InvCalls
<1>5. \A q \in Procs \ {p} : call[q].cur # Nil => heap'[call[q].cur] = heap[call[q].cur]
  <2> TAKE q \in Procs \ {p}
  <2>1. call[q].cur # Nil => call[q].cur \in Own(q) /\ call[q].cur \in DOMAIN heap
    BY DEF Own, TypeOK
  <2>2. call[q].cur # Nil => call[q].cur \notin Own(p) BY <2>1 DEF NobodyElseReaches
  <2> QED BY <2>1, <2>2
<1>6. \A q \in Procs \ {p} : Own(q)' = Own(q) BY <1>4, <1>5 DEF Own
<1>7. TypeOK'
  <2>1. \A q \in Procs :
          /\ WellFormedOptions(heap', call'[q].opts)
          /\ call'[q].running \in BOOLEAN
          /\ call'[q].cur \in DOMAIN heap' \cup {Nil}
    BY <1>2, <1>3, <1>4 DEF TypeOK
  <2>2. \A r \in results' : WellFormedOptions(heap', r.opts) BY <1>3
  <2> QED BY <1>3, <2>1, <2>2 DEF TypeOK
<1>8. InvCalls'
  <2>1. call' = [q \in Procs |-> call'[q]] BY DEF InvCalls
  <2>2. \A q \in Procs :
          /\ DOMAIN call'[q] = {"running", "opts", "todo", "cur", "subs", "meant"}
          /\ call'[q].todo \in Seq(OptionTypes \cup {Nil})
          /\ call'[q].subs \in Seq(SubOptions \cup {Nil})
          /\ call'[q].cur # Nil =>
               call'[q].todo # <<>> /\ heap'[call'[q].cur].kind \in {"preset", "compat"}
    <3> TAKE q \in Procs
    <3>1. CASE q = p BY <3>1
    <3>2. CASE q # p
      <4>1. /\ DOMAIN call[q] = {"running", "opts", "todo", "cur", "subs", "meant"}
            /\ call[q].todo \in Seq(OptionTypes \cup {Nil})
            /\ call[q].subs \in Seq(SubOptions \cup {Nil})
            /\ call[q].cur # Nil =>
                 call[q].todo # <<>> /\ heap[call[q].cur].kind \in {"preset", "compat"}
        BY DEF InvCalls
      <4>2. call'[q] = call[q] BY <1>4, <3>2
      <4>3. call[q].cur # Nil => heap'[call[q].cur] = heap[call[q].cur] BY <1>5, <3>2
      <4> QED BY <4>1, <4>2, <4>3
    <3> QED BY <3>1, <3>2
  <2> QED BY <2>1, <2>2 DEF InvCalls
<1>9. /\ \A r \in results : Reach(heap, r.opts) \subseteq DOMAIN heap \cup {Nil}
      /\ \A q \in Procs : Reach(heap, call[q].opts) \subseteq DOMAIN heap \cup {Nil}
      /\ \A l \in live : Held(heap, l.kept) \subseteq DOMAIN heap \cup {Nil}
      /\ \A q \in Procs : Own(q) \subseteq DOMAIN heap
  BY Inside
<1>10. \A r \in results' :
         Reach(heap', r.opts) = Reach(heap, call[p].opts)
         \/ \E s \in results : Reach(heap', r.opts) = Reach(heap, s.opts)
  BY <1>3
<1>11. ASSUME NEW a \in Own(p)'
       PROVE  /\ a > Len(CallerHeap)
              /\ \A r \in results' : a \notin Reach(heap', r.opts)
              /\ \A q \in Procs : a \notin Reach(heap', call'[q].opts)
              /\ \A q \in Procs : q # p => a \notin Own(q)'
              /\ \A l \in live' : a \notin Held(heap', l.kept)
  <2>1. CASE a \in Own(p)
    BY <1>3, <1>4, <1>6, <1>10, <1>11, <2>1 DEF NobodyElseReaches
  <2>2. CASE a \in DOMAIN heap' \ DOMAIN heap
    <3>1. a > Len(CallerHeap) BY <1>2, <2>2 DEF InvCaller
    <3>2. a \notin DOMAIN heap \cup {Nil} BY <1>2, <2>2
    <3> QED BY <1>3, <1>4, <1>6, <1>9, <1>10, <1>11, <3>1, <3>2
  <2> QED BY <1>11, <2>1, <2>2
<1>12. ASSUME NEW s \in Procs, s # p, NEW a \in Own(s)'
       PROVE  /\ a > Len(CallerHeap)
              /\ \A r \in results' : a \notin Reach(heap', r.opts)
              /\ \A q \in Procs : a \notin Reach(heap', call'[q].opts)
              /\ \A q \in Procs : q # s => a \notin Own(q)'
              /\ \A l \in live' : a \notin Held(heap', l.kept)
  <2>1. a \in Own(s) /\ a \in DOMAIN heap BY <1>6, <1>9, <1>12
  <2>2. a > Len(CallerHeap) /\ (\A l \in live' : a \notin Held(heap', l.kept))
    BY <1>3, <2>1 DEF NobodyElseReaches
  <2>3. \A r \in results' : a \notin Reach(heap', r.opts) BY <1>10, <2>1 DEF NobodyElseReaches
  <2>4. a \notin Own(p)' BY <1>12, <2>1 DEF NobodyElseReaches
  <2>5. a \notin Reach(heap', call'[p].opts) BY <1>2, <1>12, <2>1 DEF NobodyElseReaches
  <2>6. \A q \in Procs : a \notin Reach(heap', call'[q].opts)
    <3> TAKE q \in Procs
    <3>1. CASE q = p BY <2>5, <3>1
    <3>2. CASE q # p
      <4>1. Reach(heap', call'[q].opts) = Reach(heap, call[q].opts) BY <1>3, <1>4, <3>2
      <4> QED BY <2>1, <4>1 DEF NobodyElseReaches
    <3> QED BY <3>1, <3>2
  <2>7. \A q \in Procs : q # s => a \notin Own(q)'
    <3> TAKE q \in Procs
    <3>1. CASE q = p BY <2>4, <3>1
    <3>2. CASE q # p BY <1>6, <2>1, <3>2 DEF NobodyElseReaches
    <3> QED BY <3>1, <3>2
  <2> QED BY <2>2, <2>3, <2>6, <2>7
<1>13. NobodyElseReaches' BY <1>11, <1>12 DEF NobodyElseReaches
<1>14. ProvidersKeepSettings' BY <1>3 DEF ProvidersKeepSettings
<1>15. MeaningsStay BY <1>3 DEF MeaningsStay
<1> QED BY <1>3, <1>7, <1>8, <1>13, <1>14, <1>15

\* What is read through a pointer to a map, and through one to a struct.
LEMMA EntriesThere ==
  ASSUME NEW h, WellFormed(h), NEW a, Points(h, a, "map")
  PROVE  EntriesAt(h, a) \in Entries
<1>1. CASE a = Nil BY <1>1 DEF EntriesAt, NoEntries, Entries
<1>2. CASE a # Nil
  <2>1. a \in DOMAIN h /\ h[a].kind = "map" BY <1>2 DEF Points
  <2>2. h[a] \in MapCells BY <2>1, Domains, CellKinds DEF WellFormed
  <2> QED BY <1>2, <2>2 DEF EntriesAt, MapCells
<1> QED BY <1>1, <1>2

\* What is read of a struct has its text and its entries.
LEMMA ReadStruct ==
  ASSUME NEW h, WellFormed(h), NEW a \in DOMAIN h, h[a].kind \in {"preset", "compat"}
  PROVE  \E struct :
           /\ Read(h, a) = {struct}
           /\ struct.text = h[a].text
           /\ struct.map = EntriesAt(h, h[a].map)
<1>1. /\ a # Nil /\ h[a] \in Cells
      /\ h[a] \in PresetCells \/ h[a] \in CompatCells
  BY Domains, CellKinds DEF WellFormed
<1>2. PICK map : map = EntriesAt(h, h[a].map) OBVIOUS
<1>3. PICK struct : struct = [h[a] EXCEPT !.map = map] OBVIOUS
<1>4. Read(h, a) = {struct} BY <1>1, <1>2, <1>3 DEF Read
<1>5. struct.text = h[a].text /\ struct.map = map
  BY <1>1, <1>3 DEF PresetCells, CompatCells
<1> QED BY <1>2, <1>4, <1>5

\* A struct that nothing more is said of is what it is.
LEMMA ReadSame ==
  ASSUME NEW h, WellFormed(h), NEW a \in DOMAIN h, NEW kind \in {"preset", "compat"},
         h[a].kind = kind, kind = "preset" => h[a].enabled = TRUE
  PROVE  Built(kind, Read(h, a), {}, [k \in Keys |-> {}]) = Read(h, a)
<1>1. /\ a # Nil /\ h[a] \in Cells
      /\ kind = "preset" => h[a] \in PresetCells
      /\ kind = "compat" => h[a] \in CompatCells
  BY Domains, CellKinds DEF WellFormed
<1>2. PICK map : map = EntriesAt(h, h[a].map) OBVIOUS
<1>3. PICK struct : struct = [h[a] EXCEPT !.map = map] OBVIOUS
<1>4. Read(h, a) = {struct} BY <1>1, <1>2, <1>3 DEF Read
<1>5. map = [k \in Keys |-> map[k]]
  <2>1. Points(h, h[a].map, "map") BY DEF WellFormed
  <2>2. map \in [Keys -> Values \cup {Absent}] BY <1>2, <2>1, EntriesThere DEF Entries
  <2> QED BY <2>2
<1>6. PICK text : text = h[a].text OBVIOUS
<1>7. struct = IF kind = "preset"
                 THEN [kind |-> kind, enabled |-> TRUE, text |-> text, map |-> map]
                 ELSE [kind |-> kind, text |-> text, map |-> map]
  <2>1. CASE kind = "preset"
    <3>1. struct = [kind |-> "preset", enabled |-> TRUE, text |-> text, map |-> map]
      BY <1>1, <1>3, <1>6, <2>1 DEF PresetCells
    <3> QED BY <2>1, <3>1
  <2>2. CASE kind = "compat"
    <3>1. struct = [kind |-> "compat", text |-> text, map |-> map]
      BY <1>1, <1>3, <1>6, <2>2 DEF CompatCells
    <3> QED BY <2>2, <3>1
  <2> QED BY <2>1, <2>2
<1>8. Built(kind, {struct}, {}, [k \in Keys |-> {}]) = {struct} BY <1>5, <1>7, BuiltSame
<1> QED BY <1>4, <1>8

\* A clone is a new map, or nil if there is none to clone.
LEMMA CloneFacts ==
  ASSUME NEW h, WellFormed(h), NEW a, Points(h, a, "map"), NEW c, c = Clone(h, a)
  PROVE  /\ WellFormed(c.heap)
         /\ Len(h) <= Len(c.heap)
         /\ \A b \in DOMAIN h : c.heap[b] = h[b]
         /\ \/ c.at = Nil
            \/ c.at \in DOMAIN c.heap \ DOMAIN h /\ c.heap[c.at].kind = "map"
         /\ EntriesAt(c.heap, c.at) = EntriesAt(h, a)
<1>1. h \in Seq(Cells) /\ Len(h) \in Nat /\ DOMAIN h = 1..Len(h)
  BY Domains DEF WellFormed
<1>2. CASE a = Nil BY <1>1, <1>2 DEF Clone, EntriesAt
<1>3. CASE a # Nil
  <2>1. a \in DOMAIN h /\ h[a].kind = "map" /\ h[a] \in Cells
    BY <1>1, <1>3 DEF Points
  <2>2. c.heap = Append(h, h[a]) /\ c.at = Len(h) + 1 BY <1>3 DEF Clone
  <2>3. /\ WellFormed(Append(h, h[a]))
        /\ Len(Append(h, h[a])) = Len(h) + 1
        /\ DOMAIN Append(h, h[a]) = 1..(Len(h) + 1)
        /\ \A b \in DOMAIN h : Append(h, h[a])[b] = h[b]
        /\ Append(h, h[a])[Len(h) + 1] = h[a]
    BY <2>1, NewCell
  <2>4. Nil \notin DOMAIN c.heap BY <2>2, <2>3, Domains DEF WellFormed
  <2>5. EntriesAt(c.heap, c.at) = EntriesAt(h, a) BY <1>1, <1>3, <2>2, <2>3, <2>4 DEF EntriesAt
  <2> QED BY <1>1, <2>1, <2>2, <2>3, <2>5
<1> QED BY <1>2, <1>3

\* The fields of a call, after it has moved on to its next option.
LEMMA DoneFields ==
  ASSUME InvCalls, NEW p \in Procs, NEW opts, call[p].todo # <<>>
  PROVE  /\ DOMAIN Done(p, opts) = {"running", "opts", "todo", "cur", "subs", "meant"}
         /\ Done(p, opts).running = call[p].running
         /\ Done(p, opts).opts = opts
         /\ Done(p, opts).todo \in Seq(OptionTypes \cup {Nil})
         /\ Done(p, opts).cur = Nil
         /\ Done(p, opts).subs \in Seq(SubOptions \cup {Nil})
<1>1. /\ DOMAIN call[p] = {"running", "opts", "todo", "cur", "subs", "meant"}
      /\ call[p].todo \in Seq(OptionTypes \cup {Nil})
      /\ call[p].subs \in Seq(SubOptions \cup {Nil})
  BY DEF InvCalls
<1>2. Tail(call[p].todo) \in Seq(OptionTypes \cup {Nil}) BY <1>1
<1>3. /\ DOMAIN Done(p, opts) = DOMAIN call[p]
      /\ Done(p, opts).running = call[p].running
      /\ Done(p, opts).opts = opts
      /\ Done(p, opts).todo = Tail(call[p].todo)
      /\ Done(p, opts).cur = Nil
      /\ Done(p, opts).subs = call[p].subs
  BY <1>1 DEF Done
<1> QED BY <1>1, <1>2, <1>3

\* The bounds are numbers.
LEMMA Bounds == MaxCalls \in Nat /\ MaxInits \in Nat
<1>1. {MaxCalls, MaxInits} \subseteq Nat BY OptionsAssumption
<1> QED BY <1>1

\* The invariant holds at the start, and each step keeps it.
LEMMA InitInv == Init => IInv
<1> SUFFICES ASSUME Init PROVE IInv OBVIOUS
<1>1. TypeOK
  <2>1. ASSUME NEW r \in results
        PROVE  WellFormedOptions(heap, r.opts)
    <3>1. PICK o \in CallerOptions : r = [opts |-> o, meant |-> Meaning(CallerHeap, o)]
      BY DEF Init
    <3>2. r.opts = o BY <3>1
    <3>3. WellFormedOptions(CallerHeap, o) BY OptionsAssumption
    <3> QED BY <3>2, <3>3 DEF Init
  <2>2. \A p \in Procs : call[p] = NoCall BY DEF Init
  <2>3. WellFormedOptions(heap, NoOptions)
    BY DEF WellFormedOptions, NoOptions, Points
  <2>4. \A p \in Procs :
          /\ WellFormedOptions(heap, call[p].opts)
          /\ call[p].running \in BOOLEAN
          /\ call[p].cur \in DOMAIN heap \cup {Nil}
    <3>1. NoCall.opts = NoOptions /\ NoCall.running = FALSE /\ NoCall.cur = Nil
      BY DEF NoCall
    <3> QED BY <2>2, <2>3, <3>1
  <2>5. calls \in 0..MaxCalls BY Bounds DEF Init
  <2> QED BY <2>1, <2>4, <2>5, OptionsAssumption DEF Init, TypeOK
<1>2. \A p \in Procs : call[p] = NoCall /\ call[p].cur = Nil BY DEF Init, NoCall
<1>3. InvCalls
  <2>1. DOMAIN NoCall = {"running", "opts", "todo", "cur", "subs", "meant"} BY DEF NoCall
  <2>2. /\ NoCall.todo \in Seq(OptionTypes \cup {Nil})
        /\ NoCall.subs \in Seq(SubOptions \cup {Nil})
    BY DEF NoCall
  <2> QED BY <1>2, <2>1, <2>2 DEF InvCalls, Init
<1>4. InvCaller
  <2>1. CallerHeap \in Seq(Cells) BY OptionsAssumption DEF WellFormed
  <2> QED BY <2>1 DEF Init, InvCaller
<1>5. NobodyElseReaches BY <1>2 DEF NobodyElseReaches, Own
<1>6. ProvidersKeepSettings BY DEF Init, ProvidersKeepSettings
<1> QED BY <1>1, <1>3, <1>4, <1>5, <1>6 DEF IInv

LEMMA ApplyOptionsInv ==
  ASSUME IInv, NEW p \in Procs, ApplyOptions(p)
  PROVE  IInv' /\ MeaningsStay
<1>1. PICK r \in results, list \in OptionLists :
        call' = [call EXCEPT ![p] = [NoCall EXCEPT
                   !.running = TRUE, !.opts = r.opts, !.todo = list,
                   !.meant = Meant(Meaning(heap, r.opts), list)]]
  BY DEF ApplyOptions
<1>2. call'[p] = [NoCall EXCEPT !.running = TRUE, !.opts = r.opts, !.todo = list,
                    !.meant = Meant(Meaning(heap, r.opts), list)]
  BY <1>1 DEF IInv, InvCalls
<1>3. /\ DOMAIN call'[p] = {"running", "opts", "todo", "cur", "subs", "meant"}
      /\ call'[p].running = TRUE /\ call'[p].opts = r.opts /\ call'[p].todo = list
      /\ call'[p].cur = Nil /\ call'[p].subs = <<>>
  BY <1>2 DEF NoCall
<1>4. call' = [call EXCEPT ![p] = call'[p]] BY <1>1, <1>2
<1>5. list \in Seq(OptionTypes \cup {Nil}) BY ListsAssumption
<1>6. calls' \in 0..MaxCalls BY Bounds DEF ApplyOptions, IInv, TypeOK
<1>7. heap' = heap /\ results' = results /\ live' = live BY DEF ApplyOptions
<1>8. Own(p)' = {} BY <1>3 DEF Own
<1>9. WellFormed(heap) /\ WellFormedOptions(heap, r.opts) /\ Len(heap) \in Nat
  BY Domains DEF IInv, TypeOK, WellFormed
<1>10. call'[p].subs \in Seq(SubOptions \cup {Nil}) BY <1>3
<1>12. WellFormed(heap') /\ Len(heap) <= Len(heap') BY <1>7, <1>9
<1>13. \A a \in Reach(heap', call'[p].opts) :
         a \notin Own(p)' /\ \E s \in results : a \in Reach(heap, s.opts)
  BY <1>3, <1>7, <1>8
<1> QED BY <1>3, <1>4, <1>5, <1>6, <1>7, <1>8, <1>9, <1>10, <1>12, <1>13, CallInv

LEMMA SkipNilInv ==
  ASSUME IInv, NEW p \in Procs, SkipNil(p)
  PROVE  IInv' /\ MeaningsStay
<1>1. call'[p] = Done(p, call[p].opts) /\ call' = [call EXCEPT ![p] = call'[p]]
  BY DEF SkipNil, IInv, InvCalls
<1>2. heap' = heap /\ results' = results /\ live' = live /\ calls' = calls
  BY DEF SkipNil
<1>3. /\ DOMAIN call'[p] = {"running", "opts", "todo", "cur", "subs", "meant"}
      /\ call'[p].running = call[p].running
      /\ call'[p].opts = call[p].opts
      /\ call'[p].todo \in Seq(OptionTypes \cup {Nil})
      /\ call'[p].cur = Nil
      /\ call'[p].subs \in Seq(SubOptions \cup {Nil})
  BY <1>1, DoneFields DEF SkipNil, IInv
<1>4. Own(p)' = {} BY <1>3 DEF Own
<1>5. /\ WellFormed(heap) /\ WellFormedOptions(heap, call[p].opts) /\ Len(heap) \in Nat
      /\ call[p].running \in BOOLEAN /\ calls \in 0..MaxCalls
  BY Domains DEF IInv, TypeOK, WellFormed
<1> QED BY <1>1, <1>2, <1>3, <1>4, <1>5, CallInv

LEMMA ReturnInv ==
  ASSUME IInv, NEW p \in Procs, Return(p)
  PROVE  IInv' /\ MeaningsStay
<1>1. call'[p] = NoCall /\ call' = [call EXCEPT ![p] = call'[p]]
  BY DEF Return, IInv, InvCalls
<1>2. heap' = heap /\ live' = live /\ calls' = calls BY DEF Return
<1>3. \A r \in results' : r \in results \/ r.opts = call[p].opts BY DEF Return
<1>4. /\ DOMAIN call'[p] = {"running", "opts", "todo", "cur", "subs", "meant"}
      /\ call'[p].running = FALSE /\ call'[p].opts = NoOptions
      /\ call'[p].todo = <<>> /\ call'[p].cur = Nil /\ call'[p].subs = <<>>
  BY <1>1 DEF NoCall
<1>5. Own(p)' = {} BY <1>4 DEF Own
<1>6. WellFormed(heap) /\ Len(heap) \in Nat /\ calls \in 0..MaxCalls
  BY Domains DEF IInv, TypeOK, WellFormed
<1>7. WellFormedOptions(heap, NoOptions) /\ Reach(heap, NoOptions) = {Nil}
  BY DEF WellFormedOptions, NoOptions, Points, Reach
<1>8. /\ call'[p].todo \in Seq(OptionTypes \cup {Nil})
      /\ call'[p].subs \in Seq(SubOptions \cup {Nil})
  BY <1>4
<1>9. WellFormed(heap') /\ Len(heap) <= Len(heap') BY <1>2, <1>6
<1>10. WellFormedOptions(heap', call'[p].opts) BY <1>2, <1>4, <1>7
<1>11. \A a \in Reach(heap', call'[p].opts) : a = Nil /\ a \notin Own(p)'
  BY <1>2, <1>4, <1>5, <1>7
<1> QED BY <1>1, <1>2, <1>3, <1>4, <1>5, <1>6, <1>8, <1>9, <1>10, <1>11, CallInv

LEMMA CloseInv ==
  ASSUME IInv, NEW p \in Procs, NEW kind \in {"preset", "compat"}, Close(p, kind)
  PROVE  IInv' /\ MeaningsStay
<1> DEFINE opts == [call[p].opts EXCEPT ![kind] = call[p].cur]
<1>1. call'[p] = Done(p, opts) /\ call' = [call EXCEPT ![p] = call'[p]]
  BY DEF Close, IInv, InvCalls
<1>2. /\ heap' = heap /\ results' = results /\ live' = live /\ calls' = calls
      /\ call[p].cur # Nil /\ heap[call[p].cur].kind = kind
  BY DEF Close, InCall
<1>3. /\ WellFormed(heap) /\ WellFormedOptions(heap, call[p].opts) /\ Len(heap) \in Nat
      /\ call[p].running \in BOOLEAN /\ calls \in 0..MaxCalls
      /\ call[p].cur \in DOMAIN heap
  BY <1>2, Domains DEF IInv, TypeOK, WellFormed
<1>4. /\ DOMAIN call'[p] = {"running", "opts", "todo", "cur", "subs", "meant"}
      /\ call'[p].running = call[p].running
      /\ call'[p].opts = opts
      /\ call'[p].todo \in Seq(OptionTypes \cup {Nil})
      /\ call'[p].cur = Nil
      /\ call'[p].subs \in Seq(SubOptions \cup {Nil})
  BY <1>1, <1>2, DoneFields DEF IInv, InvCalls
<1>5. Own(p)' = {} BY <1>4 DEF Own
<1>6. /\ DOMAIN opts = {"preset", "compat", "capture", "dev"}
      /\ opts[kind] = call[p].cur
      /\ \A other \in DOMAIN opts \ {kind} : opts[other] = call[p].opts[other]
  BY <1>3 DEF WellFormedOptions
<1>7. WellFormedOptions(heap, opts)
  BY <1>2, <1>3, <1>6 DEF WellFormedOptions, Points
<1>8. Reach(heap, opts) \subseteq Reach(heap, call[p].opts) \cup Own(p) \cup {Nil}
  <2> HIDE DEF opts
  <2>1. CASE kind = "preset"
    <3>1. /\ opts.preset = call[p].cur /\ opts.compat = call[p].opts.compat
          /\ opts.capture = call[p].opts.capture /\ opts.dev = call[p].opts.dev
      BY <1>6, <2>1
    <3> QED BY <1>2, <3>1 DEF Reach, Own
  <2>2. CASE kind = "compat"
    <3>1. /\ opts.compat = call[p].cur /\ opts.preset = call[p].opts.preset
          /\ opts.capture = call[p].opts.capture /\ opts.dev = call[p].opts.dev
      BY <1>6, <2>2
    <3> QED BY <1>2, <3>1 DEF Reach, Own
  <2> QED BY <2>1, <2>2
<1> HIDE DEF opts
<1>9. WellFormed(heap') /\ Len(heap) <= Len(heap') BY <1>2, <1>3
<1>10. WellFormedOptions(heap', call'[p].opts) BY <1>2, <1>4, <1>7
<1>11. \A a \in Reach(heap', call'[p].opts) :
         a \notin Own(p)' /\ a \in Reach(heap, call[p].opts) \cup Own(p) \cup {Nil}
  BY <1>2, <1>4, <1>5, <1>8
<1> QED BY <1>1, <1>2, <1>3, <1>4, <1>5, <1>9, <1>10, <1>11, CallInv

LEMMA FreshInv ==
  ASSUME IInv, NEW p \in Procs, NEW kind \in {"capture", "dev"}, NEW cell \in Cells,
         cell.kind = kind, call[p].todo # <<>>, Fresh(p, kind, cell)
  PROVE  IInv' /\ MeaningsStay
<1> DEFINE opts == [call[p].opts EXCEPT ![kind] = Len(heap) + 1]
<1>1. call'[p] = Done(p, opts) /\ call' = [call EXCEPT ![p] = call'[p]]
  BY DEF Fresh, IInv, InvCalls
<1>2. heap' = Append(heap, cell) /\ results' = results /\ live' = live /\ calls' = calls
  BY DEF Fresh
<1>3. /\ WellFormed(heap) /\ WellFormedOptions(heap, call[p].opts)
      /\ Len(heap) \in Nat /\ DOMAIN heap = 1..Len(heap)
      /\ call[p].running \in BOOLEAN /\ calls \in 0..MaxCalls
  BY Domains DEF IInv, TypeOK, WellFormed
<1>4. /\ DOMAIN call'[p] = {"running", "opts", "todo", "cur", "subs", "meant"}
      /\ call'[p].running = call[p].running
      /\ call'[p].opts = opts
      /\ call'[p].todo \in Seq(OptionTypes \cup {Nil})
      /\ call'[p].cur = Nil
      /\ call'[p].subs \in Seq(SubOptions \cup {Nil})
  BY <1>1, DoneFields DEF IInv
<1>5. Own(p)' = {} BY <1>4 DEF Own
<1>6. /\ DOMAIN opts = {"preset", "compat", "capture", "dev"}
      /\ opts[kind] = Len(heap) + 1
      /\ \A other \in DOMAIN opts \ {kind} : opts[other] = call[p].opts[other]
  BY <1>3 DEF WellFormedOptions
<1> HIDE DEF opts
<1>7. /\ WellFormed(heap')
      /\ Len(heap') = Len(heap) + 1
      /\ DOMAIN heap' = 1..(Len(heap) + 1)
      /\ \A a \in DOMAIN heap : heap'[a] = heap[a]
      /\ heap'[Len(heap) + 1] = cell
  BY <1>2, <1>3, NewCell
<1>8. WellFormedOptions(heap', opts)
  <2>1. opts[kind] \in DOMAIN heap' /\ heap'[opts[kind]].kind = kind BY <1>3, <1>6, <1>7
  <2>2. \A other \in DOMAIN opts \ {kind} : Points(heap', opts[other], other)
    BY <1>3, <1>6, <1>7 DEF WellFormedOptions, Points
  <2> QED BY <1>6, <2>1, <2>2 DEF WellFormedOptions, Points
<1>9. Reach(heap', opts) \subseteq Reach(heap, call[p].opts) \cup {Len(heap) + 1}
  <2>1. /\ opts.preset = call[p].opts.preset
        /\ opts.compat = call[p].opts.compat
        /\ opts.capture \in {call[p].opts.capture, Len(heap) + 1}
        /\ opts.dev \in {call[p].opts.dev, Len(heap) + 1}
    BY <1>6
  <2>2. \A a \in {opts.preset, opts.compat} : a # Nil => heap'[a] = heap[a]
    BY <1>3, <1>7, <2>1 DEF WellFormedOptions, Points
  <2> QED BY <2>1, <2>2 DEF Reach
<1>10. Len(heap) + 1 \in DOMAIN heap' \ DOMAIN heap /\ Len(heap) <= Len(heap')
  BY <1>3, <1>7
<1>11. \A a \in Reach(heap', call'[p].opts) :
         /\ a \notin Own(p)'
         /\ a \in Reach(heap, call[p].opts) \/ a \in DOMAIN heap' \ DOMAIN heap
  BY <1>4, <1>5, <1>9, <1>10
<1>12. WellFormedOptions(heap', call'[p].opts) BY <1>4, <1>8
<1> QED
  BY <1>1, <1>2, <1>3, <1>4, <1>5, <1>7, <1>10, <1>11, <1>12, CallInv

LEMMA PayloadCaptureInv ==
  ASSUME IInv, NEW p \in Procs, PayloadCapture(p)
  PROVE  IInv' /\ MeaningsStay
<1>1. /\ call[p].todo # <<>>
      /\ Head(call[p].todo) \in OptionTypes /\ Head(call[p].todo).kind = "capture"
  BY DEF PayloadCapture, Begins, IInv, InvCalls
<1>2. PICK o : o = Head(call[p].todo) OBVIOUS
<1>3. /\ o.redactor \in Redactors \cup {Nil} /\ o.mode \in {"drop", "returnError"}
      /\ o.resets = {} \/ \E r \in Redactors \cup {Nil} : o.resets = {r}
  BY <1>1, <1>2 DEF OptionTypes, Resets
<1>4. PICK cell : cell = [kind |-> "capture", mode |-> o.mode,
                          redactor |-> The(o.resets, Redactor(o.redactor))]
  OBVIOUS
<1>5. cell \in Cells /\ cell.kind = "capture"
  <2>1. Redactor(o.redactor) \in Redactors BY <1>3, OptionsAssumption DEF Redactor
  <2>2. The(o.resets, Redactor(o.redactor)) \in Redactors \cup {Nil}
    BY <1>3, <2>1 DEF The
  <2> QED BY <1>3, <1>4, <2>2 DEF Cells, CaptureCells
<1>6. Fresh(p, "capture", cell) BY <1>2, <1>4 DEF PayloadCapture
<1> QED BY <1>1, <1>5, <1>6, FreshInv

LEMMA DevSinkInv ==
  ASSUME IInv, NEW p \in Procs, DevSink(p)
  PROVE  IInv' /\ MeaningsStay
<1>1. /\ call[p].todo # <<>>
      /\ Head(call[p].todo) \in OptionTypes /\ Head(call[p].todo).kind = "dev"
  BY DEF DevSink, Begins, IInv, InvCalls
<1>2. PICK o : o = Head(call[p].todo) OBVIOUS
<1>3. o.text \in Texts BY <1>1, <1>2 DEF OptionTypes
<1>4. PICK cell : cell = [kind |-> "dev", text |-> o.text] OBVIOUS
<1>5. cell \in Cells /\ cell.kind = "dev" BY <1>3, <1>4 DEF Cells, DevCells
<1>6. Fresh(p, "dev", cell) BY <1>2, <1>4 DEF DevSink
<1> QED BY <1>1, <1>5, <1>6, FreshInv

\* What is built on a struct depends on its text and on the entries of its map.
LEMMA BuiltOn ==
  ASSUME NEW h, WellFormed(h), NEW a \in DOMAIN h, NEW kind \in {"preset", "compat"},
         h[a].kind = kind,
         NEW h2, WellFormed(h2), NEW b \in DOMAIN h2, h2[b].kind = kind,
         h2[b].text = h[a].text, EntriesAt(h2, h2[b].map) = EntriesAt(h, h[a].map),
         NEW said, NEW put
  PROVE  Built(kind, Read(h2, b), said, put) = Built(kind, Read(h, a), said, put)
<1>1. PICK one : Read(h, a) = {one} /\ one.text = h[a].text
                 /\ one.map = EntriesAt(h, h[a].map)
  BY ReadStruct
<1>2. PICK two : Read(h2, b) = {two} /\ two.text = h2[b].text
                 /\ two.map = EntriesAt(h2, h2[b].map)
  BY ReadStruct
<1>3. two.text = one.text /\ \A k \in Keys : two.map[k] = one.map[k] BY <1>1, <1>2
<1>4. Built(kind, {two}, said, put) = Built(kind, {one}, said, put) BY <1>3, BuiltFrom
<1> QED BY <1>1, <1>2, <1>4

\* The struct of an option starts as a copy or a default, with a map of its own.
OpenedOk(h, kind, old, clone, cell) ==
  /\ WellFormed(clone.heap) /\ Len(h) <= Len(clone.heap)
  /\ \A b \in DOMAIN h : clone.heap[b] = h[b]
  /\ cell \in Cells /\ cell.kind = kind
  /\ cell.map = Nil \/ (cell.map \in DOMAIN clone.heap \ DOMAIN h
                          /\ clone.heap[cell.map].kind = "map")
  /\ EntriesAt(clone.heap, cell.map)
       = IF old = Nil THEN NoEntries ELSE EntriesAt(h, h[old].map)

LEMMA Opened ==
  ASSUME NEW h, WellFormed(h), NEW kind \in {"preset", "compat"},
         NEW old, Points(h, old, kind),
         NEW clone, clone = Clone(h, IF old = Nil THEN Nil ELSE h[old].map),
         NEW cell, cell = IF old = Nil THEN Default(kind) ELSE Copy(h, old, clone.at)
  PROVE  OpenedOk(h, kind, old, clone, cell)
<1>1. h \in Seq(Cells) /\ Nil \notin DOMAIN h /\ (\A a \in DOMAIN h : h[a] \in Cells)
  BY Domains DEF WellFormed
<1>2. old # Nil => old \in DOMAIN h /\ h[old].kind = kind /\ h[old] \in Cells
  BY <1>1 DEF Points
<1>3. PICK from : from = IF old = Nil THEN Nil ELSE h[old].map OBVIOUS
<1>4. Points(h, from, "map") BY <1>2, <1>3 DEF WellFormed, Points
<1>5. clone = Clone(h, from) BY <1>3
<1>6. /\ WellFormed(clone.heap) /\ Len(h) <= Len(clone.heap)
      /\ \A b \in DOMAIN h : clone.heap[b] = h[b]
      /\ \/ clone.at = Nil
         \/ clone.at \in DOMAIN clone.heap \ DOMAIN h /\ clone.heap[clone.at].kind = "map"
      /\ EntriesAt(clone.heap, clone.at) = EntriesAt(h, from)
  BY <1>4, <1>5, CloneFacts
<1>7. clone.at \in Addresses \cup {Nil}
  <2>1. clone.heap \in Seq(Cells) BY <1>6 DEF WellFormed
  <2>2. DOMAIN clone.heap \subseteq Addresses BY <2>1, Domains
  <2> QED BY <1>6, <2>2
<1>8. CASE old = Nil
  <2>1. cell \in Cells
    BY <1>8, OptionsAssumption DEF Default, Cells, PresetCells, CompatCells
  <2>2. cell.kind = kind /\ cell.map = Nil /\ cell.text = "" BY <1>8 DEF Default
  <2>3. EntriesAt(clone.heap, cell.map) = NoEntries BY <2>2 DEF EntriesAt
  <2> QED BY <1>6, <1>8, <2>1, <2>2, <2>3 DEF OpenedOk
<1>9. CASE old # Nil
  <2>1. CASE kind = "preset"
    <3>1. h[old] \in PresetCells BY <1>2, <1>9, <2>1, CellKinds
    <3>2. cell = [h[old] EXCEPT !.enabled = TRUE, !.map = clone.at]
      BY <1>2, <1>9, <2>1 DEF Copy
    <3>3. cell = [kind |-> "preset", enabled |-> TRUE, text |-> h[old].text,
                  map |-> clone.at]
      BY <3>1, <3>2 DEF PresetCells
    <3>4. h[old].text \in Texts BY <3>1 DEF PresetCells
    <3>5. cell \in PresetCells
      <4>1. PICK text, map : text = h[old].text /\ map = clone.at OBVIOUS
      <4>2. [kind |-> "preset", enabled |-> TRUE, text |-> text, map |-> map]
              \in [kind : {"preset"}, enabled : BOOLEAN, text : Texts,
                   map : Addresses \cup {Nil}]
        BY <1>7, <3>4, <4>1
      <4> QED BY <3>3, <4>1, <4>2 DEF PresetCells
    <3>6. cell \in Cells BY <3>5 DEF Cells
    <3>7. cell.kind = kind /\ cell.map = clone.at BY <2>1, <3>3
    <3> QED BY <1>3, <1>6, <1>9, <3>6, <3>7 DEF OpenedOk
  <2>2. CASE kind = "compat"
    <3>1. h[old] \in CompatCells BY <1>2, <1>9, <2>2, CellKinds
    <3>2. cell = [h[old] EXCEPT !.map = clone.at]
      BY <1>2, <1>9, <2>2 DEF Copy
    <3>3. cell = [kind |-> "compat", text |-> h[old].text, map |-> clone.at]
      BY <3>1, <3>2 DEF CompatCells
    <3>4. h[old].text \in Texts BY <3>1 DEF CompatCells
    <3>5. cell \in CompatCells BY <1>7, <3>3, <3>4 DEF CompatCells
    <3>6. cell \in Cells BY <3>5 DEF Cells
    <3>7. cell.kind = kind /\ cell.map = clone.at BY <2>2, <3>3
    <3> QED BY <1>3, <1>6, <1>9, <3>6, <3>7 DEF OpenedOk
  <2> QED BY <2>1, <2>2
<1> QED BY <1>8, <1>9

\* The struct that is opened is as good as the one it copies, whatever is said of it
\* afterwards.
Alike(kind, one, two) ==
  \A said, put : Built(kind, one, said, put) = Built(kind, two, said, put)

\* The struct that is opened is new, and reached by nobody yet.
LEMMA Opening ==
  ASSUME IInv, NEW p \in Procs, NEW kind \in {"preset", "compat"}, Open(p, kind),
         NEW new, new = Len(heap')
  PROVE  /\ call'[p].cur = new
         /\ WellFormed(heap') /\ Len(heap) <= Len(heap')
         /\ \A a \in DOMAIN heap : heap'[a] = heap[a]
         /\ new \in DOMAIN heap' \ DOMAIN heap
         /\ heap'[new].kind = kind
         /\ heap'[new].map \in {Nil} \cup (DOMAIN heap' \ DOMAIN heap)
         /\ Alike(kind, Read(heap', new), Read(heap, call[p].opts[kind]))
         /\ kind = "preset" => heap'[new].enabled = TRUE
<1>1. /\ WellFormed(heap) /\ WellFormedOptions(heap, call[p].opts)
      /\ Len(heap) \in Nat /\ DOMAIN heap = 1..Len(heap)
      /\ \A a \in DOMAIN heap : heap[a] \in Cells
  BY Domains DEF IInv, TypeOK, WellFormed
<1>0. PICK old : old = call[p].opts[kind] OBVIOUS
<1>2. PICK clone : clone = Clone(heap, IF old = Nil THEN Nil ELSE heap[old].map) OBVIOUS
<1>3. PICK cell : cell = IF old = Nil THEN Default(kind) ELSE Copy(heap, old, clone.at)
  OBVIOUS
<1>4. Points(heap, old, kind) BY <1>1, <1>0 DEF WellFormedOptions
<1>5. /\ WellFormed(clone.heap) /\ Len(heap) <= Len(clone.heap)
      /\ \A b \in DOMAIN heap : clone.heap[b] = heap[b]
      /\ cell \in Cells /\ cell.kind = kind
      /\ cell.map = Nil \/ (cell.map \in DOMAIN clone.heap \ DOMAIN heap
                              /\ clone.heap[cell.map].kind = "map")
      /\ EntriesAt(clone.heap, cell.map)
           = IF old = Nil THEN NoEntries ELSE EntriesAt(heap, heap[old].map)
  <2>1. PICK from : from = old OBVIOUS
  <2>2. Points(heap, from, kind) BY <1>4, <2>1
  <2>3. clone = Clone(heap, IF from = Nil THEN Nil ELSE heap[from].map) BY <1>2, <2>1
  <2>4. cell = IF from = Nil THEN Default(kind) ELSE Copy(heap, from, clone.at)
    BY <1>3, <2>1
  <2>5. OpenedOk(heap, kind, from, clone, cell) BY <1>1, <2>2, <2>3, <2>4, Opened
  <2> QED BY <2>1, <2>5 DEF OpenedOk
<1>6. /\ heap' = Append(clone.heap, cell)
      /\ call' = [call EXCEPT ![p].cur = Len(clone.heap) + 1,
                              ![p].subs = Head(call[p].todo).subs]
  BY <1>0, <1>2, <1>3 DEF Open
<1>7. Len(clone.heap) \in Nat /\ DOMAIN clone.heap = 1..Len(clone.heap)
  BY <1>5, Domains DEF WellFormed
<1>8. /\ WellFormed(heap') /\ Len(heap') = Len(clone.heap) + 1
      /\ DOMAIN heap' = 1..(Len(clone.heap) + 1)
      /\ \A a \in DOMAIN clone.heap : heap'[a] = clone.heap[a]
      /\ heap'[Len(clone.heap) + 1] = cell
  <2>1. Points(clone.heap, cell.map, "map") BY <1>5 DEF Points
  <2> QED BY <1>5, <1>6, <2>1, NewCell
<1>9. new = Len(clone.heap) + 1 /\ heap'[new] = cell BY <1>8
<1>10. /\ old = Nil => cell.text = ""
       /\ old # Nil => cell.text = heap[old].text
       /\ kind = "preset" => cell.enabled = TRUE
  <2>1. CASE old = Nil BY <1>3, <2>1 DEF Default
  <2>2. CASE old # Nil
    <3>1. old \in DOMAIN heap /\ heap[old].kind = kind /\ heap[old] \in Cells
      BY <1>1, <1>4, <2>2 DEF Points
    <3>2. CASE kind = "preset"
      <4>1. heap[old] \in PresetCells BY <3>1, <3>2, CellKinds
      <4>2. cell = [heap[old] EXCEPT !.enabled = TRUE, !.map = clone.at]
        BY <1>3, <2>2, <3>1, <3>2 DEF Copy
      <4> QED BY <2>2, <4>1, <4>2 DEF PresetCells
    <3>3. CASE kind = "compat"
      <4>1. heap[old] \in CompatCells BY <3>1, <3>3, CellKinds
      <4>2. cell = [heap[old] EXCEPT !.map = clone.at]
        BY <1>3, <2>2, <3>1, <3>3 DEF Copy
      <4> QED BY <2>2, <3>3, <4>1, <4>2 DEF CompatCells
    <3> QED BY <3>2, <3>3
  <2> QED BY <2>1, <2>2
<1>11. EntriesAt(heap', cell.map) = EntriesAt(clone.heap, cell.map)
  BY <1>5, <1>8 DEF EntriesAt
<1>12. /\ new \in DOMAIN heap' \ DOMAIN heap
       /\ cell.map \in {Nil} \cup (DOMAIN heap' \ DOMAIN heap)
       /\ \A a \in DOMAIN heap : heap'[a] = heap[a]
       /\ Len(heap) <= Len(heap')
  BY <1>1, <1>5, <1>7, <1>8, <1>9
<1>13. call'[p].cur = new BY <1>6, <1>9 DEF IInv, InvCalls
<1>14. ASSUME NEW text, NEW value
       PROVE  Built(kind, Read(heap', new), text, value)
                = Built(kind, Read(heap, old), text, value)
  <2>1. PICK h2 : h2 = heap' OBVIOUS
  <2>2. /\ WellFormed(h2) /\ new \in DOMAIN h2 /\ h2[new] = cell
        /\ h2[new].kind = kind
        /\ EntriesAt(h2, h2[new].map) = EntriesAt(clone.heap, cell.map)
    BY <1>5, <1>8, <1>9, <1>11, <1>12, <2>1
  <2>3. CASE old = Nil
    <3>1. Read(heap, old) = {} BY <2>3 DEF Read
    <3>2. PICK struct : Read(h2, new) = {struct} /\ struct.text = h2[new].text
                        /\ struct.map = EntriesAt(h2, h2[new].map)
      BY <2>2, ReadStruct
    <3>3. PICK none : none = "" OBVIOUS
    <3>4. struct.text = none BY <1>10, <2>2, <2>3, <3>2, <3>3
    <3>5. \A k \in Keys : struct.map[k] = Absent
      BY <1>5, <2>2, <2>3, <3>2 DEF NoEntries
    <3>6. Built(kind, {struct}, text, value) = Built(kind, {}, text, value)
      <4>1. PICK name : name = kind OBVIOUS
      <4>2. Built(name, {struct}, text, value) = Built(name, {}, text, value)
        BY <3>3, <3>4, <3>5, BuiltFromNothing
      <4> QED BY <4>1, <4>2
    <3> QED BY <2>1, <3>1, <3>2, <3>6
  <2>4. CASE old # Nil
    <3>1. PICK h : h = heap OBVIOUS
    <3>2. WellFormed(h) /\ old \in DOMAIN h /\ h[old].kind = kind
      BY <1>1, <1>4, <2>4, <3>1 DEF Points
    <3>3. h2[new].text = h[old].text
          /\ EntriesAt(h2, h2[new].map) = EntriesAt(h, h[old].map)
      BY <1>5, <1>10, <2>2, <2>4, <3>1
    <3>4. Built(kind, Read(h2, new), text, value) = Built(kind, Read(h, old), text, value)
      BY <2>2, <3>2, <3>3, BuiltOn
    <3> QED BY <2>1, <3>1, <3>4
  <2> QED BY <2>3, <2>4
<1>15. Alike(kind, Read(heap', new), Read(heap, call[p].opts[kind]))
  BY <1>0, <1>14 DEF Alike
<1>16. kind = "preset" => heap'[new].enabled = TRUE BY <1>9, <1>10
<1>17. heap'[new].kind = kind BY <1>5, <1>9
<1>18. heap'[new].map \in {Nil} \cup (DOMAIN heap' \ DOMAIN heap) BY <1>9, <1>12
<1> QED BY <1>8, <1>12, <1>13, <1>15, <1>16, <1>17, <1>18

LEMMA OpenInv ==
  ASSUME IInv, NEW p \in Procs, NEW kind \in {"preset", "compat"}, Open(p, kind)
  PROVE  IInv' /\ MeaningsStay
<1>1. /\ WellFormed(heap) /\ WellFormedOptions(heap, call[p].opts)
      /\ Len(heap) \in Nat /\ DOMAIN heap = 1..Len(heap)
      /\ call[p].running \in BOOLEAN /\ calls \in 0..MaxCalls
  BY Domains DEF IInv, TypeOK, WellFormed
<1>2. PICK made : made = Len(heap') OBVIOUS
<1>3. /\ WellFormed(heap') /\ Len(heap) <= Len(heap')
      /\ \A a \in DOMAIN heap : heap'[a] = heap[a]
      /\ made \in DOMAIN heap' \ DOMAIN heap
      /\ heap'[made].kind = kind
      /\ heap'[made].map \in {Nil} \cup (DOMAIN heap' \ DOMAIN heap)
      /\ call'[p].cur = made
  BY <1>2, Opening
<1>4. results' = results /\ live' = live /\ calls' = calls BY DEF Open
<1>5. /\ call[p].todo # <<>> /\ Head(call[p].todo) \in OptionTypes
      /\ Head(call[p].todo).kind = kind /\ call[p].cur = Nil
  <2>1. Begins(p, kind) BY DEF Open
  <2>2. call[p].todo \in Seq(OptionTypes \cup {Nil}) BY DEF IInv, InvCalls
  <2> QED BY <2>1, <2>2 DEF Begins
<1>6. Head(call[p].todo).subs \in Seq(SubOptions \cup {Nil}) BY <1>5 DEF OptionTypes
<1>7. /\ call' = [call EXCEPT ![p] = call'[p]]
      /\ DOMAIN call'[p] = {"running", "opts", "todo", "cur", "subs", "meant"}
      /\ call'[p].running = call[p].running /\ call'[p].opts = call[p].opts
      /\ call'[p].todo = call[p].todo /\ call'[p].cur = made
      /\ call'[p].subs = Head(call[p].todo).subs
  <2>1. PICK at : call' = [call EXCEPT ![p].cur = at, ![p].subs = Head(call[p].todo).subs]
    BY DEF Open
  <2>2. /\ call = [q \in Procs |-> call[q]]
        /\ DOMAIN call[p] = {"running", "opts", "todo", "cur", "subs", "meant"}
    BY DEF IInv, InvCalls
  <2>3. call'[p] = [call[p] EXCEPT !.cur = at, !.subs = Head(call[p].todo).subs]
    BY <2>1, <2>2
  <2>4. call' = [call EXCEPT ![p] = call'[p]] BY <2>1, <2>2, <2>3
  <2> QED BY <1>3, <2>2, <2>3, <2>4
<1>8. /\ call'[p].todo \in Seq(OptionTypes \cup {Nil})
      /\ call'[p].subs \in Seq(SubOptions \cup {Nil})
  BY <1>6, <1>7 DEF IInv, InvCalls
<1>9. \A a \in Own(p)' : a \in DOMAIN heap' \ DOMAIN heap
  <2>1. Own(p)' \subseteq {made} \cup ({heap'[made].map} \ {Nil}) BY <1>7 DEF Own
  <2> QED BY <1>3, <2>1
<1>10. /\ WellFormedOptions(heap', call[p].opts)
       /\ Reach(heap', call[p].opts) = Reach(heap, call[p].opts)
  <2>1. PICK W : W = {} OBVIOUS
  <2> QED BY <1>3, <2>1, Frame
<1>11. Reach(heap, call[p].opts) \subseteq DOMAIN heap \cup {Nil} BY Inside
<1>12. Nil \notin DOMAIN heap' BY <1>3, Domains DEF WellFormed
<1>13. \A a \in Reach(heap', call'[p].opts) :
         a \notin Own(p)' /\ a \in Reach(heap, call[p].opts)
  BY <1>7, <1>9, <1>10, <1>11, <1>12
<1>14. /\ call'[p].cur \in DOMAIN heap'
       /\ call'[p].todo # <<>> /\ heap'[call'[p].cur].kind \in {"preset", "compat"}
  BY <1>3, <1>5, <1>7
<1>15. WellFormedOptions(heap', call'[p].opts) BY <1>7, <1>10
<1> QED BY <1>1, <1>3, <1>4, <1>7, <1>8, <1>9, <1>13, <1>14, <1>15, CallInv

\* Entries are put into the map there is, or into a made one.
PutOk(h, a, src, put) ==
  /\ WellFormed(put.heap) /\ Len(h) <= Len(put.heap)
  /\ \A b \in DOMAIN h \ {a} : put.heap[b] = h[b]
  /\ Points(put.heap, put.at, "map")
  /\ put.at = a \/ put.at \in DOMAIN put.heap \ DOMAIN h
  /\ EntriesAt(put.heap, put.at) = Overlay(EntriesAt(h, a), EntriesAt(h, src))

LEMMA PutFacts ==
  ASSUME NEW h, WellFormed(h), NEW a, Points(h, a, "map"), NEW src, Points(h, src, "map"),
         NEW put, put = PutAll(h, a, src)
  PROVE  PutOk(h, a, src, put)
<1> USE DEF PutOk
<1>1. /\ h \in Seq(Cells) /\ Len(h) \in Nat /\ DOMAIN h = 1..Len(h) /\ Nil \notin DOMAIN h
      /\ \A b \in DOMAIN h : h[b] \in Cells
  BY Domains DEF WellFormed
<1>2. CASE EntriesAt(h, src) = NoEntries
  <2>1. put.heap = h /\ put.at = a BY <1>2 DEF PutAll
  <2>2. PICK old : old = EntriesAt(h, a) OBVIOUS
  <2>3. old \in Entries BY <2>2, EntriesThere
  <2>4. Overlay(old, NoEntries) = old BY <2>3 DEF Overlay, NoEntries, Entries
  <2> QED BY <1>1, <1>2, <2>1, <2>2, <2>4
<1>3. CASE EntriesAt(h, src) # NoEntries
  <2>1. src # Nil BY <1>3 DEF EntriesAt
  <2>2. src \in DOMAIN h /\ h[src].kind = "map" /\ h[src] \in MapCells
    BY <1>1, <2>1, CellKinds DEF Points
  <2>3. CASE a = Nil
    <3>1. put.heap = Append(h, h[src]) /\ put.at = Len(h) + 1 BY <1>3, <2>3 DEF PutAll
    <3>2. /\ WellFormed(Append(h, h[src])) /\ Len(Append(h, h[src])) = Len(h) + 1
          /\ DOMAIN Append(h, h[src]) = 1..(Len(h) + 1)
          /\ \A b \in DOMAIN h : Append(h, h[src])[b] = h[b]
          /\ Append(h, h[src])[Len(h) + 1] = h[src]
      BY <1>1, <2>2, NewCell
    <3>3. put.at # Nil BY <3>1, <3>2, Domains DEF WellFormed
    <3>4. PICK new : new = h[src].entries OBVIOUS
    <3>5. new \in [Keys -> Values \cup {Absent}] BY <2>2, <3>4 DEF MapCells, Entries
    <3>6. Overlay(NoEntries, new) = new BY <3>5 DEF Overlay, NoEntries
    <3>7. EntriesAt(put.heap, put.at) = Overlay(EntriesAt(h, a), EntriesAt(h, src))
      BY <2>1, <2>3, <3>1, <3>2, <3>3, <3>4, <3>6 DEF EntriesAt
    <3> QED BY <1>1, <2>2, <3>1, <3>2, <3>7 DEF Points
  <2>4. CASE a # Nil
    <3>1. a \in DOMAIN h /\ h[a] \in MapCells BY <1>1, <2>4, CellKinds DEF Points
    <3>2. PICK cell : cell = [kind |-> "map",
                              entries |-> Overlay(h[a].entries, h[src].entries)]
      OBVIOUS
    <3>3. cell \in MapCells
      <4>1. h[a].entries \in Entries /\ h[src].entries \in Entries
        BY <2>2, <3>1 DEF MapCells
      <4>2. Overlay(h[a].entries, h[src].entries) \in Entries
        BY <4>1 DEF Overlay, Entries
      <4> QED BY <3>2, <4>2 DEF MapCells
    <3>4. [h[a] EXCEPT !.entries = Overlay(@, h[src].entries)] = cell
      BY <3>1, <3>2 DEF MapCells
    <3>5. put.heap = [h EXCEPT ![a] = cell] /\ put.at = a
      <4>1. put.heap = [h EXCEPT ![a].entries = Overlay(@, h[src].entries)] /\ put.at = a
        BY <1>3, <2>4 DEF PutAll
      <4> QED BY <3>4, <4>1
    <3>6. cell \in Cells /\ cell.kind = "map" /\ h[a].kind = "map"
      BY <3>1, <3>3 DEF Cells, MapCells
    <3>7. LET new == [h EXCEPT ![a] = cell]
          IN /\ WellFormed(new) /\ Len(new) = Len(h) /\ DOMAIN new = DOMAIN h
             /\ new[a] = cell /\ \A b \in DOMAIN h \ {a} : new[b] = h[b]
      BY <3>1, <3>6, RewrittenCell
    <3>8. EntriesAt(put.heap, put.at) = Overlay(EntriesAt(h, a), EntriesAt(h, src))
      BY <2>1, <2>4, <3>2, <3>5, <3>7 DEF EntriesAt
    <3> QED BY <1>1, <3>1, <3>5, <3>6, <3>7, <3>8 DEF Points
  <2> QED BY <2>3, <2>4
<1> QED BY <1>2, <1>3

\* A suboption rewrites the struct, and leaves it of its kind.
LEMMA Refined ==
  ASSUME NEW h, WellFormed(h), NEW cur \in DOMAIN h, h[cur].kind \in {"preset", "compat"},
         NEW at, Points(h, at, "map"), NEW text \in Texts
  PROVE  LET new == [h EXCEPT ![cur] = [@ EXCEPT !.map = at, !.text = text]]
         IN /\ WellFormed(new) /\ Len(new) = Len(h) /\ DOMAIN new = DOMAIN h
            /\ new[cur].map = at /\ new[cur].kind = h[cur].kind
            /\ \A b \in DOMAIN h \ {cur} : new[b] = h[b]
<1>1. PICK cell : cell = [h[cur] EXCEPT !.map = at, !.text = text] OBVIOUS
<1>2. h \in Seq(Cells) /\ h[cur] \in Cells BY Domains DEF WellFormed
<1>3. at \in Addresses \cup {Nil} BY <1>2, Domains DEF Points
<1>4. cell \in Cells /\ cell.kind = h[cur].kind /\ cell.map = at
  <2>1. CASE h[cur].kind = "preset"
    <3>1. h[cur] \in PresetCells BY <1>2, <2>1, CellKinds
    <3>2. PICK enabled : enabled = h[cur].enabled OBVIOUS
    <3>3. enabled \in BOOLEAN BY <3>1, <3>2 DEF PresetCells
    <3>4. cell = [kind |-> "preset", enabled |-> enabled, text |-> text, map |-> at]
      BY <1>1, <3>1, <3>2 DEF PresetCells
    <3>5. [kind |-> "preset", enabled |-> enabled, text |-> text, map |-> at]
            \in [kind : {"preset"}, enabled : BOOLEAN, text : Texts,
                 map : Addresses \cup {Nil}]
      BY <1>3, <3>3
    <3> QED BY <2>1, <3>4, <3>5 DEF PresetCells, Cells
  <2>2. CASE h[cur].kind = "compat"
    <3>1. h[cur] \in CompatCells BY <1>2, <2>2, CellKinds
    <3>2. cell = [kind |-> "compat", text |-> text, map |-> at]
      BY <1>1, <3>1 DEF CompatCells
    <3>3. cell \in CompatCells BY <1>3, <3>2 DEF CompatCells
    <3> QED BY <2>2, <3>2, <3>3 DEF Cells
  <2> QED BY <2>1, <2>2
<1>5. LET new == [h EXCEPT ![cur] = cell]
      IN /\ WellFormed(new) /\ Len(new) = Len(h) /\ DOMAIN new = DOMAIN h
         /\ new[cur] = cell /\ \A b \in DOMAIN h \ {cur} : new[b] = h[b]
  BY <1>4, RewrittenCell
<1>6. [h EXCEPT ![cur] = [@ EXCEPT !.map = at, !.text = text]] = [h EXCEPT ![cur] = cell]
  BY <1>1
<1> QED BY <1>4, <1>5, <1>6

\* What a suboption writes.
LEMMA Refining ==
  ASSUME IInv, NEW p \in Procs, NEW kind \in {"preset", "compat"}, Refine(p, kind),
         NEW cur, cur = call[p].cur, NEW m, m = heap[cur].map,
         NEW sub, sub = Head(call[p].subs)
  PROVE  /\ cur \in DOMAIN heap /\ heap[cur].kind = kind
         /\ WellFormed(heap') /\ Len(heap) <= Len(heap')
         /\ \A a \in DOMAIN heap \ Own(p) : heap'[a] = heap[a]
         /\ cur \in DOMAIN heap' /\ heap'[cur].kind = kind
         /\ heap'[cur].map \in {m} \cup {Nil} \cup (DOMAIN heap' \ DOMAIN heap)
         /\ sub \in SubOptions \cup {Nil}
         /\ kind = "preset" => heap'[cur].enabled = heap[cur].enabled
         /\ heap'[cur].text = IF sub # Nil /\ sub.sets THEN sub.text ELSE heap[cur].text
         /\ EntriesAt(heap', heap'[cur].map)
              = IF sub = Nil THEN EntriesAt(heap, m)
                ELSE Overlay(EntriesAt(heap, m), EntriesAt(CallerHeap, sub.map))
<1>1. /\ WellFormed(heap) /\ heap \in Seq(Cells) /\ Nil \notin DOMAIN heap
      /\ Len(heap) \in Nat /\ DOMAIN heap = 1..Len(heap)
  BY Domains DEF IInv, TypeOK, WellFormed
<1>2. call[p].cur # Nil /\ call[p].subs # <<>> /\ heap[cur].kind = kind
  BY DEF Refine, InCall
<1>3. cur \in DOMAIN heap BY <1>2 DEF IInv, TypeOK
<1>4. Points(heap, m, "map") /\ m # cur BY <1>1, <1>2, <1>3 DEF WellFormed, Points
<1>5. Own(p) = {cur} \cup ({m} \ {Nil}) BY <1>2 DEF Own
<1>6. sub \in SubOptions \cup {Nil}
  <2>1. call[p].subs \in Seq(SubOptions \cup {Nil}) BY DEF IInv, InvCalls
  <2> QED BY <1>2, <2>1
<1>7. CASE sub = Nil
  <2>1. heap' = heap BY <1>7 DEF Refine
  <2> QED BY <1>1, <1>2, <1>3, <1>7, <2>1
<1>8. CASE sub # Nil
  <2>1. sub.text \in Texts /\ sub.map \in CallerMaps \cup {Nil}
    BY <1>6, <1>8 DEF SubOptions
  <2>2. /\ Points(heap, sub.map, "map")
        /\ EntriesAt(heap, sub.map) = EntriesAt(CallerHeap, sub.map)
    <3>1. CallerHeap \in Seq(Cells) BY OptionsAssumption DEF WellFormed
    <3>2. Len(CallerHeap) \in Nat /\ DOMAIN CallerHeap = 1..Len(CallerHeap)
      BY <3>1, Domains
    <3>3. CASE sub.map \in CallerMaps
      <4>1. sub.map \in 1..Len(CallerHeap) /\ CallerHeap[sub.map].kind = "map"
        BY <3>2, <3>3 DEF CallerMaps
      <4>2. sub.map \in DOMAIN heap BY <1>1, <3>2, <4>1 DEF IInv, InvCaller
      <4>3. heap[sub.map] = CallerHeap[sub.map] BY <4>1 DEF IInv, InvCaller
      <4> QED BY <4>1, <4>2, <4>3 DEF Points, EntriesAt
    <3>4. CASE sub.map = Nil BY <3>4 DEF Points, EntriesAt
    <3> QED BY <2>1, <3>3, <3>4
  <2>3. PICK put : put = PutAll(heap, m, sub.map) OBVIOUS
  <2>4. /\ WellFormed(put.heap) /\ Len(heap) <= Len(put.heap)
        /\ \A b \in DOMAIN heap \ {m} : put.heap[b] = heap[b]
        /\ Points(put.heap, put.at, "map")
        /\ put.at = m \/ put.at \in DOMAIN put.heap \ DOMAIN heap
        /\ EntriesAt(put.heap, put.at)
             = Overlay(EntriesAt(heap, m), EntriesAt(heap, sub.map))
    <3>1. PICK from : from = sub.map OBVIOUS
    <3>2. Points(heap, from, "map") /\ put = PutAll(heap, m, from) BY <2>2, <2>3, <3>1
    <3>3. PutOk(heap, m, from, put) BY <1>1, <1>4, <3>2, PutFacts
    <3> QED BY <3>1, <3>3 DEF PutOk
  <2>5. put.heap[cur] = heap[cur] BY <1>3, <1>4, <2>4
  <2>6. cur \in DOMAIN put.heap /\ DOMAIN heap \subseteq DOMAIN put.heap
    <3>1. Len(put.heap) \in Nat /\ DOMAIN put.heap = 1..Len(put.heap)
      BY <2>4, Domains DEF WellFormed
    <3> QED BY <1>1, <1>3, <2>4, <3>1
  <2>7. PICK text : text = IF sub.sets THEN sub.text ELSE heap[cur].text OBVIOUS
  <2>8. heap[cur] \in PresetCells \/ heap[cur] \in CompatCells
    BY <1>1, <1>2, <1>3, Domains, CellKinds
  <2>9. text \in Texts
    <3>1. heap[cur].text \in Texts BY <2>8 DEF PresetCells, CompatCells
    <3> QED BY <2>1, <2>7, <3>1
  <2>10. heap' = [put.heap EXCEPT ![cur] = [@ EXCEPT !.map = put.at, !.text = text]]
    <3>1. heap' = [put.heap EXCEPT ![cur].map = put.at,
                                   ![cur].text = IF sub.sets THEN sub.text ELSE @]
      BY <1>8, <2>3 DEF Refine
    <3>2. put.heap \in Seq(Cells) BY <2>4 DEF WellFormed
    <3> QED BY <2>5, <2>6, <2>7, <2>8, <3>1, <3>2 DEF PresetCells, CompatCells
  <2>11. LET new == [put.heap EXCEPT ![cur] = [@ EXCEPT !.map = put.at, !.text = text]]
         IN /\ WellFormed(new) /\ Len(new) = Len(put.heap) /\ DOMAIN new = DOMAIN put.heap
            /\ new[cur].map = put.at /\ new[cur].kind = put.heap[cur].kind
            /\ \A b \in DOMAIN put.heap \ {cur} : new[b] = put.heap[b]
    <3>1. PICK c : c = cur OBVIOUS
    <3>2. /\ WellFormed(put.heap) /\ Points(put.heap, put.at, "map")
          /\ c \in DOMAIN put.heap /\ put.heap[c].kind \in {"preset", "compat"}
      BY <1>2, <2>4, <2>5, <2>6, <3>1
    <3>3. LET new == [put.heap EXCEPT ![c] = [@ EXCEPT !.map = put.at, !.text = text]]
          IN /\ WellFormed(new) /\ Len(new) = Len(put.heap) /\ DOMAIN new = DOMAIN put.heap
             /\ new[c].map = put.at /\ new[c].kind = put.heap[c].kind
             /\ \A b \in DOMAIN put.heap \ {c} : new[b] = put.heap[b]
      BY <2>9, <3>2, Refined
    <3> QED BY <3>1, <3>3
  <2>12. /\ WellFormed(heap') /\ Len(heap') = Len(put.heap)
         /\ DOMAIN heap' = DOMAIN put.heap
         /\ heap'[cur].map = put.at /\ heap'[cur].kind = kind
         /\ \A b \in DOMAIN put.heap \ {cur} : heap'[b] = put.heap[b]
    BY <1>2, <2>5, <2>10, <2>11
  <2>13. \A a \in DOMAIN heap \ Own(p) : heap'[a] = heap[a]
    <3> TAKE a \in DOMAIN heap \ Own(p)
    <3>1. a # cur /\ a # m BY <1>1, <1>5
    <3> QED BY <2>4, <2>6, <2>12, <3>1
  <2>14. EntriesAt(heap', put.at) = EntriesAt(put.heap, put.at)
    <3>1. put.at # Nil => put.at # cur /\ put.at \in DOMAIN put.heap
      BY <1>2, <2>4, <2>5 DEF Points
    <3> QED BY <2>12, <3>1 DEF EntriesAt
  <2>15. /\ heap'[cur].text = text
         /\ kind = "preset" => heap'[cur].enabled = heap[cur].enabled
    <3>1. PICK one : one = [heap[cur] EXCEPT !.map = put.at, !.text = text] OBVIOUS
    <3>2. put.heap \in Seq(Cells) BY <2>4 DEF WellFormed
    <3>3. heap'[cur] = one BY <2>5, <2>6, <2>10, <3>1, <3>2
    <3>4. one.text = text BY <2>8, <3>1 DEF PresetCells, CompatCells
    <3>5. one.enabled = heap[cur].enabled BY <3>1
    <3> QED BY <3>3, <3>4, <3>5
  <2> QED
    BY <1>2, <1>3, <1>6, <1>8, <2>2, <2>4, <2>6, <2>7, <2>12, <2>13, <2>14, <2>15
<1> QED BY <1>7, <1>8

LEMMA RefineInv ==
  ASSUME IInv, NEW p \in Procs, NEW kind \in {"preset", "compat"}, Refine(p, kind)
  PROVE  IInv' /\ MeaningsStay
<1>1. /\ WellFormed(heap) /\ WellFormedOptions(heap, call[p].opts)
      /\ heap \in Seq(Cells) /\ Nil \notin DOMAIN heap
      /\ Len(heap) \in Nat /\ DOMAIN heap = 1..Len(heap)
      /\ call[p].running \in BOOLEAN /\ calls \in 0..MaxCalls
  BY Domains DEF IInv, TypeOK, WellFormed
<1>2. /\ call[p].cur # Nil /\ call[p].subs # <<>>
      /\ results' = results /\ live' = live /\ calls' = calls
      /\ call' = [call EXCEPT ![p].subs = Tail(@)]
  BY DEF Refine, InCall
<1>3. PICK cur : cur = call[p].cur OBVIOUS
<1>4. /\ cur \in DOMAIN heap /\ heap[cur].kind \in {"preset", "compat"}
      /\ cur # Nil /\ call[p].todo # <<>>
  BY <1>2, <1>3 DEF IInv, TypeOK, InvCalls
<1>5. PICK m : m = heap[cur].map OBVIOUS
<1>6. Points(heap, m, "map") /\ m # cur BY <1>1, <1>4, <1>5 DEF WellFormed, Points
<1>7. Own(p) = {cur} \cup ({m} \ {Nil}) BY <1>3, <1>4, <1>5 DEF Own
<1>8. /\ call' = [call EXCEPT ![p] = call'[p]]
      /\ DOMAIN call'[p] = {"running", "opts", "todo", "cur", "subs", "meant"}
      /\ call'[p].running = call[p].running /\ call'[p].opts = call[p].opts
      /\ call'[p].todo = call[p].todo /\ call'[p].cur = cur
      /\ call'[p].subs = Tail(call[p].subs)
  BY <1>2, <1>3 DEF IInv, InvCalls
<1>9. /\ call'[p].todo \in Seq(OptionTypes \cup {Nil})
      /\ call'[p].subs \in Seq(SubOptions \cup {Nil})
  <2>1. PICK todo, subs : todo = call[p].todo /\ subs = call[p].subs OBVIOUS
  <2>2. todo \in Seq(OptionTypes \cup {Nil}) /\ subs \in Seq(SubOptions \cup {Nil})
    BY <2>1 DEF IInv, InvCalls
  <2>3. Tail(subs) \in Seq(SubOptions \cup {Nil}) BY <1>2, <2>1, <2>2
  <2> QED BY <1>8, <2>1, <2>2, <2>3
<1>10. /\ WellFormed(heap') /\ Len(heap) <= Len(heap')
       /\ \A a \in DOMAIN heap \ Own(p) : heap'[a] = heap[a]
       /\ cur \in DOMAIN heap' /\ heap'[cur].kind \in {"preset", "compat"}
       /\ heap'[cur].map \in {m} \cup {Nil} \cup (DOMAIN heap' \ DOMAIN heap)
  BY <1>3, <1>4, <1>5, Refining
<1>11. \A a \in Own(p)' : a \in Own(p) \/ a \in DOMAIN heap' \ DOMAIN heap
  <2>1. Own(p)' \subseteq {cur} \cup ({heap'[cur].map} \ {Nil})
    BY <1>4, <1>8 DEF Own
  <2> QED BY <1>7, <1>10, <2>1
<1>12. /\ WellFormedOptions(heap', call[p].opts)
       /\ Reach(heap', call[p].opts) = Reach(heap, call[p].opts)
  <2>1. PICK W : W = Own(p) OBVIOUS
  <2> QED BY <1>10, <2>1, Frame
<1>13. Reach(heap, call[p].opts) \subseteq DOMAIN heap \cup {Nil} BY Inside
<1>14. Nil \notin DOMAIN heap' BY <1>10, Domains DEF WellFormed
<1>15. Own(p) \subseteq DOMAIN heap BY Inside
<1>16. \A a \in Own(p)' : a \notin Reach(heap, call[p].opts)
  BY <1>11, <1>13, <1>14 DEF IInv, NobodyElseReaches
<1>17. \A a \in Reach(heap', call'[p].opts) :
         a \notin Own(p)' /\ a \in Reach(heap, call[p].opts)
  BY <1>8, <1>12, <1>16
<1>18. call'[p].cur \in DOMAIN heap' /\ call'[p].todo # <<>>
       /\ heap'[call'[p].cur].kind \in {"preset", "compat"}
  BY <1>4, <1>8, <1>10
<1>19. WellFormedOptions(heap', call'[p].opts) BY <1>8, <1>12
<1> QED BY <1>1, <1>2, <1>8, <1>9, <1>10, <1>11, <1>17, <1>18, <1>19, CallInv

\* The headers of an exporter are a new map, or none.
LEMMA HeadersFacts ==
  ASSUME NEW h, WellFormed(h), NEW preset, Points(h, preset, "preset"),
         NEW new, new = TraceHeaders(h, preset)
  PROVE  /\ WellFormed(new.heap) /\ Len(h) <= Len(new.heap)
         /\ \A b \in DOMAIN h : new.heap[b] = h[b]
         /\ \/ new.at = Nil
            \/ new.at \in DOMAIN new.heap \ DOMAIN h /\ new.heap[new.at].kind = "map"
<1>1. h \in Seq(Cells) /\ Len(h) \in Nat /\ DOMAIN h = 1..Len(h)
  BY Domains DEF WellFormed
<1>2. CASE preset = Nil \/ ~h[preset].enabled
  <2>1. new = [heap |-> h, at |-> Nil] BY <1>2 DEF TraceHeaders
  <2> QED BY <1>1, <2>1
<1>3. CASE ~(preset = Nil \/ ~h[preset].enabled)
  <2>1. PICK from : from = h[preset].map OBVIOUS
  <2>2. Points(h, from, "map") BY <1>3, <2>1 DEF WellFormed, Points
  <2>3. PICK clone : clone = Clone(h, from) OBVIOUS
  <2>4. /\ WellFormed(clone.heap) /\ Len(h) <= Len(clone.heap)
        /\ \A b \in DOMAIN h : clone.heap[b] = h[b]
        /\ \/ clone.at = Nil
           \/ clone.at \in DOMAIN clone.heap \ DOMAIN h
                /\ clone.heap[clone.at].kind = "map"
    BY <2>2, <2>3, CloneFacts
  <2>5. PICK made : made = IF clone.at # Nil THEN clone
                           ELSE [heap |-> Append(h, [kind |-> "map", entries |-> NoEntries]),
                                 at |-> Len(h) + 1]
    OBVIOUS
  <2>6. new = [made EXCEPT !.heap[made.at].entries[ApiKey] = Secret]
    BY <1>3, <2>1, <2>3, <2>5 DEF TraceHeaders
  <2>7. /\ WellFormed(made.heap) /\ Len(h) <= Len(made.heap)
        /\ \A b \in DOMAIN h : made.heap[b] = h[b]
        /\ made.at \in DOMAIN made.heap \ DOMAIN h
        /\ made.heap[made.at].kind = "map"
        /\ DOMAIN made = {"heap", "at"}
    <3>1. CASE clone.at # Nil BY <2>3, <2>4, <2>5, <3>1 DEF Clone
    <3>2. CASE clone.at = Nil
      <4>1. PICK cell : cell = [kind |-> "map", entries |-> NoEntries] OBVIOUS
      <4>2. cell \in Cells /\ cell.kind = "map"
        BY <4>1 DEF Cells, MapCells, Entries, NoEntries
      <4>3. /\ WellFormed(Append(h, cell)) /\ Len(Append(h, cell)) = Len(h) + 1
            /\ DOMAIN Append(h, cell) = 1..(Len(h) + 1)
            /\ \A b \in DOMAIN h : Append(h, cell)[b] = h[b]
            /\ Append(h, cell)[Len(h) + 1] = cell
        BY <4>2, NewCell
      <4>4. made.heap = Append(h, cell) /\ made.at = Len(h) + 1
            /\ DOMAIN made = {"heap", "at"}
        BY <2>5, <3>2, <4>1
      <4> QED BY <1>1, <4>2, <4>3, <4>4
    <3> QED BY <3>1, <3>2
  <2>8. PICK mh, at : mh = made.heap /\ at = made.at OBVIOUS
  <2>9. mh \in Seq(Cells) /\ at \in DOMAIN mh /\ mh[at] \in MapCells
    BY <2>7, <2>8, Domains, CellKinds DEF WellFormed
  <2>10. PICK cell : cell = [kind |-> "map", entries |-> [mh[at].entries EXCEPT ![ApiKey] = Secret]]
    OBVIOUS
  <2>11. cell \in Cells /\ cell.kind = "map"
    <3>1. PICK old : old = mh[at].entries OBVIOUS
    <3>2. old \in [Keys -> Values \cup {Absent}] BY <2>9, <3>1 DEF MapCells, Entries
    <3>3. [old EXCEPT ![ApiKey] = Secret] \in [Keys -> Values \cup {Absent}]
      BY <3>2, OptionsAssumption
    <3> QED BY <2>10, <3>1, <3>3 DEF Cells, MapCells, Entries
  <2>12. [mh[at] EXCEPT !.entries[ApiKey] = Secret] = cell BY <2>9, <2>10 DEF MapCells
  <2>13. new.heap = [mh EXCEPT ![at] = cell] /\ new.at = at
    <3>1. new.heap = [mh EXCEPT ![at].entries[ApiKey] = Secret] /\ new.at = at
      BY <2>6, <2>7, <2>8
    <3> QED BY <2>12, <3>1
  <2>14. LET n == [mh EXCEPT ![at] = cell]
         IN /\ WellFormed(n) /\ Len(n) = Len(mh) /\ DOMAIN n = DOMAIN mh
            /\ n[at] = cell /\ \A b \in DOMAIN mh \ {at} : n[b] = mh[b]
    BY <2>7, <2>8, <2>9, <2>11, RewrittenCell
  <2>15. DOMAIN h \subseteq DOMAIN mh
    <3>1. Len(mh) \in Nat /\ DOMAIN mh = 1..Len(mh) BY <2>9
    <3> QED BY <1>1, <2>7, <2>8, <3>1
  <2> QED BY <2>7, <2>8, <2>9, <2>11, <2>13, <2>14, <2>15
<1> QED BY <1>2, <1>3

LEMMA InitProvidersInv ==
  ASSUME IInv, InitProviders
  PROVE  IInv' /\ MeaningsStay
<1>1. PICK r \in results :
        LET headers == TraceHeaders(heap, r.opts.preset)
            kept == [compat |-> r.opts.compat, capture |-> r.opts.capture,
                     headers |-> headers.at]
        IN  /\ heap' = headers.heap
            /\ live' = live \cup {[kept |-> kept, meant |-> Settings(headers.heap, kept)]}
  BY DEF InitProviders
<1>2. PICK headers : headers = TraceHeaders(heap, r.opts.preset) OBVIOUS
<1>3. PICK kept : kept = [compat |-> r.opts.compat, capture |-> r.opts.capture,
                          headers |-> headers.at]
  OBVIOUS
<1>4. PICK l : l = [kept |-> kept, meant |-> Settings(headers.heap, kept)] OBVIOUS
<1>5. /\ heap' = headers.heap /\ live' = live \cup {l}
      /\ call' = call /\ results' = results /\ calls' = calls
  BY <1>1, <1>2, <1>3, <1>4 DEF InitProviders
<1>6. /\ WellFormed(heap) /\ WellFormedOptions(heap, r.opts)
      /\ heap \in Seq(Cells) /\ Nil \notin DOMAIN heap
      /\ Len(heap) \in Nat /\ DOMAIN heap = 1..Len(heap)
  BY Domains DEF IInv, TypeOK, WellFormed
<1>7. /\ WellFormed(headers.heap) /\ Len(heap) <= Len(headers.heap)
      /\ \A b \in DOMAIN heap : headers.heap[b] = heap[b]
      /\ \/ headers.at = Nil
         \/ headers.at \in DOMAIN headers.heap \ DOMAIN heap
              /\ headers.heap[headers.at].kind = "map"
  <2>1. Points(heap, r.opts.preset, "preset") BY <1>6 DEF WellFormedOptions
  <2> QED BY <1>2, <1>6, <2>1, HeadersFacts
<1>8. /\ WellFormed(heap') /\ Len(heap) <= Len(heap')
      /\ \A b \in DOMAIN heap : heap'[b] = heap[b]
      /\ headers.at = Nil \/ (headers.at \in DOMAIN heap' \ DOMAIN heap
                                /\ heap'[headers.at].kind = "map")
  BY <1>5, <1>7
<1>9. /\ InvCaller'
      /\ \A s \in results :
           /\ WellFormedOptions(heap', s.opts)
           /\ Reach(heap', s.opts) = Reach(heap, s.opts)
           /\ Meaning(heap', s.opts) = Meaning(heap, s.opts)
      /\ \A q \in Procs :
           /\ WellFormedOptions(heap', call[q].opts)
           /\ Reach(heap', call[q].opts) = Reach(heap, call[q].opts)
      /\ \A k \in live :
           /\ Points(heap', k.kept.compat, "compat")
           /\ Points(heap', k.kept.capture, "capture")
           /\ Points(heap', k.kept.headers, "map")
           /\ Held(heap', k.kept) = Held(heap, k.kept)
           /\ Settings(heap', k.kept) = Settings(heap, k.kept)
  <2>1. PICK W : W = {} OBVIOUS
  <2> QED BY <1>8, <2>1, Frame
<1>10. /\ l.kept = kept /\ l.meant = Settings(headers.heap, kept)
       /\ kept.compat = r.opts.compat /\ kept.capture = r.opts.capture
       /\ kept.headers = headers.at
  BY <1>3, <1>4
<1>11. \A q \in Procs : call[q].cur # Nil =>
         call[q].cur \in DOMAIN heap /\ heap'[call[q].cur] = heap[call[q].cur]
  BY <1>8 DEF IInv, TypeOK
<1>12. \A q \in Procs : Own(q)' = Own(q) BY <1>5, <1>11 DEF Own
<1>13. /\ Points(heap', kept.compat, "compat") /\ Points(heap', kept.capture, "capture")
       /\ Points(heap', kept.headers, "map")
  <2>1. WellFormedOptions(heap', r.opts) BY <1>9
  <2> QED BY <1>8, <1>10, <2>1 DEF WellFormedOptions, Points
<1>14. TypeOK'
  <2>1. DOMAIN heap \subseteq DOMAIN heap'
    BY <1>6, <1>8, Domains DEF WellFormed
  <2>2. \A q \in Procs :
          /\ WellFormedOptions(heap', call'[q].opts)
          /\ call'[q].running \in BOOLEAN
          /\ call'[q].cur \in DOMAIN heap' \cup {Nil}
    BY <1>5, <1>9, <2>1 DEF IInv, TypeOK
  <2>3. calls' \in 0..MaxCalls BY <1>5 DEF IInv, TypeOK
  <2>4. \A s \in results' : WellFormedOptions(heap', s.opts) BY <1>5, <1>9
  <2>5. \A k \in live' :
          /\ Points(heap', k.kept.compat, "compat")
          /\ Points(heap', k.kept.capture, "capture")
          /\ Points(heap', k.kept.headers, "map")
    BY <1>5, <1>9, <1>10, <1>13
  <2> QED BY <1>8, <2>2, <2>3, <2>4, <2>5 DEF TypeOK
<1>15. InvCalls' BY <1>5, <1>11 DEF IInv, InvCalls
<1>16. /\ Reach(heap, r.opts) \subseteq DOMAIN heap \cup {Nil}
       /\ \A q \in Procs : Own(q) \subseteq DOMAIN heap
  BY Inside
<1>17. Held(heap', kept) \subseteq Reach(heap, r.opts) \cup {headers.at}
  <2>1. Reach(heap', r.opts) = Reach(heap, r.opts) BY <1>9
  <2>2. Held(heap', kept) \subseteq Reach(heap', r.opts) \cup {headers.at}
    BY <1>10 DEF Held, Reach
  <2> QED BY <2>1, <2>2
<1>18. NobodyElseReaches'
  <2> SUFFICES ASSUME NEW p \in Procs, NEW a \in Own(p)'
      PROVE  /\ a > Len(CallerHeap)
             /\ \A s \in results' : a \notin Reach(heap', s.opts)
             /\ \A q \in Procs : a \notin Reach(heap', call'[q].opts)
             /\ \A q \in Procs : q # p => a \notin Own(q)'
             /\ \A k \in live' : a \notin Held(heap', k.kept)
    BY DEF NobodyElseReaches
  <2>1. a \in Own(p) /\ a \in DOMAIN heap BY <1>12, <1>16
  <2>2. a # headers.at BY <1>6, <1>8, <2>1
  <2>3. a \notin Held(heap', kept) BY <1>17, <2>1, <2>2 DEF IInv, NobodyElseReaches
  <2>4. \A k \in live' : a \notin Held(heap', k.kept)
    BY <1>5, <1>9, <1>10, <2>1, <2>3 DEF IInv, NobodyElseReaches
  <2> QED BY <1>5, <1>9, <1>12, <2>1, <2>4 DEF IInv, NobodyElseReaches
<1>19. ProvidersKeepSettings'
  BY <1>5, <1>9, <1>10 DEF IInv, ProvidersKeepSettings
<1>20. MeaningsStay BY <1>9 DEF MeaningsStay
<1> QED BY <1>9, <1>14, <1>15, <1>18, <1>19, <1>20 DEF IInv

\* All steps together, and stuttering.
LEMMA NextInv ==
  ASSUME IInv, [Next]_vars
  PROVE  IInv' /\ MeaningsStay
<1>1. ASSUME NEW p \in Procs, Step(p)
      PROVE  IInv' /\ MeaningsStay
  <2>1. CASE ApplyOptions(p) BY <2>1, ApplyOptionsInv
  <2>2. CASE SkipNil(p) BY <2>2, SkipNilInv
  <2>3. CASE OpenPreset(p) BY <2>3, OpenInv DEF OpenPreset
  <2>4. CASE PresetOption(p) BY <2>4, RefineInv DEF PresetOption
  <2>5. CASE ClosePreset(p) BY <2>5, CloseInv DEF ClosePreset
  <2>6. CASE OpenCompat(p) BY <2>6, OpenInv DEF OpenCompat
  <2>7. CASE MergeCompat(p) BY <2>7, RefineInv DEF MergeCompat
  <2>8. CASE CloseCompat(p) BY <2>8, CloseInv DEF CloseCompat
  <2>9. CASE PayloadCapture(p) BY <2>9, PayloadCaptureInv
  <2>10. CASE DevSink(p) BY <2>10, DevSinkInv
  <2>11. CASE Return(p) BY <2>11, ReturnInv
  <2> QED
    BY <1>1, <2>1, <2>2, <2>3, <2>4, <2>5, <2>6, <2>7, <2>8, <2>9, <2>10, <2>11 DEF Step
<1>2. CASE InitProviders BY <1>2, InitProvidersInv
<1>3. CASE UNCHANGED vars
  <2>1. heap' = heap /\ call' = call /\ results' = results /\ live' = live /\ calls' = calls
    BY <1>3 DEF vars
  <2>2. \A p \in Procs : Own(p)' = Own(p) BY <2>1 DEF Own
  <2>3. MeaningsStay BY <2>1 DEF MeaningsStay
  <2>4. TypeOK' /\ InvCalls' /\ InvCaller' /\ ProvidersKeepSettings'
    BY <2>1 DEF IInv, TypeOK, InvCalls, InvCaller, ProvidersKeepSettings
  <2>5. NobodyElseReaches' BY <2>1, <2>2 DEF IInv, NobodyElseReaches
  <2> QED BY <2>3, <2>4, <2>5 DEF IInv
<1> QED BY <1>1, <1>2, <1>3 DEF Next

-----------------------------------------------------------------------------
(***************************************************************************)
(* What a call is going to return, while it runs.                          *)
(***************************************************************************)

\* What the options of the call mean so far, with what is still to be said of the
\* struct at work, and the options that are left after it.
Now(p, kind) ==
  IF call[p].cur # Nil /\ heap[call[p].cur].kind = kind
    THEN Built(kind, Read(heap, call[p].cur), TextOf(call[p].subs),
               [k \in Keys |-> ValueOf(call[p].subs, k)])
    ELSE Read(heap, call[p].opts[kind])
Left(p) == IF call[p].cur = Nil THEN call[p].todo ELSE Tail(call[p].todo)

\* What the call is meant to return is what the rest makes of that.
Keeps(p) ==
  /\ call[p].meant = [kind \in Kinds |-> MeantOf(kind, Now(p, kind), Left(p))]
  /\ call[p].cur # Nil /\ heap[call[p].cur].kind = "preset" =>
       heap[call[p].cur].enabled = TRUE

\* A call that runs is on its way to what it was meant to return when it began.
InvMeant == \A p \in Procs : call[p].running => Keeps(p)

MInv == IInv /\ InvMeant /\ MeansWhatWasAsked

\* Options that mean the same are read the same.
LEMMA SameRead ==
  ASSUME NEW h, NEW h2, NEW o, NEW o2, Meaning(h, o) = Meaning(h2, o2), NEW kind \in Kinds
  PROVE  Read(h, o[kind]) = Read(h2, o2[kind])
<1>1. Meaning(h, o)[kind] = Meaning(h2, o2)[kind] OBVIOUS
<1> QED BY <1>1 DEF Meaning

\* A call stays on its way if what is left makes the same of what there is.
LEMMA KeepsOn ==
  ASSUME NEW p \in Procs, Keeps(p), call'[p].meant = call[p].meant,
         \A kind \in Kinds :
           MeantOf(kind, Now(p, kind)', Left(p)') = MeantOf(kind, Now(p, kind), Left(p)),
         call'[p].cur # Nil /\ heap'[call'[p].cur].kind = "preset" =>
           heap'[call'[p].cur].enabled = TRUE
  PROVE  Keeps(p)'
BY DEF Keeps

\* Who writes to what a call owns, or to nothing, leaves what the options of every
\* call are read as.
LEMMA OptsKept ==
  ASSUME IInv, WellFormed(heap'), Len(heap) <= Len(heap'),
         NEW W, W = {} \/ \E p \in Procs : W = Own(p),
         \A a \in DOMAIN heap \ W : heap'[a] = heap[a],
         NEW q \in Procs
  PROVE  \A kind \in Kinds :
           Read(heap', call[q].opts[kind]) = Read(heap, call[q].opts[kind])
<1>1. Meaning(heap', call[q].opts) = Meaning(heap, call[q].opts) BY Frame
<1>2. PICK h, h2, o : h = heap /\ h2 = heap' /\ o = call[q].opts OBVIOUS
<1>3. Meaning(h2, o) = Meaning(h, o) BY <1>1, <1>2
<1>4. \A kind \in Kinds : Read(h2, o[kind]) = Read(h, o[kind]) BY <1>3, SameRead
<1> QED BY <1>2, <1>4

\* It leaves a call on its way that owns none of it and does not move.
LEMMA KeepsStill ==
  ASSUME IInv, WellFormed(heap'), Len(heap) <= Len(heap'),
         NEW W, W = {} \/ \E p \in Procs : W = Own(p),
         \A a \in DOMAIN heap \ W : heap'[a] = heap[a],
         NEW q \in Procs, \A a \in Own(q) : a \notin W,
         call'[q] = call[q], Keeps(q)
  PROVE  Keeps(q)'
<1>1. \A kind \in Kinds : Read(heap', call[q].opts[kind]) = Read(heap, call[q].opts[kind])
  BY OptsKept
<1>2. CASE call[q].cur = Nil
  <2>1. \A kind \in Kinds : Now(q, kind)' = Now(q, kind) BY <1>1, <1>2 DEF Now
  <2>2. Left(q)' = Left(q) BY DEF Left
  <2> QED BY <1>2, <2>1, <2>2, KeepsOn
<1>3. CASE call[q].cur # Nil
  <2>1. PICK cur : cur = call[q].cur OBVIOUS
  <2>2. cur \in DOMAIN heap /\ heap[cur].kind \in {"preset", "compat"}
    BY <1>3, <2>1 DEF IInv, TypeOK, InvCalls
  <2>3. Points(heap, heap[cur].map, "map") BY <2>2 DEF IInv, TypeOK, WellFormed
  <2>4. heap'[cur] = heap[cur]
    <3>1. cur \in Own(q) BY <1>3, <2>1 DEF Own
    <3> QED BY <2>2, <3>1
  <2>5. EntriesAt(heap', heap[cur].map) = EntriesAt(heap, heap[cur].map)
    <3>1. CASE heap[cur].map = Nil BY <3>1 DEF EntriesAt
    <3>2. CASE heap[cur].map # Nil
      <4>1. heap[cur].map \in Own(q) BY <1>3, <2>1, <3>2 DEF Own
      <4>2. heap[cur].map \in DOMAIN heap BY <2>3, <3>2 DEF Points
      <4> QED BY <3>2, <4>1, <4>2 DEF EntriesAt
    <3> QED BY <3>1, <3>2
  <2>6. Read(heap', cur) = Read(heap, cur) BY <2>4, <2>5 DEF Read
  <2>7. \A kind \in Kinds : Now(q, kind)' = Now(q, kind)
    BY <1>1, <2>1, <2>4, <2>6 DEF Now
  <2>8. Left(q)' = Left(q) BY DEF Left
  <2>9. heap'[call'[q].cur].kind = "preset" => heap'[call'[q].cur].enabled = TRUE
    BY <1>3, <2>1, <2>4 DEF Keeps
  <2> QED BY <2>7, <2>8, <2>9, KeepsOn
<1> QED BY <1>2, <1>3

\* For the call that writes: its own options are not what it writes to.
LEMMA OptsRead ==
  ASSUME IInv, NEW p \in Procs, WellFormed(heap'), Len(heap) <= Len(heap'),
         \A a \in DOMAIN heap \ Own(p) : heap'[a] = heap[a]
  PROVE  \A kind \in Kinds :
           Read(heap', call[p].opts[kind]) = Read(heap, call[p].opts[kind])
<1>1. PICK W : W = Own(p) OBVIOUS
<1> QED BY <1>1, OptsKept

\* The step of a call leaves the others on their way.
LEMMA OthersKeep ==
  ASSUME IInv, InvMeant, NEW p \in Procs, WellFormed(heap'), Len(heap) <= Len(heap'),
         \A a \in DOMAIN heap \ Own(p) : heap'[a] = heap[a],
         \A q \in Procs \ {p} : call'[q] = call[q],
         call'[p].running => Keeps(p)'
  PROVE  InvMeant'
<1>1. ASSUME NEW q \in Procs, q # p, call[q].running
      PROVE  Keeps(q)'
  <2>1. call'[q] = call[q] /\ Keeps(q) BY <1>1 DEF InvMeant
  <2>2. PICK W : W = Own(p) OBVIOUS
  <2>3. \A a \in Own(q) : a \notin W BY <1>1, <2>2 DEF IInv, NobodyElseReaches
  <2> QED BY <2>1, <2>2, <2>3, KeepsStill
<1> QED BY <1>1 DEF InvMeant

\* Each step keeps the calls on their way: a call begins with all that is meant,
LEMMA ApplyOptionsMeant ==
  ASSUME MInv, NEW p \in Procs, ApplyOptions(p)
  PROVE  InvMeant'
<1>1. PICK r \in results, list \in OptionLists :
        call' = [call EXCEPT ![p] = [NoCall EXCEPT
                   !.running = TRUE, !.opts = r.opts, !.todo = list,
                   !.meant = Meant(Meaning(heap, r.opts), list)]]
  BY DEF ApplyOptions
<1>2. call'[p] = [NoCall EXCEPT !.running = TRUE, !.opts = r.opts, !.todo = list,
                    !.meant = Meant(Meaning(heap, r.opts), list)]
  BY <1>1 DEF MInv, IInv, InvCalls
<1>3. /\ call'[p].opts = r.opts /\ call'[p].todo = list /\ call'[p].cur = Nil
      /\ call'[p].meant = Meant(Meaning(heap, r.opts), list)
  BY <1>2 DEF NoCall
<1>4. heap' = heap /\ WellFormed(heap) /\ Len(heap) \in Nat
  BY Domains DEF ApplyOptions, MInv, IInv, TypeOK, WellFormed
<1>5. \A kind \in Kinds : Now(p, kind)' = Meaning(heap, r.opts)[kind]
  BY <1>3, <1>4 DEF Now, Meaning
<1>6. Left(p)' = list BY <1>3 DEF Left
<1>7. Keeps(p)' BY <1>3, <1>5, <1>6 DEF Keeps, Meant
<1>8. \A q \in Procs \ {p} : call'[q] = call[q] BY <1>1 DEF MInv, IInv, InvCalls
<1> QED BY <1>4, <1>7, <1>8, OthersKeep DEF MInv

\* a nil option says nothing,
LEMMA SkipNilMeant ==
  ASSUME MInv, NEW p \in Procs, SkipNil(p)
  PROVE  InvMeant'
<1> USE DEF MInv
<1>1. call'[p] = Done(p, call[p].opts) /\ \A q \in Procs \ {p} : call'[q] = call[q]
  BY DEF SkipNil, IInv, InvCalls
<1>2. /\ heap' = heap /\ WellFormed(heap) /\ Len(heap) \in Nat
      /\ call[p].cur = Nil /\ call[p].todo # <<>> /\ Head(call[p].todo) = Nil
  BY Domains DEF SkipNil, IInv, TypeOK, WellFormed
<1>3. /\ call'[p].running = call[p].running /\ call'[p].opts = call[p].opts
      /\ call'[p].todo = Tail(call[p].todo) /\ call'[p].cur = Nil
      /\ call'[p].meant = call[p].meant
  BY <1>1 DEF Done, IInv, InvCalls
<1>4. \A kind \in Kinds : Now(p, kind)' = Now(p, kind) BY <1>2, <1>3 DEF Now
<1>5. Left(p)' = Tail(call[p].todo) /\ Left(p) = call[p].todo BY <1>2, <1>3 DEF Left
<1>6. call[p].todo \in Seq(OptionTypes \cup {Nil}) BY DEF IInv, InvCalls
<1>7. ASSUME NEW kind \in Kinds
      PROVE  MeantOf(kind, Now(p, kind)', Left(p)') = MeantOf(kind, Now(p, kind), Left(p))
  <2>1. PICK todo, now : todo = call[p].todo /\ now = Now(p, kind) OBVIOUS
  <2>2. ~IsA(Head(todo), kind) BY <1>2, <2>1 DEF IsA
  <2>3. MeantOf(kind, now, todo) = MeantOf(kind, now, Tail(todo))
    BY <1>2, <1>6, <2>1, <2>2, MeantOther
  <2> QED BY <1>4, <1>5, <2>1, <2>3
<1>8. call[p].running => Keeps(p)' BY <1>3, <1>7, KeepsOn DEF InvMeant
<1> QED BY <1>1, <1>2, <1>3, <1>8, OthersKeep

\* the struct at work becomes that of the options,
LEMMA CloseMeant ==
  ASSUME MInv, NEW p \in Procs, NEW kind \in {"preset", "compat"}, Close(p, kind)
  PROVE  InvMeant'
<1> USE DEF MInv
<1> DEFINE opts == [call[p].opts EXCEPT ![kind] = call[p].cur]
<1>1. call'[p] = Done(p, opts) /\ \A q \in Procs \ {p} : call'[q] = call[q]
  BY DEF Close, IInv, InvCalls
<1>2. /\ heap' = heap /\ WellFormed(heap) /\ Len(heap) \in Nat
      /\ call[p].cur # Nil /\ heap[call[p].cur].kind = kind /\ call[p].subs = <<>>
      /\ call[p].cur \in DOMAIN heap
  BY Domains DEF Close, InCall, IInv, TypeOK, WellFormed
<1>3. /\ call'[p].running = call[p].running /\ call'[p].opts = opts
      /\ call'[p].todo = Tail(call[p].todo) /\ call'[p].cur = Nil
      /\ call'[p].meant = call[p].meant
  BY <1>1 DEF Done, IInv, InvCalls
<1>4. opts[kind] = call[p].cur /\ \A k \in Kinds \ {kind} : opts[k] = call[p].opts[k]
  BY DEF IInv, TypeOK, WellFormedOptions
<1> HIDE DEF opts
<1>5. Left(p)' = Left(p) BY <1>2, <1>3 DEF Left
<1>6. ASSUME call[p].running
      PROVE  Keeps(p)'
  <2>1. Keeps(p) BY <1>6 DEF InvMeant
  <2>2. \A k \in Kinds \ {kind} : Now(p, k)' = Now(p, k) BY <1>2, <1>3, <1>4 DEF Now
  <2>3. Now(p, kind)' = Now(p, kind)
    <3>1. PICK cur : cur = call[p].cur OBVIOUS
    <3>2. kind = "preset" => heap[cur].enabled = TRUE BY <1>2, <2>1, <3>1 DEF Keeps
    <3>3. TextOf(call[p].subs) = {} BY <1>2, LastEmpty DEF TextOf
    <3>4. [k \in Keys |-> ValueOf(call[p].subs, k)] = [k \in Keys |-> {}]
      BY <1>2, LastEmpty DEF ValueOf
    <3>5. Built(kind, Read(heap, cur), {}, [k \in Keys |-> {}]) = Read(heap, cur)
      BY <1>2, <3>1, <3>2, ReadSame
    <3>6. Now(p, kind) = Read(heap, cur) BY <1>2, <3>1, <3>3, <3>4, <3>5 DEF Now
    <3> QED BY <1>2, <1>3, <1>4, <3>1, <3>6 DEF Now
  <2>4. \A k \in Kinds : Now(p, k)' = Now(p, k) BY <2>2, <2>3
  <2> QED BY <1>3, <1>5, <2>1, <2>4, KeepsOn
<1> QED BY <1>1, <1>2, <1>3, <1>6, OthersKeep

\* a struct is made anew,
LEMMA FreshMeant ==
  ASSUME MInv, NEW p \in Procs, NEW kind \in {"capture", "dev"}, NEW cell \in Cells,
         cell.kind = kind, Begins(p, kind), {cell} = Made(Head(call[p].todo), kind),
         Fresh(p, kind, cell)
  PROVE  InvMeant'
<1> USE DEF MInv
<1> DEFINE opts == [call[p].opts EXCEPT ![kind] = Len(heap) + 1]
<1>1. call'[p] = Done(p, opts) /\ \A q \in Procs \ {p} : call'[q] = call[q]
  BY DEF Fresh, IInv, InvCalls
<1>2. /\ WellFormed(heap) /\ Len(heap) \in Nat /\ DOMAIN heap = 1..Len(heap)
      /\ call[p].todo # <<>> /\ call[p].cur = Nil
      /\ IsA(Head(call[p].todo), kind)
  BY Domains DEF Begins, IsA, IInv, TypeOK, WellFormed
<1>3. /\ WellFormed(heap') /\ Len(heap') = Len(heap) + 1
      /\ DOMAIN heap' = 1..(Len(heap) + 1)
      /\ \A a \in DOMAIN heap : heap'[a] = heap[a]
      /\ heap'[Len(heap) + 1] = cell
  <2>1. heap' = Append(heap, cell) BY DEF Fresh
  <2> QED BY <1>2, <2>1, NewCell
<1>4. /\ call'[p].running = call[p].running /\ call'[p].opts = opts
      /\ call'[p].todo = Tail(call[p].todo) /\ call'[p].cur = Nil
      /\ call'[p].meant = call[p].meant
  BY <1>1 DEF Done, IInv, InvCalls
<1>5. opts[kind] = Len(heap) + 1 /\ \A k \in Kinds \ {kind} : opts[k] = call[p].opts[k]
  BY DEF IInv, TypeOK, WellFormedOptions
<1> HIDE DEF opts
<1>6. Left(p)' = Tail(call[p].todo) /\ Left(p) = call[p].todo BY <1>2, <1>4 DEF Left
<1>7. call[p].todo \in Seq(OptionTypes \cup {Nil}) BY DEF IInv, InvCalls
<1>8. Len(heap) <= Len(heap') BY <1>2, <1>3
<1>9. \A k \in Kinds \ {kind} : Now(p, k)' = Now(p, k)
  BY <1>2, <1>3, <1>4, <1>5, <1>8, OptsRead DEF Now
<1>10. Now(p, kind)' = Made(Head(call[p].todo), kind)
  <2>1. Nil \notin DOMAIN heap' BY <1>3, Domains DEF WellFormed
  <2>2. Len(heap) + 1 # Nil BY <1>2, <1>3, <2>1
  <2>3. Read(heap', Len(heap) + 1) = {cell} BY <1>3, <2>2 DEF Read
  <2> QED BY <1>4, <1>5, <2>3 DEF Now
<1>11. ASSUME NEW k \in Kinds
       PROVE  MeantOf(k, Now(p, k)', Left(p)') = MeantOf(k, Now(p, k), Left(p))
  <2>1. PICK todo, now : todo = call[p].todo /\ now = Now(p, k) OBVIOUS
  <2>2. CASE k = kind
    <3>1. MeantOf(kind, now, todo) = MeantOf(kind, Made(Head(todo), kind), Tail(todo))
      BY <1>2, <1>7, <2>1, MeantMade
    <3> QED BY <1>6, <1>10, <2>1, <2>2, <3>1
  <2>3. CASE k # kind
    <3>1. ~IsA(Head(todo), k) BY <1>2, <2>1, <2>3 DEF IsA
    <3>2. MeantOf(k, now, todo) = MeantOf(k, now, Tail(todo))
      BY <1>2, <1>7, <2>1, <3>1, MeantOther
    <3> QED BY <1>6, <1>9, <2>1, <2>3, <3>2
  <2> QED BY <2>2, <2>3
<1>12. call[p].running => Keeps(p)' BY <1>4, <1>11, KeepsOn DEF InvMeant
<1> QED BY <1>1, <1>3, <1>4, <1>8, <1>12, OthersKeep

\* for payload capture,
LEMMA PayloadCaptureMeant ==
  ASSUME MInv, NEW p \in Procs, PayloadCapture(p)
  PROVE  InvMeant'
<1>1. Begins(p, "capture") BY DEF PayloadCapture
<1>2. PICK o : o = Head(call[p].todo) OBVIOUS
<1>3. o \in OptionTypes /\ o.kind = "capture" /\ o # Nil
  BY <1>1, <1>2 DEF Begins, MInv, IInv, InvCalls
<1>4. /\ o.redactor \in Redactors \cup {Nil} /\ o.mode \in {"drop", "returnError"}
      /\ o.resets = {} \/ \E r \in Redactors \cup {Nil} : o.resets = {r}
  BY <1>3 DEF OptionTypes, Resets
<1>5. PICK cell : cell = [kind |-> "capture", mode |-> o.mode,
                          redactor |-> The(o.resets, Redactor(o.redactor))]
  OBVIOUS
<1>6. cell \in Cells /\ cell.kind = "capture"
  <2>1. Redactor(o.redactor) \in Redactors BY <1>4, OptionsAssumption DEF Redactor
  <2>2. The(o.resets, Redactor(o.redactor)) \in Redactors \cup {Nil}
    BY <1>4, <2>1 DEF The
  <2> QED BY <1>4, <1>5, <2>2 DEF Cells, CaptureCells
<1>7. {cell} = Made(o, "capture") BY <1>3, <1>5 DEF Made, IsA, Redactor
<1>8. Fresh(p, "capture", cell) BY <1>2, <1>5 DEF PayloadCapture
<1> QED BY <1>1, <1>2, <1>6, <1>7, <1>8, FreshMeant

\* and for the dev sink,
LEMMA DevSinkMeant ==
  ASSUME MInv, NEW p \in Procs, DevSink(p)
  PROVE  InvMeant'
<1>1. Begins(p, "dev") BY DEF DevSink
<1>2. PICK o : o = Head(call[p].todo) OBVIOUS
<1>3. o \in OptionTypes /\ o.kind = "dev" /\ o # Nil
  BY <1>1, <1>2 DEF Begins, MInv, IInv, InvCalls
<1>4. o.text \in Texts BY <1>3 DEF OptionTypes
<1>5. PICK cell : cell = [kind |-> "dev", text |-> o.text] OBVIOUS
<1>6. cell \in Cells /\ cell.kind = "dev" BY <1>4, <1>5 DEF Cells, DevCells
<1>7. {cell} = Made(o, "dev") BY <1>3, <1>5 DEF Made, IsA
<1>8. Fresh(p, "dev", cell) BY <1>2, <1>5 DEF DevSink
<1> QED BY <1>1, <1>2, <1>6, <1>7, <1>8, FreshMeant

\* a struct is opened with all of its suboptions still to say something,
LEMMA OpenMeant ==
  ASSUME MInv, NEW p \in Procs, NEW kind \in {"preset", "compat"}, Open(p, kind)
  PROVE  InvMeant'
<1> USE DEF MInv
<1>1. PICK made : made = Len(heap') OBVIOUS
<1>2. /\ WellFormed(heap') /\ Len(heap) <= Len(heap')
      /\ \A a \in DOMAIN heap : heap'[a] = heap[a]
      /\ made \in DOMAIN heap' \ DOMAIN heap
      /\ heap'[made].kind = kind
      /\ Alike(kind, Read(heap', made), Read(heap, call[p].opts[kind]))
      /\ kind = "preset" => heap'[made].enabled = TRUE
      /\ call'[p].cur = made
  BY <1>1, Opening
<1>3. /\ call[p].todo # <<>> /\ call[p].cur = Nil
      /\ IsA(Head(call[p].todo), kind)
  BY DEF Open, Begins, IsA
<1>4. /\ call'[p].running = call[p].running /\ call'[p].opts = call[p].opts
      /\ call'[p].todo = call[p].todo /\ call'[p].meant = call[p].meant
      /\ call'[p].subs = Head(call[p].todo).subs
  BY DEF Open, IInv, InvCalls
<1>5. \A q \in Procs \ {p} : call'[q] = call[q] BY DEF Open, IInv, InvCalls
<1>6. made # Nil BY <1>2, Domains DEF WellFormed
<1>7. Left(p)' = Tail(call[p].todo) /\ Left(p) = call[p].todo
  BY <1>2, <1>3, <1>4, <1>6 DEF Left
<1>8. call[p].todo \in Seq(OptionTypes \cup {Nil}) BY DEF IInv, InvCalls
<1>9. \A k \in Kinds : Read(heap', call[p].opts[k]) = Read(heap, call[p].opts[k])
  BY <1>2, OptsRead
<1>10. \A k \in Kinds \ {kind} : Now(p, k)' = Now(p, k)
  BY <1>2, <1>3, <1>4, <1>6, <1>9 DEF Now
<1>11. PICK todo, subs, value :
         /\ todo = call[p].todo /\ subs = Head(todo).subs
         /\ value = [k \in Keys |-> ValueOf(subs, k)]
  OBVIOUS
<1>12. Now(p, kind)' = Built(kind, Read(heap', made), TextOf(subs), value)
  BY <1>2, <1>4, <1>6, <1>11 DEF Now
<1>13. Now(p, kind) = Read(heap, call[p].opts[kind]) BY <1>3 DEF Now
<1>14. Now(p, kind)' = Built(kind, Now(p, kind), TextOf(subs), value)
  <2>1. PICK one, two : one = Read(heap', made) /\ two = Read(heap, call[p].opts[kind])
    OBVIOUS
  <2>2. Built(kind, one, TextOf(subs), value) = Built(kind, two, TextOf(subs), value)
    BY <1>2, <2>1 DEF Alike
  <2> QED BY <1>12, <1>13, <2>1, <2>2
<1>15. ASSUME NEW k \in Kinds
       PROVE  MeantOf(k, Now(p, k)', Left(p)') = MeantOf(k, Now(p, k), Left(p))
  <2>1. PICK now : now = Now(p, k) OBVIOUS
  <2>2. CASE k = kind
    <3>1. MeantOf(kind, now, todo)
            = MeantOf(kind, Built(kind, now, TextOf(subs), value), Tail(todo))
      BY <1>3, <1>8, <1>11, MeantBuilt
    <3> QED BY <1>7, <1>11, <1>14, <2>1, <2>2, <3>1
  <2>3. CASE k # kind
    <3>1. ~IsA(Head(todo), k) BY <1>3, <1>11, <2>3 DEF IsA
    <3>2. MeantOf(k, now, todo) = MeantOf(k, now, Tail(todo))
      BY <1>3, <1>8, <1>11, <3>1, MeantOther
    <3> QED BY <1>7, <1>10, <1>11, <2>1, <2>3, <3>2
  <2> QED BY <2>2, <2>3
<1>16. call[p].running => Keeps(p)' BY <1>2, <1>4, <1>15, KeepsOn DEF InvMeant
<1> QED BY <1>2, <1>4, <1>5, <1>16, OthersKeep

\* one of them says it,
LEMMA RefineMeant ==
  ASSUME MInv, NEW p \in Procs, NEW kind \in {"preset", "compat"}, Refine(p, kind)
  PROVE  InvMeant'
<1> USE DEF MInv
<1>1. PICK cur, m, sub, subs : /\ cur = call[p].cur /\ m = heap[cur].map
                               /\ subs = call[p].subs /\ sub = Head(subs)
  OBVIOUS
<1>2. /\ cur \in DOMAIN heap /\ heap[cur].kind = kind
      /\ WellFormed(heap') /\ Len(heap) <= Len(heap')
      /\ \A a \in DOMAIN heap \ Own(p) : heap'[a] = heap[a]
      /\ cur \in DOMAIN heap' /\ heap'[cur].kind = kind
      /\ sub \in SubOptions \cup {Nil}
      /\ kind = "preset" => heap'[cur].enabled = heap[cur].enabled
      /\ heap'[cur].text = IF sub # Nil /\ sub.sets THEN sub.text ELSE heap[cur].text
      /\ EntriesAt(heap', heap'[cur].map)
           = IF sub = Nil THEN EntriesAt(heap, m)
             ELSE Overlay(EntriesAt(heap, m), EntriesAt(CallerHeap, sub.map))
  BY <1>1, Refining
<1>3. cur # Nil /\ subs # <<>> /\ subs \in Seq(SubOptions \cup {Nil})
  BY <1>1 DEF Refine, InCall, IInv, InvCalls
<1>4. /\ call'[p].running = call[p].running /\ call'[p].opts = call[p].opts
      /\ call'[p].todo = call[p].todo /\ call'[p].meant = call[p].meant
      /\ call'[p].cur = cur /\ call'[p].subs = Tail(subs)
  BY <1>1 DEF Refine, IInv, InvCalls
<1>5. \A q \in Procs \ {p} : call'[q] = call[q] BY DEF Refine, IInv, InvCalls
<1>6. Left(p)' = Left(p) BY <1>1, <1>4 DEF Left
<1>7. \A k \in Kinds : Read(heap', call[p].opts[k]) = Read(heap, call[p].opts[k])
  BY <1>2, OptsRead
<1>8. \A k \in Kinds \ {kind} : Now(p, k)' = Now(p, k)
  BY <1>1, <1>2, <1>4, <1>7 DEF Now
<1>9. PICK text, value, rest, others :
        /\ text = TextSaid(sub) /\ value = [k \in Keys |-> ValueSaid(sub, k)]
        /\ rest = TextOf(Tail(subs)) /\ others = [k \in Keys |-> ValueOf(Tail(subs), k)]
  OBVIOUS
<1>10. Now(p, kind)' = Built(kind, Read(heap', cur), rest, others)
  BY <1>2, <1>3, <1>4, <1>9 DEF Now
<1>11. Now(p, kind) = Built(kind, Built(kind, Read(heap, cur), text, value), rest, others)
  <2>1. TextOf(subs) = Over(rest, text) BY <1>1, <1>3, <1>9, TextOfStep
  <2>2. [k \in Keys |-> ValueOf(subs, k)] = [k \in Keys |-> Over(others[k], value[k])]
    <3> SUFFICES ASSUME NEW k \in Keys
        PROVE  ValueOf(subs, k) = Over(others[k], value[k])
      OBVIOUS
    <3>1. ValueOf(subs, k) = Over(ValueOf(Tail(subs), k), ValueSaid(Head(subs), k))
      BY <1>3, ValueOfStep
    <3> QED BY <1>1, <1>9, <3>1
  <2>3. Now(p, kind) = Built(kind, Read(heap, cur), TextOf(subs),
                             [k \in Keys |-> ValueOf(subs, k)])
    BY <1>1, <1>2, <1>3 DEF Now
  <2>4. PICK read : read = Read(heap, cur) OBVIOUS
  <2>5. Built(kind, Built(kind, read, text, value), rest, others)
          = Built(kind, read, Over(rest, text), [k \in Keys |-> Over(others[k], value[k])])
    BY BuiltTwice
  <2> QED BY <2>1, <2>2, <2>3, <2>4, <2>5
<1>12. Built(kind, Read(heap', cur), rest, others)
         = Built(kind, Built(kind, Read(heap, cur), text, value), rest, others)
  <2>1. PICK h, h2 : h = heap /\ h2 = heap' OBVIOUS
  <2>2. /\ WellFormed(h) /\ WellFormed(h2) /\ cur \in DOMAIN h /\ cur \in DOMAIN h2
        /\ h[cur].kind \in {"preset", "compat"} /\ h2[cur].kind \in {"preset", "compat"}
        /\ m = h[cur].map
    BY <1>1, <1>2, <2>1 DEF IInv, TypeOK
  <2>3. PICK one : Read(h, cur) = {one} /\ one.text = h[cur].text
                   /\ one.map = EntriesAt(h, h[cur].map)
    BY <2>2, ReadStruct
  <2>4. PICK two : Read(h2, cur) = {two} /\ two.text = h2[cur].text
                   /\ two.map = EntriesAt(h2, h2[cur].map)
    BY <2>2, ReadStruct
  <2>5. PICK mid : Built(kind, {one}, text, value) = {mid}
    <3>1. PICK name, from : name = kind /\ from = {one} OBVIOUS
    <3>2. \E built : Built(name, from, text, value) = {built} BY DEF Built
    <3> QED BY <3>1, <3>2
  <2>6. /\ mid.text = The(text, one.text)
        /\ \A k \in Keys : mid.map[k] = The(value[k], one.map[k])
    BY <2>5, BuiltFields
  <2>7. two.text = mid.text
    <3>1. two.text = IF sub # Nil /\ sub.sets THEN sub.text ELSE one.text
      BY <1>2, <2>1, <2>3, <2>4
    <3>2. CASE sub # Nil /\ sub.sets
      <4>1. text = {sub.text} BY <1>9, <3>2 DEF TextSaid
      <4> QED BY <2>6, <3>1, <3>2, <4>1, TheOnly
    <3>3. CASE ~(sub # Nil /\ sub.sets)
      <4>1. text = {} BY <1>9, <3>3 DEF TextSaid
      <4> QED BY <2>6, <3>1, <3>3, <4>1 DEF The
    <3> QED BY <3>2, <3>3
  <2>8. ASSUME NEW k \in Keys
        PROVE  two.map[k] = mid.map[k]
    <3>1. value[k] = ValueSaid(sub, k) BY <1>9
    <3>2. CASE sub = Nil
      <4>1. two.map = one.map BY <1>2, <2>1, <2>2, <2>3, <2>4, <3>2
      <4>2. value[k] = {} BY <3>1, <3>2 DEF ValueSaid
      <4> QED BY <2>6, <4>1, <4>2 DEF The
    <3>3. CASE sub # Nil
      <4>1. PICK put : put = EntriesAt(CallerHeap, sub.map) OBVIOUS
      <4>2. two.map = Overlay(one.map, put) BY <1>2, <2>1, <2>2, <2>3, <2>4, <3>3, <4>1
      <4>3. two.map[k] = IF put[k] # Absent THEN put[k] ELSE one.map[k]
        BY <4>2 DEF Overlay
      <4>4. value[k] = {put[k]} \ {Absent} BY <3>1, <3>3, <4>1 DEF ValueSaid
      <4>5. CASE put[k] = Absent
        <5>1. value[k] = {} BY <4>4, <4>5
        <5> QED BY <2>6, <4>3, <4>5, <5>1 DEF The
      <4>6. CASE put[k] # Absent
        <5>1. value[k] = {put[k]} BY <4>4, <4>6
        <5>2. The({put[k]}, one.map[k]) = put[k] BY TheOnly
        <5> QED BY <2>6, <4>3, <4>6, <5>1, <5>2
      <4> QED BY <4>5, <4>6
    <3> QED BY <3>2, <3>3
  <2>9. Built(kind, {two}, rest, others) = Built(kind, {mid}, rest, others)
    BY <2>7, <2>8, BuiltFrom
  <2> QED BY <2>1, <2>3, <2>4, <2>5, <2>9
<1>13. \A k \in Kinds : Now(p, k)' = Now(p, k) BY <1>8, <1>10, <1>11, <1>12
<1>14. ASSUME call[p].running
       PROVE  Keeps(p)'
  <2>1. Keeps(p) BY <1>14 DEF InvMeant
  <2>2. heap'[cur].kind = "preset" => heap'[cur].enabled = TRUE
    BY <1>1, <1>2, <1>3, <2>1 DEF Keeps
  <2> QED BY <1>4, <1>6, <1>13, <2>1, <2>2, KeepsOn
<1> QED BY <1>2, <1>4, <1>5, <1>14, OthersKeep

\* What a call returns when no option is left is what it was meant to return.
LEMMA ReturnMeant ==
  ASSUME MInv, NEW p \in Procs, Return(p)
  PROVE  InvMeant' /\ Meaning(heap, call[p].opts) = call[p].meant
<1> USE DEF MInv
<1>1. /\ call[p].running /\ call[p].todo = <<>> /\ heap' = heap
      /\ call'[p] = NoCall /\ \A q \in Procs \ {p} : call'[q] = call[q]
  BY DEF Return, IInv, InvCalls
<1>2. call[p].cur = Nil BY <1>1 DEF IInv, InvCalls
<1>3. Left(p) = <<>> /\ \A kind \in Kinds : Now(p, kind) = Read(heap, call[p].opts[kind])
  BY <1>1, <1>2 DEF Left, Now
<1>4. ASSUME NEW kind \in Kinds
      PROVE  MeantOf(kind, Now(p, kind), Left(p)) = Read(heap, call[p].opts[kind])
  <2>1. PICK now, name : now = Now(p, kind) /\ name = kind OBVIOUS
  <2>2. MeantOf(name, now, <<>>) = now BY MeantNothing
  <2> QED BY <1>3, <2>1, <2>2
<1>5. call[p].meant = Meaning(heap, call[p].opts)
  <2>1. Keeps(p) BY <1>1 DEF InvMeant
  <2> QED BY <1>4, <2>1 DEF Keeps, Meaning
<1>6. ~call'[p].running BY <1>1 DEF NoCall
<1>7. WellFormed(heap') /\ Len(heap) <= Len(heap')
  BY <1>1, Domains DEF IInv, TypeOK, WellFormed
<1>8. InvMeant' BY <1>1, <1>6, <1>7, OthersKeep
<1> QED BY <1>5, <1>8

\* and Init writes to nobody's cells.
LEMMA InitProvidersMeant ==
  ASSUME MInv, InitProviders
  PROVE  InvMeant'
<1> USE DEF MInv
<1>1. PICK r \in results : heap' = TraceHeaders(heap, r.opts.preset).heap
  BY DEF InitProviders
<1>2. call' = call BY DEF InitProviders
<1>3. /\ WellFormed(heap') /\ Len(heap) <= Len(heap')
      /\ \A b \in DOMAIN heap : heap'[b] = heap[b]
  <2>1. WellFormed(heap) /\ Points(heap, r.opts.preset, "preset")
    BY DEF IInv, TypeOK, WellFormedOptions
  <2>2. PICK headers : headers = TraceHeaders(heap, r.opts.preset) OBVIOUS
  <2>3. /\ WellFormed(headers.heap) /\ Len(heap) <= Len(headers.heap)
        /\ \A b \in DOMAIN heap : headers.heap[b] = heap[b]
    BY <2>1, <2>2, HeadersFacts
  <2> QED BY <1>1, <2>2, <2>3
<1>4. PICK W : W = {} OBVIOUS
<1>5. ASSUME NEW q \in Procs, call[q].running
      PROVE  Keeps(q)'
  <2>1. Keeps(q) /\ call'[q] = call[q] BY <1>2, <1>5 DEF InvMeant
  <2>2. \A a \in Own(q) : a \notin W BY <1>4
  <2>3. \A a \in DOMAIN heap \ W : heap'[a] = heap[a] BY <1>3
  <2>4. W = {} \/ \E p \in Procs : W = Own(p) BY <1>4
  <2> QED BY <1>3, <2>1, <2>2, <2>3, <2>4, KeepsStill
<1> QED BY <1>2, <1>5 DEF InvMeant

\* Nor does a step of somebody else.
LEMMA StutterMeant ==
  ASSUME MInv, UNCHANGED vars
  PROVE  InvMeant'
<1>1. heap' = heap /\ call' = call BY DEF vars
<1>2. \A q \in Procs : Left(q)' = Left(q) /\ \A kind : Now(q, kind)' = Now(q, kind)
  BY <1>1 DEF Left, Now
<1> QED BY <1>1, <1>2 DEF MInv, InvMeant, Keeps

\* The start, and all steps together.
LEMMA InitMInv == Init => MInv
<1> SUFFICES ASSUME Init PROVE MInv OBVIOUS
<1>1. InvMeant BY DEF Init, InvMeant, NoCall
<1>2. ASSUME NEW r \in results
      PROVE  Meaning(heap, r.opts) = r.meant
  <2>1. PICK o \in CallerOptions : r = [opts |-> o, meant |-> Meaning(CallerHeap, o)]
    BY DEF Init
  <2>2. r.opts = o /\ r.meant = Meaning(CallerHeap, o) BY <2>1
  <2> QED BY <2>2 DEF Init
<1> QED BY <1>1, <1>2, InitInv DEF MInv, MeansWhatWasAsked

LEMMA NextMInv ==
  ASSUME MInv, [Next]_vars
  PROVE  MInv'
<1>1. IInv' /\ MeaningsStay BY NextInv DEF MInv
<1>2. InvMeant'
  <2>1. ASSUME NEW p \in Procs, Step(p)
        PROVE  InvMeant'
    <3>1. CASE ApplyOptions(p) BY <3>1, ApplyOptionsMeant
    <3>2. CASE SkipNil(p) BY <3>2, SkipNilMeant
    <3>3. CASE OpenPreset(p) BY <3>3, OpenMeant DEF OpenPreset
    <3>4. CASE PresetOption(p) BY <3>4, RefineMeant DEF PresetOption
    <3>5. CASE ClosePreset(p) BY <3>5, CloseMeant DEF ClosePreset
    <3>6. CASE OpenCompat(p) BY <3>6, OpenMeant DEF OpenCompat
    <3>7. CASE MergeCompat(p) BY <3>7, RefineMeant DEF MergeCompat
    <3>8. CASE CloseCompat(p) BY <3>8, CloseMeant DEF CloseCompat
    <3>9. CASE PayloadCapture(p) BY <3>9, PayloadCaptureMeant
    <3>10. CASE DevSink(p) BY <3>10, DevSinkMeant
    <3>11. CASE Return(p) BY <3>11, ReturnMeant
    <3> QED
      BY <2>1, <3>1, <3>2, <3>3, <3>4, <3>5, <3>6, <3>7, <3>8, <3>9, <3>10, <3>11 DEF Step
  <2>2. CASE InitProviders BY <2>2, InitProvidersMeant
  <2>3. CASE UNCHANGED vars BY <2>3, StutterMeant
  <2> QED BY <2>1, <2>2, <2>3 DEF Next
<1>3. \A r \in results : Meaning(heap', r.opts) = r.meant
  BY <1>1 DEF MeaningsStay, MInv, MeansWhatWasAsked
<1>4. MeansWhatWasAsked'
  <2>1. ASSUME NEW p \in Procs, Return(p)
        PROVE  MeansWhatWasAsked'
    <3>1. Meaning(heap, call[p].opts) = call[p].meant BY <2>1, ReturnMeant
    <3>2. /\ heap' = heap
          /\ results' = results \cup {[opts |-> call[p].opts, meant |-> call[p].meant]}
      BY <2>1 DEF Return
    <3> QED BY <1>3, <3>1, <3>2 DEF MeansWhatWasAsked
  <2>2. ASSUME results' = results
        PROVE  MeansWhatWasAsked'
    BY <1>3, <2>2 DEF MeansWhatWasAsked
  <2>3. ASSUME NEW p \in Procs, Step(p)
        PROVE  results' = results \/ Return(p)
    BY <2>3 DEF Step, ApplyOptions, SkipNil, OpenPreset, OpenCompat, Open, PresetOption,
      MergeCompat, Refine, ClosePreset, CloseCompat, Close, PayloadCapture, DevSink, Fresh
  <2>4. CASE InitProviders BY <2>2, <2>4 DEF InitProviders
  <2>5. CASE UNCHANGED vars BY <2>2, <2>5 DEF vars
  <2> QED BY <2>1, <2>2, <2>3, <2>4, <2>5 DEF Next
<1> QED BY <1>1, <1>2, <1>4 DEF MInv

-----------------------------------------------------------------------------
\* The inductive invariant: what a call is writing to is reached by nobody else.
THEOREM Invariance == Spec => []IInv
<1>1. IInv /\ [Next]_vars => IInv' BY NextInv
<1> QED BY InitInv, <1>1, PTL DEF Spec

\* Every pointer of the heap, of a call, of a result and of a running provider leads
\* to a cell of its kind (options.go:73-127, redact.go:48-61).
THEOREM TypeCorrect == Spec => []TypeOK
<1>1. IInv => TypeOK BY DEF IInv
<1> QED BY Invariance, <1>1, PTL

\* What a call is filling in is its own: no caller, result, provider or other call
\* reaches the struct or its map before the call has put it into its options
\* (options.go:86-96,115-126, openllmetry.go:50-58,127-134).
THEOREM CallsWriteTheirOwn == Spec => []NobodyElseReaches
<1>1. IInv => NobodyElseReaches BY DEF IInv
<1> QED BY Invariance, <1>1, PTL

\* Neither what the caller built nor what a running provider reads is changed by
\* options applied later, on however many goroutines (options.go:86-89,115-126,
\* openllmetry.go:50-53,127-134, exporters.go:79-80).
THEOREM OthersAreSafe == Spec => []OthersKeepTheirs
<1>1. ASSUME IInv PROVE CallersCellsUntouched
  <2>1. /\ heap \in Seq(Cells) /\ CallerHeap \in Seq(Cells)
        /\ Len(heap) \in Nat /\ Len(CallerHeap) \in Nat
    BY <1>1, OptionsAssumption, Domains DEF IInv, TypeOK, WellFormed
  <2>2. /\ Len(CallerHeap) <= Len(heap)
        /\ \A a \in 1..Len(CallerHeap) : heap[a] = CallerHeap[a]
    BY <1>1 DEF IInv, InvCaller
  <2>3. SubSeq(heap, 1, Len(CallerHeap)) = CallerHeap
    <3>1. PICK n : n = Len(CallerHeap) OBVIOUS
    <3>2. SubSeq(heap, 1, n) = [i \in 1..n |-> heap[i]] BY <2>1, <2>2, <3>1
    <3>3. CallerHeap = [i \in 1..n |-> CallerHeap[i]] BY <2>1, <3>1
    <3> QED BY <2>2, <3>1, <3>2, <3>3
  <2> QED BY <2>3 DEF CallersCellsUntouched
<1>2. IInv => OthersKeepTheirs BY <1>1 DEF IInv, OthersKeepTheirs
<1> QED BY Invariance, <1>2, PTL

\* No step, of any call or of Init, changes what a result means, even if the result is
\* the base of calls that are running (options.go:73-127, openllmetry.go:47-59,111-136).
THEOREM ResultsAreStable == Spec => [][MeaningsStay]_vars
<1>1. IInv /\ [Next]_vars => [MeaningsStay]_vars BY NextInv
<1> QED BY Invariance, <1>1, PTL DEF Spec

\* Whatever list of options is applied, to whatever base and beside whatever other
\* calls, the result means what the list says on top of the base, and goes on meaning
\* it: a list never loses, reorders or leaks what one of its options says
\* (options.go:73-127, openllmetry.go:47-59,111-136, redact.go:48-61).
THEOREM ResultsMeanWhatWasAsked == Spec => []MeansWhatWasAsked
<1>1. MInv /\ [Next]_vars => MInv' BY NextMInv
<1>2. MInv => MeansWhatWasAsked BY DEF MInv
<1> QED BY InitMInv, <1>1, <1>2, PTL DEF Spec
=============================================================================
