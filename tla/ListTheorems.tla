---------------------------- MODULE ListTheorems ----------------------------
(***************************************************************************)
(* Facts about the tables of the programs, which are sequences here: where *)
(* the entries of a kind stand, before and after one was added at the end  *)
(* or one was taken out and those behind it moved down.                    *)
(***************************************************************************)
EXTENDS SequencesExt, SequenceTheorems, FiniteSetTheorems, TLAPS

(* Where the elements of P stand in a list.                                *)
PlacesOf(list, P) == {i \in DOMAIN list : list[i] \in P}

(* One more at the end of a list, and one fewer.                           *)
LEMMA PlacesAfterAppend ==
  ASSUME NEW S, NEW list \in Seq(S), NEW e \in S, NEW P
  PROVE  LET new == Append(list, e) IN
         /\ new \in Seq(S)
         /\ PlacesOf(new, P) = PlacesOf(list, P) \cup (IF e \in P THEN {Len(list) + 1} ELSE {})
         /\ \A i \in DOMAIN list : i \in DOMAIN new /\ new[i] = list[i]
         /\ Len(list) + 1 \in DOMAIN new /\ new[Len(list) + 1] = e
<1> DEFINE new == Append(list, e)
<1>1. Len(list) \in Nat /\ DOMAIN list = 1 .. Len(list)
  BY LenProperties
<1>2. /\ new \in Seq(S) /\ Len(new) = Len(list) + 1
      /\ \A i \in 1 .. Len(list) : new[i] = list[i]
      /\ new[Len(list) + 1] = e
  BY AppendProperties
<1>3. DOMAIN new = 1 .. Len(list) + 1
  BY <1>2, LenProperties
<1> HIDE DEF new
<1>4. \A i : i \in PlacesOf(new, P)
               <=> i \in PlacesOf(list, P) \/ (e \in P /\ i = Len(list) + 1)
  BY <1>1, <1>2, <1>3 DEF PlacesOf
<1>5. PlacesOf(new, P) = PlacesOf(list, P) \cup (IF e \in P THEN {Len(list) + 1} ELSE {})
  BY <1>4
<1> QED
  BY <1>1, <1>2, <1>3, <1>5 DEF new

LEMMA ShorterList ==
  ASSUME NEW S, NEW list \in Seq(S), NEW i \in DOMAIN list
  PROVE  LET new == RemoveAt(list, i) IN
         /\ new \in Seq(S)
         /\ Len(list) \in Nat /\ DOMAIN list = 1 .. Len(list)
         /\ DOMAIN new = 1 .. Len(list) - 1 /\ Len(new) = Len(list) - 1
         /\ \A j \in 1 .. Len(list) - 1 : new[j] = IF j < i THEN list[j] ELSE list[j + 1]
<1> DEFINE before == SubSeq(list, 1, i - 1)
           after == SubSeq(list, i + 1, Len(list))
<1>1. /\ Len(list) \in Nat /\ DOMAIN list = 1 .. Len(list) /\ i \in 1 .. Len(list)
      /\ \A j \in 1 .. Len(list) : list[j] \in S
  BY LenProperties, ElementOfSeq
<1>2. /\ before \in Seq(S) /\ Len(before) = i - 1
      /\ \A j \in 1 .. i - 1 : before[j] = list[j]
  <2>1. \A j \in 1 .. i - 1 : list[j] \in S
    BY <1>1
  <2>2. 1 \in Int /\ i - 1 \in Int
    BY <1>1
  <2> QED
    BY <1>1, <2>1, <2>2, SubSeqProperties
<1>3. /\ after \in Seq(S) /\ Len(after) = Len(list) - i
      /\ \A j \in 1 .. Len(list) - i : after[j] = list[i + j]
  <2>1. \A j \in i + 1 .. Len(list) : list[j] \in S
    BY <1>1
  <2>2. i + 1 \in Int /\ Len(list) \in Int
    BY <1>1
  <2> QED
    BY <1>1, <2>1, <2>2, SubSeqProperties
<1> HIDE DEF before, after
<1>4. /\ before \o after \in Seq(S)
      /\ Len(before \o after) = Len(list) - 1
      /\ \A j \in 1 .. Len(list) - 1 :
           (before \o after)[j] = IF j <= i - 1 THEN before[j] ELSE after[j - (i - 1)]
  <2>1. Len(before) + Len(after) = Len(list) - 1
    BY <1>1, <1>2, <1>3
  <2>2. /\ before \o after \in Seq(S)
        /\ Len(before \o after) = Len(before) + Len(after)
        /\ \A j \in 1 .. Len(before) + Len(after) :
             (before \o after)[j]
               = IF j <= Len(before) THEN before[j] ELSE after[j - Len(before)]
    BY <1>2, <1>3, ConcatProperties
  <2>3. Len(before) = i - 1
    BY <1>2
  <2> QED
    BY <2>1, <2>2, <2>3
<1>5. DOMAIN (before \o after) = 1 .. Len(list) - 1
  BY <1>4, LenProperties
<1>6. ASSUME NEW j \in 1 .. Len(list) - 1
      PROVE  (before \o after)[j] = IF j < i THEN list[j] ELSE list[j + 1]
  <2>1. CASE j < i
    BY <1>1, <1>2, <1>4, <2>1
  <2>2. CASE ~(j < i)
    <3>1. j - (i - 1) \in 1 .. Len(list) - i /\ i + (j - (i - 1)) = j + 1
      BY <1>1, <2>2
    <3> QED
      BY <1>1, <1>3, <1>4, <2>2, <3>1
  <2> QED
    BY <2>1, <2>2
<1> QED
  BY <1>1, <1>4, <1>5, <1>6 DEF RemoveAt, before, after

(* The list without its i-th element has none of P when that was the only  *)
(* one, and still has another only one.                                    *)
Without(list, i, new, P) ==
  /\ PlacesOf(list, P) \subseteq {i} => PlacesOf(new, P) = {}
  /\ \A k \in DOMAIN list \ {i} :
       PlacesOf(list, P) = {k}
         => \E j \in DOMAIN new : PlacesOf(new, P) = {j} /\ new[j] = list[k]

LEMMA PlacesAfterRemove ==
  ASSUME NEW S, NEW list \in Seq(S), NEW i \in DOMAIN list, NEW P
  PROVE  /\ RemoveAt(list, i) \in Seq(S)
         /\ Without(list, i, RemoveAt(list, i), P)
<1> DEFINE new == RemoveAt(list, i)
<1>1. /\ new \in Seq(S)
      /\ Len(list) \in Nat /\ DOMAIN list = 1 .. Len(list)
      /\ DOMAIN new = 1 .. Len(list) - 1
      /\ \A j \in 1 .. Len(list) - 1 : new[j] = IF j < i THEN list[j] ELSE list[j + 1]
  BY ShorterList
<1> HIDE DEF new
<1>2. ASSUME NEW j \in PlacesOf(new, P)
      PROVE  \E k \in PlacesOf(list, P) : k # i /\ k = IF j < i THEN j ELSE j + 1
  <2>1. j \in 1 .. Len(list) - 1 /\ new[j] \in P
    BY <1>1 DEF PlacesOf
  <2>2. CASE j < i
    <3>1. j \in PlacesOf(list, P) /\ j # i
      BY <1>1, <2>1, <2>2 DEF PlacesOf
    <3> QED
      BY <2>2, <3>1
  <2>3. CASE ~(j < i)
    <3>1. j + 1 \in PlacesOf(list, P) /\ j + 1 # i
      BY <1>1, <2>1, <2>3 DEF PlacesOf
    <3> QED
      BY <2>3, <3>1
  <2> QED
    BY <2>2, <2>3
<1>3. PlacesOf(list, P) \subseteq {i} => PlacesOf(new, P) = {}
  BY <1>2
<1>4. ASSUME NEW k \in DOMAIN list \ {i}, PlacesOf(list, P) = {k}
      PROVE  \E j \in DOMAIN new : PlacesOf(new, P) = {j} /\ new[j] = list[k]
  <2> DEFINE j == IF k < i THEN k ELSE k - 1
  <2>1. /\ j \in DOMAIN new /\ new[j] = list[k] /\ list[k] \in P
    <3>1. k \in PlacesOf(list, P)
      BY <1>4
    <3>2. k \in 1 .. Len(list) /\ list[k] \in P
      BY <1>1, <3>1 DEF PlacesOf
    <3>3. CASE k < i
      BY <1>1, <3>2, <3>3
    <3>4. CASE ~(k < i)
      <4>1. k > i /\ k - 1 \in 1 .. Len(list) - 1 /\ ~(k - 1 < i) /\ (k - 1) + 1 = k
        BY <1>1, <3>2, <3>4
      <4> QED
        BY <1>1, <3>2, <3>4, <4>1
    <3> QED
      BY <3>3, <3>4
  <2>2. ASSUME NEW l \in PlacesOf(new, P) PROVE l = j
    <3>1. k = IF l < i THEN l ELSE l + 1
      BY <1>2, <1>4
    <3>2. l \in 1 .. Len(list) - 1
      BY <1>1 DEF PlacesOf
    <3> QED
      BY <1>1, <3>1, <3>2
  <2>3. j \in PlacesOf(new, P)
    BY <2>1 DEF PlacesOf
  <2> HIDE DEF j
  <2>4. PlacesOf(new, P) = {j}
    BY <2>2, <2>3
  <2> QED
    BY <2>1, <2>4
<1> QED
  BY <1>1, <1>3, <1>4 DEF new, Without

(* A set of indices that is not empty has a least one.                     *)
LEMMA LeastElement ==
  ASSUME NEW S, S \subseteq Nat, S # {}
  PROVE  \E i \in S : \A j \in S : i <= j
<1> DEFINE Less == OpToRel(<, Nat)
<1>1. IsWellFoundedOn(Less, Nat)
  BY NatLessThanWellFounded
<1>2. \A i, j \in Nat : <<i, j>> \in Less <=> i < j
  BY DEF OpToRel
<1> HIDE DEF Less
<1>3. PICK i \in S : \A j \in S : <<j, i>> \notin Less
  BY <1>1, WFMin
<1>4. ASSUME NEW j \in S PROVE i <= j
  <2>1. i \in Nat /\ j \in Nat
    OBVIOUS
  <2>2. <<j, i>> \notin Less
    BY <1>3
  <2>3. ~(j < i)
    BY <1>2, <2>1, <2>2
  <2> QED
    BY <2>1, <2>3
<1> QED
  BY <1>4

(* RemoveFirstMatch takes out the first that passes the test, if there is  *)
(* one: stated for the test of being in P.                                 *)
WithoutFirst(list, P) == RemoveFirstMatch(list, LAMBDA e : e \in P)

LEMMA FirstMatch ==
  ASSUME NEW S, NEW list \in Seq(S), NEW P
  PROVE  \/ PlacesOf(list, P) = {} /\ WithoutFirst(list, P) = list
         \/ \E i \in PlacesOf(list, P) : WithoutFirst(list, P) = RemoveAt(list, i)
<1>1. Len(list) \in Nat /\ DOMAIN list = 1 .. Len(list)
  BY LenProperties
<1>2. CASE PlacesOf(list, P) = {}
  BY <1>1, <1>2 DEF PlacesOf, WithoutFirst, RemoveFirstMatch
<1>3. CASE PlacesOf(list, P) # {}
  <2>1. SelectInSeq(list, LAMBDA e : e \in P) = Min(PlacesOf(list, P))
    BY <1>1, <1>3 DEF PlacesOf, SelectInSeq, SelectInSubSeq
  <2>2. Min(PlacesOf(list, P)) \in PlacesOf(list, P)
    <3>1. PlacesOf(list, P) \subseteq Nat
      BY <1>1 DEF PlacesOf
    <3> QED
      BY <1>3, <3>1, LeastElement DEF Min
  <2>3. WithoutFirst(list, P) = RemoveAt(list, SelectInSeq(list, LAMBDA e : e \in P))
    BY <1>1, <1>3 DEF PlacesOf, WithoutFirst, RemoveFirstMatch
  <2> QED
    BY <2>1, <2>2, <2>3
<1> QED
  BY <1>2, <1>3

-----------------------------------------------------------------------------
(* Folds.  FoldLeft is a recursive function on the sets of places of the   *)
(* list; the lemmas show that there is one, and how it runs along the list.*)

(* Induction up to n, with the statement given as the set it is true on.   *)
LEMMA UpTo ==
  ASSUME NEW n \in Nat, NEW S, 0 \in S,
         \A k \in 0 .. n : k \in S /\ k + 1 <= n => k + 1 \in S
  PROVE  \A k \in 0 .. n : k \in S
<1> DEFINE Fails == {k \in 0 .. n : k \notin S}
<1>1. SUFFICES ASSUME Fails # {} PROVE FALSE
  OBVIOUS
<1>2. PICK k \in Fails : \A j \in Fails : k <= j
  <2>1. Fails \subseteq Nat
    OBVIOUS
  <2> HIDE DEF Fails
  <2> QED
    BY <1>1, <2>1, LeastElement
<1>3. k \in 1 .. n /\ k - 1 \in 0 .. n /\ (k - 1) + 1 = k
  BY <1>2
<1>4. k - 1 \in S
  BY <1>2, <1>3
<1> QED
  BY <1>2, <1>3, <1>4

(* The last of some places of a list.                                      *)
LEMMA LastPlace ==
  ASSUME NEW n \in Nat, NEW t \in SUBSET (1 .. n), t # {}
  PROVE  Max(t) \in t /\ \A i \in t : i <= Max(t)
<1> DEFINE S == {n - i : i \in t}
<1>0. \A i \in t : i \in Nat /\ i <= n /\ n - i \in Nat
  OBVIOUS
<1>1. PICK j \in S : \A k \in S : j <= k
  <2>1. S \subseteq Nat /\ S # {}
    BY <1>0
  <2> HIDE DEF S
  <2> QED
    BY <2>1, LeastElement
<1>2. PICK i \in t : j = n - i
  BY <1>1
<1>3. ASSUME NEW k \in t PROVE i >= k
  <2>1. j <= n - k
    BY <1>1
  <2> QED
    BY <1>0, <1>2, <2>1
<1> QED
  BY <1>0, <1>2, <1>3 DEF Max

LEMMA TopPlace ==
  ASSUME NEW n \in Nat, NEW t \in SUBSET (1 .. n), NEW k \in t, \A i \in t : i <= k
  PROVE  Max(t) = k
<1>1. Max(t) \in t /\ k <= Max(t) /\ Max(t) <= k
  BY LastPlace
<1>2. \A i \in t : i \in Nat
  OBVIOUS
<1>3. \A m \in Nat : m <= k /\ k <= m /\ k \in Nat => m = k
  OBVIOUS
<1>4. Max(t) \in Nat /\ k \in Nat
  BY <1>1, <1>2, Zenon
<1> QED
  BY <1>1, <1>3, <1>4, Zenon

(* The places up to the kth.                                               *)
LEMMA Segment ==
  ASSUME NEW n \in Nat, NEW k \in 1 .. n
  PROVE  /\ 1 .. k \in SUBSET (1 .. n) /\ 1 .. k # {}
         /\ Max(1 .. k) = k
         /\ (1 .. k) \ {k} = 1 .. (k - 1)
<1>1. 1 .. k \in SUBSET (1 .. n) /\ 1 .. k # {} /\ k \in 1 .. k
  OBVIOUS
<1>2. Max(1 .. k) = k
  <2>1. Max(1 .. k) \in 1 .. k /\ \A i \in 1 .. k : i <= Max(1 .. k)
    BY <1>1, LastPlace
  <2> QED
    BY <1>1, <2>1
<1>3. (1 .. k) \ {k} = 1 .. (k - 1)
  OBVIOUS
<1> QED
  BY <1>1, <1>2, <1>3

(* What a fold is on a set of places, for steps that stay in T.            *)
OnPlaces(base, step, g, n) ==
  [t \in SUBSET (1 .. n) |-> IF t = {} THEN base ELSE step[<<g[t \ {Max(t)}], Max(t)>>]]

LEMMA FoldExists ==
  ASSUME NEW T, NEW base \in T, NEW n \in Nat, NEW step \in [T \X (1 .. n) -> T]
  PROVE  \E g \in [SUBSET (1 .. n) -> T] : g = OnPlaces(base, step, g, n)
<1> DEFINE S == {k \in 0 .. n : \E g \in [SUBSET (1 .. k) -> T] :
                                  g = OnPlaces(base, step, g, k)}
<1>1. 0 \in S
  <2> DEFINE g == [t \in SUBSET (1 .. 0) |-> base]
  <2>1. \A t \in SUBSET (1 .. 0) : t = {}
    OBVIOUS
  <2>2. g = OnPlaces(base, step, g, 0)
    BY <2>1 DEF OnPlaces
  <2>3. g \in [SUBSET (1 .. 0) -> T]
    OBVIOUS
  <2> QED
    BY <2>2, <2>3
<1>2. ASSUME NEW k \in 0 .. n, k \in S, k + 1 <= n PROVE k + 1 \in S
  <2>1. PICK g \in [SUBSET (1 .. k) -> T] : g = OnPlaces(base, step, g, k)
    BY <1>2
  <2> DEFINE h == [t \in SUBSET (1 .. k + 1) |->
                     IF k + 1 \in t THEN step[<<g[t \ {k + 1}], k + 1>>] ELSE g[t]]
  <2>2. ASSUME NEW t \in SUBSET (1 .. k + 1)
        PROVE  h[t] \in T /\ h[t] = OnPlaces(base, step, h, k + 1)[t]
    <3>1. CASE k + 1 \in t
      <4>1. Max(t) = k + 1
        <5>1. k + 1 \in Nat /\ \A i \in t : i <= k + 1
          OBVIOUS
        <5> HIDE DEF h, S
        <5> QED
          BY <3>1, <5>1, TopPlace
      <4>2. t \ {k + 1} \in SUBSET (1 .. k) /\ t \ {k + 1} \in SUBSET (1 .. k + 1)
            /\ k + 1 \notin t \ {k + 1} /\ t # {}
        BY <3>1
      <4>3. h[t \ {k + 1}] = g[t \ {k + 1}] /\ g[t \ {k + 1}] \in T
        BY <4>2
      <4>4. k + 1 \in 1 .. n
        BY <1>2
      <4>5. <<g[t \ {k + 1}], k + 1>> \in T \X (1 .. n)
        BY <4>3, <4>4
      <4>6. h[t] = step[<<g[t \ {k + 1}], k + 1>>]
        BY <3>1
      <4> HIDE DEF h
      <4>7. OnPlaces(base, step, h, k + 1)[t] = step[<<h[t \ {k + 1}], k + 1>>]
        BY <4>1, <4>2 DEF OnPlaces
      <4> QED
        BY <4>3, <4>5, <4>6, <4>7
    <3>2. CASE k + 1 \notin t
      <4>1. t \in SUBSET (1 .. k)
        BY <3>2
      <4>2. h[t] = g[t] /\ g[t] \in T
        BY <3>2, <4>1
      <4>3. CASE t = {}
        <5>1. g[t] = base
          BY <2>1, <4>1, <4>3 DEF OnPlaces
        <5> HIDE DEF h
        <5> QED
          BY <4>2, <4>3, <5>1 DEF OnPlaces
      <4>4. CASE t # {}
        <5>1. g[t] = step[<<g[t \ {Max(t)}], Max(t)>>]
          BY <2>1, <4>1, <4>4 DEF OnPlaces
        <5>2. t \ {Max(t)} \in SUBSET (1 .. k) /\ t \ {Max(t)} \in SUBSET (1 .. k + 1)
              /\ k + 1 \notin t \ {Max(t)}
          BY <3>2, <4>1
        <5>3. h[t \ {Max(t)}] = g[t \ {Max(t)}]
          BY <5>2
        <5> HIDE DEF h
        <5>4. OnPlaces(base, step, h, k + 1)[t] = step[<<h[t \ {Max(t)}], Max(t)>>]
          BY <4>4 DEF OnPlaces
        <5> QED
          BY <4>2, <5>1, <5>3, <5>4
      <4> QED
        BY <4>3, <4>4
    <3> HIDE DEF h
    <3> QED
      BY <3>1, <3>2
  <2>3. h \in [SUBSET (1 .. k + 1) -> T]
    BY <2>2
  <2>4. h = OnPlaces(base, step, h, k + 1)
    <3>1. h = [t \in SUBSET (1 .. k + 1) |-> h[t]]
      OBVIOUS
    <3> HIDE DEF h
    <3> QED
      BY <2>2, <3>1 DEF OnPlaces
  <2>5. k + 1 \in 0 .. n
    BY <1>2
  <2> HIDE DEF h
  <2> QED
    BY <2>3, <2>4, <2>5
<1>3. \A k \in 0 .. n : k \in S
  <2> HIDE DEF S
  <2> QED
    BY <1>1, <1>2, UpTo
<1>4. n \in S
  <2> HIDE DEF S
  <2> QED
    BY <1>3
<1> QED
  BY <1>4

(* The same, place by place.                                               *)
FoldedWith(g, T, base, step, n) ==
  /\ g \in [SUBSET (1 .. n) -> T]
  /\ g[{}] = base
  /\ \A t \in SUBSET (1 .. n) :
       t # {} => /\ Max(t) \in 1 .. n
                 /\ g[t \ {Max(t)}] \in T
                 /\ g[t] = step[<<g[t \ {Max(t)}], Max(t)>>]

LEMMA FoldOnPlaces ==
  ASSUME NEW T, NEW base \in T, NEW n \in Nat, NEW step \in [T \X (1 .. n) -> T]
  PROVE  \E g : FoldedWith(g, T, base, step, n)
<1>1. PICK g \in [SUBSET (1 .. n) -> T] : g = OnPlaces(base, step, g, n)
  BY FoldExists
<1>2. g[{}] = base
  BY <1>1 DEF OnPlaces
<1>3. ASSUME NEW t \in SUBSET (1 .. n), t # {}
      PROVE  /\ Max(t) \in 1 .. n
             /\ g[t \ {Max(t)}] \in T
             /\ g[t] = step[<<g[t \ {Max(t)}], Max(t)>>]
  <2>1. Max(t) \in t
    BY <1>3, LastPlace
  <2>2. g[t] = step[<<g[t \ {Max(t)}], Max(t)>>]
    BY <1>1, <1>3 DEF OnPlaces
  <2> QED
    BY <2>1, <2>2
<1> QED
  BY <1>1, <1>2, <1>3 DEF FoldedWith

(* What goes from place to place along a list stays in T.                  *)
LEMMA AlongPlaces ==
  ASSUME NEW n \in Nat, NEW h, NEW T, h[0] \in T,
         \A k \in 1 .. n : h[k - 1] \in T => h[k] \in T
  PROVE  \A k \in 0 .. n : h[k] \in T
<1> DEFINE S == {k \in 0 .. n : h[k] \in T}
<1>1. 0 \in S
  OBVIOUS
<1>2. ASSUME NEW k \in 0 .. n, k \in S, k + 1 <= n PROVE k + 1 \in S
  <2>1. k + 1 \in 1 .. n /\ (k + 1) - 1 = k /\ k + 1 \in 0 .. n
    BY <1>2
  <2>2. h[k] \in T
    BY <1>2
  <2>3. h[k + 1] \in T
    BY <2>1, <2>2
  <2> QED
    BY <2>1, <2>3
<1>3. \A k \in 0 .. n : k \in S
  <2> HIDE DEF S
  <2> QED
    BY <1>1, <1>2, UpTo
<1> QED
  BY <1>3

(* What is folded with steps that stay in T is in T.                       *)
LEMMA FoldStays ==
  ASSUME NEW T, NEW base \in T, NEW n \in Nat, NEW step \in [T \X (1 .. n) -> T],
         NEW F, F[{}] = base,
         \A u \in SUBSET (1 .. n) : u # {} /\ F[u \ {Max(u)}] \in T =>
           F[u] = step[<<F[u \ {Max(u)}], Max(u)>>]
  PROVE  F[1 .. n] \in T
<1> DEFINE h == [k \in 0 .. n |-> F[1 .. k]]
<1>1. h[0] \in T
  <2>1. 1 .. 0 = {} /\ 0 \in 0 .. n
    OBVIOUS
  <2> QED
    BY <2>1
<1>2. ASSUME NEW k \in 1 .. n, h[k - 1] \in T PROVE h[k] \in T
  <2> DEFINE u == 1 .. k
  <2>1. /\ u \in SUBSET (1 .. n) /\ u # {}
        /\ Max(u) = k /\ u \ {k} = 1 .. k - 1
    BY Segment
  <2>2. k \in 0 .. n /\ k - 1 \in 0 .. n
    OBVIOUS
  <2>3. h[k] = F[u] /\ h[k - 1] = F[1 .. k - 1]
    BY <2>2
  <2> HIDE DEF h, u
  <2>4. F[u \ {Max(u)}] \in T
    BY <1>2, <2>1, <2>3
  <2>5. F[u] = step[<<F[u \ {Max(u)}], k>>]
    BY <2>1, <2>4
  <2>6. <<F[u \ {Max(u)}], k>> \in T \X (1 .. n)
    BY <2>4
  <2> QED
    BY <2>3, <2>5, <2>6
<1>3. \A k \in 0 .. n : h[k] \in T
  <2> HIDE DEF h
  <2> QED
    BY <1>1, <1>2, AlongPlaces
<1> QED
  BY <1>3

(* FlattenSeq, which is a recursive function as well.                      *)
LEMMA FlattenStays ==
  ASSUME NEW S, NEW n \in Nat, NEW seqs, seqs \in [1 .. n -> Seq(S)]
  PROVE  FlattenSeq(seqs) \in Seq(S)
<1>0. Len(seqs) = n /\ DOMAIN seqs = 1 .. n /\ seqs \in Seq(Seq(S))
  BY LenProperties
<1>1. CASE n = 0
  <2>1. seqs = << >>
    BY <1>0, <1>1
  <2> QED
    BY <1>0, <1>1, <2>1, EmptySeq DEF FlattenSeq
<1>2. CASE n # 0
  <2> DEFINE Def(g) == [i \in 1 .. Len(seqs) |-> IF i = 1 THEN seqs[i] ELSE g[i - 1] \o seqs[i]]
             P == {k \in 0 .. n : \E g \in [1 .. k -> Seq(S)] :
                      \A i \in 1 .. k : g[i] = IF i = 1 THEN seqs[i] ELSE g[i - 1] \o seqs[i]}
             F == CHOOSE g : g = Def(g)
  <2>1. 0 \in P
    <3> DEFINE g == [i \in 1 .. 0 |-> << >>]
    <3>1. g \in [1 .. 0 -> Seq(S)]
      OBVIOUS
    <3>2. \A i \in 1 .. 0 : g[i] = IF i = 1 THEN seqs[i] ELSE g[i - 1] \o seqs[i]
      OBVIOUS
    <3>3. 0 \in 0 .. n
      OBVIOUS
    <3> HIDE DEF g
    <3> QED
      BY <3>1, <3>2, <3>3
  <2>2. ASSUME NEW k \in 0 .. n, k \in P, k + 1 <= n PROVE k + 1 \in P
    <3>1. PICK g \in [1 .. k -> Seq(S)] :
            \A i \in 1 .. k : g[i] = IF i = 1 THEN seqs[i] ELSE g[i - 1] \o seqs[i]
      BY <2>2
    <3> DEFINE last == IF k = 0 THEN seqs[1] ELSE g[k] \o seqs[k + 1]
               f == [i \in 1 .. k + 1 |-> IF i = k + 1 THEN last ELSE g[i]]
    <3>2. last \in Seq(S)
      <4>1. CASE k = 0
        BY <2>2, <4>1
      <4>2. CASE k # 0
        <5>1. g[k] \in Seq(S) /\ seqs[k + 1] \in Seq(S)
          BY <2>2, <4>2
        <5> QED
          BY <4>2, <5>1, ConcatProperties
      <4> QED
        BY <4>1, <4>2
    <3>3. f \in [1 .. k + 1 -> Seq(S)]
      <4> HIDE DEF last
      <4> QED
        BY <3>2
    <3>4. ASSUME NEW i \in 1 .. k + 1
          PROVE  f[i] = IF i = 1 THEN seqs[i] ELSE f[i - 1] \o seqs[i]
      <4>1. CASE i = k + 1
        <5>1. f[i] = last
          BY <4>1
        <5>2. i # 1 => k # 0 /\ f[i - 1] = g[k]
          BY <2>2, <4>1
        <5>3. k # 0 => i # 1
          BY <2>2, <4>1
        <5> HIDE DEF f
        <5> QED
          BY <4>1, <5>1, <5>2, <5>3
      <4>2. CASE i # k + 1
        <5>1. i \in 1 .. k /\ f[i] = g[i] /\ (i # 1 => f[i - 1] = g[i - 1])
          BY <2>2, <4>2
        <5> HIDE DEF f
        <5> QED
          BY <3>1, <5>1
      <4> QED
        BY <4>1, <4>2
    <3>5. k + 1 \in 0 .. n
      BY <2>2
    <3> HIDE DEF f
    <3> QED
      BY <3>3, <3>4, <3>5
  <2>3. n \in P
    <3>1. \A k \in 0 .. n : k \in P
      <4> HIDE DEF P
      <4> QED
        BY <2>1, <2>2, UpTo
    <3> HIDE DEF P
    <3> QED
      BY <3>1
  <2>4. PICK g \in [1 .. n -> Seq(S)] :
          \A i \in 1 .. n : g[i] = IF i = 1 THEN seqs[i] ELSE g[i - 1] \o seqs[i]
    BY <2>3
  <2>5. g = Def(g)
    BY <1>0, <2>4
  <2>6. F = Def(F)
    <3> HIDE DEF Def
    <3> QED
      BY <2>5
  <2>7. FlattenSeq(seqs) = F[n]
    BY <1>0, <1>2 DEF FlattenSeq
  <2> HIDE DEF F
  <2>8. \A i \in 1 .. n : F[i] = IF i = 1 THEN seqs[i] ELSE F[i - 1] \o seqs[i]
    BY <1>0, <2>6
  <2> DEFINE Q == {k \in 0 .. n : k = 0 \/ F[k] \in Seq(S)}
  <2>9. 0 \in Q
    OBVIOUS
  <2>10. ASSUME NEW k \in 0 .. n, k \in Q, k + 1 <= n PROVE k + 1 \in Q
    <3>1. k + 1 \in 1 .. n /\ k + 1 \in 0 .. n /\ (k + 1) - 1 = k /\ (k + 1 = 1 <=> k = 0)
      BY <2>10
    <3>2. F[k + 1] = IF k + 1 = 1 THEN seqs[k + 1] ELSE F[(k + 1) - 1] \o seqs[k + 1]
      BY <2>8, <3>1
    <3>3. seqs[k + 1] \in Seq(S)
      BY <3>1
    <3>4. CASE k = 0
      BY <3>1, <3>2, <3>3, <3>4
    <3>5. CASE k # 0
      <4>1. F[k] \in Seq(S)
        BY <2>10, <3>5
      <4>2. F[k + 1] = F[k] \o seqs[k + 1]
        BY <3>1, <3>2, <3>5
      <4>3. F[k + 1] \in Seq(S)
        BY <3>3, <4>1, <4>2, ConcatProperties
      <4> QED
        BY <3>1, <4>3
    <3> QED
      BY <3>4, <3>5
  <2>11. \A k \in 0 .. n : k \in Q
    <3> HIDE DEF Q
    <3> QED
      BY <2>9, <2>10, UpTo
  <2>12. n \in Q
    <3> HIDE DEF Q
    <3> QED
      BY <2>11
  <2> QED
    BY <1>2, <2>7, <2>12
<1> QED
  BY <1>1, <1>2
=============================================================================
