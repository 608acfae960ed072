-------------------------- MODULE SignalCyclesProofs --------------------------
(***************************************************************************)
(* Proofs about SignalCycles: the two sides check a request alike, one     *)
(* measured row is in force at a time, and "saved" means stored; for any   *)
(* day types, rows of other sources, edits, requests and bounds.           *)
(***************************************************************************)
EXTENDS SignalCycles, FiniteSetTheorems, WellFoundedInduction, TLAPS

-----------------------------------------------------------------------------
(* Lists in order. *)

(* A non-empty set of natural numbers has a least element.                 *)
LEMMA Least ==
  ASSUME NEW T, T \subseteq Nat, T # {}
  PROVE  \E x \in T : \A y \in T : x <= y
<1>1. IsWellFoundedOn(OpToRel(<, Nat), Nat)
  BY NatLessThanWellFounded, Zenon
<1>2. PICK x \in T : \A y \in T : ~ (<<y, x>> \in OpToRel(<, Nat))
  BY <1>1, WFMin, Zenon
<1>3. \A y \in T : ~(y < x)
  BY <1>2, Zenon DEF OpToRel
<1> QED BY <1>3

(* R puts any two elements of S in an order.                               *)
Orders(R, S) ==
  /\ \A a \in S : <<a, a>> \notin R
  /\ \A a, b \in S : a = b \/ <<a, b>> \in R \/ <<b, a>> \in R
  /\ \A a, b, c \in S : <<a, b>> \in R /\ <<b, c>> \in R => <<a, c>> \in R

Ahead(R, S, e) == {o \in S : <<o, e>> \in R}

(* What is further behind has more ahead of it.                            *)
LEMMA AheadGrows ==
  ASSUME NEW S, IsFiniteSet(S), NEW R, Orders(R, S)
  PROVE  /\ \A e \in S : Cardinality(Ahead(R, S, e)) \in 0 .. Cardinality(S) - 1
         /\ \A a, b \in S : <<a, b>> \in R =>
              Cardinality(Ahead(R, S, a)) < Cardinality(Ahead(R, S, b))
<1>1. \A e \in S : IsFiniteSet(Ahead(R, S, e)) /\ Cardinality(Ahead(R, S, e)) \in Nat
  BY FS_Subset, FS_CardinalityType DEF Ahead
<1>2. Cardinality(S) \in Nat
  BY FS_CardinalityType
<1>3. \A a, b \in S : <<a, b>> \in R =>
        Cardinality(Ahead(R, S, a)) < Cardinality(Ahead(R, S, b))
  <2> SUFFICES ASSUME NEW a \in S, NEW b \in S, <<a, b>> \in R
               PROVE  Cardinality(Ahead(R, S, a)) < Cardinality(Ahead(R, S, b))
    OBVIOUS
  <2>1. Ahead(R, S, a) \subseteq Ahead(R, S, b)
    BY DEF Ahead, Orders
  <2>2. a \in Ahead(R, S, b) /\ a \notin Ahead(R, S, a)
    BY DEF Ahead, Orders
  <2>3. /\ Cardinality(Ahead(R, S, a)) <= Cardinality(Ahead(R, S, b))
        /\ Cardinality(Ahead(R, S, a)) # Cardinality(Ahead(R, S, b))
    <3>1. IsFiniteSet(Ahead(R, S, b))
      BY <1>1
    <3> QED BY <2>1, <2>2, <3>1, FS_Subset
  <2> QED BY <1>1, <2>3
<1>4. \A e \in S : Cardinality(Ahead(R, S, e)) < Cardinality(S)
  <2> SUFFICES ASSUME NEW e \in S
               PROVE  Cardinality(Ahead(R, S, e)) < Cardinality(S)
    OBVIOUS
  <2>1. Ahead(R, S, e) \subseteq S /\ e \notin Ahead(R, S, e)
    BY DEF Ahead, Orders
  <2>2. /\ Cardinality(Ahead(R, S, e)) <= Cardinality(S)
        /\ Cardinality(Ahead(R, S, e)) # Cardinality(S)
    BY <2>1, FS_Subset
  <2> QED BY <1>1, <1>2, <2>2
<1> QED BY <1>1, <1>2, <1>3, <1>4

(* The k-th of the list has k - 1 elements ahead of it.                    *)
Placed(list, R, S) ==
  /\ list = [k \in 1 .. Cardinality(S) |-> list[k]]
  /\ \A k \in 1 .. Cardinality(S) :
       (\E e \in S : Cardinality(Ahead(R, S, e)) = k - 1) =>
         list[k] \in S /\ Cardinality(Ahead(R, S, list[k])) = k - 1

(* The list that InOrder makes: each element once, in the order.           *)
LEMMA OrderedList ==
  ASSUME NEW S, IsFiniteSet(S), NEW R, Orders(R, S),
         NEW list, Placed(list, R, S)
  PROVE  /\ Cardinality(S) \in Nat
         /\ list \in [1 .. Cardinality(S) -> S]
         /\ \A i, j \in 1 .. Cardinality(S) : i < j => <<list[i], list[j]>> \in R
         /\ \A e \in S : \E k \in 1 .. Cardinality(S) : list[k] = e
<1> DEFINE n == Cardinality(S)
           place == [e \in S |-> Cardinality(Ahead(R, S, e)) + 1]
<1>1. n \in Nat
  BY FS_CardinalityType
<1>2. place \in [S -> 1 .. n]
  BY <1>1, AheadGrows
<1>3. \A a, b \in S : place[a] = place[b] => a = b
  <2> SUFFICES ASSUME NEW a \in S, NEW b \in S, place[a] = place[b], a # b
               PROVE  FALSE
    OBVIOUS
  <2>1. <<a, b>> \in R \/ <<b, a>> \in R
    BY DEF Orders
  <2> QED BY <2>1, AheadGrows
<1>4. place \in Surjection(S, 1 .. n)
  <2>1. place \in Injection(S, 1 .. n)
    BY <1>2, <1>3 DEF Injection, IsInjective
  <2>2. IsFiniteSet(1 .. n) /\ Cardinality(1 .. n) = n
    BY <1>1, FS_Interval
  <2> QED BY <2>1, <2>2, FS_Injection
<1>5. \A k \in 1 .. n : \E e \in S : place[e] = k
  BY <1>4 DEF Surjection
<1>6. \A k \in 1 .. n : list[k] \in S /\ place[list[k]] = k
  <2> SUFFICES ASSUME NEW k \in 1 .. n
               PROVE  list[k] \in S /\ place[list[k]] = k
    OBVIOUS
  <2>1. \E e \in S : Cardinality(Ahead(R, S, e)) = k - 1
    <3>1. PICK e \in S : place[e] = k
      BY <1>5
    <3>2. Cardinality(Ahead(R, S, e)) \in Nat
      BY <1>1, AheadGrows
    <3> QED BY <3>1, <3>2
  <2>2. list[k] \in S /\ Cardinality(Ahead(R, S, list[k])) = k - 1
    BY <2>1 DEF Placed
  <2> QED BY <1>1, <2>2
<1> HIDE DEF n, place
<1>7. \A i, j \in 1 .. n : i < j => <<list[i], list[j]>> \in R
  <2> SUFFICES ASSUME NEW i \in 1 .. n, NEW j \in 1 .. n, i < j
               PROVE  <<list[i], list[j]>> \in R
    OBVIOUS
  <2>1. /\ list[i] \in S /\ list[j] \in S
        /\ place[list[i]] = i /\ place[list[j]] = j
        /\ i \in Int /\ j \in Int
    <3>1. i \in Int /\ j \in Int
      BY <1>1
    <3> QED BY <1>6, <3>1
  <2>2. CASE <<list[j], list[i]>> \in R
    <3>1. Cardinality(Ahead(R, S, list[j])) < Cardinality(Ahead(R, S, list[i]))
      BY <1>6, <2>2, AheadGrows
    <3>2. place[list[j]] < place[list[i]]
      BY <1>1, <1>6, <3>1, AheadGrows DEF place, n
    <3> QED BY <2>1, <3>2
  <2>3. list[i] # list[j]
    BY <2>1
  <2> QED BY <2>1, <2>2, <2>3 DEF Orders
<1>8. \A e \in S : \E k \in 1 .. n : list[k] = e
  <2> SUFFICES ASSUME NEW e \in S
               PROVE  \E k \in 1 .. n : list[k] = e
    OBVIOUS
  <2>1. place[e] \in 1 .. n
    BY <1>2
  <2>2. list[place[e]] = e
    BY <1>3, <1>6, <2>1
  <2> QED BY <2>1, <2>2
<1> QED BY <1>1, <1>6, <1>7, <1>8 DEF n, Placed

-----------------------------------------------------------------------------
(* The rules of the two sides. *)

(* The bands of a day that have a start before their end.                  *)
Whole(list, day) ==
  {i \in DOMAIN list : /\ list[i].day = day
                       /\ NaN \notin {list[i].start, list[i].end}
                       /\ list[i].start < list[i].end}

(* Their places in the list, by start.                                     *)
BandOrder(list, day) ==
  LET Sooner(i, j) == \/ list[i].start < list[j].start
                      \/ list[i].start = list[j].start /\ i < j
  IN InOrder(Whole(list, day), Sooner)

Listed(list, day, order) ==
  \E n \in Nat :
    /\ order \in [1 .. n -> Whole(list, day)]
    /\ ByStart(list, day) = [k \in 1 .. n |-> list[order[k]]]
    /\ \A i, j \in 1 .. n : i < j =>
         order[i] # order[j] /\ list[order[i]].start <= list[order[j]].start
    /\ \A e \in Whole(list, day) : \E k \in 1 .. n : order[k] = e

(* What the client compares: the whole bands of a day, each once, by start.*)
LEMMA ByStartIs ==
  ASSUME NEW list \in Seq(CycleBodies), NEW day
  PROVE  Listed(list, day, BandOrder(list, day))
<1> DEFINE W == Whole(list, day)
           Sooner(i, j) == \/ list[i].start < list[j].start
                           \/ list[i].start = list[j].start /\ i < j
           R == {p \in W \X W : Sooner(p[1], p[2])}
           order == InOrder(W, Sooner)
           n == Cardinality(W)
<1>1. \A i \in W : i \in Nat /\ list[i].start \in Int
  <2>1. \A i \in DOMAIN list : i \in Nat /\ list[i] \in CycleBodies
    OBVIOUS
  <2> QED BY <2>1 DEF Whole, CycleBodies
<1>2. IsFiniteSet(W)
  <2>1. IsFiniteSet(DOMAIN list)
    BY FS_Interval
  <2> QED BY <2>1, FS_Subset DEF Whole
<1>3. Orders(R, W)
  <2> HIDE DEF W
  <2>1. \A i, j \in W : <<i, j>> \in R <=> Sooner(i, j)
    OBVIOUS
  <2> HIDE DEF R
  <2>2. \A i \in W : i \in Int /\ list[i].start \in Int
    BY <1>1
  <2>3. \A i \in W : <<i, i>> \notin R
    BY <2>1, <2>2
  <2>4. \A i, j \in W : i = j \/ <<i, j>> \in R \/ <<j, i>> \in R
    <3> SUFFICES ASSUME NEW i \in W, NEW j \in W
                 PROVE  i = j \/ <<i, j>> \in R \/ <<j, i>> \in R
      OBVIOUS
    <3>1. i = j \/ Sooner(i, j) \/ Sooner(j, i)
      BY <2>2
    <3> QED BY <2>1, <3>1
  <2>5. \A i, j, k \in W : <<i, j>> \in R /\ <<j, k>> \in R => <<i, k>> \in R
    <3> SUFFICES ASSUME NEW i \in W, NEW j \in W, NEW k \in W,
                        <<i, j>> \in R, <<j, k>> \in R
                 PROVE  <<i, k>> \in R
      OBVIOUS
    <3>1. Sooner(i, j) /\ Sooner(j, k)
      BY <2>1
    <3>2. Sooner(i, k)
      BY <2>2, <3>1
    <3> QED BY <2>1, <3>2
  <2> QED BY <2>3, <2>4, <2>5 DEF Orders
<1>4. /\ order = [k \in 1 .. n |-> order[k]]
      /\ \A k \in 1 .. n :
           (\E e \in W : Cardinality(Ahead(R, W, e)) = k - 1) =>
             order[k] \in W /\ Cardinality(Ahead(R, W, order[k])) = k - 1
  <2> HIDE DEF W
  <2>1. \A e \in W : {o \in W : Sooner(o, e)} = Ahead(R, W, e)
    BY DEF Ahead
  <2> HIDE DEF Sooner, R
  <2>2. order = [k \in 1 .. n |->
                   CHOOSE e \in W : Cardinality({o \in W : Sooner(o, e)}) = k - 1]
    BY DEF InOrder
  <2>3. \A k \in 1 .. n :
          order[k] = CHOOSE e \in W : Cardinality({o \in W : Sooner(o, e)}) = k - 1
    BY <2>2
  <2>4. order = [k \in 1 .. n |-> order[k]]
    BY <2>2
  <2> HIDE DEF order, n
  <2>5. ASSUME NEW k \in 1 .. n, NEW e \in W, Cardinality(Ahead(R, W, e)) = k - 1
        PROVE  order[k] \in W /\ Cardinality(Ahead(R, W, order[k])) = k - 1
    <3>1. Cardinality({o \in W : Sooner(o, e)}) = k - 1
      BY <2>1, <2>5
    <3>2. order[k] \in W /\ Cardinality({o \in W : Sooner(o, order[k])}) = k - 1
      BY <2>3, <3>1, Zenon
    <3> QED BY <2>1, <3>2
  <2> QED BY <2>4, <2>5
<1>5. /\ n \in Nat
      /\ order \in [1 .. n -> W]
      /\ \A i, j \in 1 .. n : i < j => <<order[i], order[j]>> \in R
      /\ \A e \in W : \E k \in 1 .. n : order[k] = e
  <2> HIDE DEF order, W, R
  <2>1. Placed(order, R, W)
    BY <1>4 DEF Placed
  <2> QED BY <1>2, <1>3, <2>1, OrderedList
<1>6. ByStart(list, day) = [k \in 1 .. n |-> list[order[k]]]
  <2>1. ByStart(list, day) = [k \in DOMAIN order |-> list[order[k]]]
    BY DEF ByStart, Whole
  <2> HIDE DEF order
  <2> QED BY <1>5, <2>1
<1>7. \A i, j \in 1 .. n : i < j =>
        order[i] # order[j] /\ list[order[i]].start <= list[order[j]].start
  <2> HIDE DEF order, W, n
  <2> SUFFICES ASSUME NEW i \in 1 .. n, NEW j \in 1 .. n, i < j
               PROVE  order[i] # order[j] /\ list[order[i]].start <= list[order[j]].start
    OBVIOUS
  <2>1. order[i] \in W /\ order[j] \in W /\ Sooner(order[i], order[j])
    BY <1>5
  <2> QED BY <1>1, <2>1
<1>8. BandOrder(list, day) = order
  BY DEF BandOrder
<1> HIDE DEF order, n
<1>9. Listed(list, day, order)
  BY <1>5, <1>6, <1>7 DEF Listed
<1> QED BY <1>8, <1>9

(* Bands of one day, by start: if neighbours do not overlap none do.       *)
LEMMA NeighboursSuffice ==
  ASSUME NEW n \in Nat, NEW start \in [1 .. n -> Int], NEW end \in [1 .. n -> Int],
         \A k \in 1 .. n : start[k] < end[k],
         \A k \in 1 .. n - 1 : start[k + 1] >= end[k]
  PROVE  \A i, j \in 1 .. n : i < j => start[j] >= end[i]
<1> SUFFICES ASSUME NEW i \in 1 .. n, NEW j \in 1 .. n, i < j, start[j] < end[i]
             PROVE  FALSE
  OBVIOUS
<1> DEFINE T == {k \in Nat : i < k /\ k <= n /\ start[k] < end[i]}
<1>1. PICK m \in T : \A k \in T : m <= k
  <2>1. T \subseteq Nat /\ j \in T
    OBVIOUS
  <2> HIDE DEF T
  <2> QED BY <2>1, Least
<1>2. m # i + 1
  BY <1>1
<1>3. m - 1 \in 1 .. n /\ i < m - 1 /\ m - 1 \notin T
  BY <1>1, <1>2
<1>4. start[m - 1] >= end[i]
  BY <1>3
<1>5. start[m] >= end[m - 1]
  <2>1. m - 1 \in 1 .. n - 1 /\ m = (m - 1) + 1
    BY <1>1, <1>3
  <2> QED BY <2>1
<1>6. /\ start[m] \in Int /\ end[m - 1] \in Int /\ start[m - 1] \in Int /\ end[i] \in Int
      /\ start[m - 1] < end[m - 1] /\ start[m] < end[i]
  BY <1>1, <1>3
<1> QED BY <1>4, <1>5, <1>6

(* Where every row is sound, looking at neighbours of each day is looking  *)
(* at all pairs.                                                           *)
LEMMA NeighboursAreEnough ==
  ASSUME NEW list \in Seq(CycleBodies), \A i \in DOMAIN list : RowOk(list[i])
  PROVE  (\A day \in Days : NeighboursApart(ByStart(list, day))) <=> PairsApart(list)
<1>1. \A i \in DOMAIN list :
        /\ i \in Nat /\ list[i].day \in Days
        /\ list[i].start \in Int /\ list[i].end \in Int
        /\ list[i].start < list[i].end
        /\ i \in Whole(list, list[i].day)
  <2>1. \A i \in DOMAIN list : i \in Nat /\ list[i] \in CycleBodies
    OBVIOUS
  <2> QED BY <2>1 DEF CycleBodies, RowOk, Whole
<1>2. ASSUME NEW day \in Days
      PROVE  NeighboursApart(ByStart(list, day)) <=>
               \A i, j \in Whole(list, day) :
                 i # j => list[i].end <= list[j].start \/ list[j].end <= list[i].start
  <2> DEFINE order == BandOrder(list, day)
  <2>1. Listed(list, day, order)
    BY ByStartIs
  <2> HIDE DEF order
  <2>2. PICK n \in Nat :
           /\ order \in [1 .. n -> Whole(list, day)]
           /\ ByStart(list, day) = [k \in 1 .. n |-> list[order[k]]]
           /\ \A i, j \in 1 .. n : i < j =>
                order[i] # order[j] /\ list[order[i]].start <= list[order[j]].start
           /\ \A e \in Whole(list, day) : \E k \in 1 .. n : order[k] = e
    BY <2>1 DEF Listed
  <2> DEFINE start == [k \in 1 .. n |-> list[order[k]].start]
             end == [k \in 1 .. n |-> list[order[k]].end]
  <2>3. \A e \in Whole(list, day) : e \in DOMAIN list /\ list[e].day = day
    BY DEF Whole
  <2>4. /\ start \in [1 .. n -> Int] /\ end \in [1 .. n -> Int]
        /\ \A k \in 1 .. n : start[k] < end[k]
    BY <1>1, <2>2, <2>3
  <2>5. NeighboursApart(ByStart(list, day)) <=> \A k \in 1 .. n - 1 : start[k + 1] >= end[k]
    <3>1. Len(ByStart(list, day)) = n
      BY <2>2
    <3>2. \A k \in 1 .. n : ByStart(list, day)[k] = list[order[k]]
      BY <2>2
    <3>3. \A k \in 1 .. n - 1 : k \in 1 .. n /\ k + 1 \in 1 .. n
      OBVIOUS
    <3> QED BY <3>1, <3>2, <3>3 DEF NeighboursApart
  <2>6. ASSUME NeighboursApart(ByStart(list, day)),
               NEW i \in Whole(list, day), NEW j \in Whole(list, day), i # j
        PROVE  list[i].end <= list[j].start \/ list[j].end <= list[i].start
    <3>1. PICK a \in 1 .. n : order[a] = i
      BY <2>2
    <3>2. PICK b \in 1 .. n : order[b] = j
      BY <2>2
    <3>3. \A k, l \in 1 .. n : k < l => start[l] >= end[k]
      <4>1. \A k \in 1 .. n - 1 : start[k + 1] >= end[k]
        BY <2>5, <2>6
      <4> HIDE DEF start, end
      <4> QED BY <2>4, <4>1, NeighboursSuffice
    <3>4. a < b \/ b < a
      BY <2>6, <3>1, <3>2
    <3> QED BY <1>1, <2>3, <3>1, <3>2, <3>3, <3>4
  <2>7. ASSUME \A i, j \in Whole(list, day) :
                 i # j => list[i].end <= list[j].start \/ list[j].end <= list[i].start,
               NEW k \in 1 .. n - 1
        PROVE  start[k + 1] >= end[k]
    <3>1. k \in 1 .. n /\ k + 1 \in 1 .. n /\ k < k + 1
      OBVIOUS
    <3>2. /\ order[k] # order[k + 1]
          /\ list[order[k]].start <= list[order[k + 1]].start
          /\ order[k] \in Whole(list, day) /\ order[k + 1] \in Whole(list, day)
      BY <2>2, <3>1
    <3>3. \/ list[order[k]].end <= list[order[k + 1]].start
          \/ list[order[k + 1]].end <= list[order[k]].start
      BY <2>7, <3>2
    <3> QED BY <1>1, <2>3, <3>1, <3>2, <3>3
  <2> QED BY <2>5, <2>6, <2>7
<1>3. PairsApart(list) <=>
        \A day \in Days : \A i, j \in Whole(list, day) :
          i # j => list[i].end <= list[j].start \/ list[j].end <= list[i].start
  <2>1. \A day, i : i \in Whole(list, day) => i \in DOMAIN list /\ list[i].day = day
    BY DEF Whole
  <2> QED BY <1>1, <2>1 DEF PairsApart
<1> QED BY <1>2, <1>3

(* Where every row is sound, all bands of a day are whole ones, and the    *)
(* server compares the neighbours that the client compares.                *)
LEMMA SameNeighbours ==
  ASSUME NEW list \in Seq(CycleBodies), \A i \in DOMAIN list : RowOk(list[i]),
         NEW day \in Days
  PROVE  NeighboursApart(ByStart(list, day)) <=>
           LET order == Bands(list, day)
           IN \A k \in 1 .. Len(order) - 1 : ~(list[order[k + 1]].start < list[order[k]].end)
<1> DEFINE Sooner(i, j) == \/ list[i].start < list[j].start
                           \/ list[i].start = list[j].start /\ i < j
           D == {i \in DOMAIN list : list[i].day = day}
           Sorted(S) == InOrder(S, Sooner)
           order == BandOrder(list, day)
<1>1. D = Whole(list, day)
  BY DEF RowOk, Whole
<1>2. Bands(list, day) = Sorted(D) /\ order = Sorted(Whole(list, day))
  BY DEF Bands, BandOrder
<1>3. Listed(list, day, order)
  BY ByStartIs
<1> HIDE DEF Sorted, D, order
<1>4. Bands(list, day) = order
  BY <1>1, <1>2
<1>5. PICK n \in Nat : /\ order \in [1 .. n -> Whole(list, day)]
                       /\ ByStart(list, day) = [k \in 1 .. n |-> list[order[k]]]
  BY <1>3 DEF Listed
<1>6. Len(order) = n /\ Len(ByStart(list, day)) = n
  BY <1>5
<1>7. \A k \in 1 .. n : /\ ByStart(list, day)[k] = list[order[k]]
                         /\ list[order[k]].start \in Int /\ list[order[k]].end \in Int
  <2>1. \A i \in Whole(list, day) : list[i] \in CycleBodies
    BY DEF Whole
  <2> QED BY <1>5, <2>1 DEF CycleBodies
<1>8. \A k \in 1 .. n - 1 : k \in 1 .. n /\ k + 1 \in 1 .. n
  OBVIOUS
<1>9. NeighboursApart(ByStart(list, day)) <=>
        \A k \in 1 .. n - 1 : list[order[k + 1]].start >= list[order[k]].end
  BY <1>6, <1>7, <1>8 DEF NeighboursApart
<1> QED BY <1>4, <1>6, <1>7, <1>8, <1>9

(* The client and the server accept the same requests, and in one that     *)
(* they accept no two bands of a day overlap.                              *)
LEMMA RulesAlike ==
  ASSUME NEW list \in Seq(CycleBodies)
  PROVE  /\ ValidateCycleRequests(list) <=> ServerAccepts(list)
         /\ ServerAccepts(list) => PairsApart(list)
<1>1. \A i \in DOMAIN list :
        RowOk(list[i]) <=>
          /\ NaN \notin {list[i].cycle, list[i].red, list[i].start, list[i].end}
          /\ ~(list[i].cycle < MinCycle \/ list[i].cycle > MaxCycle)
          /\ ~(list[i].red <= 0 \/ list[i].red >= list[i].cycle)
          /\ list[i].start < list[i].end
  <2> SUFFICES ASSUME NEW i \in DOMAIN list
               PROVE  RowOk(list[i]) <=>
                        /\ NaN \notin {list[i].cycle, list[i].red, list[i].start, list[i].end}
                        /\ ~(list[i].cycle < MinCycle \/ list[i].cycle > MaxCycle)
                        /\ ~(list[i].red <= 0 \/ list[i].red >= list[i].cycle)
                        /\ list[i].start < list[i].end
    OBVIOUS
  <2>1. list[i] \in CycleBodies
    OBVIOUS
  <2>2. /\ list[i].cycle \in Int /\ list[i].red \in Int
        /\ list[i].start \in Int /\ list[i].end \in Int
    BY <2>1 DEF CycleBodies
  <2> QED BY <2>2, SignalCyclesAssumption DEF RowOk, NaN
<1>2. CASE \A i \in DOMAIN list : RowOk(list[i])
  <2>1. \A day \in Days :
          NeighboursApart(ByStart(list, day)) <=>
            LET order == Bands(list, day)
            IN \A k \in 1 .. Len(order) - 1 : ~(list[order[k + 1]].start < list[order[k]].end)
    BY <1>2, SameNeighbours
  <2>2. ValidateCycleRequests(list) <=> ServerAccepts(list)
    BY <1>1, <1>2, <2>1 DEF ValidateCycleRequests, ServerAccepts
  <2>3. ValidateCycleRequests(list) => PairsApart(list)
    BY <1>2, NeighboursAreEnough DEF ValidateCycleRequests
  <2> QED BY <2>2, <2>3
<1>3. CASE ~ \A i \in DOMAIN list : RowOk(list[i])
  BY <1>1, <1>3 DEF ValidateCycleRequests, ServerAccepts
<1> QED BY <1>2, <1>3

-----------------------------------------------------------------------------
(* The order of rows. *)

(* What Min is, of a set of natural numbers.                               *)
LEMMA MinIs ==
  ASSUME NEW T, T \subseteq Nat, T # {}
  PROVE  Min(T) \in T /\ \A y \in T : Min(T) <= y
<1>1. \E x \in T : \A y \in T : x <= y
  BY Least
<1> QED BY <1>1, Zenon DEF Min

(* Where a day type and a source stand; what the user measured is first.   *)
LEMMA Standing ==
  ASSUME NEW r \in CycleRows
  PROVE  /\ IndexOf(DayTypes, r.day) \in Nat
         /\ Rank(r) \in 1 .. 3
         /\ r.source = "USER_OBSERVED" <=> Rank(r) = 1
<1>1. r.day \in Days /\ r.source \in Range(Sources)
  BY DEF CycleRows
<1>2. IndexOf(DayTypes, r.day) \in DOMAIN DayTypes
  <2>1. \E i \in DOMAIN DayTypes : DayTypes[i] = r.day
    BY <1>1 DEF Days, Range
  <2> QED BY <2>1, Zenon DEF IndexOf
<1>3. IndexOf(DayTypes, r.day) \in Nat
  <2>1. DOMAIN DayTypes \subseteq Nat
    BY SignalCyclesAssumption
  <2> QED BY <1>2, <2>1
<1>4. DOMAIN Sources = 1 .. 3
  BY DEF Sources
<1>5. Rank(r) \in DOMAIN Sources /\ Sources[Rank(r)] = r.source
  <2>1. \E i \in DOMAIN Sources : Sources[i] = r.source
    BY <1>1 DEF Range
  <2> QED BY <2>1, Zenon DEF IndexOf, Rank
<1>6. Sources[1] = "USER_OBSERVED" /\ Sources[2] = "PUBLIC_API" /\ Sources[3] = "DEFAULT_ASSUMPTION"
  BY DEF Sources
<1> QED BY <1>3, <1>4, <1>5, <1>6

(* By day type, then start, then source, then id.                          *)
LEMMA EarlierIs ==
  ASSUME NEW a \in CycleRows, NEW b \in CycleRows
  PROVE  Earlier(a, b) <=>
           \/ IndexOf(DayTypes, a.day) < IndexOf(DayTypes, b.day)
           \/ /\ IndexOf(DayTypes, a.day) = IndexOf(DayTypes, b.day)
              /\ \/ a.start < b.start
                 \/ /\ a.start = b.start
                    /\ \/ Rank(a) < Rank(b)
                       \/ Rank(a) = Rank(b) /\ a.id < b.id
<1> DEFINE place(r) == <<IndexOf(DayTypes, r.day), r.start, Rank(r), r.id>>
           differ == {i \in 1 .. 4 : place(a)[i] # place(b)[i]}
<1>1. /\ IndexOf(DayTypes, a.day) \in Int /\ IndexOf(DayTypes, b.day) \in Int
      /\ a.start \in Int /\ b.start \in Int
      /\ Rank(a) \in Int /\ Rank(b) \in Int
      /\ a.id \in Int /\ b.id \in Int
  BY Standing DEF CycleRows
<1>2. Earlier(a, b) <=> differ # {} /\ place(a)[Min(differ)] < place(b)[Min(differ)]
  BY Zenon DEF Earlier
<1>3. differ # {} => Min(differ) \in differ /\ \A y \in differ : Min(differ) <= y
  <2>1. differ \subseteq Nat
    OBVIOUS
  <2> HIDE DEF differ
  <2> QED BY <2>1, MinIs
<1> DEFINE m == Min(differ)
<1>4. Earlier(a, b) <=> differ # {} /\ place(a)[m] < place(b)[m]
  BY <1>2
<1>5. differ # {} => m \in differ /\ \A y \in differ : m <= y
  BY <1>3
<1> HIDE DEF m
<1>6. /\ 1 \in differ <=> IndexOf(DayTypes, a.day) # IndexOf(DayTypes, b.day)
      /\ 2 \in differ <=> a.start # b.start
      /\ 3 \in differ <=> Rank(a) # Rank(b)
      /\ 4 \in differ <=> a.id # b.id
      /\ \A i \in differ : i \in {1, 2, 3, 4}
  OBVIOUS
<1>7. /\ place(a)[1] = IndexOf(DayTypes, a.day) /\ place(b)[1] = IndexOf(DayTypes, b.day)
      /\ place(a)[2] = a.start /\ place(b)[2] = b.start
      /\ place(a)[3] = Rank(a) /\ place(b)[3] = Rank(b)
      /\ place(a)[4] = a.id /\ place(b)[4] = b.id
  OBVIOUS
<1> HIDE DEF differ, place
<1>8. CASE differ = {}
  BY <1>1, <1>4, <1>6, <1>8
<1>9. CASE differ # {}
  <2>1. m \in {1, 2, 3, 4}
    BY <1>5, <1>6, <1>9
  <2>2. CASE m = 1
    BY <1>1, <1>4, <1>5, <1>6, <1>7, <1>9, <2>2
  <2>3. CASE m = 2
    BY <1>1, <1>4, <1>5, <1>6, <1>7, <1>9, <2>3
  <2>4. CASE m = 3
    BY <1>1, <1>4, <1>5, <1>6, <1>7, <1>9, <2>4
  <2>5. CASE m = 4
    BY <1>1, <1>4, <1>5, <1>6, <1>7, <1>9, <2>5
  <2> QED BY <2>1, <2>2, <2>3, <2>4, <2>5
<1> QED BY <1>8, <1>9

(* Rows the server may have: no two with one id.                           *)
GoodRows(set) ==
  /\ set \subseteq CycleRows /\ IsFiniteSet(set)
  /\ \A a, b \in set : a.id = b.id => a = b

EarlierPairs(set) == {p \in set \X set : Earlier(p[1], p[2])}

(* Earlier orders the rows totally: the id tells equals apart.             *)
LEMMA EarlierOrders ==
  ASSUME NEW set, GoodRows(set)
  PROVE  Orders(EarlierPairs(set), set)
<1>1. \A a \in set : a \in CycleRows
  BY DEF GoodRows
<1>2. \A a \in set : /\ IndexOf(DayTypes, a.day) \in Int /\ a.start \in Int
                     /\ Rank(a) \in Int /\ a.id \in Int
  BY <1>1, Standing DEF CycleRows
<1>3. \A a, b \in set : <<a, b>> \in EarlierPairs(set) <=> Earlier(a, b)
  BY DEF EarlierPairs
<1>4. \A a, b \in set : <<a, b>> \in EarlierPairs(set) <=>
           \/ IndexOf(DayTypes, a.day) < IndexOf(DayTypes, b.day)
           \/ /\ IndexOf(DayTypes, a.day) = IndexOf(DayTypes, b.day)
              /\ \/ a.start < b.start
                 \/ /\ a.start = b.start
                    /\ \/ Rank(a) < Rank(b)
                       \/ Rank(a) = Rank(b) /\ a.id < b.id
  BY <1>1, <1>3, EarlierIs
<1>5. \A a \in set : <<a, a>> \notin EarlierPairs(set)
  BY <1>2, <1>4
<1>6. \A a, b \in set : a = b \/ <<a, b>> \in EarlierPairs(set) \/ <<b, a>> \in EarlierPairs(set)
  <2> SUFFICES ASSUME NEW a \in set, NEW b \in set, a # b
               PROVE  <<a, b>> \in EarlierPairs(set) \/ <<b, a>> \in EarlierPairs(set)
    OBVIOUS
  <2>1. a.id # b.id
    BY DEF GoodRows
  <2> QED BY <1>2, <1>4, <2>1
<1>7. \A a, b, c \in set : <<a, b>> \in EarlierPairs(set) /\ <<b, c>> \in EarlierPairs(set)
        => <<a, c>> \in EarlierPairs(set)
  BY <1>2, <1>4
<1> QED BY <1>5, <1>6, <1>7 DEF Orders

(* A draft of a row the user may edit.                                     *)
CycleDrafts == [key : {"row", "new"} \X Int, day : Days, start : Int, end : Int,
                cycle : Int, red : Int]

(* What the form shows of the server's rows is a list of drafts.           *)
LEMMA DraftsAre ==
  ASSUME NEW set, GoodRows(set)
  PROVE  DraftsFromCycles(set) \in Seq(CycleDrafts)
<1> DEFINE S == Own(set)
           R == EarlierPairs(S)
           sorted == InOrder(S, Earlier)
           n == Cardinality(S)
<1>1. GoodRows(S)
  <2>1. S \subseteq set
    BY DEF Own
  <2> HIDE DEF S
  <2>2. IsFiniteSet(S)
    BY <2>1, FS_Subset DEF GoodRows
  <2> QED BY <2>1, <2>2 DEF GoodRows
<1>2. Placed(sorted, R, S)
  <2> HIDE DEF S
  <2>1. \A e \in S : {o \in S : Earlier(o, e)} = Ahead(R, S, e)
    BY DEF Ahead, EarlierPairs
  <2> HIDE DEF R
  <2>2. sorted = [k \in 1 .. n |->
                   CHOOSE e \in S : Cardinality({o \in S : Earlier(o, e)}) = k - 1]
    BY DEF InOrder
  <2>3. \A k \in 1 .. n :
          sorted[k] = CHOOSE e \in S : Cardinality({o \in S : Earlier(o, e)}) = k - 1
    BY <2>2
  <2>4. sorted = [k \in 1 .. n |-> sorted[k]]
    BY <2>2
  <2> HIDE DEF sorted
  <2>5. ASSUME NEW k \in 1 .. n, NEW e \in S, Cardinality(Ahead(R, S, e)) = k - 1
        PROVE  sorted[k] \in S /\ Cardinality(Ahead(R, S, sorted[k])) = k - 1
    <3>1. Cardinality({o \in S : Earlier(o, e)}) = k - 1
      BY <2>1, <2>5
    <3>2. sorted[k] \in S /\ Cardinality({o \in S : Earlier(o, sorted[k])}) = k - 1
      BY <2>3, <3>1, Zenon
    <3> QED BY <2>1, <3>2
  <2> QED BY <2>4, <2>5 DEF Placed
<1>3. n \in Nat /\ sorted \in [1 .. n -> S]
  <2>1. Orders(R, S)
    BY <1>1, EarlierOrders
  <2> HIDE DEF S, R, sorted
  <2> QED BY <1>1, <1>2, <2>1, OrderedList DEF GoodRows
<1>4. DraftsFromCycles(set) = [i \in DOMAIN sorted |-> Draft(sorted[i])]
  BY DEF DraftsFromCycles
<1>5. \A r \in S : Draft(r) \in CycleDrafts
  <2>1. \A r \in S : r \in CycleRows
    BY <1>1 DEF GoodRows
  <2> QED BY <2>1 DEF CycleRows, CycleDrafts, Draft
<1> HIDE DEF S, sorted, n
<1>6. DraftsFromCycles(set) = [i \in 1 .. n |-> Draft(sorted[i])]
  BY <1>3, <1>4
<1> QED BY <1>3, <1>5, <1>6

-----------------------------------------------------------------------------
(* The row in force. *)

(* The row that is chosen is in force, and none in force has a better      *)
(* source.                                                                 *)
LEMMA ChosenIs ==
  ASSUME NEW set, GoodRows(set), NEW day, NEW at
  PROVE  LET hits == Containing(set, day, at)
             chosen == EffectiveCycle(set, day, at)
         IN /\ hits = {} => chosen = None
            /\ hits # {} => chosen \in hits /\ \A r \in hits : Rank(chosen) <= Rank(r)
<1> DEFINE S == Containing(set, day, at)
           Better(a, b) == Rank(a) < Rank(b) \/ (Rank(a) = Rank(b) /\ Earlier(a, b))
           R == {p \in S \X S : Better(p[1], p[2])}
           list == InOrder(S, Better)
           n == Cardinality(S)
           chosen == EffectiveCycle(set, day, at)
<1>1. GoodRows(S)
  <2>1. S \subseteq set
    BY DEF Containing
  <2> HIDE DEF S
  <2>2. IsFiniteSet(S)
    BY <2>1, FS_Subset DEF GoodRows
  <2> QED BY <2>1, <2>2 DEF GoodRows
<1>2. chosen = IF list = <<>> THEN None ELSE list[1]
  BY DEF EffectiveCycle
<1> HIDE DEF S, chosen
<1>3. \A a, b \in S : <<a, b>> \in R <=> Better(a, b)
  OBVIOUS
<1>4. \A a \in S : Rank(a) \in Int
  BY <1>1, Standing DEF GoodRows
<1>5. Orders(R, S)
  <2>1. Orders(EarlierPairs(S), S)
    BY <1>1, EarlierOrders
  <2>2. \A a, b \in S : <<a, b>> \in EarlierPairs(S) <=> Earlier(a, b)
    BY DEF EarlierPairs
  <2>3. \A a, b \in S : <<a, b>> \in R <=>
          Rank(a) < Rank(b) \/ (Rank(a) = Rank(b) /\ <<a, b>> \in EarlierPairs(S))
    BY <1>3, <2>2
  <2> HIDE DEF R
  <2>4. ASSUME NEW a \in S
        PROVE  <<a, a>> \notin R
    <3>1. <<a, a>> \notin EarlierPairs(S)
      BY <2>1, Zenon DEF Orders
    <3> QED BY <1>4, <2>3, <3>1
  <2>5. ASSUME NEW a \in S, NEW b \in S
        PROVE  a = b \/ <<a, b>> \in R \/ <<b, a>> \in R
    <3>1. a = b \/ <<a, b>> \in EarlierPairs(S) \/ <<b, a>> \in EarlierPairs(S)
      BY <2>1, Zenon DEF Orders
    <3> QED BY <1>4, <2>3, <3>1
  <2>6. \A a, b, c \in S : <<a, b>> \in R /\ <<b, c>> \in R => <<a, c>> \in R
    BY <1>4, <2>1, <2>3 DEF Orders
  <2> QED BY <2>4, <2>5, <2>6 DEF Orders
<1>6. Placed(list, R, S)
  <2>1. \A e \in S : {o \in S : Better(o, e)} = Ahead(R, S, e)
    BY DEF Ahead
  <2> HIDE DEF Better, R
  <2>2. list = [k \in 1 .. n |->
                  CHOOSE e \in S : Cardinality({o \in S : Better(o, e)}) = k - 1]
    BY DEF InOrder
  <2>3. \A k \in 1 .. n :
          list[k] = CHOOSE e \in S : Cardinality({o \in S : Better(o, e)}) = k - 1
    BY <2>2
  <2>4. list = [k \in 1 .. n |-> list[k]]
    BY <2>2
  <2> HIDE DEF list
  <2>5. ASSUME NEW k \in 1 .. n, NEW e \in S, Cardinality(Ahead(R, S, e)) = k - 1
        PROVE  list[k] \in S /\ Cardinality(Ahead(R, S, list[k])) = k - 1
    <3>1. Cardinality({o \in S : Better(o, e)}) = k - 1
      BY <2>1, <2>5
    <3>2. list[k] \in S /\ Cardinality({o \in S : Better(o, list[k])}) = k - 1
      BY <2>3, <3>1, Zenon
    <3> QED BY <2>1, <3>2
  <2> QED BY <2>4, <2>5 DEF Placed
<1>7. /\ n \in Nat
      /\ list \in [1 .. n -> S]
      /\ \A i, j \in 1 .. n : i < j => <<list[i], list[j]>> \in R
      /\ \A e \in S : \E k \in 1 .. n : list[k] = e
  <2> HIDE DEF list, R
  <2> QED BY <1>1, <1>5, <1>6, OrderedList DEF GoodRows
<1> HIDE DEF list, n
<1>8. CASE S = {}
  <2>1. n = 0
    BY <1>7, <1>8
  <2>2. list = <<>>
    BY <1>7, <2>1
  <2> QED BY <1>2, <1>8, <2>2 DEF S, chosen
<1>9. CASE S # {}
  <2>1. n >= 1
    BY <1>7, <1>9
  <2>2. list # <<>> /\ list[1] \in S
    BY <1>7, <2>1
  <2>3. chosen = list[1]
    BY <1>2, <2>2
  <2>4. ASSUME NEW r \in S
        PROVE  Rank(list[1]) <= Rank(r)
    <3>1. PICK k \in 1 .. n : list[k] = r
      BY <1>7
    <3>2. CASE k = 1
      BY <1>4, <2>2, <3>1, <3>2
    <3>3. CASE k # 1
      <4>1. 1 \in 1 .. n /\ 1 < k
        BY <1>7, <2>1, <3>3
      <4>2. <<list[1], r>> \in R
        BY <1>7, <3>1, <4>1
      <4> QED BY <1>3, <1>4, <2>2, <4>2
    <3> QED BY <3>2, <3>3
  <2> QED BY <1>9, <2>2, <2>3, <2>4 DEF S, chosen
<1> QED BY <1>8, <1>9

-----------------------------------------------------------------------------
(* The invariants. *)

(* No two measured rows of a day overlap. *)
UserApart(set) ==
  \A a, b \in Own(set) : a # b /\ a.day = b.day => a.end <= b.start \/ b.end <= a.start

CallOk(c) ==
  /\ c = [body |-> c.body, got |-> c.got, watched |-> c.watched]
  /\ c.body \in Seq(CycleBodies)
  /\ c.got # None /\ c.got.ok => GoodRows(c.got.rows)

(* A PUT the server has accepted and not yet stored. *)
PutOk(p) ==
  /\ p = [step |-> p.step, body |-> p.body, found |-> p.found, added |-> p.added,
          answer |-> p.answer, passed |-> p.passed]
  /\ p.body \in Seq(CycleBodies) /\ ServerAccepts(p.body)
  /\ \A r \in p.added : r.source = "USER_OBSERVED"
  /\ UserApart(p.added)
  /\ GoodRows(p.answer)

(* The rows that PUTs under way have inserted.                             *)
Pending == UNION {puts[w].added : w \in {o \in Clients : puts[o] # None}}

Typed ==
  /\ GoodRows(rows \cup Pending)
  /\ nextId \in Nat
  /\ \A r \in rows \cup Pending : r.id <= nextId
  /\ drafts \in Seq(CycleDrafts)
  /\ nextKey \in Int
  /\ call # None => CallOk(call)
  /\ puts = [w \in Clients |-> puts[w]]
  /\ \A w \in Clients : puts[w] # None => PutOk(puts[w])
  /\ refetch # None /\ refetch.got # None => GoodRows(refetch.got.rows)

(* A PUT that no other has overtaken still deletes all that the user       *)
(* measured, and what one such PUT left is what is stored.                 *)
Alone ==
  /\ ~crossed => UserApart(rows)
  /\ \A w \in Clients : puts[w] # None /\ ~puts[w].passed => puts[w].found = Own(rows)

(* "Saved" is shown only while no save is under way, and until another     *)
(* client writes, what was saved is what the server has.                   *)
Told ==
  /\ call # None => ~saved
  /\ puts["here"] # None => ~saved /\ CallOk(call) /\ call.got = None
  /\ spent \in [edits : Nat, saves : Nat, elsewhere : Nat, refetches : Nat]
  /\ spent.elsewhere = 0 =>
       /\ puts["elsewhere"] = None
       /\ puts["here"] # None /\ puts["here"].step = "read" =>
            puts["here"].answer = WithUserRows(puts["here"])
       /\ call # None /\ call.got # None /\ call.got.ok => call.got.rows = rows
       /\ saved => drafts = DraftsFromCycles(rows)

(* An edit leaves a draft a draft.                                         *)
LEMMA EditIs ==
  ASSUME NEW d \in CycleDrafts, NEW edit \in Edits
  PROVE  [d EXCEPT ![edit.field] = edit.value] \in CycleDrafts
<1>1. CASE edit.field = "day" /\ edit.value \in Days
  BY <1>1 DEF CycleDrafts
<1>2. CASE edit.field \in {"start", "end", "cycle", "red"} /\ edit.value \in Int
  <2>1. CASE edit.field = "start"
    BY <1>2, <2>1 DEF CycleDrafts
  <2>2. CASE edit.field = "end"
    BY <1>2, <2>2 DEF CycleDrafts
  <2>3. CASE edit.field = "cycle"
    BY <1>2, <2>3 DEF CycleDrafts
  <2>4. CASE edit.field = "red"
    BY <1>2, <2>4 DEF CycleDrafts
  <2> QED BY <1>2, <2>1, <2>2, <2>3, <2>4
<1> QED BY <1>1, <1>2, SignalCyclesAssumption

(* What is left of a list of drafts is one.                                *)
LEMMA KeptIs ==
  ASSUME NEW list \in Seq(CycleDrafts), NEW key
  PROVE  LET kept == InOrder({i \in DOMAIN list : list[i].key # key}, <)
         IN [k \in DOMAIN kept |-> list[kept[k]]] \in Seq(CycleDrafts)
<1> DEFINE S == {i \in DOMAIN list : list[i].key # key}
           R == {p \in S \X S : p[1] < p[2]}
           kept == InOrder(S, <)
           n == Cardinality(S)
<1>1. \A i \in S : i \in DOMAIN list /\ i \in Int
  OBVIOUS
<1>2. IsFiniteSet(S)
  <2>1. IsFiniteSet(DOMAIN list)
    BY FS_Interval
  <2> QED BY <2>1, FS_Subset
<1> HIDE DEF S
<1>3. \A i, j \in S : <<i, j>> \in R <=> i < j
  OBVIOUS
<1> HIDE DEF R
<1>4. Orders(R, S)
  BY <1>1, <1>3 DEF Orders
<1>5. Placed(kept, R, S)
  <2>1. \A e \in S : {o \in S : o < e} = Ahead(R, S, e)
    BY <1>3 DEF Ahead
  <2>2. kept = [k \in 1 .. n |-> CHOOSE e \in S : Cardinality({o \in S : o < e}) = k - 1]
    BY DEF InOrder
  <2>3. \A k \in 1 .. n : kept[k] = CHOOSE e \in S : Cardinality({o \in S : o < e}) = k - 1
    BY <2>2
  <2>4. kept = [k \in 1 .. n |-> kept[k]]
    BY <2>2
  <2> HIDE DEF kept
  <2>5. ASSUME NEW k \in 1 .. n, NEW e \in S, Cardinality(Ahead(R, S, e)) = k - 1
        PROVE  kept[k] \in S /\ Cardinality(Ahead(R, S, kept[k])) = k - 1
    <3>1. Cardinality({o \in S : o < e}) = k - 1
      BY <2>1, <2>5
    <3>2. kept[k] \in S /\ Cardinality({o \in S : o < kept[k]}) = k - 1
      BY <2>3, <3>1, Zenon
    <3> QED BY <2>1, <3>2
  <2> QED BY <2>4, <2>5 DEF Placed
<1>6. n \in Nat /\ kept \in [1 .. n -> S]
  <2> HIDE DEF kept
  <2> QED BY <1>2, <1>4, <1>5, OrderedList
<1>7. [k \in DOMAIN kept |-> list[kept[k]]] \in Seq(CycleDrafts)
  <2> HIDE DEF kept, n
  <2> QED BY <1>1, <1>6
<1> QED BY <1>7 DEF S

(* Bodies of requests are made of drafts.                                  *)
LEMMA RequestsAre ==
  ASSUME NEW list \in Seq(CycleDrafts)
  PROVE  ToCycleRequests(list) \in Seq(CycleBodies)
<1> DEFINE body(i) == [day |-> list[i].day, start |-> list[i].start, end |-> list[i].end,
                       cycle |-> list[i].cycle, red |-> list[i].red]
<1>1. \A i \in DOMAIN list : body(i) \in CycleBodies
  <2>1. \A i \in DOMAIN list : list[i] \in CycleDrafts
    OBVIOUS
  <2> QED BY <2>1 DEF CycleDrafts, CycleBodies
<1>2. ToCycleRequests(list) = [i \in DOMAIN list |-> body(i)]
  BY DEF ToCycleRequests
<1>3. DOMAIN list = 1 .. Len(list) /\ Len(list) \in Nat
  OBVIOUS
<1> HIDE DEF body
<1> QED BY <1>1, <1>2, <1>3

(* Part of good rows is good.                                              *)
LEMMA PartIsGood ==
  ASSUME NEW set, GoodRows(set), NEW part, part \subseteq set
  PROVE  GoodRows(part)
<1>1. IsFiniteSet(part)
  BY FS_Subset DEF GoodRows
<1> QED BY <1>1 DEF GoodRows

(* The rows that a PUT inserts are measured ones that do not overlap, and  *)
(* their ids are new.                                                      *)
LEMMA InsertedAre ==
  ASSUME NEW body \in Seq(CycleBodies), ServerAccepts(body), nextId \in Nat,
         NEW set, GoodRows(set), \A r \in set : r.id <= nextId
  PROVE  /\ GoodRows(set \cup Inserted(body)) /\ UserApart(Inserted(body))
         /\ \A r \in Inserted(body) : r.source = "USER_OBSERVED"
         /\ nextId + Len(body) \in Nat
         /\ \A r \in set \cup Inserted(body) : r.id <= nextId + Len(body)
<1> DEFINE new == [i \in DOMAIN body |->
                     [id |-> nextId + i, day |-> body[i].day, start |-> body[i].start,
                      end |-> body[i].end, cycle |-> body[i].cycle, red |-> body[i].red,
                      source |-> "USER_OBSERVED"]]
           made == {new[i] : i \in DOMAIN body}
<1>1. Inserted(body) = made
  BY DEF Inserted
<1>2. \A i \in DOMAIN body :
        /\ i \in Nat /\ i >= 1 /\ i <= Len(body)
        /\ body[i].day \in Days /\ body[i].start \in Int /\ body[i].end \in Int
        /\ new[i].id = nextId + i /\ new[i].day = body[i].day
        /\ new[i].start = body[i].start /\ new[i].end = body[i].end
        /\ new[i].source = "USER_OBSERVED" /\ new[i] \in CycleRows
  <2>1. \A i \in DOMAIN body : i \in Nat /\ i >= 1 /\ i <= Len(body) /\ body[i] \in CycleBodies
    OBVIOUS
  <2>2. "USER_OBSERVED" \in Range(Sources)
    <3>1. 1 \in DOMAIN Sources /\ Sources[1] = "USER_OBSERVED"
      BY DEF Sources
    <3> QED BY <3>1 DEF Range
  <2> QED BY <2>1, <2>2 DEF CycleBodies, CycleRows
<1>4. IsFiniteSet(made)
  <2>1. IsFiniteSet(DOMAIN body)
    BY FS_Interval
  <2>2. new \in Surjection(DOMAIN body, made)
    <3>1. \A i \in DOMAIN body : new[i] \in made
      OBVIOUS
    <3>2. \A e \in made : \E i \in DOMAIN body : new[i] = e
      OBVIOUS
    <3>3. new = [i \in DOMAIN body |-> new[i]]
      OBVIOUS
    <3> HIDE DEF new, made
    <3>4. new \in [DOMAIN body -> made]
      BY <3>1, <3>3
    <3> QED BY <3>2, <3>4 DEF Surjection
  <2> QED BY <2>1, <2>2, FS_Surjection
<1>5. \A r \in made : \E i \in DOMAIN body : r = new[i]
  OBVIOUS
<1> HIDE DEF new, made
<1>6. IsFiniteSet(set \cup made)
  BY <1>4, FS_Union DEF GoodRows
<1>7. \A r \in set : r \in CycleRows /\ r.id \in Int /\ r.id <= nextId
  BY DEF GoodRows, CycleRows
<1>8. GoodRows(set \cup made)
  <2>1. set \cup made \subseteq CycleRows
    BY <1>2, <1>5, <1>7
  <2>2. \A a, b \in set : a.id = b.id => a = b
    BY DEF GoodRows
  <2>3. \A a \in set, b \in made : a.id # b.id
    BY <1>2, <1>5, <1>7
  <2>4. \A a, b \in made : a.id = b.id => a = b
    BY <1>2, <1>5
  <2> QED BY <1>6, <2>1, <2>2, <2>3, <2>4 DEF GoodRows
<1>9. UserApart(made)
  <2> SUFFICES ASSUME NEW a \in made, NEW b \in made, a # b, a.day = b.day
               PROVE  a.end <= b.start \/ b.end <= a.start
    BY DEF UserApart, Own
  <2>1. PICK i \in DOMAIN body : a = new[i]
    BY <1>5
  <2>2. PICK j \in DOMAIN body : b = new[j]
    BY <1>5
  <2>3. i # j /\ body[i].day = body[j].day
    BY <1>2, <2>1, <2>2
  <2>4. body[i].end <= body[j].start \/ body[j].end <= body[i].start
    BY <2>3, RulesAlike DEF PairsApart
  <2> QED BY <1>2, <2>1, <2>2, <2>4
<1>10. \A r \in made : r.source = "USER_OBSERVED"
  BY <1>2, <1>5
<1>11. Len(body) \in Nat
  OBVIOUS
<1>12. \A r \in set \cup made : r.id <= nextId + Len(body)
  BY <1>2, <1>5, <1>7, <1>11
<1> QED BY <1>1, <1>8, <1>9, <1>10, <1>11, <1>12

Inv == Typed /\ Alone /\ Told

(* The editor as it opens.                                                 *)
LEMMA InvStarts ==
  Init => Inv
<1> SUFFICES ASSUME Init PROVE Inv
  OBVIOUS
<1>1. rows \cup Pending = Given
  BY DEF Init, Pending
<1>2. Typed
  <2>1. GoodRows(Given) /\ \A r \in Given : r.id <= 1
    BY GivenAssumption DEF GoodRows, CycleRows
  <2>2. /\ puts = [w \in Clients |-> puts[w]]
        /\ \A w \in Clients : puts[w] = None
    BY DEF Init
  <2>3. <<>> \in Seq(CycleDrafts)
    OBVIOUS
  <2>4. GoodRows(rows \cup Pending) /\ \A r \in rows \cup Pending : r.id <= nextId
    BY <1>1, <2>1 DEF Init
  <2>5. drafts \in Seq(CycleDrafts) /\ nextKey \in Int /\ nextId \in Nat
    BY <2>3 DEF Init
  <2>6. call = None /\ refetch.got = None
    BY DEF Init
  <2> QED BY <2>2, <2>4, <2>5, <2>6 DEF Typed
<1>3. Alone
  BY GivenAssumption DEF Init, Alone, UserApart, Own
<1>4. Told
  BY DEF Init, Told, Clients
<1> QED BY <1>2, <1>3, <1>4 DEF Inv

(* What does not touch the store leaves what is said of it.                *)
LEMMA StoreStays ==
  ASSUME Inv, UNCHANGED store
  PROVE  /\ Alone'
         /\ GoodRows(rows' \cup Pending') /\ nextId' \in Nat
         /\ \A r \in rows' \cup Pending' : r.id <= nextId'
         /\ puts' = [w \in Clients |-> puts'[w]]
         /\ \A w \in Clients : puts'[w] # None => PutOk(puts'[w])
<1>1. UNCHANGED <<rows, nextId, puts, crossed>>
  BY DEF store
<1>2. Pending' = Pending
  BY <1>1 DEF Pending
<1>3. Alone'
  BY <1>1 DEF Inv, Alone
<1> QED BY <1>1, <1>2, <1>3 DEF Inv, Typed

(* Editing the form.                                                       *)
LEMMA ChangeKeeps ==
  ASSUME Inv, NEW next, next \in Seq(CycleDrafts), Change(next), nextKey' \in Int
  PROVE  Inv'
<1> USE DEF Inv
<1>0. UNCHANGED store
  BY DEF Change
<1>1. Typed'
  BY <1>0, StoreStays DEF Typed, Change
<1>2. Alone'
  BY <1>0, StoreStays
<1>3. Told'
  BY <1>0 DEF Told, Change, Spend, store, WithUserRows
<1> QED BY <1>1, <1>2, <1>3

(* A field of a row is changed.                                            *)
LEMMA PatchKeeps ==
  ASSUME Inv, NEW key, NEW edit \in Edits, Patch(key, edit)
  PROVE  Inv'
<1> DEFINE one(i) == IF drafts[i].key = key THEN [drafts[i] EXCEPT ![edit.field] = edit.value]
                     ELSE drafts[i]
           next == [i \in DOMAIN drafts |-> one(i)]
<1>1. drafts \in Seq(CycleDrafts)
  BY DEF Inv, Typed
<1>2. \A i \in DOMAIN drafts : one(i) \in CycleDrafts
  BY <1>1, EditIs
<1>3. DOMAIN drafts = 1 .. Len(drafts) /\ Len(drafts) \in Nat
  BY <1>1
<1>4. Change(next) /\ nextKey' \in Int
  BY DEF Patch, Inv, Typed
<1>5. next \in Seq(CycleDrafts)
  <2> HIDE DEF one
  <2> QED BY <1>2, <1>3
<1> HIDE DEF next
<1> QED BY <1>4, <1>5, ChangeKeeps

(* A row is added.                                                         *)
LEMMA AddRowKeeps ==
  ASSUME Inv, AddRow
  PROVE  Inv'
<1> DEFINE day == IF drafts = <<>> THEN DayTypes[1] ELSE drafts[Len(drafts)].day
<1>1. drafts \in Seq(CycleDrafts) /\ nextKey \in Int
  BY DEF Inv, Typed
<1>2. day \in Days
  <2>1. CASE drafts = <<>>
    BY <2>1, SignalCyclesAssumption
  <2>2. CASE drafts # <<>>
    <3>1. drafts[Len(drafts)] \in CycleDrafts
      BY <1>1, <2>2
    <3> QED BY <2>2, <3>1 DEF CycleDrafts
  <2> QED BY <2>1, <2>2
<1>3. Change(Append(drafts, NewCycleDraft(day))) /\ nextKey' = nextKey + 1
  BY DEF AddRow
<1> HIDE DEF day
<1>4. NewCycleDraft(day) \in CycleDrafts
  <2>0. NewStart \in Instants /\ NewEnd \in Instants /\ Instants \subseteq Nat
    BY SignalCyclesAssumption, Zenon
  <2>1. NewStart \in Int /\ NewEnd \in Int /\ NaN \in Int
    BY <2>0 DEF NaN
  <2>2. <<"new", nextKey>> \in {"row", "new"} \X Int
    BY <1>1
  <2> HIDE DEF NaN
  <2> QED BY <1>2, <2>1, <2>2 DEF NewCycleDraft, CycleDrafts
<1> DEFINE next == Append(drafts, NewCycleDraft(day))
<1>5. next \in Seq(CycleDrafts)
  BY <1>1, <1>4
<1>6. Change(next) /\ nextKey' \in Int
  BY <1>1, <1>3
<1> HIDE DEF next
<1> QED BY <1>5, <1>6, ChangeKeeps

(* A row is taken away.                                                    *)
LEMMA RemoveRowKeeps ==
  ASSUME Inv, NEW key, RemoveRow(key)
  PROVE  Inv'
<1> DEFINE kept == InOrder({i \in DOMAIN drafts : drafts[i].key # key}, <)
           next == [k \in DOMAIN kept |-> drafts[kept[k]]]
<1>1. drafts \in Seq(CycleDrafts) /\ nextKey' \in Int
  BY DEF Inv, Typed, RemoveRow
<1>2. Change(next)
  BY DEF RemoveRow
<1>3. next \in Seq(CycleDrafts)
  BY <1>1, KeptIs
<1> HIDE DEF next
<1> QED BY <1>1, <1>2, <1>3, ChangeKeeps

(* A save is asked for.                                                    *)
LEMMA SubmitKeeps ==
  ASSUME Inv, Submit
  PROVE  Inv'
<1> USE DEF Inv
<1>0. UNCHANGED store /\ call = None
  BY DEF Submit
<1>1. ToCycleRequests(drafts) \in Seq(CycleBodies)
  BY RequestsAre DEF Typed
<1>2. Typed'
  <2>1. call' # None => CallOk(call')
    BY <1>1 DEF Submit, CallOk
  <2> QED BY <1>0, <2>1, StoreStays DEF Typed, Submit
<1>3. Alone'
  BY <1>0, StoreStays
<1>4. Told'
  <2>1. call' = None \/ (CallOk(call') /\ call'.got = None)
    BY <1>1 DEF Submit, CallOk
  <2>2. puts' = puts /\ rows' = rows /\ ~saved' /\ call = None
    BY <1>0 DEF store, Submit
  <2>3. spent' \in [edits : Nat, saves : Nat, elsewhere : Nat, refetches : Nat]
        /\ spent'.elsewhere = spent.elsewhere
    BY DEF Submit, Spend, Told
  <2> QED BY <2>1, <2>2, <2>3 DEF Told, WithUserRows
<1> QED BY <1>2, <1>3, <1>4

(* A PUT begins: nothing is stored, and it knows what the user measured.   *)
LEMMA FindRowsIs ==
  ASSUME Inv, NEW who \in Clients, NEW body \in Seq(CycleBodies), ServerAccepts(body),
         FindRows(who, body), UNCHANGED <<rows, nextId, crossed>>
  PROVE  /\ Alone'
         /\ GoodRows(rows' \cup Pending') /\ nextId' \in Nat
         /\ \A r \in rows' \cup Pending' : r.id <= nextId'
         /\ puts' = [w \in Clients |-> puts'[w]]
         /\ \A w \in Clients : puts'[w] # None => PutOk(puts'[w])
         /\ puts'[who].step = "found"
         /\ \A w \in Clients \ {who} : puts'[w] = puts[w]
<1> DEFINE put == [step |-> "found", body |-> body, found |-> Own(rows),
                   added |-> {}, answer |-> {}, passed |-> FALSE]
<1>1. /\ puts = [w \in Clients |-> puts[w]]
      /\ puts' = [puts EXCEPT ![who] = put] /\ puts[who] = None
  BY DEF FindRows, Inv, Typed
<1>2. /\ puts' = [w \in Clients |-> puts'[w]]
      /\ puts'[who] = put
      /\ \A w \in Clients \ {who} : puts'[w] = puts[w]
  BY <1>1
<1>3. GoodRows({}) /\ UserApart({})
  BY FS_EmptySet DEF GoodRows, UserApart, Own
<1>4. PutOk(put)
  BY <1>3 DEF PutOk
<1>5. \A w \in Clients : puts'[w] # None => PutOk(puts'[w])
  BY <1>2, <1>4 DEF Inv, Typed
<1>6. Pending' \subseteq Pending
  <2> SUFFICES ASSUME NEW w \in Clients, puts'[w] # None, NEW r \in puts'[w].added
               PROVE  r \in Pending
    BY DEF Pending
  <2>1. w # who
    BY <1>2
  <2> QED BY <1>2, <2>1 DEF Pending
<1>7. GoodRows(rows' \cup Pending')
  <2>1. rows' \cup Pending' \subseteq rows \cup Pending
    BY <1>6
  <2> QED BY <2>1, PartIsGood DEF Inv, Typed
<1>8. Alone'
  <2>1. UserApart(rows)' = UserApart(rows') /\ Own(rows)' = Own(rows') /\ rows' = rows
    BY DEF UserApart, Own
  <2>2. \A w \in Clients : puts'[w] # None /\ ~puts'[w].passed => puts'[w].found = Own(rows)
    BY <1>2 DEF Inv, Alone
  <2> QED BY <2>1, <2>2 DEF Inv, Alone
<1> QED BY <1>2, <1>5, <1>6, <1>7, <1>8 DEF Inv, Typed

(* The server takes up the save, or refuses it.                            *)
LEMMA ServeSaveKeeps ==
  ASSUME Inv, ServeSave
  PROVE  Inv'
<1>1. /\ call # None /\ call.got = None /\ CallOk(call) /\ puts["here"] = None
      /\ UNCHANGED <<form, rows, nextId, crossed, spent>>
      /\ UNCHANGED <<cached, refetch, mounted, drafts, nextKey, wrong, saved>>
  BY DEF ServeSave, Inv, Typed, form
<1>2. CASE ServerAccepts(call.body)
  <2>1. FindRows("here", call.body) /\ UNCHANGED call
    BY <1>2 DEF ServeSave
  <2>2. call.body \in Seq(CycleBodies) /\ "here" \in Clients
    BY <1>1 DEF CallOk, Clients
  <2>3. /\ Alone'
        /\ GoodRows(rows' \cup Pending') /\ nextId' \in Nat
        /\ \A r \in rows' \cup Pending' : r.id <= nextId'
        /\ puts' = [w \in Clients |-> puts'[w]]
        /\ \A w \in Clients : puts'[w] # None => PutOk(puts'[w])
        /\ puts'["here"].step = "found"
        /\ \A w \in Clients \ {"here"} : puts'[w] = puts[w]
    BY <1>1, <1>2, <2>1, <2>2, FindRowsIs
  <2>4. Typed'
    BY <1>1, <2>1, <2>3 DEF Typed, Inv
  <2>5. puts'["elsewhere"] = puts["elsewhere"]
    BY <2>3 DEF Clients
  <2>6. Told'
    BY <1>1, <2>1, <2>3, <2>5 DEF Told, Inv
  <2> QED BY <2>3, <2>4, <2>6 DEF Inv
<1>3. CASE ~ServerAccepts(call.body)
  <2>1. call' = [call EXCEPT !.got = [ok |-> FALSE]] /\ UNCHANGED puts
    BY <1>3 DEF ServeSave
  <2>2. UNCHANGED store
    BY <1>1, <2>1 DEF store
  <2>3. CallOk(call') /\ ~call'.got.ok
    BY <1>1, <2>1 DEF CallOk
  <2>4. Typed'
    BY <1>1, <2>2, <2>3, StoreStays DEF Typed, Inv
  <2>5. Told'
    BY <1>1, <2>1, <2>3 DEF Told, Inv
  <2>6. Alone'
    BY <2>2, StoreStays
  <2> QED BY <2>4, <2>5, <2>6 DEF Inv
<1> QED BY <1>2, <1>3

(* Another client's save begins.                                           *)
LEMMA ElsewhereKeeps ==
  ASSUME Inv, NEW body \in Others, Elsewhere(body)
  PROVE  Inv'
<1>1. body \in Seq(CycleBodies) /\ "elsewhere" \in Clients
  BY SignalCyclesAssumption DEF Clients
<1>2. /\ ServerAccepts(body) /\ FindRows("elsewhere", body)
      /\ UNCHANGED <<rows, nextId, crossed, call>>
      /\ UNCHANGED <<cached, refetch, mounted, drafts, nextKey, wrong, saved>>
  BY DEF Elsewhere, form
<1>3. /\ Alone'
      /\ GoodRows(rows' \cup Pending') /\ nextId' \in Nat
      /\ \A r \in rows' \cup Pending' : r.id <= nextId'
      /\ puts' = [w \in Clients |-> puts'[w]]
      /\ \A w \in Clients : puts'[w] # None => PutOk(puts'[w])
      /\ \A w \in Clients \ {"elsewhere"} : puts'[w] = puts[w]
  BY <1>1, <1>2, FindRowsIs
<1>4. Typed'
  BY <1>2, <1>3 DEF Typed, Inv
<1>5. Told'
  <2>1. spent' \in [edits : Nat, saves : Nat, elsewhere : Nat, refetches : Nat]
        /\ spent'.elsewhere # 0
    BY DEF Elsewhere, Spend, Told, Inv
  <2>2. puts'["here"] = puts["here"]
    BY <1>3 DEF Clients
  <2> QED BY <1>2, <2>1, <2>2 DEF Told, Inv
<1> QED BY <1>3, <1>4, <1>5 DEF Inv

(* A PUT once its rows are inserted.                                       *)
LEMMA PutWritten ==
  ASSUME NEW p, PutOk(p), NEW made
  PROVE  [p EXCEPT !.step = "written", !.added = made] =
           [step |-> "written", body |-> p.body, found |-> p.found, added |-> made,
            answer |-> p.answer, passed |-> p.passed]
<1> DEFINE q == [p EXCEPT !.step = "written"]
<1>1. q = [step |-> "written", body |-> p.body, found |-> p.found, added |-> p.added,
           answer |-> p.answer, passed |-> p.passed]
  BY DEF PutOk
<1>2. [p EXCEPT !.step = "written", !.added = made] = [q EXCEPT !.added = made]
  OBVIOUS
<1> HIDE DEF q
<1> QED BY <1>1, <1>2

(* The same of one that has read its answer.                               *)
LEMMA PutRead ==
  ASSUME NEW p, PutOk(p), NEW left
  PROVE  [p EXCEPT !.step = "read", !.answer = left] =
           [step |-> "read", body |-> p.body, found |-> p.found, added |-> p.added,
            answer |-> left, passed |-> p.passed]
<1> DEFINE q == [p EXCEPT !.step = "read"]
<1>1. q = [step |-> "read", body |-> p.body, found |-> p.found, added |-> p.added,
           answer |-> p.answer, passed |-> p.passed]
  BY DEF PutOk
<1>2. [p EXCEPT !.step = "read", !.answer = left] = [q EXCEPT !.answer = left]
  OBVIOUS
<1> HIDE DEF q
<1> QED BY <1>1, <1>2

(* A PUT deletes what it found and inserts its rows, unseen by others.     *)
LEMMA ReplaceRowsKeeps ==
  ASSUME Inv, NEW who \in Clients, ReplaceRows(who)
  PROVE  Inv'
<1> DEFINE body == puts[who].body
           put == [puts[who] EXCEPT !.step = "written", !.added = Inserted(body)]
<1>1. /\ puts[who] # None /\ PutOk(puts[who]) /\ puts[who].step = "found"
      /\ puts = [w \in Clients |-> puts[w]]
  BY DEF ReplaceRows, Inv, Typed
<1>2. /\ puts' = [w \in Clients |-> puts'[w]]
      /\ puts'[who] = put
      /\ \A w \in Clients \ {who} : puts'[w] = puts[w]
  BY <1>1 DEF ReplaceRows
<1>3. /\ nextId' = nextId + Len(body)
      /\ UNCHANGED <<rows, crossed, call, spent>>
      /\ UNCHANGED <<cached, refetch, mounted, drafts, nextKey, wrong, saved>>
  BY DEF ReplaceRows, form
<1>4. put = [step |-> "written", body |-> puts[who].body, found |-> puts[who].found,
             added |-> Inserted(body), answer |-> puts[who].answer, passed |-> puts[who].passed]
  BY <1>1, PutWritten
<1>5. /\ GoodRows((rows \cup Pending) \cup Inserted(body)) /\ UserApart(Inserted(body))
      /\ \A r \in Inserted(body) : r.source = "USER_OBSERVED"
      /\ nextId + Len(body) \in Nat
      /\ \A r \in (rows \cup Pending) \cup Inserted(body) : r.id <= nextId + Len(body)
  BY <1>1, InsertedAre DEF PutOk, Inv, Typed
<1> HIDE DEF put, body
<1>6. Pending' \subseteq Pending \cup Inserted(body)
  <2> SUFFICES ASSUME NEW w \in Clients, puts'[w] # None, NEW r \in puts'[w].added
               PROVE  r \in Pending \cup Inserted(body)
    BY DEF Pending
  <2>1. CASE w = who
    BY <1>2, <1>4, <2>1
  <2>2. CASE w # who
    BY <1>2, <2>2 DEF Pending
  <2> QED BY <2>1, <2>2
<1>7. rows' \cup Pending' \subseteq (rows \cup Pending) \cup Inserted(body)
  BY <1>3, <1>6
<1>8. GoodRows(rows' \cup Pending')
  BY <1>5, <1>7, PartIsGood
<1>9. PutOk(put)
  BY <1>1, <1>4, <1>5 DEF PutOk
<1>10. Typed'
  <2>1. \A w \in Clients : puts'[w] # None => PutOk(puts'[w])
    BY <1>2, <1>9 DEF Inv, Typed
  <2>2. call' # None => CallOk(call')
    BY <1>3 DEF Inv, Typed
  <2> QED BY <1>2, <1>3, <1>5, <1>7, <1>8, <2>1, <2>2 DEF Inv, Typed
<1>11. Alone'
  <2>1. \A w \in Clients : puts'[w] # None /\ ~puts'[w].passed => puts'[w].found = Own(rows)
    BY <1>1, <1>2, <1>4 DEF Inv, Alone
  <2> QED BY <1>3, <2>1 DEF Inv, Alone
<1>12. Told'
  <2>1. puts'["here"] # None => puts["here"] # None
    BY <1>1, <1>2 DEF Clients
  <2>2. puts["elsewhere"] = None => puts'["elsewhere"] = None
    BY <1>1, <1>2 DEF Clients
  <2>3. puts'["here"] # None /\ puts'["here"].step = "read" => puts'["here"] = puts["here"]
    BY <1>2, <1>4 DEF Clients
  <2>4. spent.elsewhere = 0 /\ puts'["here"] # None /\ puts'["here"].step = "read" =>
          puts'["here"].answer = WithUserRows(puts'["here"])
    BY <2>1, <2>3 DEF Inv, Told
  <2>5. spent.elsewhere = 0 /\ puts'["here"] # None /\ puts'["here"].step = "read" =>
          puts'["here"].answer = (WithUserRows(puts["here"]))'
    BY <1>3, <2>4 DEF WithUserRows
  <2> QED BY <1>3, <2>1, <2>2, <2>5 DEF Inv, Told
<1> QED BY <1>10, <1>11, <1>12 DEF Inv

(* It reads what is stored by then, for its answer.                        *)
LEMMA ReadBackKeeps ==
  ASSUME Inv, NEW who \in Clients, ReadBack(who)
  PROVE  Inv'
<1> DEFINE left == WithUserRows(puts[who])
           put == [puts[who] EXCEPT !.step = "read", !.answer = left]
<1>1. /\ puts[who] # None /\ PutOk(puts[who])
      /\ puts = [w \in Clients |-> puts[w]]
  BY DEF ReadBack, Inv, Typed
<1>2. /\ puts' = [w \in Clients |-> puts'[w]]
      /\ puts'[who] = put
      /\ \A w \in Clients \ {who} : puts'[w] = puts[w]
  BY <1>1 DEF ReadBack
<1>3. /\ UNCHANGED <<rows, nextId, crossed, call, spent>>
      /\ UNCHANGED <<cached, refetch, mounted, drafts, nextKey, wrong, saved>>
  BY DEF ReadBack, form
<1>4. put = [step |-> "read", body |-> puts[who].body, found |-> puts[who].found,
             added |-> puts[who].added, answer |-> left, passed |-> puts[who].passed]
  BY <1>1, PutRead
<1>5. left \subseteq rows \cup Pending
  BY <1>1 DEF WithUserRows, Pending
<1>6. left = (rows \ puts[who].found) \cup puts[who].added
  BY DEF WithUserRows
<1> HIDE DEF put, left
<1>7. GoodRows(left)
  BY <1>5, PartIsGood DEF Inv, Typed
<1>8. PutOk(put)
  BY <1>1, <1>4, <1>7 DEF PutOk
<1>9. Pending' \subseteq Pending
  <2> SUFFICES ASSUME NEW w \in Clients, puts'[w] # None, NEW r \in puts'[w].added
               PROVE  r \in Pending
    BY DEF Pending
  <2>1. CASE w = who
    BY <1>1, <1>2, <1>4, <2>1 DEF Pending
  <2>2. CASE w # who
    BY <1>2, <2>2 DEF Pending
  <2> QED BY <2>1, <2>2
<1>10. GoodRows(rows' \cup Pending')
  <2>1. rows' \cup Pending' \subseteq rows \cup Pending
    BY <1>3, <1>9
  <2> QED BY <2>1, PartIsGood DEF Inv, Typed
<1>11. Typed'
  <2>1. \A w \in Clients : puts'[w] # None => PutOk(puts'[w])
    BY <1>2, <1>8 DEF Inv, Typed
  <2>2. call' # None => CallOk(call')
    BY <1>3 DEF Inv, Typed
  <2> QED BY <1>2, <1>3, <1>9, <1>10, <2>1, <2>2 DEF Inv, Typed
<1>12. Alone'
  <2>1. \A w \in Clients : puts'[w] # None /\ ~puts'[w].passed => puts'[w].found = Own(rows)
    BY <1>1, <1>2, <1>4 DEF Inv, Alone
  <2> QED BY <1>3, <2>1 DEF Inv, Alone
<1>13. Told'
  <2>1. puts'["here"] # None => puts["here"] # None
    BY <1>1, <1>2 DEF Clients
  <2>2. puts["elsewhere"] = None => puts'["elsewhere"] = None
    BY <1>1, <1>2 DEF Clients
  <2>3. spent.elsewhere = 0 /\ puts'["here"] # None /\ puts'["here"].step = "read" =>
          puts'["here"].answer = (rows \ puts'["here"].found) \cup puts'["here"].added
    <3>1. CASE who = "here"
      BY <1>2, <1>4, <1>6, <3>1
    <3>2. CASE who # "here"
      <4>1. puts'["here"] = puts["here"]
        BY <1>2, <3>2 DEF Clients
      <4> QED BY <4>1 DEF Inv, Told, WithUserRows
    <3> QED BY <3>1, <3>2
  <2> QED BY <1>3, <2>1, <2>2, <2>3 DEF Inv, Told, WithUserRows
<1> QED BY <1>11, <1>12, <1>13 DEF Inv

(* What it did is seen by all.                                             *)
LEMMA CommitKeeps ==
  ASSUME Inv, NEW who \in Clients, Commit(who)
  PROVE  Inv'
<1> DEFINE put == puts[who]
<1>1. /\ put # None /\ PutOk(put) /\ put.step = "read"
      /\ puts = [w \in Clients |-> puts[w]]
  BY DEF Commit, Inv, Typed
<1>2. /\ rows' = (rows \ put.found) \cup put.added
      /\ crossed' = put.passed
      /\ UNCHANGED <<nextId, spent>>
      /\ UNCHANGED <<cached, refetch, mounted, drafts, nextKey, wrong, saved>>
  BY DEF Commit, form, WithUserRows
<1>3. /\ puts' = [w \in Clients |-> puts'[w]]
      /\ \A w \in Clients :
           puts'[w] = IF w = who \/ puts[w] = None THEN None
                      ELSE [puts[w] EXCEPT !.passed = TRUE]
  BY DEF Commit
<1>4. ASSUME NEW w \in Clients, puts'[w] # None
      PROVE  /\ puts[w] # None /\ PutOk(puts[w]) /\ PutOk(puts'[w])
             /\ puts'[w].passed
             /\ puts'[w].added = puts[w].added
  <2>1. w # who /\ puts[w] # None /\ puts'[w] = [puts[w] EXCEPT !.passed = TRUE]
    BY <1>3, <1>4
  <2>2. PutOk(puts[w])
    BY <2>1 DEF Inv, Typed
  <2>3. puts'[w] = [step |-> puts[w].step, body |-> puts[w].body, found |-> puts[w].found,
                    added |-> puts[w].added, answer |-> puts[w].answer, passed |-> TRUE]
    BY <2>1, <2>2 DEF PutOk
  <2> QED BY <2>1, <2>2, <2>3 DEF PutOk
<1>5. rows' \cup Pending' \subseteq rows \cup Pending
  <2>1. rows' \subseteq rows \cup Pending
    BY <1>1, <1>2 DEF Pending
  <2>2. ASSUME NEW r \in Pending'
        PROVE  r \in Pending
    <3>1. PICK w \in Clients : puts'[w] # None /\ r \in puts'[w].added
      BY <2>2 DEF Pending
    <3> QED BY <1>4, <3>1 DEF Pending
  <2> QED BY <2>1, <2>2
<1>6. GoodRows(rows' \cup Pending')
  BY <1>5, PartIsGood DEF Inv, Typed
<1>7. who = "here" =>
        /\ ~saved /\ CallOk(call)
        /\ call' = [call EXCEPT !.got = [ok |-> TRUE, rows |-> put.answer]]
  BY <1>1 DEF Commit, Inv, Told, Typed
<1>8. who # "here" => call' = call
  BY DEF Commit
<1>9. who = "here" => CallOk(call') /\ call'.got.rows = put.answer
  <2> SUFFICES ASSUME who = "here"
               PROVE  CallOk(call') /\ call'.got.rows = put.answer
    OBVIOUS
  <2>1. call' = [body |-> call.body, got |-> [ok |-> TRUE, rows |-> put.answer],
                 watched |-> call.watched]
    BY <1>7 DEF CallOk
  <2>2. call'.got = [ok |-> TRUE, rows |-> put.answer] /\ GoodRows(put.answer)
    BY <1>1, <2>1 DEF PutOk
  <2> QED BY <1>7, <2>1, <2>2 DEF CallOk
<1> HIDE DEF put
<1>10. Typed'
  <2>1. call' # None => CallOk(call')
    BY <1>8, <1>9 DEF Inv, Typed
  <2>2. \A r \in rows' \cup Pending' : r.id <= nextId'
    BY <1>2, <1>5 DEF Inv, Typed
  <2>3. \A w \in Clients : puts'[w] # None => PutOk(puts'[w])
    BY <1>4
  <2> QED BY <1>2, <1>3, <1>6, <2>1, <2>2, <2>3 DEF Inv, Typed
<1>11. Alone'
  <2>1. ~crossed' => UserApart(rows')
    <3> SUFFICES ASSUME ~put.passed
                 PROVE  UserApart(rows')
      BY <1>2
    <3>1. put.found = Own(rows)
      BY <1>1 DEF Inv, Alone, put
    <3>2. \A r \in Own(rows') : r \in put.added
      BY <1>2, <3>1 DEF Own
    <3>3. Own(put.added) = put.added
      BY <1>1 DEF PutOk, Own
    <3>4. UserApart(put.added)
      BY <1>1 DEF PutOk
    <3> QED BY <3>2, <3>3, <3>4 DEF UserApart
  <2>2. \A w \in Clients : puts'[w] # None => puts'[w].passed
    BY <1>4
  <2> QED BY <2>1, <2>2 DEF Alone
<1>12. Told'
  <2>1. call' # None => ~saved'
    BY <1>2, <1>7, <1>8 DEF Inv, Told
  <2>2. puts'["here"] # None => ~saved' /\ CallOk(call') /\ call'.got = None
    <3> SUFFICES ASSUME puts'["here"] # None
                 PROVE  ~saved' /\ CallOk(call') /\ call'.got = None
      OBVIOUS
    <3>1. "here" \in Clients
      BY DEF Clients
    <3>2. who # "here" /\ puts["here"] # None
      BY <1>3, <3>1
    <3> QED BY <1>2, <1>8, <3>2 DEF Inv, Told
  <2>3. ASSUME spent'.elsewhere = 0
        PROVE  /\ puts'["elsewhere"] = None /\ puts'["here"] = None
               /\ call' # None /\ call'.got # None /\ call'.got.ok => call'.got.rows = rows'
               /\ ~saved'
    <3>1. spent.elsewhere = 0 /\ puts["elsewhere"] = None
      BY <1>2, <2>3 DEF Inv, Told
    <3>2. who = "here" /\ put = puts["here"]
      BY <1>1, <3>1 DEF Clients, put
    <3>3. puts'["elsewhere"] = None /\ puts'["here"] = None
      BY <1>3, <3>1, <3>2 DEF Clients
    <3>4. put.answer = rows'
      BY <1>1, <1>2, <3>1, <3>2 DEF Inv, Told, WithUserRows
    <3>5. ~saved'
      BY <1>2, <1>7, <3>2 DEF Inv, Told
    <3> QED BY <1>9, <3>2, <3>3, <3>4, <3>5
  <2>4. spent' \in [edits : Nat, saves : Nat, elsewhere : Nat, refetches : Nat]
    BY <1>2 DEF Inv, Told
  <2> QED BY <2>1, <2>2, <2>3, <2>4 DEF Told
<1> QED BY <1>10, <1>11, <1>12 DEF Inv

(* A save is answered.                                                     *)
LEMMA SaveAnsweredKeeps ==
  ASSUME Inv, SaveAnswered
  PROVE  Inv'
<1> USE DEF Inv
<1>1. call # None /\ call.got # None /\ CallOk(call) /\ call' = None /\ puts["here"] = None
  BY DEF SaveAnswered, Typed, Told
<1>2. UNCHANGED store /\ UNCHANGED <<rows, puts, spent>>
  BY DEF SaveAnswered, store
<1>3. Typed'
  <2>1. drafts' \in Seq(CycleDrafts)
    BY <1>1, DraftsAre DEF SaveAnswered, Typed, CallOk
  <2> QED BY <1>1, <1>2, <2>1, StoreStays DEF Typed, SaveAnswered
<1>4. Told'
  <2>1. spent.elsewhere = 0 /\ saved' => drafts' = DraftsFromCycles(rows)
    BY <1>1 DEF Told, SaveAnswered
  <2>2. spent'.elsewhere = 0 /\ saved' => drafts' = (DraftsFromCycles(rows))'
    BY <1>2, <2>1 DEF DraftsFromCycles, Own
  <2> QED BY <1>1, <1>2, <2>2 DEF Told
<1>5. Alone'
  BY <1>2, StoreStays
<1> QED BY <1>3, <1>4, <1>5

(* Reads.                                                                  *)
LEMMA ReadsKeep ==
  ASSUME Inv, Refocus \/ ServeRead \/ ReadOk \/ ReadFailed
  PROVE  Inv'
<1> USE DEF Inv
<1>1. UNCHANGED store /\ UNCHANGED <<rows, puts, nextKey>>
  BY DEF Refocus, ServeRead, ReadOk, ReadFailed, store
<1>2. Alone'
  BY <1>1, StoreStays
<1>3. WithUserRows(puts["here"])' = WithUserRows(puts["here"])
  BY <1>1 DEF WithUserRows
<1>4. GoodRows(rows)
  BY PartIsGood DEF Typed
<1>5. CASE Refocus
  <2>1. Typed'
    BY <1>1, <1>5, StoreStays DEF Typed, Refocus
  <2>2. Told'
    BY <1>1, <1>3, <1>5 DEF Told, Refocus, Spend
  <2> QED BY <1>2, <2>1, <2>2
<1>6. CASE ServeRead
  <2>1. Typed'
    BY <1>1, <1>4, <1>6, StoreStays DEF Typed, ServeRead
  <2>2. Told'
    BY <1>1, <1>3, <1>6 DEF Told, ServeRead
  <2> QED BY <1>2, <2>1, <2>2
<1>7. CASE ReadOk
  <2>1. GoodRows(refetch.got.rows)
    BY <1>7 DEF Typed, ReadOk
  <2>2. drafts' \in Seq(CycleDrafts)
    BY <1>7, <2>1, DraftsAre DEF Typed, ReadOk
  <2>3. Typed'
    BY <1>1, <1>7, <2>2, StoreStays DEF Typed, ReadOk
  <2>4. Told'
    BY <1>1, <1>3, <1>7 DEF Told, ReadOk
  <2> QED BY <1>2, <2>3, <2>4
<1>8. CASE ReadFailed
  <2>1. call' # None =>
          /\ call # None /\ CallOk(call')
          /\ call'.got = call.got
    BY <1>8 DEF Typed, ReadFailed, CallOk
  <2>2. puts["here"] # None => CallOk(call') /\ call'.got = None
    BY <1>8 DEF Told, ReadFailed, CallOk
  <2>3. Typed'
    BY <1>1, <1>8, <2>1, StoreStays DEF Typed, ReadFailed
  <2>4. Told'
    BY <1>1, <1>3, <1>8, <2>1, <2>2 DEF Told, ReadFailed
  <2> QED BY <1>2, <2>3, <2>4
<1> QED BY <1>5, <1>6, <1>7, <1>8

(* Every step keeps the invariant.                                         *)
LEMMA InvKept ==
  Inv /\ [Next]_vars => Inv'
<1> SUFFICES ASSUME Inv, [Next]_vars PROVE Inv'
  OBVIOUS
<1>1. CASE UNCHANGED vars
  <2>1. UNCHANGED store /\ UNCHANGED <<rows, puts, drafts, nextKey, call, refetch, saved, spent>>
    BY <1>1 DEF vars, store
  <2>2. Typed' /\ Alone'
    BY <2>1, StoreStays DEF Inv, Typed
  <2>3. Told'
    BY <2>1 DEF Inv, Told, DraftsFromCycles, Own, WithUserRows
  <2> QED BY <2>2, <2>3 DEF Inv
<1>2. ASSUME NEW d \in Range(drafts), RemoveRow(d.key)
      PROVE  Inv'
  BY <1>2, RemoveRowKeeps
<1>3. ASSUME NEW d \in Range(drafts), NEW edit \in Edits, Patch(d.key, edit)
      PROVE  Inv'
  BY <1>3, PatchKeeps
<1>4. CASE AddRow
  BY <1>4, AddRowKeeps
<1>5. CASE Submit
  BY <1>5, SubmitKeeps
<1>6. CASE ServeSave
  BY <1>6, ServeSaveKeeps
<1>7. CASE SaveAnswered
  BY <1>7, SaveAnsweredKeeps
<1>8. ASSUME NEW body \in Others, Elsewhere(body)
      PROVE  Inv'
  BY <1>8, ElsewhereKeeps
<1>9. ASSUME NEW who \in Clients, ReplaceRows(who) \/ ReadBack(who) \/ Commit(who)
      PROVE  Inv'
  BY <1>9, ReplaceRowsKeeps, ReadBackKeeps, CommitKeeps
<1>10. CASE Refocus \/ ServeRead \/ ReadOk \/ ReadFailed
  BY <1>10, ReadsKeep
<1> QED BY <1>1, <1>2, <1>3, <1>4, <1>5, <1>6, <1>7, <1>8, <1>9, <1>10 DEF Next

(* It holds throughout.                                                    *)
LEMMA InvHolds ==
  Spec => []Inv
<1> QED BY InvStarts, InvKept, PTL DEF Spec

-----------------------------------------------------------------------------
(* What the runs check. *)

(* The form lets through exactly the requests the server takes             *)
(* (validateCycleRequests against TrafficSignalCycleService.validate), and *)
(* in those no two bands of a day overlap, neighbours or not.              *)
THEOREM RulesAgreeHolds ==
  Spec => []RulesAgree
<1>1. Inv => RulesAgree
  <2> SUFFICES ASSUME Inv PROVE RulesAgree
    OBVIOUS
  <2>1. ToCycleRequests(drafts) \in Seq(CycleBodies)
    BY RequestsAre DEF Inv, Typed
  <2> QED BY <2>1, RulesAlike DEF RulesAgree
<1> QED BY <1>1, InvHolds, PTL

(* Whoever saved last and whatever was stored before: if no other PUT was  *)
(* stored while that one found, deleted and inserted its rows, one         *)
(* measured row at most is in force at a time; and always the chosen one   *)
(* is a measured row wherever there is one (replaceUserObserved,           *)
(* effectiveCycle).                                                        *)
THEOREM OneRowInForceHolds ==
  Spec => []OneRowInForce
<1>1. Inv => OneRowInForce
  <2> SUFFICES ASSUME Inv, NEW day \in Days, NEW at \in Instants
               PROVE  LET hits == Containing(rows, day, at)
                          chosen == EffectiveCycle(rows, day, at)
                      IN /\ ~crossed => Cardinality(Own(hits)) <= 1
                         /\ Own(hits) # {} => chosen \in Own(hits)
                         /\ chosen = None <=> hits = {}
                         /\ hits # {} => \A r \in hits : Rank(chosen) <= Rank(r)
    BY DEF OneRowInForce
  <2> DEFINE hits == Containing(rows, day, at)
             own == Own(hits)
             chosen == EffectiveCycle(rows, day, at)
  <2>1. GoodRows(rows) /\ (~crossed => UserApart(rows)) /\ at \in Int
    BY SignalCyclesAssumption, PartIsGood DEF Inv, Typed, Alone
  <2>2. \A r \in hits : /\ r \in rows /\ r \in CycleRows /\ r.day = day
                        /\ r.start \in Int /\ r.end \in Int /\ r.start <= at /\ at < r.end
    BY <2>1 DEF GoodRows, Containing, CycleRows
  <2>3. /\ hits = {} => chosen = None
        /\ hits # {} => chosen \in hits /\ \A r \in hits : Rank(chosen) <= Rank(r)
    BY <2>1, ChosenIs
  <2>0. \A r : r \in own <=> r \in hits /\ r.source = "USER_OBSERVED"
    BY DEF Own
  <2> HIDE DEF hits, chosen, own
  <2>4. chosen = None <=> hits = {}
    BY <2>2, <2>3, SignalCyclesAssumption
  <2>5. ASSUME ~crossed
        PROVE  \A a, b \in own : a = b
    <3> SUFFICES ASSUME NEW a \in own, NEW b \in own, a # b PROVE FALSE
      OBVIOUS
    <3>1. a \in Own(rows) /\ b \in Own(rows) /\ a.day = b.day
      BY <2>0, <2>2 DEF Own
    <3>2. a.end <= b.start \/ b.end <= a.start
      BY <2>1, <2>5, <3>1 DEF UserApart
    <3> QED BY <2>0, <2>1, <2>2, <3>2
  <2>6. own # {} => chosen \in own
    <3> SUFFICES ASSUME own # {} PROVE chosen \in own
      OBVIOUS
    <3>1. PICK r \in own : TRUE
      OBVIOUS
    <3>2. r \in hits /\ Rank(r) = 1
      BY <2>0, <2>2, Standing
    <3>3. chosen \in hits /\ chosen \in CycleRows /\ Rank(chosen) <= 1
      BY <2>2, <2>3, <3>2
    <3> QED BY <2>0, <3>3, Standing
  <2>7. ASSUME ~crossed
        PROVE  Cardinality(own) <= 1
    <3>1. CASE own = {}
      BY <3>1, FS_EmptySet
    <3>2. CASE own # {}
      <4>1. PICK r \in own : TRUE
        BY <3>2
      <4>2. own = {r}
        BY <2>5, <2>7, <4>1
      <4>3. Cardinality(own) = 1
        BY <4>2, FS_Singleton, Zenon
      <4> QED BY <4>3
    <3> QED BY <3>1, <3>2
  <2> QED BY <2>3, <2>4, <2>6, <2>7 DEF hits, chosen, own
<1> QED BY <1>1, InvHolds, PTL

(* While "saved" is shown and no other client has written, the form holds  *)
(* the measured rows the server has, in its order.                         *)
THEOREM SavedIsStoredHolds ==
  Spec => []SavedIsStored
<1>1. Inv => SavedIsStored
  BY DEF Inv, Told, SavedIsStored
<1> QED BY <1>1, InvHolds, PTL
=============================================================================
