---------------------------- MODULE PriceTimeProofs ----------------------------
(***************************************************************************)
(* Theorems about what OrderBook promises its clients: price-time priority, *)
(* that no order is lost and no level kept empty, that the book implements  *)
(* PriceTimeBook, and what it keeps in sums: the executions told of an      *)
(* order, and the volume a level publishes.                                *)
(***************************************************************************)
EXTENDS OrderBookProofs, FiniteSetTheorems, WellFoundedInduction

\* A level whose price reads 0 loses its orders when one is added (see WithOrder):
\* what follows about the orders that rest takes prices that are not 0.
PositivePrices == 0 \notin Prices

(***************************************************************************)
(* Lists in arrival order.                                                 *)
(***************************************************************************)

Elements(list) == {list[i] : i \in DOMAIN list}
Ascending(list) == \A i, j \in DOMAIN list : i < j => list[i] < list[j]

\* Erasing an element keeps the order of the others.
LEMMA EraseAscending ==
  ASSUME NEW list \in Seq(Nat), Ascending(list), NEW i \in DOMAIN list
  PROVE  /\ Ascending(RemoveAt(list, i))
         /\ Elements(RemoveAt(list, i)) = Elements(list) \ {list[i]}
<1> DEFINE r == RemoveAt(list, i)
           n == Len(list)
<1>1. /\ n \in Nat /\ i \in 1..n
      /\ \A j : j \in DOMAIN list <=> j \in 1..n
      /\ \A j \in 1..n : list[j] \in Nat
  BY LenProperties, ElementOfSeq
<1>2. /\ r \in Seq(Nat) /\ Len(r) = n - 1
      /\ \A j \in 1..(n - 1) : r[j] = IF j < i THEN list[j] ELSE list[j + 1]
  BY <1>1, RemoveAtProperties
<1>3. \A j : j \in DOMAIN r <=> j \in 1..(n - 1)
  BY <1>2, LenProperties
<1>. HIDE DEF r, n
<1>4. ASSUME NEW j \in 1..(n - 1), NEW k \in 1..(n - 1), j < k
      PROVE  r[j] < r[k]
  <2>1. j + 1 \in 1..n /\ k + 1 \in 1..n /\ j \in 1..n /\ k \in 1..n
    BY <1>1
  <2>2. \A x, y \in 1..n : x < y => list[x] < list[y]
    BY <1>1 DEF Ascending
  <2>3. /\ r[j] = IF j < i THEN list[j] ELSE list[j + 1]
        /\ r[k] = IF k < i THEN list[k] ELSE list[k + 1]
    BY <1>2
  <2>4. list[j] < list[k] /\ list[j] < list[k + 1] /\ list[j + 1] < list[k + 1]
    BY <1>1, <1>4, <2>1, <2>2
  <2>. QED  BY <1>1, <1>4, <2>3, <2>4
<1>5. Ascending(r)
  BY <1>3, <1>4 DEF Ascending
<1>6. ASSUME NEW j \in 1..n, NEW k \in 1..n, list[j] = list[k]  PROVE j = k
  <2>1. j < k => list[j] < list[k]
    BY <1>1 DEF Ascending
  <2>2. k < j => list[k] < list[j]
    BY <1>1 DEF Ascending
  <2>3. list[j] \in Nat /\ j \in Nat /\ k \in Nat
    BY <1>1
  <2>. QED  BY <1>6, <2>1, <2>2, <2>3
<1>7. ASSUME NEW j \in 1..(n - 1)
      PROVE  \E k \in 1..n : k # i /\ r[j] = list[k]
  <2>1. j \in 1..n /\ j + 1 \in 1..n
    BY <1>1
  <2>2. r[j] = IF j < i THEN list[j] ELSE list[j + 1]
    BY <1>2
  <2>3. CASE j < i
    BY <1>1, <2>1, <2>2, <2>3
  <2>4. CASE ~(j < i)
    <3>1. j + 1 # i
      BY <1>1, <2>4
    <3>. QED  BY <2>1, <2>2, <2>4, <3>1
  <2>. QED  BY <2>3, <2>4
<1>8. ASSUME NEW k \in 1..n, k # i
      PROVE  \E j \in 1..(n - 1) : r[j] = list[k]
  <2>1. CASE k < i
    <3>1. k \in 1..(n - 1)
      BY <1>1, <2>1
    <3>. QED  BY <1>2, <2>1, <3>1
  <2>2. CASE ~(k < i)
    <3>1. k - 1 \in 1..(n - 1) /\ ~(k - 1 < i) /\ (k - 1) + 1 = k
      BY <1>1, <1>8, <2>2
    <3>2. r[k - 1] = IF k - 1 < i THEN list[k - 1] ELSE list[(k - 1) + 1]
      BY <1>2, <3>1
    <3>. QED  BY <3>1, <3>2
  <2>. QED  BY <2>1, <2>2
<1>9. Elements(r) = Elements(list) \ {list[i]}
  <2>1. Elements(r) = {r[j] : j \in 1..(n - 1)} /\ Elements(list) = {list[j] : j \in 1..n}
    BY <1>1, <1>3 DEF Elements
  <2>2. \A x \in Elements(r) : x \in Elements(list) /\ x # list[i]
    <3>1. ASSUME NEW j \in 1..(n - 1)
          PROVE  r[j] \in Elements(list) /\ r[j] # list[i]
      <4>1. PICK k \in 1..n : k # i /\ r[j] = list[k]
        BY <1>7
      <4>2. list[k] # list[i]
        BY <1>1, <1>6, <4>1
      <4>. QED  BY <2>1, <4>1, <4>2
    <3>. QED  BY <2>1, <3>1
  <2>3. \A x \in Elements(list) : x # list[i] => x \in Elements(r)
    BY <1>8, <2>1
  <2>. QED  BY <2>2, <2>3
<1>. QED  BY <1>5, <1>9 DEF r

\* Adding the largest element at the end does too.
LEMMA AppendAscending ==
  ASSUME NEW list \in Seq(Nat), Ascending(list), NEW h \in Nat, \A x \in Elements(list) : x < h
  PROVE  /\ Ascending(Append(list, h))
         /\ Elements(Append(list, h)) = Elements(list) \cup {h}
<1> DEFINE r == Append(list, h)
<1>1. DOMAIN list = 1..Len(list) /\ Len(list) \in Nat
  BY LenProperties
<1>2. /\ r \in Seq(Nat) /\ Len(r) = Len(list) + 1
      /\ \A j \in 1..Len(list) : r[j] = list[j]
      /\ r[Len(list) + 1] = h
  BY AppendProperties
<1>3. DOMAIN r = 1..(Len(list) + 1)
  BY <1>2, LenProperties
<1>. HIDE DEF r
<1>4. Ascending(r)
  <2> SUFFICES ASSUME NEW i \in DOMAIN r, NEW j \in DOMAIN r, i < j PROVE r[i] < r[j]
    BY DEF Ascending
  <2>1. i \in 1..Len(list) /\ (j \in 1..Len(list) \/ j = Len(list) + 1)
    BY <1>1, <1>3
  <2>2. CASE j \in 1..Len(list)
    BY <1>1, <1>2, <2>1, <2>2 DEF Ascending
  <2>3. CASE j = Len(list) + 1
    <3>1. list[i] < h
      BY <1>1, <2>1 DEF Elements
    <3>. QED  BY <1>2, <2>1, <2>3, <3>1
  <2>. QED  BY <2>1, <2>2, <2>3
<1>5. DOMAIN r = DOMAIN list \cup {Len(list) + 1}
  BY <1>1, <1>3
<1>6. Elements(r) = Elements(list) \cup {h}
  BY <1>1, <1>2, <1>5 DEF Elements
<1>. QED  BY <1>4, <1>6 DEF r

\* A list is empty when it has no elements, and holds one when it has no other.
LEMMA FewElements ==
  ASSUME NEW list \in Seq(Nat), Ascending(list)
  PROVE  /\ Elements(list) = {} <=> list = << >>
         /\ Elements(list) = {} <=> Len(list) = 0
         /\ \A n : Elements(list) \subseteq {n} => Len(list) <= 1
<1> DEFINE n == Len(list)
<1>1. /\ n \in Nat
      /\ \A j : j \in DOMAIN list <=> j \in 1..n
      /\ \A j \in 1..n : list[j] \in Nat
      /\ n = 0 <=> list = << >>
  BY LenProperties, ElementOfSeq, EmptySeq
<1>. HIDE DEF n
<1>2. Elements(list) = {list[j] : j \in 1..n}
  BY <1>1 DEF Elements
<1>3. Elements(list) = {} <=> n = 0
  <2>1. CASE n = 0
    BY <1>1, <1>2, <2>1
  <2>2. CASE n # 0
    <3>1. 1 \in 1..n
      BY <1>1, <2>2
    <3>. QED  BY <1>2, <2>2, <3>1
  <2>. QED  BY <2>1, <2>2
<1>4. ASSUME NEW x, Elements(list) \subseteq {x}, ~(n <= 1)
      PROVE  FALSE
  <2>1. 1 \in 1..n /\ 2 \in 1..n
    BY <1>1, <1>4
  <2>2. list[1] < list[2] /\ list[1] \in Nat /\ list[2] \in Nat
    BY <1>1, <2>1 DEF Ascending
  <2>3. list[1] = x /\ list[2] = x
    BY <1>2, <1>4, <2>1
  <2>. QED  BY <2>2, <2>3
<1>. QED  BY <1>1, <1>3, <1>4 DEF n

(***************************************************************************)
(* The inductive invariant.                                                *)
(***************************************************************************)

\* The handles in the list of one level.
Held(s, p) == Elements(levels[s][p].orders)

\* Every list is in the order of arrival.
InArrivalOrder == \A s \in Side, p \in Prices : Ascending(levels[s][p].orders)

\* Only the level a loop is working on may be empty.
Working(s, p) ==
  \/ pc = "pair" /\ p = px[s]
  \/ pc = "fill" /\ s = Book /\ p = px[s]

NothingEmpty ==
  pc # "undefined" =>
    \A s \in Side, p \in Prices :
      /\ levels[s][p].orders # << >> => levels[s][p].live
      /\ levels[s][p].live => levels[s][p].orders # << >> \/ Working(s, p)

\* The lists have the orders with quantity left that no call took out.
Complete ==
  /\ withdrawn \subseteq Handle
  /\ pc # "undefined" =>
       \A h \in Handle :
         h \in Held(order[h].side, order[h].price)
           <=> order[h].remaining > 0 /\ h \notin withdrawn

\* A market order takes from the front of the best level.
TakesFromFront ==
  pc = "fill" =>
    /\ Best(Book, px[Book])
    /\ taker.remaining > 0 => it[Book] = 1

\* In a crossed book the last order alone overlaps with the other side, and one
\* iteration of the inner loop is enough for two levels: it fills that order, or
\* moves past it to the end of its list.
Newest == Len(order)
Overlap(s, p, q) == IF s = "BUY" THEN p >= q ELSE p <= q

NewestOverlaps ==
  pc \in {"match", "pair"} =>
    /\ Newest > 0
    /\ LET s == order[Newest].side
       IN  \A p \in Live(s), q \in Live(Opposite(s)) :
             Overlap(s, p, q) => Held(s, p) \subseteq {Newest}

MatchesFronts ==
  pc = "pair" =>
    /\ Best("BUY", px["BUY"]) /\ Best("SELL", px["SELL"]) /\ px["BUY"] >= px["SELL"]
    /\ AtEnd(order[Newest].side) \/ \A s \in Side : it[s] = 1

\* The orders in a list are of its side and price, so an order is in one list only.
LEMMA HeldProperties ==
  ASSUME Shape, NEW s \in Side, NEW p \in Prices
  PROVE  /\ levels[s][p] \in Level /\ levels[s][p].orders \in Seq(Nat)
         /\ \A h \in Held(s, p) : h \in Handle /\ order[h].side = s /\ order[h].price = p
<1>1. levels[s][p] \in Level
  BY DEF Shape, TypeOK
<1>2. levels[s][p].orders \in Seq(Nat)
  BY <1>1 DEF Level
<1>. QED  BY <1>1, <1>2 DEF Held, Elements, Shape, ListsSound

\* The orders that rest are those in the lists of their own side and price.
LEMMA RestingHeld ==
  ASSUME Shape
  PROVE  \A h : h \in Resting <=> h \in Handle /\ h \in Held(order[h].side, order[h].price)
<1>1. \A h, s, p : Listed(levels[s][p], h) <=> h \in Held(s, p)
  BY DEF Listed, Held, Elements
<1>2. \A h \in Handle : order[h].side \in Side /\ order[h].price \in Prices
  BY OrderType DEF Shape
<1>. QED  BY <1>1, <1>2, HeldProperties DEF Resting

(***************************************************************************)
(* What the actions do to the lists.                                       *)
(***************************************************************************)

\* The lists of `new` are those of the book without the orders `gone`.
Without(new, gone) ==
  \A s \in Side, p \in Prices :
    /\ Ascending(new[s][p].orders)
    /\ Elements(new[s][p].orders) = Held(s, p) \ gone

\* remove_order takes one order out of the book, and its level if that empties it.
LEMMA RemovalEffect ==
  ASSUME Shape, InArrivalOrder, NEW id \in OrderIds, orders[id] # NoOrder, Found(id)
  PROVE  /\ Without(LevelsWithout(id), {NodeOf(id)})
         /\ NodeOf(id) \in Resting
         /\ order[NodeOf(id)].side = order[orders[id]].side
         /\ order[NodeOf(id)].price = order[orders[id]].price
         /\ NothingEmpty /\ pc = "idle" =>
              \A s \in Side, p \in Prices :
                LET l == LevelsWithout(id)[s][p]
                IN  (l.orders # << >> => l.live) /\ (l.live => l.orders # << >>)
<1> DEFINE s == order[orders[id]].side
           p == order[orders[id]].price
           l == levels[s][p]
           h == l.order_map[id]
           m == WithoutOrder(l, id)
           new == LevelsWithout(id)
<1>1. orders[id] \in Handle /\ NodeOf(id) = h /\ Listed(l, h)
  BY RemovalShrinks DEF Shape, Found, NodeOf, LevelOf
<1>2. s \in Side /\ p \in Prices
  BY <1>1, OrderType DEF Shape
<1>3. l \in Level /\ l.orders \in Seq(Nat) /\ Ascending(l.orders)
  BY <1>2, HeldProperties DEF InArrivalOrder
<1>4. h \in Held(s, p)
  BY <1>1 DEF Listed, Held, Elements
<1>5. h \in Handle /\ order[h].side = s /\ order[h].price = p
  <2>. HIDE DEF h, s, p
  <2>1. \A x \in Held(s, p) : x \in Handle /\ order[x].side = s /\ order[x].price = p
    BY <1>2, HeldProperties
  <2>. QED  BY <1>4, <2>1
<1>6. order[h].remaining \in Int
  <2>. HIDE DEF h
  <2>. QED  BY <1>5, OrderType DEF Shape
<1>7. PICK i \in DOMAIN l.orders : m.orders = RemoveAt(l.orders, i) /\ l.orders[i] = h
  <2>1. Position(l, h) \in DOMAIN l.orders /\ l.orders[Position(l, h)] = h
    BY <1>1, <1>3, PositionOfListed
  <2>2. m.orders = RemoveAt(l.orders, Position(l, h))
    BY <1>3 DEF WithoutOrder, Level
  <2>. QED  BY <2>1, <2>2
<1>8. m \in Level /\ m.live = l.live
  BY <1>1, <1>3, <1>6, WithoutOrderProperties
<1>9. new[s][p] = Trim(m) /\ \A t \in Side, q \in Prices : t # s \/ q # p => new[t][q] = levels[t][q]
  <2>1. new = [levels EXCEPT ![s][p] = Trim(m)]
    BY DEF LevelsWithout
  <2>. QED  BY <1>2, <2>1 DEF Shape, TypeOK
<1>10. Trim(m).orders = m.orders /\ (Trim(m).live <=> l.live /\ m.orders # << >>)
  <2>. HIDE DEF l, m
  <2>1. Trim(m).orders = m.orders
    BY <1>8, TrimProperties
  <2>2. Trim(m).live <=> m.live /\ m.orders # << >>
    BY DEF Trim, NoLevel
  <2>. QED  BY <1>8, <2>1, <2>2
<1>11. Ascending(m.orders) /\ Elements(m.orders) = Held(s, p) \ {h}
  BY <1>3, <1>7, EraseAscending DEF Held
<1>. HIDE DEF new, m
<1>12. Without(new, {h})
  <2> SUFFICES ASSUME NEW t \in Side, NEW q \in Prices
               PROVE  /\ Ascending(new[t][q].orders)
                      /\ Elements(new[t][q].orders) = Held(t, q) \ {h}
    BY DEF Without
  <2>1. CASE t = s /\ q = p
    BY <2>1, <1>9, <1>10, <1>11
  <2>2. CASE t # s \/ q # p
    <3>1. h \notin Held(t, q)
      <4>. HIDE DEF h, s, p
      <4>. QED  BY <1>5, <2>2, HeldProperties
    <3>. QED  BY <1>9, <2>2, <3>1 DEF InArrivalOrder, Held
  <2>. QED  BY <2>1, <2>2
<1>13. ASSUME NothingEmpty, pc = "idle", NEW t \in Side, NEW q \in Prices
       PROVE  (new[t][q].orders # << >> => new[t][q].live)
              /\ (new[t][q].live => new[t][q].orders # << >>)
  <2>1. levels[t][q].orders # << >> <=> levels[t][q].live
    BY <1>13 DEF NothingEmpty, Working
  <2>2. CASE t = s /\ q = p
    <3>1. l.live
      BY <1>1 DEF Found, LevelOf
    <3>. QED  BY <1>9, <1>10, <2>2, <3>1
  <2>3. CASE t # s \/ q # p
    BY <1>9, <2>1, <2>3
  <2>. QED  BY <2>2, <2>3
<1>14. h \in Resting
  BY <1>4, <1>5, RestingHeld
<1>. QED  BY <1>1, <1>5, <1>12, <1>13, <1>14 DEF new

\* add_order puts the new order, the latest, at the end of the list of its level,
\* and that list is as it was if the level existed.
LEMMA AddOrderEffect ==
  ASSUME Shape, NEW base \in Levels, NEW o \in OrderObject, AddOrder(o, base),
         \A s \in Side, p \in Prices :
           Ascending(base[s][p].orders) /\ Elements(base[s][p].orders) \subseteq Held(s, p)
  PROVE  LET h == Len(order) + 1
             old == base[o.side][o.price]
             new == levels'[o.side][o.price]
         IN  /\ o.side \in Side /\ o.price \in Prices
             /\ h \notin Handle /\ Handle' = Handle \cup {h} /\ Len(order') = h /\ h \in Nat
             /\ order'[h] = o /\ \A g \in Handle : order'[g] = order[g]
             /\ \A s \in Side, p \in Prices : Ascending(levels'[s][p].orders)
             /\ \A s \in Side, p \in Prices :
                  s # o.side \/ p # o.price => levels'[s][p] = base[s][p]
             /\ new.live /\ new.orders # << >>
             /\ Elements(new.orders) =
                  IF old.live /\ o.price # 0 THEN Elements(old.orders) \cup {h} ELSE {h}
<1> DEFINE h == Len(order) + 1
           l == base[o.side][o.price]
           m == WithOrder(l, h, o)
           list == IF l.live /\ o.price # 0 THEN l.orders ELSE << >>
<1>1. /\ o.side \in Side /\ o.price \in Prices /\ l \in Level /\ h \in Nat /\ Len(order) \in Nat
  <2>1. o.side \in Side /\ o.price \in Prices
    BY DEF OrderObject
  <2>. QED  BY <2>1, HandleType DEF Shape, Levels
<1>2. h \notin Handle /\ \A g \in Handle : g < h
  BY <1>1 DEF Handle
<1>3. /\ Len(order') = h /\ order'[h] = o /\ \A g \in Handle : order'[g] = order[g]
  <2>1. order \in Seq(OrderObject)
    BY DEF Shape, TypeOK
  <2>2. order' = Append(order, o)
    BY DEF AddOrder
  <2>. QED  BY <2>1, <2>2, AppendProperties DEF Handle
<1>4. Handle' = Handle \cup {h}
  <2>1. Handle' = 1..h
    BY <1>3 DEF Handle
  <2>. QED  BY <1>1, <2>1 DEF Handle
<1>5. /\ levels'[o.side][o.price] = m
      /\ \A s \in Side, p \in Prices :
           s # o.side \/ p # o.price => levels'[s][p] = base[s][p]
  BY <1>1 DEF AddOrder, Levels
<1>6. m.live /\ m.orders = Append(list, h)
  BY <1>1, WithOrderProperties
<1>7. list \in Seq(Nat) /\ Ascending(list) /\ Elements(list) \subseteq Held(o.side, o.price)
  <2>1. << >> \in Seq(Nat) /\ Ascending(<< >>) /\ Elements(<< >>) = {}
    BY DEF Ascending, Elements
  <2>2. l.orders \in Seq(Nat) /\ Ascending(l.orders) /\ Elements(l.orders) \subseteq Held(o.side, o.price)
    BY <1>1 DEF Level
  <2>. QED  BY <2>1, <2>2
<1>8. \A x \in Elements(list) : x < h
  BY <1>1, <1>2, <1>7, HeldProperties
<1>9. Elements(list) = IF l.live /\ o.price # 0 THEN Elements(l.orders) ELSE {}
  BY DEF Elements
<1>. HIDE DEF l, m, list, h
<1>10. /\ Ascending(m.orders) /\ Elements(m.orders) = Elements(list) \cup {h}
       /\ m.orders # << >>
  <2>1. /\ Ascending(Append(list, h)) /\ Elements(Append(list, h)) = Elements(list) \cup {h}
        /\ Append(list, h) \in Seq(Nat)
    BY <1>1, <1>7, <1>8, AppendAscending, AppendProperties
  <2>2. Append(list, h) # << >>
    BY <2>1, FewElements
  <2>. QED  BY <1>6, <2>1, <2>2
<1>11. \A s \in Side, p \in Prices : Ascending(levels'[s][p].orders)
  BY <1>5, <1>10
<1>. QED  BY <1>1, <1>2, <1>3, <1>4, <1>5, <1>6, <1>9, <1>10, <1>11 DEF l, h

\* Erasing a filled order from one list takes it out of the book.
LEMMA FillOneList ==
  ASSUME Shape, InArrivalOrder, NEW s \in Side, NEW p \in Prices,
         NEW i \in DOMAIN levels[s][p].orders, NEW o \in OrderObject,
         o.status = "FILLED" <=> o.remaining = 0
  PROVE  LET m == AfterFill(levels[s][p], i, o)
             h == levels[s][p].orders[i]
         IN  /\ m \in Level /\ m.live = levels[s][p].live
             /\ Ascending(m.orders)
             /\ Elements(m.orders) = Held(s, p) \ (IF o.remaining = 0 THEN {h} ELSE {})
             /\ o.remaining # 0 => m = levels[s][p]
<1> DEFINE l == levels[s][p]
           m == AfterFill(l, i, o)
           h == l.orders[i]
<1>1. l \in Level /\ l.orders \in Seq(Nat) /\ Ascending(l.orders)
  BY HeldProperties DEF InArrivalOrder
<1>2. /\ m \in Level /\ m.live = l.live
      /\ m.orders = IF o.status = "FILLED" THEN RemoveAt(l.orders, i) ELSE l.orders
  BY <1>1, AfterFillProperties
<1>3. /\ Ascending(RemoveAt(l.orders, i))
      /\ Elements(RemoveAt(l.orders, i)) = Elements(l.orders) \ {h}
  BY <1>1, EraseAscending
<1>4. o.remaining # 0 => m = l
  BY DEF AfterFill
<1>. QED  BY <1>1, <1>2, <1>3, <1>4 DEF Held

\* One execution of a market order: the order under the iterator loses the quantity,
\* and leaves its list when nothing is left of it.
LEMMA FillEffect ==
  ASSUME Shape, InArrivalOrder, Fill
  PROVE  LET h == At(Book)
             p == px[Book]
             q == Lesser(taker.remaining, order[h].remaining)
         IN  /\ Book \in Side /\ p \in Prices /\ Book' = Book /\ px' = px /\ pc' = "fill"
             /\ withdrawn' = withdrawn
             /\ it[Book] \in DOMAIN levels[Book][p].orders /\ levels[Book][p].orders[it[Book]] = h
             /\ h \in Handle /\ order[h].side = Book /\ order[h].price = p
             /\ order[h].remaining \in Nat /\ taker.remaining \in Nat
             /\ q \in Nat /\ q > 0 /\ q <= order[h].remaining /\ q <= taker.remaining
             /\ Len(order') = Len(order) /\ \A g \in Handle \ {h} : order'[g] = order[g]
             /\ order'[h].side = Book /\ order'[h].price = p
             /\ order'[h].quantity = order[h].quantity
             /\ order'[h].remaining = order[h].remaining - q
             /\ taker'.remaining = taker.remaining - q
             /\ \A s \in Side, r \in Prices : levels'[s][r].live = levels[s][r].live
             /\ Without(levels', IF order'[h].remaining = 0 THEN {h} ELSE {})
             /\ order'[h].remaining = 0 => it' = it
<1> DEFINE s == Book
           p == px[Book]
           l == levels[s][p]
           i == it[Book]
           h == At(Book)
           q == Lesser(taker.remaining, order[h].remaining)
           o == Execute(order[h], q)
           m == AfterFill(l, i, o)
           gone == IF o.remaining = 0 THEN {h} ELSE {}
<1>1. /\ pc = "fill" /\ pc' = "fill" /\ taker.remaining > 0 /\ ~AtEnd(s)
      /\ ~Throws(order[h], q)
      /\ order' = [order EXCEPT ![h] = o]
      /\ levels' = [levels EXCEPT ![s][p] = m]
      /\ it' = [it EXCEPT ![s] = IF o.status = "FILLED" THEN i ELSE i + 1]
      /\ taker' = [taker EXCEPT !.remaining = @ - q]
      /\ px' = px /\ withdrawn' = withdrawn
  BY DEF Fill
<1>2. s \in Side /\ p \in Live(s) /\ i >= 1 /\ i \in Nat
  BY <1>1 DEF Shape, TypeOK, IteratorsSound, Book, Opposite, Side
<1>3. /\ p \in Prices /\ l \in Level /\ i \in DOMAIN l.orders /\ l.orders[i] = h
      /\ h \in Handle /\ order[h].side = s /\ order[h].price = p
  BY <1>1, <1>2, UnderIterator
<1>4. order[h] \in OrderObject /\ order[h].remaining \in Nat
  BY <1>3, OrderType DEF Shape
<1>5. taker.remaining \in Nat /\ q \in Nat /\ q <= taker.remaining /\ q <= order[h].remaining
  BY <1>4 DEF Shape, TypeOK, Lesser
<1>6. taker'.remaining = taker.remaining - q /\ Book' = s
  BY <1>1 DEF Shape, TypeOK, Book
<1>7. q > 0
  BY <1>1, <1>5 DEF Throws
<1>. HIDE DEF h, q
<1>8. /\ o \in OrderObject /\ o.side = s /\ o.price = p /\ o.quantity = order[h].quantity
      /\ o.remaining = order[h].remaining - q
      /\ o.status = "FILLED" <=> o.remaining = 0
  BY <1>1, <1>3, <1>4, <1>5, ExecuteProperties
<1>9. o.remaining = 0 => it' = it
  BY <1>1, <1>2, <1>8 DEF Shape, TypeOK
<1>. HIDE DEF o
<1>10. /\ m \in Level /\ m.live = l.live /\ Ascending(m.orders)
       /\ Elements(m.orders) = Held(s, p) \ gone
  BY <1>2, <1>3, <1>8, FillOneList
<1>11. /\ order' \in Seq(OrderObject) /\ Len(order') = Len(order)
       /\ order'[h] = o /\ \A g \in Handle \ {h} : order'[g] = order[g]
  BY <1>1, <1>3, <1>8, ExceptSeq DEF Shape, TypeOK, Handle
<1>. HIDE DEF m
<1>12. levels'[s][p] = m /\ \A t \in Side, r \in Prices : t # s \/ r # p => levels'[t][r] = levels[t][r]
  BY <1>1, <1>2, <1>3, <1>10, LevelUpdate DEF Shape, TypeOK
<1>13. \A t \in Side, r \in Prices : levels'[t][r].live = levels[t][r].live
  BY <1>10, <1>12
<1>14. Without(levels', gone)
  <2> SUFFICES ASSUME NEW t \in Side, NEW r \in Prices
               PROVE  /\ Ascending(levels'[t][r].orders)
                      /\ Elements(levels'[t][r].orders) = Held(t, r) \ gone
    BY DEF Without
  <2>1. CASE t = s /\ r = p
    BY <2>1, <1>10, <1>12
  <2>2. CASE t # s \/ r # p
    <3>. HIDE DEF s, p
    <3>1. h \notin Held(t, r)
      BY <1>3, <2>2, HeldProperties
    <3>. QED  BY <1>12, <2>2, <3>1 DEF InArrivalOrder, Held
  <2>. QED  BY <2>1, <2>2
<1>. QED  BY <1>1, <1>2, <1>3, <1>4, <1>5, <1>6, <1>7, <1>8, <1>9, <1>11, <1>13, <1>14 DEF h, q

\* One iteration of match_orders: the two orders lose the same quantity, and those
\* of which nothing is left leave their lists, one of them at least.
LEMMA MatchPairEffect ==
  ASSUME Shape, InArrivalOrder, MatchPair
  PROVE  LET b == At("BUY")
             a == At("SELL")
             q == Lesser(order[b].remaining, order[a].remaining)
             gone == {h \in {b, a} : order'[h].remaining = 0}
         IN  /\ \A s \in Side : /\ px[s] \in Prices
                                /\ it[s] \in DOMAIN levels[s][px[s]].orders
                                /\ levels[s][px[s]].orders[it[s]] = At(s)
             /\ px' = px /\ pc' = "pair" /\ withdrawn' = withdrawn
             /\ b \in Handle /\ order[b].side = "BUY" /\ order[b].price = px["BUY"]
             /\ a \in Handle /\ order[a].side = "SELL" /\ order[a].price = px["SELL"]
             /\ order[b].remaining \in Nat /\ order[a].remaining \in Nat
             /\ q \in Nat /\ q > 0 /\ q <= order[b].remaining /\ q <= order[a].remaining
             /\ Len(order') = Len(order) /\ \A g \in Handle \ {b, a} : order'[g] = order[g]
             /\ \A h \in {b, a} : /\ order'[h].side = order[h].side
                                  /\ order'[h].price = order[h].price
                                  /\ order'[h].quantity = order[h].quantity
                                  /\ order'[h].remaining = order[h].remaining - q
             /\ \A s \in Side, r \in Prices : levels'[s][r].live = levels[s][r].live
             /\ Without(levels', gone)
             /\ \A s \in Side : it'[s] = IF order'[At(s)].remaining = 0 THEN it[s] ELSE it[s] + 1
<1> DEFINE pb == px["BUY"]
           pa == px["SELL"]
           lb == levels["BUY"][pb]
           la == levels["SELL"][pa]
           b == At("BUY")
           a == At("SELL")
           q == Lesser(order[b].remaining, order[a].remaining)
           bid == Execute(order[b], q)
           ask == Execute(order[a], q)
           mb == AfterFill(lb, it["BUY"], bid)
           ma == AfterFill(la, it["SELL"], ask)
           gone == {h \in {b, a} : order'[h].remaining = 0}
<1>1. /\ pc = "pair" /\ pc' = "pair" /\ ~AtEnd("BUY") /\ ~AtEnd("SELL")
      /\ ~Throws(order[b], q) /\ ~Throws(order[a], q)
      /\ order' = [order EXCEPT ![b] = bid, ![a] = ask]
      /\ levels' = [levels EXCEPT !["BUY"][pb] = AfterFill(@, it["BUY"], bid),
                                  !["SELL"][pa] = AfterFill(@, it["SELL"], ask)]
      /\ it' = [s \in Side |-> IF (IF s = "BUY" THEN bid ELSE ask).status = "FILLED"
                               THEN it[s] ELSE it[s] + 1]
      /\ px' = px /\ withdrawn' = withdrawn
  BY DEF MatchPair
<1>2. /\ "BUY" \in Side /\ "SELL" \in Side
      /\ \A s \in Side : s = "BUY" \/ s = "SELL"
      /\ \A s \in Side : px[s] \in Live(s) /\ it[s] \in Nat /\ it[s] >= 1
  BY <1>1 DEF Shape, TypeOK, IteratorsSound, Side
<1>3. /\ pb \in Prices /\ lb \in Level /\ it["BUY"] \in DOMAIN lb.orders /\ lb.orders[it["BUY"]] = b
      /\ b \in Handle /\ order[b].side = "BUY" /\ order[b].price = pb
  BY <1>1, <1>2, UnderIterator
<1>4. /\ pa \in Prices /\ la \in Level /\ it["SELL"] \in DOMAIN la.orders /\ la.orders[it["SELL"]] = a
      /\ a \in Handle /\ order[a].side = "SELL" /\ order[a].price = pa
  BY <1>1, <1>2, UnderIterator
<1>5. /\ order[b] \in OrderObject /\ order[a] \in OrderObject
      /\ order[b].remaining \in Nat /\ order[a].remaining \in Nat
  BY <1>3, <1>4, OrderType DEF Shape
<1>6. /\ q \in Nat /\ a # b /\ q <= order[b].remaining /\ q <= order[a].remaining
  BY <1>3, <1>4, <1>5 DEF Lesser
<1>7. q > 0
  BY <1>1, <1>6 DEF Throws
<1>. HIDE DEF a, b, q
<1>8. /\ bid \in OrderObject /\ bid.side = "BUY" /\ bid.price = pb
      /\ bid.quantity = order[b].quantity
      /\ bid.remaining = order[b].remaining - q
      /\ bid.status = "FILLED" <=> bid.remaining = 0
  BY <1>1, <1>3, <1>5, <1>6, ExecuteProperties
<1>9. /\ ask \in OrderObject /\ ask.side = "SELL" /\ ask.price = pa
      /\ ask.quantity = order[a].quantity
      /\ ask.remaining = order[a].remaining - q
      /\ ask.status = "FILLED" <=> ask.remaining = 0
  BY <1>1, <1>4, <1>5, <1>6, ExecuteProperties
<1>. HIDE DEF bid, ask
<1>10. /\ mb \in Level /\ mb.live = lb.live /\ Ascending(mb.orders)
       /\ Elements(mb.orders) = Held("BUY", pb) \ (IF bid.remaining = 0 THEN {b} ELSE {})
  BY <1>2, <1>3, <1>8, FillOneList
<1>11. /\ ma \in Level /\ ma.live = la.live /\ Ascending(ma.orders)
       /\ Elements(ma.orders) = Held("SELL", pa) \ (IF ask.remaining = 0 THEN {a} ELSE {})
  BY <1>2, <1>4, <1>9, FillOneList
<1>12. /\ levels'["BUY"][pb] = mb /\ levels'["SELL"][pa] = ma
       /\ \A s \in Side, r \in Prices :
            (s = "BUY" => r # pb) /\ (s = "SELL" => r # pa) => levels'[s][r] = levels[s][r]
  <2>1. levels' = [levels EXCEPT !["BUY"][pb] = mb, !["SELL"][pa] = ma]
    BY <1>1
  <2>. HIDE DEF mb, ma, pb, pa
  <2>2. levels \in Levels
    BY DEF Shape, TypeOK, Levels
  <2>. QED  BY <1>2, <1>3, <1>4, <2>1, <2>2 DEF Levels
<1>. HIDE DEF mb, ma
<1>13. /\ Len(order') = Len(order) /\ order'[b] = bid /\ order'[a] = ask
       /\ \A g \in Handle \ {b, a} : order'[g] = order[g]
  <2> DEFINE first == [order EXCEPT ![b] = bid]
  <2>1. /\ first \in Seq(OrderObject) /\ Len(first) = Len(order)
        /\ first[b] = bid /\ \A g \in Handle \ {b} : first[g] = order[g]
    BY <1>3, <1>8, ExceptSeq DEF Shape, TypeOK, Handle
  <2>2. order' = [first EXCEPT ![a] = ask]
    BY <1>1
  <2>. HIDE DEF first
  <2>3. /\ order' \in Seq(OrderObject) /\ Len(order') = Len(first)
        /\ order'[a] = ask /\ \A g \in Handle \ {a} : order'[g] = first[g]
    BY <2>1, <2>2, <1>4, <1>9, ExceptSeq DEF Handle
  <2>. QED  BY <2>1, <2>3, <1>3, <1>6
<1>14. \A s \in Side, r \in Prices : levels'[s][r].live = levels[s][r].live
  BY <1>2, <1>10, <1>11, <1>12
<1>15. Without(levels', gone)
  <2> SUFFICES ASSUME NEW s \in Side, NEW r \in Prices
               PROVE  /\ Ascending(levels'[s][r].orders)
                      /\ Elements(levels'[s][r].orders) = Held(s, r) \ gone
    BY DEF Without
  <2>1. (b \in Held(s, r) => s = "BUY" /\ r = pb) /\ (a \in Held(s, r) => s = "SELL" /\ r = pa)
    BY <1>3, <1>4, HeldProperties
  <2>2. \A h : h \in gone <=> (h = b /\ bid.remaining = 0) \/ (h = a /\ ask.remaining = 0)
    BY <1>13
  <2>. HIDE DEF gone, pb, pa
  <2>3. CASE s = "BUY" /\ r = pb
    BY <2>1, <2>2, <2>3, <1>10, <1>12
  <2>4. CASE s = "SELL" /\ r = pa
    BY <2>1, <2>2, <2>4, <1>11, <1>12
  <2>5. CASE (s = "BUY" => r # pb) /\ (s = "SELL" => r # pa)
    BY <2>1, <2>2, <2>5, <1>12 DEF InArrivalOrder, Held
  <2>. QED  BY <1>2, <2>3, <2>4, <2>5
<1>16. \A s \in Side : it'[s] = IF order'[At(s)].remaining = 0 THEN it[s] ELSE it[s] + 1
  BY <1>1, <1>2, <1>8, <1>9, <1>13 DEF a, b
<1>17. \A s \in Side : /\ px[s] \in Prices
                       /\ it[s] \in DOMAIN levels[s][px[s]].orders
                       /\ levels[s][px[s]].orders[it[s]] = At(s)
  BY <1>2, <1>3, <1>4 DEF a, b
<1>18. \A h \in {b, a} : /\ order'[h].side = order[h].side
                         /\ order'[h].price = order[h].price
                         /\ order'[h].quantity = order[h].quantity
                         /\ order'[h].remaining = order[h].remaining - q
  BY <1>3, <1>4, <1>8, <1>9, <1>13
<1>. HIDE DEF gone
<1>. QED
  BY <1>1, <1>3, <1>4, <1>5, <1>6, <1>7, <1>13, <1>14, <1>15, <1>16, <1>17, <1>18 DEF a, b, q, gone

\* The erasures after a loop touch no list, and leave no empty level of the two, or
\* the one, that the loop worked on.
LEMMA LeaveEffect ==
  ASSUME Shape, LeaveLevels \/ LeaveLevel
  PROVE  \A s \in Side, p \in Prices :
           /\ levels'[s][p].orders = levels[s][p].orders
           /\ levels'[s][p].live <=> /\ levels[s][p].live
                                     /\ levels[s][p].orders # << >> \/ ~Working(s, p)
<1>1. \A l \in Level : Trim(l).orders = l.orders /\ (Trim(l).live <=> l.live /\ l.orders # << >>)
  BY TrimProperties DEF Trim, NoLevel
<1>2. CASE LeaveLevels
  <2> DEFINE pb == px["BUY"]
             pa == px["SELL"]
             mb == Trim(levels["BUY"][pb])
             ma == Trim(levels["SELL"][pa])
  <2>1. pc = "pair" /\ levels' = [levels EXCEPT !["BUY"][pb] = mb, !["SELL"][pa] = ma]
    BY <1>2 DEF LeaveLevels
  <2>2. /\ pb \in Prices /\ pa \in Prices /\ levels \in Levels
        /\ levels["BUY"][pb] \in Level /\ levels["SELL"][pa] \in Level
    BY <2>1 DEF Shape, TypeOK, IteratorsSound, Live, Side, Levels
  <2>3. /\ mb.orders = levels["BUY"][pb].orders
        /\ mb.live <=> levels["BUY"][pb].live /\ levels["BUY"][pb].orders # << >>
        /\ ma.orders = levels["SELL"][pa].orders
        /\ ma.live <=> levels["SELL"][pa].live /\ levels["SELL"][pa].orders # << >>
    BY <1>1, <2>2
  <2>. HIDE DEF mb, ma
  <2>4. /\ levels'["BUY"][pb] = mb /\ levels'["SELL"][pa] = ma
        /\ \A s \in Side, r \in Prices :
             (s = "BUY" => r # pb) /\ (s = "SELL" => r # pa) => levels'[s][r] = levels[s][r]
    <3>. HIDE DEF pb, pa
    <3>. QED  BY <2>1, <2>2 DEF Levels, Side
  <2>5. \A s \in Side, p \in Prices : Working(s, p) <=> p = px[s]
    BY <2>1 DEF Working
  <2>. QED  BY <2>3, <2>4, <2>5 DEF Side
<1>3. CASE LeaveLevel
  <2> DEFINE s == Book
             p == px[Book]
             m == Trim(levels[s][p])
  <2>1. pc = "fill" /\ levels' = [levels EXCEPT ![s][p] = m]
    BY <1>3 DEF LeaveLevel
  <2>2. s \in Side /\ p \in Prices /\ levels \in Levels /\ levels[s][p] \in Level
    BY <2>1 DEF Shape, TypeOK, IteratorsSound, Live, Levels, Book, Opposite, Side
  <2>3. m.orders = levels[s][p].orders /\ (m.live <=> levels[s][p].live /\ levels[s][p].orders # << >>)
    BY <1>1, <2>2
  <2>4. \A t \in Side, r \in Prices : Working(t, r) <=> t = s /\ r = p
    BY <2>1 DEF Working
  <2>. HIDE DEF s, p, m
  <2>5. levels'[s][p] = m /\ \A t \in Side, r \in Prices : t # s \/ r # p => levels'[t][r] = levels[t][r]
    BY <2>1, <2>2 DEF Levels
  <2>. QED  BY <2>3, <2>4, <2>5
<1>. QED  BY <1>2, <1>3

\* An undefined removal takes at most one order out of the book.
LEMMA DanglingEffect ==
  ASSUME Shape, InArrivalOrder, NEW id \in OrderIds, RemoveDangling(id)
  PROVE  \/ UNCHANGED levels
         \/ \E h \in Resting : Without(levels', {h})
<1> SUFFICES ASSUME NEW h \in Resting,
                    levels' = [levels EXCEPT ![order[h].side][order[h].price].orders =
                                 RemoveAt(@, Position(levels[order[h].side][order[h].price], h))]
             PROVE  Without(levels', {h})
  BY DEF RemoveDangling
<1> DEFINE s == order[h].side
           p == order[h].price
           l == levels[s][p]
           i == Position(l, h)
           m == [l EXCEPT !.orders = RemoveAt(@, i)]
<1>1. h \in Handle /\ h \in Held(s, p) /\ s \in Side /\ p \in Prices
  BY RestingHeld, OrderType DEF Shape
<1>2. Listed(l, h)
  BY <1>1 DEF Held, Elements, Listed
<1>3. l \in Level /\ l.orders \in Seq(Nat) /\ Ascending(l.orders)
  BY <1>1, HeldProperties DEF InArrivalOrder
<1>4. i \in DOMAIN l.orders /\ l.orders[i] = h
  BY <1>2, <1>3, PositionOfListed
<1>5. levels' = [levels EXCEPT ![s][p] = m]
  OBVIOUS
<1>. HIDE DEF i
<1>6. m.orders = RemoveAt(l.orders, i)
  BY <1>3 DEF Level
<1>7. Ascending(m.orders) /\ Elements(m.orders) = Held(s, p) \ {h}
  BY <1>3, <1>4, <1>6, EraseAscending DEF Held
<1>0. m \in Level
  <2>1. RemoveAt(l.orders, i) \in Seq(Nat)
    BY <1>3, <1>4, RemoveAtElements
  <2>. QED  BY <1>3, <2>1 DEF Level
<1>8. \A t \in Side, r \in Prices : t # s \/ r # p => h \notin Held(t, r)
  BY HeldProperties
<1>. HIDE DEF m, l, s, p
<1>9. levels'[s][p] = m /\ \A t \in Side, r \in Prices : t # s \/ r # p => levels'[t][r] = levels[t][r]
  <2>1. levels \in [Side -> [Prices -> Level]] /\ s \in Side /\ p \in Prices
    BY <1>1 DEF Shape, TypeOK
  <2>2. m \in Level
    BY <1>0
  <2> DEFINE new == [levels EXCEPT ![s][p] = m]
  <2>3. new[s][p] = m /\ \A t \in Side, r \in Prices : t # s \/ r # p => new[t][r] = levels[t][r]
    BY ONLY <2>1, <2>2, LevelUpdate
  <2>4. levels' = new
    BY <1>5
  <2>. HIDE DEF new
  <2>. QED  BY ONLY <2>3, <2>4
<1> SUFFICES ASSUME NEW t \in Side, NEW r \in Prices
             PROVE  /\ Ascending(levels'[t][r].orders)
                    /\ Elements(levels'[t][r].orders) = Held(t, r) \ {h}
  BY DEF Without
<1>10. CASE t = s /\ r = p
  BY <1>7, <1>9, <1>10
<1>11. CASE t # s \/ r # p
  BY <1>8, <1>9, <1>11 DEF InArrivalOrder, Held
<1>. QED  BY <1>10, <1>11

\* clear takes every order out of the book.
LEMMA ClearEmpties ==
  ASSUME Shape, Clear
  PROVE  Without(levels', Resting)
<1>1. \A s \in Side, p \in Prices : Held(s, p) \subseteq Resting
  BY HeldProperties, RestingHeld
<1>2. \A s \in Side, p \in Prices : levels'[s][p].orders = << >>
  BY NoLevelType DEF Clear
<1>. QED  BY <1>1, <1>2 DEF Without, Ascending, Elements

(***************************************************************************)
(* Lists in arrival order, and no empty level.                             *)
(***************************************************************************)

Lists == InArrivalOrder /\ NothingEmpty

\* Taking orders out of the lists of levels that stay keeps what Lists says, if
\* only the lists that the loop works on may become empty.
LEMMA ExecutionKeepsLists ==
  ASSUME Shape, Shape', Lists, NEW gone, Without(levels', gone), pc' = pc, px' = px, Book' = Book,
         \A s \in Side, p \in Prices : levels'[s][p].live = levels[s][p].live,
         \A s \in Side, p \in Prices : ~Working(s, p) => Held(s, p) \cap gone = {}
  PROVE  Lists'
<1>1. InArrivalOrder'
  BY DEF Without, InArrivalOrder
<1>2. ASSUME pc # "undefined", NEW s \in Side, NEW p \in Prices
      PROVE  /\ levels'[s][p].orders # << >> => levels'[s][p].live
             /\ levels'[s][p].live => levels'[s][p].orders # << >> \/ Working(s, p)
  <2>1. /\ levels[s][p].orders # << >> => levels[s][p].live
        /\ levels[s][p].live => levels[s][p].orders # << >> \/ Working(s, p)
    BY <1>2 DEF Lists, NothingEmpty
  <2>2. levels[s][p].orders = << >> <=> Held(s, p) = {}
    BY HeldProperties, FewElements DEF Held, Lists, InArrivalOrder
  <2>3. levels'[s][p].orders = << >> <=> Held(s, p) \ gone = {}
    <3>1. levels'[s][p].orders \in Seq(Nat)
      BY DEF Shape, TypeOK, Level
    <3>. QED  BY <3>1, FewElements DEF Without
  <2>. QED  BY <2>1, <2>2, <2>3
<1>3. NothingEmpty'
  BY <1>2 DEF NothingEmpty, Working
<1>. QED  BY <1>1, <1>3 DEF Lists

\* Adding an order to such lists keeps them so.
LEMMA AddKeepsLists ==
  ASSUME Shape, NEW base \in Levels, NEW o \in OrderObject, AddOrder(o, base),
         pc' \in {"idle", "match"},
         \A s \in Side, p \in Prices :
           /\ Ascending(base[s][p].orders) /\ Elements(base[s][p].orders) \subseteq Held(s, p)
           /\ base[s][p].live <=> base[s][p].orders # << >>
  PROVE  Lists'
<1>1. /\ \A s \in Side, p \in Prices : Ascending(levels'[s][p].orders)
      /\ \A s \in Side, p \in Prices :
           s # o.side \/ p # o.price => levels'[s][p] = base[s][p]
      /\ levels'[o.side][o.price].live /\ levels'[o.side][o.price].orders # << >>
  BY AddOrderEffect
<1>2. \A s \in Side, p \in Prices : levels'[s][p].live <=> levels'[s][p].orders # << >>
  BY <1>1
<1>. QED  BY <1>1, <1>2 DEF Lists, InArrivalOrder, NothingEmpty

\* The calls of clients, whichever of them the constant Calls offers, and what the
\* book does. An exchange takes such steps too, as calls of its own.
AnyCall ==
  \/ \E id \in OrderIds, s \in Side, q \in Quantities, p \in Prices : SubmitLimit(id, s, q, p)
  \/ \E s \in Side, q \in Quantities : SubmitMarket(s, q)
  \/ \E id \in OrderIds : Cancel(id) \/ RemoveDangling(id)
  \/ \E id \in OrderIds, r \in Revisions : Modify(id, r[1], r[2])
  \/ Clear

AnyStep == AnyCall \/ Proceed \/ UNCHANGED vars

\* The book's own steps are among them.
LEMMA NextIsAnyStep ==
  ASSUME [Next]_vars
  PROVE  AnyStep
BY DEF Next, Call, AnyCall, AnyStep

\* Every call that a client makes keeps what Lists says.
LEMMA CallKeepsLists ==
  ASSUME Shape, Lists, AnyCall
  PROVE  Lists'
<1>1. pc = "idle"
  BY DEF AnyCall, SubmitLimit, SubmitMarket, Cancel, Modify, RemoveDangling, Clear
<1>2. /\ InArrivalOrder
      /\ \A s \in Side, p \in Prices : levels[s][p].live <=> levels[s][p].orders # << >>
  BY <1>1 DEF Lists, NothingEmpty, Working
<1>3. ASSUME UNCHANGED levels, pc' \notin {"pair", "fill"}
      PROVE  Lists'
  BY <1>2, <1>3 DEF Lists, InArrivalOrder, NothingEmpty
<1>4. ASSUME NEW id \in OrderIds, NEW s \in Side, NEW q \in Quantities, NEW p \in Prices,
             SubmitLimit(id, s, q, p)
      PROVE  Lists'
  <2> DEFINE o == NewOrder(id, s, q, p)
  <2>1. o \in OrderObject /\ levels \in Levels /\ AddOrder(o, levels) /\ pc' = "match"
    BY <1>4, NewOrderType DEF SubmitLimit, Shape, TypeOK, Levels
  <2>. HIDE DEF o
  <2>. QED  BY <1>2, <2>1, AddKeepsLists DEF InArrivalOrder, Held
<1>5. ASSUME NEW s \in Side, NEW q \in Quantities, SubmitMarket(s, q)
      PROVE  Lists'
  BY <1>3, <1>5 DEF SubmitMarket
<1>6. ASSUME NEW id \in OrderIds, orders[id] # NoOrder, Found(id), levels' = LevelsWithout(id), pc' = "idle"
      PROVE  Lists'
  <2>1. /\ Without(LevelsWithout(id), {NodeOf(id)})
        /\ \A s \in Side, p \in Prices :
             LevelsWithout(id)[s][p].live <=> LevelsWithout(id)[s][p].orders # << >>
    BY <1>1, <1>2, <1>6, RemovalEffect DEF Lists
  <2>. QED  BY <1>6, <2>1 DEF Without, Lists, InArrivalOrder, NothingEmpty
<1>7. ASSUME NEW id \in OrderIds, Cancel(id)
      PROVE  Lists'
  <2>1. CASE Found(id)
    BY <1>1, <1>6, <1>7, <2>1 DEF Cancel
  <2>2. CASE ~Found(id)
    BY <1>1, <1>3, <1>7, <2>2 DEF Cancel, LevelsWithout
  <2>. QED  BY <2>1, <2>2
<1>8. ASSUME NEW id \in OrderIds, NEW q, NEW p, Modify(id, q, p)
      PROVE  Lists'
  <2>1. orders[id] # NoOrder /\ pc' = "idle"
    BY <1>1, <1>8 DEF Modify
  <2>2. CASE Unknown(id) /\ UNCHANGED levels
    BY <1>3, <2>1, <2>2
  <2> DEFINE old == order[orders[id]]
             o == NewOrder(id, old.side, old.quantity, old.price)
  <2>3. CASE Found(id) /\ AddOrder(o, LevelsWithout(id))
    <3>1. LevelsWithout(id) \in Levels /\ orders[id] \in Handle
      BY <2>1, RemovalShrinks DEF Shape
    <3>2. o \in OrderObject
      BY <3>1, OrderType, NewOrderType DEF Shape, OrderObject
    <3>3. /\ Without(LevelsWithout(id), {NodeOf(id)})
          /\ \A s \in Side, r \in Prices :
               LevelsWithout(id)[s][r].live <=> LevelsWithout(id)[s][r].orders # << >>
      BY <1>1, <1>2, <2>1, <2>3, RemovalEffect DEF Lists
    <3>. HIDE DEF o
    <3>. QED  BY <2>1, <2>3, <3>1, <3>2, <3>3, AddKeepsLists DEF Without
  <2>. QED  BY <1>8, <2>2, <2>3 DEF Modify
<1>9. ASSUME NEW id \in OrderIds, RemoveDangling(id)
      PROVE  Lists'
  <2>1. InArrivalOrder'
    BY <1>2, <1>9, DanglingEffect DEF Without, InArrivalOrder
  <2>2. pc' = "undefined"
    BY <1>9 DEF RemoveDangling
  <2>. QED  BY <2>1, <2>2 DEF Lists, NothingEmpty
<1>10. ASSUME Clear
       PROVE  Lists'
  <2>1. \A s \in Side, p \in Prices : levels'[s][p].orders = << >> /\ ~levels'[s][p].live
    BY <1>10, NoLevelType DEF Clear
  <2>. QED  BY <2>1 DEF Lists, InArrivalOrder, NothingEmpty, Ascending
<1>. QED  BY <1>4, <1>5, <1>7, <1>8, <1>9, <1>10 DEF AnyCall

\* And so does everything a call does by itself: an exception leaves no empty level
\* behind, because the lists under the iterators are not empty where it is thrown.
LEMMA ProceedKeepsLists ==
  ASSUME Shape, Shape', Lists, Proceed
  PROVE  Lists'
<1>1. InArrivalOrder /\ NothingEmpty
  BY DEF Lists
<1>2. ASSUME UNCHANGED levels, pc # "undefined",
             \A s \in Side, p \in Prices :
               Working(s, p) => Working(s, p)' \/ levels[s][p].orders # << >>
      PROVE  Lists'
  BY <1>1, <1>2 DEF Lists, InArrivalOrder, NothingEmpty
<1>3. CASE EnterLevels \/ MatchDone \/ EnterLevel \/ MarketDone \/ Notify \/ Return
  <2>1. UNCHANGED levels /\ pc \in {"match", "market", "notify"}
    BY <1>3 DEF EnterLevels, MatchDone, EnterLevel, MarketDone, Notify, Return
  <2>. QED  BY <1>2, <2>1 DEF Working
<1>4. CASE MatchThrows
  <2>1. /\ pc = "pair" /\ UNCHANGED levels
        /\ \A s \in Side : px[s] \in Live(s) /\ it[s] >= 1 /\ ~AtEnd(s)
    BY <1>4 DEF MatchThrows, Unwind, Shape, IteratorsSound, Side
  <2>2. \A s \in Side : levels[s][px[s]].orders # << >>
    BY <2>1, UnderIterator
  <2>. QED  BY <1>2, <2>1, <2>2 DEF Working
<1>5. CASE FillThrows
  <2>1. /\ pc = "fill" /\ UNCHANGED levels /\ Book \in Side
        /\ px[Book] \in Live(Book) /\ it[Book] >= 1 /\ ~AtEnd(Book)
    BY <1>5 DEF FillThrows, Unwind, Shape, TypeOK, IteratorsSound, Book, Opposite, Side
  <2>2. levels[Book][px[Book]].orders # << >>
    BY <2>1, UnderIterator
  <2>. QED  BY <1>2, <2>1, <2>2 DEF Working
<1>6. CASE LeaveLevels \/ LeaveLevel
  <2>1. pc \in {"pair", "fill"} /\ pc' \in {"match", "market"}
    BY <1>6 DEF LeaveLevels, LeaveLevel
  <2>2. \A s \in Side, p \in Prices :
          /\ levels'[s][p].orders = levels[s][p].orders
          /\ levels'[s][p].live <=> /\ levels[s][p].live
                                    /\ levels[s][p].orders # << >> \/ ~Working(s, p)
    BY <1>6, LeaveEffect
  <2>. QED  BY <1>1, <2>1, <2>2 DEF Lists, InArrivalOrder, NothingEmpty
<1>7. CASE Fill
  <2> DEFINE h == At(Book)
             gone == IF order'[h].remaining = 0 THEN {h} ELSE {}
  <2>1. /\ pc = "fill" /\ pc' = "fill" /\ px' = px /\ Book' = Book
        /\ order[h].side = Book /\ order[h].price = px[Book]
        /\ \A s \in Side, p \in Prices : levels'[s][p].live = levels[s][p].live
        /\ Without(levels', gone)
    BY <1>1, <1>7, FillEffect DEF Fill
  <2>2. \A s \in Side, p \in Prices : ~Working(s, p) => Held(s, p) \cap gone = {}
    BY <2>1, HeldProperties DEF Working
  <2>. HIDE DEF gone
  <2>. QED  BY <2>1, <2>2, ExecutionKeepsLists
<1>8. CASE MatchPair
  <2> DEFINE gone == {h \in {At("BUY"), At("SELL")} : order'[h].remaining = 0}
  <2>1. /\ pc = "pair" /\ pc' = "pair" /\ px' = px /\ Book' = Book
        /\ order[At("BUY")].side = "BUY" /\ order[At("BUY")].price = px["BUY"]
        /\ order[At("SELL")].side = "SELL" /\ order[At("SELL")].price = px["SELL"]
        /\ \A s \in Side, p \in Prices : levels'[s][p].live = levels[s][p].live
        /\ Without(levels', gone)
    BY <1>1, <1>8, MatchPairEffect DEF MatchPair, Book
  <2>2. \A s \in Side, p \in Prices : ~Working(s, p) => Held(s, p) \cap gone = {}
    BY <2>1, HeldProperties DEF Working
  <2>. HIDE DEF gone
  <2>. QED  BY <2>1, <2>2, ExecutionKeepsLists
<1>. QED  BY <1>3, <1>4, <1>5, <1>6, <1>7, <1>8 DEF Proceed

\* A new book has no lists.
LEMMA InitLists == Init => Lists
<1> SUFFICES ASSUME Init PROVE Lists
  OBVIOUS
<1>1. \A s \in Side, p \in Prices : levels[s][p].orders = << >> /\ ~levels[s][p].live
  BY NoLevelType DEF Init
<1>. QED  BY <1>1 DEF Lists, InArrivalOrder, NothingEmpty, Ascending

\* Every step keeps the lists in arrival order, and no level empty but those that a
\* loop is working on.
LEMMA StepKeepsLists ==
  ASSUME Shape, Shape', Lists, AnyStep
  PROVE  Lists'
<1>1. CASE UNCHANGED vars
  <2>1. UNCHANGED <<levels, pc, px, taker>>
    BY <1>1 DEF vars, frame
  <2>. QED  BY <2>1 DEF Lists, InArrivalOrder, NothingEmpty, Working, Book
<1>. QED  BY <1>1, CallKeepsLists, ProceedKeepsLists DEF AnyStep

\* So they are in every book.
LEMMA ListsInvariant == Spec => [](Shape /\ Lists)
<1>1. Init => Shape /\ Lists
  BY InitHolds, InitLists
<1>2. Shape /\ Lists /\ [Next]_vars => Shape' /\ Lists'
  <2> SUFFICES ASSUME Shape, Lists, [Next]_vars PROVE Shape' /\ Lists'
    OBVIOUS
  <2>1. Shape'
    BY NextKeeps
  <2>. QED  BY <2>1, NextIsAnyStep, StepKeepsLists
<1>. QED  BY <1>1, <1>2, PTL DEF Spec

\* The best bid and ask that the book answers with are prices at which an order
\* rests, whatever executes, is cancelled or throws, and also with orders of
\* quantity 0: no call leaves an empty level behind.
THEOREM NoLevelEmpty == Spec => []NoEmptyLevel
<1>1. Lists => NoEmptyLevel
  BY DEF Lists, NothingEmpty, Working, NoEmptyLevel
<1>. QED  BY <1>1, ListsInvariant, PTL

(***************************************************************************)
(* Executions at the front.                                                *)
(***************************************************************************)

Fronts == TakesFromFront /\ NewestOverlaps /\ MatchesFronts

\* Two levels that overlap make the book a crossed one.
LEMMA OverlapCrosses ==
  ASSUME NEW s \in Side, NEW p \in Live(s), NEW q \in Live(Opposite(s)), Overlap(s, p, q)
  PROVE  Crossed
<1>1. p \in Nat /\ q \in Nat
  BY BookAssumption DEF Live
<1>2. CASE s = "BUY"
  BY <1>1, <1>2 DEF Overlap, Opposite, Crossed
<1>3. CASE s = "SELL"
  BY <1>1, <1>3 DEF Overlap, Opposite, Crossed
<1>. QED  BY <1>2, <1>3 DEF Side

\* A new order may overlap with the other side, and then it is alone at its price:
\* the book was not crossed without it.
LEMMA SubmitLimitKeepsFronts ==
  ASSUME Shape, CrossedOnlyWhileMatching, InArrivalOrder, NEW id \in OrderIds, NEW s \in Side,
         NEW q \in Quantities, NEW p \in Prices, SubmitLimit(id, s, q, p)
  PROVE  Fronts'
<1> DEFINE o == NewOrder(id, s, q, p)
           h == Len(order) + 1
<1>1. /\ pc = "idle" /\ pc' = "match" /\ AddOrder(o, levels)
  BY DEF SubmitLimit
<1>2. o \in OrderObject /\ o.side = s /\ o.price = p /\ levels \in Levels
  BY NewOrderType DEF NewOrder, Shape, TypeOK, Levels
<1>3. ~Crossed
  BY <1>1 DEF CrossedOnlyWhileMatching
<1>. HIDE DEF o
<1>4. /\ Len(order') = h /\ h \in Nat /\ order'[h] = o /\ h \notin Handle
      /\ \A t \in Side, r \in Prices : t # s \/ r # p => levels'[t][r] = levels[t][r]
      /\ ~levels[s][p].live => Elements(levels'[s][p].orders) = {h}
  <2>1. \A t \in Side, r \in Prices :
          Ascending(levels[t][r].orders) /\ Elements(levels[t][r].orders) \subseteq Held(t, r)
    BY DEF InArrivalOrder, Held
  <2>2. /\ Len(order') = h /\ h \in Nat /\ order'[h] = o /\ h \notin Handle
        /\ \A t \in Side, r \in Prices : t # o.side \/ r # o.price => levels'[t][r] = levels[t][r]
        /\ Elements(levels'[o.side][o.price].orders) =
             IF levels[o.side][o.price].live /\ o.price # 0
             THEN Elements(levels[o.side][o.price].orders) \cup {h} ELSE {h}
    BY <1>1, <1>2, <2>1, AddOrderEffect
  <2>. QED  BY <1>2, <2>2
<1>. HIDE DEF h
<1>5. Newest' = h /\ h > 0
  <2>1. Len(order) \in Nat /\ h = Len(order) + 1
    BY HandleType DEF h, Shape
  <2>. QED  BY <1>4, <2>1 DEF Newest
<1>6. ASSUME NEW r \in Live(s)', NEW x \in Live(Opposite(s))', Overlap(s, r, x)
      PROVE  Held(s, r)' \subseteq {h}
  <2>1. Opposite(s) \in Side /\ Opposite(s) # s
    BY DEF Opposite, Side
  <2>2. r \in Prices /\ x \in Prices /\ levels'[Opposite(s)][x].live /\ levels'[s][r].live
    BY <1>6 DEF Live
  <2>3. levels[Opposite(s)][x].live
    BY <1>4, <2>1, <2>2
  <2>4. ~levels[s][r].live
    BY <1>3, <1>6, <2>2, <2>3, OverlapCrosses DEF Live
  <2>5. r = p
    BY <1>4, <2>2, <2>4
  <2>. QED  BY <1>4, <2>4, <2>5 DEF Held
<1>7. NewestOverlaps'
  BY <1>2, <1>4, <1>5, <1>6 DEF NewestOverlaps
<1>. QED  BY <1>1, <1>7 DEF Fronts, TakesFromFront, MatchesFronts

\* What the levels an iteration of match_orders works on have in common: the newest
\* order is all there is on its side.
LEMMA NewestUnderIterator ==
  ASSUME Shape, Fronts, pc = "pair"
  PROVE  LET s == order[Newest].side
         IN  /\ Newest \in Handle /\ s \in Side
             /\ \A t \in Side : px[t] \in Live(t)
             /\ Held(s, px[s]) \subseteq {Newest}
<1> DEFINE s == order[Newest].side
<1>1. Newest \in Handle
  BY HandleType DEF Shape, Fronts, NewestOverlaps, Newest, Handle
<1>2. s \in Side
  BY <1>1, OrderType DEF Shape
<1>3. \A t \in Side : px[t] \in Live(t)
  BY DEF Shape, IteratorsSound
<1>. HIDE DEF s
<1>4. Opposite(s) \in Side
  BY DEF Opposite, Side
<1>5. px["BUY"] \in Nat /\ px["SELL"] \in Nat
  BY <1>3, BookAssumption DEF Live, Side
<1>6. Overlap(s, px[s], px[Opposite(s)])
  BY <1>2, <1>5 DEF Fronts, MatchesFronts, Overlap, Opposite, Side
<1>7. Held(s, px[s]) \subseteq {Newest}
  BY <1>2, <1>3, <1>4, <1>6 DEF Fronts, NewestOverlaps, s
<1>. QED  BY <1>1, <1>2, <1>3, <1>7 DEF s

\* An iteration of match_orders fills the newest order, or moves past it, the only
\* one of its list.
LEMMA MatchPairKeepsFronts ==
  ASSUME Shape, Shape', Lists, Fronts, MatchPair
  PROVE  Fronts'
<1> DEFINE b == At("BUY")
           a == At("SELL")
           gone == {h \in {b, a} : order'[h].remaining = 0}
<1>1. /\ pc = "pair" /\ ~AtEnd("BUY") /\ ~AtEnd("SELL")
  BY DEF MatchPair
<1>2. /\ \A t \in Side : /\ px[t] \in Prices
                         /\ it[t] \in DOMAIN levels[t][px[t]].orders
                         /\ levels[t][px[t]].orders[it[t]] = At(t)
      /\ px' = px /\ pc' = "pair" /\ b \in Handle /\ a \in Handle
      /\ Len(order') = Len(order) /\ \A g \in Handle \ {b, a} : order'[g] = order[g]
      /\ \A h \in {b, a} : order'[h].side = order[h].side
      /\ \A t \in Side, r \in Prices : levels'[t][r].live = levels[t][r].live
      /\ Without(levels', gone)
      /\ \A t \in Side : it'[t] = IF order'[At(t)].remaining = 0 THEN it[t] ELSE it[t] + 1
  BY MatchPairEffect DEF Lists
<1>3. PICK n \in Handle, s \in Side :
        /\ n = Newest /\ s = order[n].side
        /\ \A t \in Side : px[t] \in Live(t)
        /\ Held(s, px[s]) \subseteq {n}
  BY <1>1, NewestUnderIterator
<1>4. \A t \in Side : it[t] = 1
  BY <1>1, <1>3 DEF Fronts, MatchesFronts, Side
<1>5. Newest' = n /\ order'[n].side = s /\ n > 0
  <2>1. order'[n].side = order[n].side
    BY <1>2, <1>3
  <2>. QED  BY <1>1, <1>2, <1>3, <2>1 DEF Newest, Fronts, NewestOverlaps
<1>6. At(s) = n
  <2>1. At(s) \in Held(s, px[s])
    BY <1>2, <1>3 DEF Held, Elements
  <2>. QED  BY <1>3, <2>1
<1>7. n \in {b, a}
  BY <1>3, <1>6 DEF Side
<1>. HIDE DEF b, a
<1>8. \A t \in Side : Live(t)' = Live(t)
  BY <1>2 DEF Live
<1>9. levels'[s][px[s]].orders \in Seq(Nat) /\ Ascending(levels'[s][px[s]].orders)
      /\ Elements(levels'[s][px[s]].orders) = Held(s, px[s]) \ gone
  <2>1. levels'[s][px[s]].orders \in Seq(Nat)
    <3>1. levels' \in [Side -> [Prices -> Level]] /\ px[s] \in Prices
      BY <1>2, <1>3 DEF Shape, TypeOK
    <3>2. levels'[s][px[s]] \in Level
      BY <3>1
    <3>. QED  BY <3>2 DEF Level
  <2>. QED  BY <1>2, <1>3, <2>1 DEF Without
<1>10. it'[s] > Len(levels'[s][px'[s]].orders)
  <2>1. CASE order'[n].remaining = 0
    <3>1. n \in gone /\ it'[s] = 1
      BY <1>2, <1>3, <1>4, <1>6, <1>7, <2>1
    <3>2. Elements(levels'[s][px[s]].orders) = {}
      BY <1>3, <1>9, <3>1
    <3>3. Len(levels'[s][px[s]].orders) = 0
      BY <1>9, <3>2, FewElements
    <3>. QED  BY <1>2, <3>1, <3>3
  <2>2. CASE order'[n].remaining # 0
    <3>1. it'[s] = 2
      BY <1>2, <1>3, <1>4, <1>6, <2>2
    <3>2. Len(levels'[s][px[s]].orders) <= 1
      BY <1>3, <1>9, FewElements
    <3>3. Len(levels'[s][px[s]].orders) \in Nat
      BY <1>9, LenProperties
    <3>. QED  BY <1>2, <3>1, <3>2, <3>3
  <2>. QED  BY <2>1, <2>2
<1>11. MatchesFronts'
  <2>1. AtEnd(s)'
    BY <1>10 DEF AtEnd
  <2>2. \A t \in Side : Best(t, px[t])' <=> Best(t, px[t])
    BY <1>2, <1>8 DEF Best
  <2>3. Best("BUY", px["BUY"]) /\ Best("SELL", px["SELL"]) /\ px["BUY"] >= px["SELL"]
    BY <1>1 DEF Fronts, MatchesFronts
  <2>4. Best("BUY", px["BUY"])' /\ Best("SELL", px["SELL"])' /\ px'["BUY"] >= px'["SELL"]
    BY <1>2, <2>2, <2>3 DEF Side
  <2>. QED  BY <1>5, <2>1, <2>4 DEF MatchesFronts
<1>12. NewestOverlaps'
  <2> SUFFICES ASSUME NEW p \in Live(s)', NEW q \in Live(Opposite(s))', Overlap(s, p, q)
               PROVE  Held(s, p)' \subseteq {n}
    BY <1>5 DEF NewestOverlaps
  <2>1. Opposite(s) \in Side
    BY DEF Opposite, Side
  <2>2. p \in Live(s) /\ q \in Live(Opposite(s)) /\ p \in Prices
    BY <1>3, <1>8, <2>1 DEF Live
  <2>3. Held(s, p) \subseteq {n}
    BY <1>1, <1>3, <2>2 DEF Fronts, NewestOverlaps
  <2>4. Held(s, p)' = Held(s, p) \ gone
    BY <1>2, <1>3, <2>2 DEF Without, Held
  <2>. QED  BY <2>3, <2>4
<1>. QED  BY <1>2, <1>11, <1>12 DEF Fronts, TakesFromFront

\* A market order stops at the front of the best level until it is done.
LEMMA FillKeepsFronts ==
  ASSUME Shape, Lists, Fronts, Fill
  PROVE  Fronts'
<1> DEFINE h == At(Book)
           q == Lesser(taker.remaining, order[h].remaining)
<1>1. /\ Book' = Book /\ Book \in Side /\ px' = px /\ pc' = "fill"
      /\ order[h].remaining \in Nat /\ taker.remaining \in Nat /\ q \in Nat
      /\ order'[h].remaining = order[h].remaining - q
      /\ taker'.remaining = taker.remaining - q
      /\ \A t \in Side, r \in Prices : levels'[t][r].live = levels[t][r].live
      /\ order'[h].remaining = 0 => it' = it
  BY FillEffect DEF Lists
<1>2. pc = "fill" /\ taker.remaining > 0
  BY DEF Fill
<1>3. Best(Book, px[Book]) /\ it[Book] = 1
  BY <1>2 DEF Fronts, TakesFromFront
<1>4. Best(Book, px[Book])'
  <2>1. \A t \in Side : Live(t)' = Live(t)
    BY <1>1 DEF Live
  <2>. QED  BY <1>1, <1>3, <2>1 DEF Best
<1>5. taker'.remaining > 0 => it'[Book'] = 1
  <2>1. order[h].remaining - q = 0 \/ taker.remaining - q = 0
    BY <1>1 DEF Lesser
  <2>. QED  BY <1>1, <1>3, <2>1
<1>6. TakesFromFront'
  BY <1>4, <1>5 DEF TakesFromFront
<1>. QED  BY <1>1, <1>6 DEF Fronts, NewestOverlaps, MatchesFronts

\* Every step keeps what the loops say of the fronts.
LEMMA StepKeepsFronts ==
  ASSUME Shape, Shape', ListsLive, CrossedOnlyWhileMatching, Lists, Fronts, AnyStep
  PROVE  Fronts'
<1>1. ASSUME pc' \notin {"fill", "match", "pair"}
      PROVE  Fronts'
  BY <1>1 DEF Fronts, TakesFromFront, NewestOverlaps, MatchesFronts
<1>2. CASE AnyCall
  <2>1. ASSUME NEW id \in OrderIds, NEW s \in Side, NEW q \in Quantities, NEW p \in Prices,
               SubmitLimit(id, s, q, p)
        PROVE  Fronts'
    BY <2>1, SubmitLimitKeepsFronts DEF Lists
  <2>2. ASSUME NEW id, NEW s, NEW q, NEW p,
               SubmitMarket(s, q) \/ Cancel(id) \/ Modify(id, q, p) \/ RemoveDangling(id)
        PROVE  Fronts'
    BY <1>1, <2>2 DEF SubmitMarket, Cancel, Modify, RemoveDangling
  <2>3. CASE Clear
    BY <1>1, <2>3 DEF Clear
  <2>. QED  BY <1>2, <2>1, <2>2, <2>3 DEF AnyCall
<1>3. CASE EnterLevels
  <2>1. /\ pc = "match" /\ pc' = "pair" /\ UNCHANGED <<levels, order>>
        /\ Best("BUY", px'["BUY"]) /\ Best("SELL", px'["SELL"]) /\ px'["BUY"] >= px'["SELL"]
        /\ \A s \in Side : it'[s] = 1
    BY <1>3 DEF EnterLevels, Side
  <2>2. MatchesFronts'
    <3>1. \A s, p : Best(s, p) => Best(s, p)'
      BY <2>1 DEF Best, Live
    <3>. QED  BY <2>1 DEF MatchesFronts, Best, Live
  <2>3. NewestOverlaps'
    BY <2>1 DEF Fronts, NewestOverlaps, Newest, Live, Held
  <2>. QED  BY <2>1, <2>2, <2>3 DEF Fronts, TakesFromFront
<1>4. CASE LeaveLevels
  <2>1. pc = "pair" /\ pc' = "match" /\ UNCHANGED order
    BY <1>4 DEF LeaveLevels
  <2>2. \A s \in Side, p \in Prices : levels'[s][p].orders = levels[s][p].orders
                                      /\ (levels'[s][p].live => levels[s][p].live)
    BY <1>4, LeaveEffect
  <2>3. Newest \in Handle /\ order[Newest].side \in Side /\ Opposite(order[Newest].side) \in Side
    BY <2>1, NewestUnderIterator DEF Opposite, Side
  <2>4. NewestOverlaps'
    BY <2>1, <2>2, <2>3 DEF Fronts, NewestOverlaps, Newest, Live, Held
  <2>. QED  BY <2>1, <2>4 DEF Fronts, TakesFromFront, MatchesFronts
<1>5. CASE EnterLevel
  <2>1. /\ pc' = "fill" /\ UNCHANGED <<levels, taker>> /\ Book \in Side
        /\ \E p \in Live(Book) : Best(Book, p) /\ px' = [px EXCEPT ![Book] = p]
        /\ it' = [s \in Side |-> 1]
    BY <1>5 DEF EnterLevel, Book, Opposite, Side
  <2>2. Book' = Book /\ Best(Book, px'[Book]) /\ it'[Book] = 1
    BY <2>1 DEF Book, Shape, TypeOK
  <2>3. TakesFromFront'
    BY <2>1, <2>2 DEF TakesFromFront, Best, Live
  <2>. QED  BY <2>1, <2>3 DEF Fronts, NewestOverlaps, MatchesFronts
<1>6. CASE MatchDone \/ MarketDone \/ LeaveLevel \/ Notify \/ Return
  <2>1. pc' \notin {"fill", "match", "pair"}
    BY <1>6 DEF MatchDone, MarketDone, LeaveLevel, Notify, Return
  <2>. QED  BY <1>1, <2>1
<1>7. CASE MatchThrows \/ FillThrows
  BY <1>1, <1>7 DEF MatchThrows, FillThrows, Unwind
<1>8. CASE UNCHANGED vars
  <2>1. UNCHANGED <<order, levels, pc, px, it, taker>>
    BY <1>8 DEF vars, frame
  <2>. QED
    BY <2>1 DEF Fronts, TakesFromFront, NewestOverlaps, MatchesFronts, Best, Live, Held, Newest,
                AtEnd, Book
<1>. QED
  BY <1>2, <1>3, <1>4, <1>5, <1>6, <1>7, <1>8, MatchPairKeepsFronts, FillKeepsFronts DEF AnyStep, Proceed

\* No loop is at work in a new book.
LEMMA InitFronts == Init => Fronts
BY DEF Init, Fronts, TakesFromFront, NewestOverlaps, MatchesFronts

\* The invariant of the loops that price-time priority rests on.
LEMMA FrontsInvariant == PositiveQuantities => (Spec => [](Shape /\ Calm /\ Lists /\ Fronts))
<1> SUFFICES ASSUME PositiveQuantities PROVE Spec => [](Shape /\ Calm /\ Lists /\ Fronts)
  OBVIOUS
<1>1. Init => Shape /\ Calm /\ Fronts
  BY InitHolds, InitFronts
<1>2. Shape /\ Calm /\ Lists /\ Fronts /\ [Next]_vars => Shape' /\ Calm' /\ Fronts'
  BY NextKeeps, NextIsAnyStep, StepKeepsFronts DEF Calm
<1>. QED  BY <1>1, <1>2, ListsInvariant, PTL DEF Spec

\* The front of the best level of a side comes before every other order that rests there.
LEMMA FrontIsFirst ==
  ASSUME Shape, Lists, pc # "undefined", NEW s \in Side, NEW p \in Prices, Best(s, p),
         1 \in DOMAIN levels[s][p].orders
  PROVE  \A g \in Resting : ~Ahead(g, levels[s][p].orders[1])
<1> SUFFICES ASSUME NEW g \in Resting, Ahead(g, levels[s][p].orders[1])
             PROVE  FALSE
  OBVIOUS
<1> DEFINE h == levels[s][p].orders[1]
<1>1. h \in Handle /\ order[h].side = s /\ order[h].price = p
  BY HeldProperties DEF Held, Elements
<1>2. g \in Handle /\ g \in Held(order[g].side, order[g].price)
  BY RestingHeld
<1>3. order[g].price \in Prices
  BY <1>2, OrderType DEF Shape
<1>4. order[g].side = s
  BY <1>1 DEF Ahead
<1>5. order[g].price \in Live(s)
  <2>1. levels[s][order[g].price].orders # << >>
    BY <1>2, <1>4 DEF Held, Elements
  <2>. QED  BY <1>3, <2>1 DEF Live, Lists, NothingEmpty
<1>6. order[g].price = p /\ g < h
  BY <1>1, <1>4, <1>5 DEF Ahead, Best
<1>7. PICK i \in DOMAIN levels[s][p].orders : g = levels[s][p].orders[i]
  BY <1>2, <1>4, <1>6 DEF Held, Elements
<1>8. i = 1 \/ 1 < i
  <2>1. levels[s][p].orders \in Seq(Nat)
    BY HeldProperties
  <2>. QED  BY <2>1, LenProperties
<1>9. h = g \/ h < g
  BY <1>7, <1>8 DEF Lists, InArrivalOrder, Ascending
<1>10. h \in Nat /\ g \in Nat
  BY <1>1, <1>2, HandleType DEF Shape
<1>. QED  BY <1>6, <1>9, <1>10

\* What a step takes from, it takes from the fronts.
LEMMA OnlyFrontsExecute ==
  ASSUME Shape, Lists, Fronts, AnyStep,
         NEW h \in Handle, order'[h].remaining < order[h].remaining
  PROVE  \A g \in Resting : ~Ahead(g, h)
<1>1. order \in Seq(OrderObject) /\ order[h].remaining \in Nat
  BY OrderType DEF Shape, TypeOK
<1>2. order'[h] # order[h]
  BY <1>1
<1>3. ASSUME NEW o, order' = Append(order, o)
      PROVE  FALSE
  BY <1>1, <1>2, <1>3 DEF Handle
<1>4. CASE AnyCall
  <2>1. ASSUME NEW id \in OrderIds, NEW t \in Side, NEW q \in Quantities, NEW p \in Prices,
               SubmitLimit(id, t, q, p)
        PROVE  FALSE
    BY <1>3, <2>1 DEF SubmitLimit, AddOrder
  <2>2. ASSUME NEW id \in OrderIds, NEW r \in Revisions, Modify(id, r[1], r[2])
        PROVE  FALSE
    BY <1>2, <1>3, <2>2 DEF Modify, AddOrder
  <2>3. ASSUME NEW id \in OrderIds, Cancel(id) \/ RemoveDangling(id)
        PROVE  FALSE
    BY <1>2, <2>3 DEF Cancel, RemoveDangling
  <2>4. ASSUME NEW t \in Side, NEW q \in Quantities, SubmitMarket(t, q)
        PROVE  FALSE
    BY <1>2, <2>4 DEF SubmitMarket
  <2>5. ~Clear
    BY <1>2 DEF Clear
  <2>. QED  BY <1>4, <2>1, <2>2, <2>3, <2>4, <2>5 DEF AnyCall
<1>5. CASE MatchPair
  <2>1. /\ pc = "pair" /\ ~AtEnd("BUY") /\ ~AtEnd("SELL")
    BY <1>5 DEF MatchPair
  <2>2. /\ \A t \in Side : /\ px[t] \in Prices
                           /\ it[t] \in DOMAIN levels[t][px[t]].orders
                           /\ levels[t][px[t]].orders[it[t]] = At(t)
        /\ \A g \in Handle \ {At("BUY"), At("SELL")} : order'[g] = order[g]
    BY <1>5, MatchPairEffect DEF Lists
  <2>3. PICK s \in Side : h = At(s)
    BY <1>2, <2>2 DEF Side
  <2>4. Best(s, px[s]) /\ it[s] = 1
    BY <2>1, NewestUnderIterator DEF Fronts, MatchesFronts, Side
  <2>. QED  BY <2>1, <2>2, <2>3, <2>4, FrontIsFirst
<1>6. CASE Fill
  <2>1. pc = "fill" /\ taker.remaining > 0
    BY <1>6 DEF Fill
  <2>2. /\ Book \in Side /\ px[Book] \in Prices
        /\ it[Book] \in DOMAIN levels[Book][px[Book]].orders
        /\ levels[Book][px[Book]].orders[it[Book]] = At(Book)
        /\ \A g \in Handle \ {At(Book)} : order'[g] = order[g]
    BY <1>6, FillEffect DEF Lists
  <2>3. h = At(Book)
    BY <1>2, <2>2
  <2>4. Best(Book, px[Book]) /\ it[Book] = 1
    BY <2>1 DEF Fronts, TakesFromFront
  <2>. QED  BY <2>1, <2>2, <2>3, <2>4, FrontIsFirst
<1>7. CASE \/ EnterLevels \/ MatchDone \/ MatchThrows \/ LeaveLevels
           \/ EnterLevel \/ MarketDone \/ FillThrows \/ LeaveLevel \/ Notify \/ Return
           \/ UNCHANGED vars
  BY <1>2, <1>7 DEF EnterLevels, MatchDone, MatchThrows, LeaveLevels, EnterLevel, MarketDone,
     FillThrows, LeaveLevel, Notify, Return, Unwind, vars
<1>. QED  BY <1>4, <1>5, <1>6, <1>7 DEF AnyStep, Proceed

\* Price-time priority: whatever has been cancelled, modified, cleared or left behind
\* by an exception, an execution takes an order only if no order that rests on its side
\* has a better price, or its price and an earlier arrival.
THEOREM PriceTime == PositiveQuantities => (Spec => PriceTimePriority)
<1>1. Shape /\ Lists /\ Fronts /\ [Next]_vars
        => [\A h \in Handle : order'[h].remaining < order[h].remaining
              => \A g \in Resting : ~Ahead(g, h)]_vars
  BY NextIsAnyStep, OnlyFrontsExecute
<1>. QED  BY <1>1, FrontsInvariant, PTL DEF Spec, PriceTimePriority

(***************************************************************************)
(* No order is lost.                                                       *)
(***************************************************************************)

\* Taking orders out of the lists, for their clients or because nothing is left of
\* them, keeps the lists complete.
LEMMA RemovalKeepsComplete ==
  ASSUME Complete, pc # "undefined", NEW gone, Without(levels', gone),
         Len(order') = Len(order), withdrawn \subseteq withdrawn', withdrawn' \subseteq Handle,
         \A h \in Handle :
           /\ order[h].side \in Side /\ order[h].price \in Prices
           /\ order'[h].side = order[h].side /\ order'[h].price = order[h].price
           /\ h \in gone => order'[h].remaining = 0 \/ h \in withdrawn'
           /\ h \notin gone => /\ order'[h].remaining > 0 <=> order[h].remaining > 0
                               /\ h \in withdrawn' => h \in withdrawn
  PROVE  Complete'
<1>1. Handle' = Handle
  BY DEF Handle
<1>2. ASSUME NEW h \in Handle
      PROVE  h \in Held(order[h].side, order[h].price)'
               <=> order'[h].remaining > 0 /\ h \notin withdrawn'
  <2>1. h \in Held(order[h].side, order[h].price)'
          <=> h \in Held(order[h].side, order[h].price) /\ h \notin gone
    <3>1. Elements(levels'[order[h].side][order[h].price].orders)
            = Held(order[h].side, order[h].price) \ gone
      BY DEF Without
    <3>. QED  BY <3>1 DEF Held
  <2>2. h \in Held(order[h].side, order[h].price)
          <=> order[h].remaining > 0 /\ h \notin withdrawn
    BY DEF Complete
  <2>3. h \in gone => ~(order'[h].remaining > 0 /\ h \notin withdrawn')
    OBVIOUS
  <2>. QED  BY <2>1, <2>2, <2>3
<1>. QED  BY <1>1, <1>2 DEF Complete

\* A level that lists orders exists.
ListedLive(new) == \A s \in Side, p \in Prices : new[s][p].orders # << >> => new[s][p].live

\* Adding an order, after a removal or not, puts it in its list beside the others.
LEMMA AddedLists ==
  ASSUME PositivePrices, Shape, NEW base \in Levels, NEW o \in OrderObject, AddOrder(o, base),
         NEW gone,
         Without(base, gone), ListedLive(base)
  PROVE  LET n == Len(order) + 1
         IN  /\ o.side \in Side /\ o.price \in Prices
             /\ n \notin Handle /\ Handle' = Handle \cup {n}
             /\ order'[n] = o /\ \A g \in Handle : order'[g] = order[g]
             /\ \A s \in Side, p \in Prices :
                  Elements(levels'[s][p].orders) =
                    (Held(s, p) \ gone) \cup (IF s = o.side /\ p = o.price THEN {n} ELSE {})
<1> DEFINE n == Len(order) + 1
<1>1. \A s \in Side, p \in Prices :
        Ascending(base[s][p].orders) /\ Elements(base[s][p].orders) \subseteq Held(s, p)
  BY DEF Without
<1>2. /\ o.side \in Side /\ o.price \in Prices
      /\ n \notin Handle /\ Handle' = Handle \cup {n}
      /\ order'[n] = o /\ \A g \in Handle : order'[g] = order[g]
      /\ \A s \in Side, p \in Prices : s # o.side \/ p # o.price => levels'[s][p] = base[s][p]
      /\ Elements(levels'[o.side][o.price].orders) =
           IF base[o.side][o.price].live /\ o.price # 0
           THEN Elements(base[o.side][o.price].orders) \cup {n} ELSE {n}
  BY <1>1, AddOrderEffect
<1>. HIDE DEF n
<1>3. Elements(levels'[o.side][o.price].orders)
        = Elements(base[o.side][o.price].orders) \cup {n}
  <2>1. o.price # 0
    BY <1>2 DEF PositivePrices
  <2>2. ~base[o.side][o.price].live => Elements(base[o.side][o.price].orders) = {}
    BY <1>2 DEF ListedLive, Elements
  <2>. QED  BY <1>2, <2>1, <2>2
<1>4. ASSUME NEW s \in Side, NEW p \in Prices
      PROVE  Elements(levels'[s][p].orders) =
               (Held(s, p) \ gone) \cup (IF s = o.side /\ p = o.price THEN {n} ELSE {})
  <2>1. Elements(base[s][p].orders) = Held(s, p) \ gone
    BY DEF Without
  <2>. QED  BY <1>2, <1>3, <2>1
<1>. QED  BY <1>2, <1>4 DEF n

\* So it keeps them complete.
LEMMA AddKeepsComplete ==
  ASSUME PositivePrices, Shape, Complete, pc # "undefined",
         NEW base \in Levels, NEW o \in OrderObject, AddOrder(o, base), o.remaining > 0,
         NEW gone \in SUBSET Handle, withdrawn' = withdrawn \cup gone,
         Without(base, gone), ListedLive(base)
  PROVE  Complete'
<1> DEFINE last == Len(order) + 1
<1>0. /\ o.side \in Side /\ o.price \in Prices
      /\ last \notin Handle /\ Handle' = Handle \cup {last}
      /\ order'[last] = o /\ \A g \in Handle : order'[g] = order[g]
      /\ \A s \in Side, p \in Prices :
           Elements(levels'[s][p].orders) =
             (Held(s, p) \ gone) \cup (IF s = o.side /\ p = o.price THEN {last} ELSE {})
  BY AddedLists
<1>. HIDE DEF last
<1>1. PICK n :
      /\ o.side \in Side /\ o.price \in Prices
      /\ n \notin Handle /\ Handle' = Handle \cup {n}
      /\ order'[n] = o /\ \A g \in Handle : order'[g] = order[g]
      /\ \A s \in Side, p \in Prices :
           Elements(levels'[s][p].orders) =
             (Held(s, p) \ gone) \cup (IF s = o.side /\ p = o.price THEN {n} ELSE {})
  BY <1>0
<1>2. \A s \in Side, p \in Prices :
        Held(s, p)' = (Held(s, p) \ gone) \cup (IF s = o.side /\ p = o.price THEN {n} ELSE {})
  BY <1>1 DEF Held
<1>3. \A h \in Handle : order[h].side \in Side /\ order[h].price \in Prices
  BY OrderType DEF Shape
<1>4. withdrawn' \subseteq Handle
  BY DEF Complete
<1>5. ASSUME NEW h \in Handle
      PROVE  h \in Held(order[h].side, order[h].price)'
               <=> order'[h].remaining > 0 /\ h \notin withdrawn'
  <2>1. h # n /\ order'[h] = order[h]
    BY <1>1
  <2>2. h \in Held(order[h].side, order[h].price)'
          <=> h \in Held(order[h].side, order[h].price) /\ h \notin gone
    BY <1>2, <1>3, <2>1
  <2>3. h \in Held(order[h].side, order[h].price)
          <=> order[h].remaining > 0 /\ h \notin withdrawn
    BY DEF Complete
  <2>. QED  BY <2>1, <2>2, <2>3
<1>6. /\ n \in Held(order[n].side, order[n].price)'
      /\ order'[n].remaining > 0 /\ n \notin withdrawn'
  BY <1>1, <1>2, <1>4
<1>. QED  BY <1>1, <1>4, <1>5, <1>6 DEF Complete

\* Every step keeps the lists complete.
LEMMA StepKeepsComplete ==
  ASSUME PositiveQuantities, PositivePrices, Shape, Lists, ListsLive, Complete, AnyStep
  PROVE  Complete'
<1>1. withdrawn \subseteq Handle /\ InArrivalOrder
  BY DEF Complete, Lists
<1>2. \A h \in Handle : order[h].side \in Side /\ order[h].price \in Prices
  BY OrderType DEF Shape
<1>3. ASSUME UNCHANGED <<order, levels, withdrawn>>, pc = "undefined" => pc' = "undefined"
      PROVE  Complete'
  BY <1>3 DEF Complete, Held, Handle
<1>4. ASSUME pc = "idle", UNCHANGED order, NEW gone \in SUBSET Handle, Without(levels', gone),
             withdrawn' = withdrawn \cup gone
      PROVE  Complete'
  BY <1>1, <1>2, <1>4, RemovalKeepsComplete
<1>5. ASSUME NEW id \in OrderIds, NEW s \in Side, NEW q \in Quantities, NEW p \in Prices,
             SubmitLimit(id, s, q, p)
      PROVE  Complete'
  <2> DEFINE o == NewOrder(id, s, q, p)
  <2>1. /\ o \in OrderObject /\ o.remaining > 0 /\ levels \in Levels
    BY NewOrderType DEF NewOrder, PositiveQuantities, Shape, TypeOK, Levels
  <2>2. AddOrder(o, levels) /\ pc = "idle" /\ withdrawn' = withdrawn \cup {}
    BY <1>5 DEF SubmitLimit
  <2>3. Without(levels, {}) /\ ListedLive(levels)
    BY <2>2 DEF Lists, InArrivalOrder, NothingEmpty, Held, Without, ListedLive
  <2>. HIDE DEF o
  <2>. QED  BY <2>1, <2>2, <2>3, AddKeepsComplete
<1>6. ASSUME NEW id \in OrderIds, Cancel(id)
      PROVE  Complete'
  <2>1. pc = "idle" /\ pc' = pc /\ orders[id] # NoOrder /\ UNCHANGED order
    BY <1>6 DEF Cancel
  <2>2. CASE Found(id)
    <3>1. NodeOf(id) \in Resting /\ Without(LevelsWithout(id), {NodeOf(id)})
      BY <1>1, <2>1, <2>2, RemovalEffect
    <3>2. NodeOf(id) \in Handle
      BY <3>1, RestingHeld
    <3>. QED  BY <1>4, <1>6, <2>1, <2>2, <3>1, <3>2 DEF Cancel
  <2>3. CASE ~Found(id)
    BY <1>3, <1>6, <2>1, <2>3 DEF Cancel, LevelsWithout
  <2>. QED  BY <2>2, <2>3
<1>7. ASSUME NEW id \in OrderIds, NEW q, NEW p, Modify(id, q, p)
      PROVE  Complete'
  <2>1. orders[id] # NoOrder /\ pc = "idle" /\ pc' = pc
    BY <1>7 DEF Modify
  <2>2. CASE UNCHANGED <<order, levels, withdrawn>>
    BY <1>3, <2>1, <2>2
  <2> DEFINE old == order[orders[id]]
             o == NewOrder(id, old.side, old.quantity, old.price)
  <2>3. CASE Found(id) /\ AddOrder(o, LevelsWithout(id)) /\ withdrawn' = withdrawn \cup {NodeOf(id)}
    <3>1. LevelsWithout(id) \in Levels /\ orders[id] \in Handle
      BY <2>1, RemovalShrinks DEF Shape
    <3>2. old \in OrderObject
      BY <3>1, OrderType DEF Shape
    <3>3. o \in OrderObject /\ o.remaining > 0
      BY <3>2, NewOrderType DEF OrderObject, NewOrder, PositiveQuantities
    <3>4. /\ Without(LevelsWithout(id), {NodeOf(id)}) /\ NodeOf(id) \in Resting
          /\ ListedLive(LevelsWithout(id))
      BY <1>1, <2>1, <2>3, RemovalEffect DEF Lists, ListedLive
    <3>5. {NodeOf(id)} \in SUBSET Handle
      BY <3>4, RestingHeld
    <3>. HIDE DEF o
    <3>. QED  BY <2>1, <2>3, <3>1, <3>3, <3>4, <3>5, AddKeepsComplete
  <2>. QED  BY <1>7, <2>2, <2>3 DEF Modify
<1>8. ASSUME NEW id \in OrderIds, RemoveDangling(id)
      PROVE  Complete'
  BY <1>1, <1>8 DEF RemoveDangling, Complete, Handle
<1>9. CASE Clear
  <2>1. pc = "idle" /\ UNCHANGED order /\ withdrawn' = withdrawn \cup Resting
    BY <1>9 DEF Clear
  <2>2. Resting \in SUBSET Handle
    BY RestingHeld
  <2>3. Without(levels', Resting)
    BY <1>9, ClearEmpties
  <2>. QED  BY <1>4, <2>1, <2>2, <2>3
<1>10. CASE LeaveLevels \/ LeaveLevel
  <2>1. pc \in {"pair", "fill"} /\ UNCHANGED <<order, withdrawn>>
    BY <1>10 DEF LeaveLevels, LeaveLevel
  <2>2. \A s \in Side, p \in Prices : levels'[s][p].orders = levels[s][p].orders
    BY <1>10, LeaveEffect
  <2>. QED  BY <1>2, <2>1, <2>2 DEF Complete, Held, Handle
<1>11. CASE Fill
  <2> DEFINE h == At(Book)
             gone == IF order'[h].remaining = 0 THEN {h} ELSE {}
  <2>1. /\ withdrawn' = withdrawn /\ h \in Handle
        /\ order[h].side = Book /\ order[h].price = px[Book]
        /\ order[h].remaining \in Nat
        /\ Len(order') = Len(order) /\ \A g \in Handle \ {h} : order'[g] = order[g]
        /\ order'[h].side = Book /\ order'[h].price = px[Book]
        /\ Without(levels', gone)
    BY <1>1, <1>11, FillEffect
  <2>2. order'[h].remaining \in Nat /\ order[h].remaining > 0
    BY <1>1, <1>11, FillEffect
  <2>3. \A g \in Handle :
          /\ order'[g].side = order[g].side /\ order'[g].price = order[g].price
          /\ g \in gone => order'[g].remaining = 0
          /\ g \notin gone => (order'[g].remaining > 0 <=> order[g].remaining > 0)
    BY <2>1, <2>2
  <2>4. pc # "undefined"
    BY <1>11 DEF Fill
  <2>. HIDE DEF gone
  <2>. QED  BY <1>1, <1>2, <2>1, <2>3, <2>4, RemovalKeepsComplete
<1>12. CASE MatchPair
  <2> DEFINE b == At("BUY")
             a == At("SELL")
             q == Lesser(order[b].remaining, order[a].remaining)
             gone == {h \in {b, a} : order'[h].remaining = 0}
  <2>1. /\ withdrawn' = withdrawn /\ b \in Handle /\ a \in Handle
        /\ order[b].remaining \in Nat /\ order[a].remaining \in Nat
        /\ q \in Nat /\ q > 0 /\ q <= order[b].remaining /\ q <= order[a].remaining
        /\ Len(order') = Len(order) /\ \A g \in Handle \ {b, a} : order'[g] = order[g]
        /\ \A h \in {b, a} : /\ order'[h].side = order[h].side
                             /\ order'[h].price = order[h].price
                             /\ order'[h].remaining = order[h].remaining - q
        /\ Without(levels', gone)
    BY <1>1, <1>12, MatchPairEffect
  <2>2. pc # "undefined"
    BY <1>12 DEF MatchPair
  <2>3. \A g \in gone : order'[g].remaining = 0
    OBVIOUS
  <2>4. \A g \in {b, a} : g \notin gone => order'[g].remaining # 0
    OBVIOUS
  <2>. HIDE DEF gone, q, b, a
  <2>5. \A g \in {b, a} : order[g].remaining > 0 /\ order'[g].remaining \in Nat
    BY <2>1
  <2>7. \A g \in Handle \ {b, a} : order'[g] = order[g]
    BY <2>1
  <2>8. \A g \in {b, a} : order'[g].side = order[g].side /\ order'[g].price = order[g].price
    BY <2>1
  <2>9. \A g \in {b, a} : g \notin gone => order'[g].remaining > 0
    BY <2>4, <2>5
  <2>6. \A g \in Handle :
          /\ order'[g].side = order[g].side /\ order'[g].price = order[g].price
          /\ g \in gone => order'[g].remaining = 0
          /\ g \notin gone => (order'[g].remaining > 0 <=> order[g].remaining > 0)
    <3> SUFFICES ASSUME NEW g \in Handle
                 PROVE  /\ order'[g].side = order[g].side /\ order'[g].price = order[g].price
                        /\ g \in gone => order'[g].remaining = 0
                        /\ g \notin gone => (order'[g].remaining > 0 <=> order[g].remaining > 0)
      OBVIOUS
    <3>1. CASE g \in {b, a}
      BY <2>3, <2>5, <2>8, <2>9, <3>1
    <3>2. CASE g \notin {b, a}
      BY <2>3, <2>7, <3>2
    <3>. QED  BY <3>1, <3>2
  <2>. QED  BY <1>1, <1>2, <2>1, <2>2, <2>6, RemovalKeepsComplete
<1>13. CASE \/ EnterLevels \/ MatchDone \/ MatchThrows \/ EnterLevel \/ MarketDone
            \/ FillThrows \/ Notify \/ Return \/ UNCHANGED vars
  <2>1. UNCHANGED <<order, levels, withdrawn>> /\ (pc = "undefined" => pc' = "undefined")
    BY <1>13 DEF EnterLevels, MatchDone, MatchThrows, EnterLevel, MarketDone, FillThrows,
       Notify, Return, Unwind, vars
  <2>. QED  BY <1>3, <2>1
<1>14. ASSUME NEW s \in Side, NEW q \in Quantities, SubmitMarket(s, q)
       PROVE  Complete'
  BY <1>3, <1>14 DEF SubmitMarket
<1>. QED
  BY <1>5, <1>6, <1>7, <1>8, <1>9, <1>10, <1>11, <1>12, <1>13, <1>14 DEF AnyStep, AnyCall, Proceed

\* In a list in order of arrival an order has one place, or none.
LEMMA OnePlace ==
  ASSUME NEW list \in Seq(Nat), Ascending(list), NEW h
  PROVE  Cardinality({i \in DOMAIN list : list[i] = h}) = IF h \in Elements(list) THEN 1 ELSE 0
<1> DEFINE places == {i \in DOMAIN list : list[i] = h}
<1>1. CASE h \in Elements(list)
  <2>1. PICK i \in DOMAIN list : list[i] = h
    BY <1>1 DEF Elements
  <2>2. ASSUME NEW j \in DOMAIN list, list[j] = h
        PROVE  j = i
    <3>1. list[i] \in Nat /\ i \in Nat /\ j \in Nat
      BY ElementOfSeq, LenProperties
    <3>2. ~(i < j) /\ ~(j < i)
      BY <2>1, <2>2, <3>1 DEF Ascending
    <3>. QED  BY <3>1, <3>2
  <2>3. places = {i}
    BY <2>1, <2>2
  <2>. QED  BY <1>1, <2>3, FS_Singleton
<1>2. CASE h \notin Elements(list)
  <2>1. places = {}
    BY <1>2 DEF Elements
  <2>. QED  BY <1>2, <2>1, FS_EmptySet
<1>. QED  BY <1>1, <1>2

\* A new book has nothing to lose.
LEMMA InitComplete == Init => Complete
BY DEF Init, Complete, Handle

\* Where the lists are complete and in arrival order, no order is lost.
LEMMA CompleteLosesNothing ==
  ASSUME Shape, Lists, Complete
  PROVE  NoOrderLost
<1> SUFFICES ASSUME pc # "undefined",
                    NEW h \in Handle, NEW s \in Side, NEW p \in Prices
             PROVE  Cardinality(Places(levels[s][p], h)) =
                      IF /\ order[h].remaining > 0 /\ h \notin withdrawn
                         /\ order[h].side = s /\ order[h].price = p
                      THEN 1 ELSE 0
  BY DEF NoOrderLost
<1>1. Cardinality(Places(levels[s][p], h)) = IF h \in Held(s, p) THEN 1 ELSE 0
  BY HeldProperties, OnePlace DEF Places, Held, Lists, InArrivalOrder
<1>2. h \in Held(s, p) <=> /\ order[h].remaining > 0 /\ h \notin withdrawn
                           /\ order[h].side = s /\ order[h].price = p
  BY HeldProperties DEF Complete
<1>. QED  BY <1>1, <1>2

\* No order is lost and none is kept too long: whatever is added, executed, cancelled,
\* modified or cleared, an order is in one place of the book, in the list of its side
\* and price, exactly while it has quantity left and no client's call took it out.
THEOREM NothingLost == PositiveQuantities /\ PositivePrices => (Spec => []NoOrderLost)
<1> SUFFICES ASSUME PositiveQuantities, PositivePrices PROVE Spec => []NoOrderLost
  OBVIOUS
<1>2. Shape /\ Calm /\ Lists /\ Complete /\ [Next]_vars => Complete'
  BY NextIsAnyStep, StepKeepsComplete DEF Calm
<1>. QED  BY <1>2, InitComplete, CompleteLosesNothing, FrontsInvariant, PTL DEF Spec

(***************************************************************************)
(* The book implements PriceTimeBook.                                      *)
(***************************************************************************)

\* What the abstract book calls accepted.
Entry(o) == [side |-> o.side, price |-> o.price, remaining |-> o.remaining]
Accepted == [h \in Handle |-> Entry(order[h])]

\* A new order is accepted at the end.
LEMMA AcceptedGrows ==
  ASSUME order \in Seq(OrderObject), NEW o \in OrderObject, order' = Append(order, o)
  PROVE  Len(Accepted) = Len(order) /\ Accepted' = Append(Accepted, Entry(o))
<1> DEFINE n == Len(order)
           E == {Entry(x) : x \in OrderObject}
<1>1. /\ n \in Nat /\ \A h \in 1..n : order[h] \in OrderObject
      /\ order' \in Seq(OrderObject) /\ Len(order') = n + 1
      /\ \A h \in 1..n : order'[h] = order[h]
      /\ order'[n + 1] = o
  BY LenProperties, ElementOfSeq, AppendProperties
<1>2. Accepted = [h \in 1..n |-> Entry(order[h])] /\ Accepted' = [h \in 1..(n + 1) |-> Entry(order'[h])]
  BY <1>1 DEF Accepted, Handle
<1>. HIDE DEF n, Entry
<1>3. \A h \in 1..n : Entry(order[h]) \in E
  BY <1>1
<1>4. \A h \in 1..(n + 1) : Entry(order'[h]) \in E
  <2> TAKE h \in 1..(n + 1)
  <2>1. h \in 1..n \/ h = n + 1
    BY <1>1
  <2>. QED  BY <1>1, <2>1
<1>. HIDE DEF E
<1>5. Accepted \in Seq(E) /\ Len(Accepted) = n
  <2>1. Accepted \in [1..n -> E]
    BY <1>2, <1>3
  <2>2. Accepted \in Seq(E)
    BY <1>1, <2>1, SeqDef
  <2>. QED  BY <1>1, <2>1, <2>2, LenProperties
<1>6. Accepted' \in Seq(E) /\ Len(Accepted') = n + 1
  <2>1. Accepted' \in [1..(n + 1) -> E]
    BY <1>2, <1>4
  <2>2. Accepted' \in Seq(E)
    BY <1>1, <2>1, SeqDef
  <2>. QED  BY <1>1, <2>1, <2>2, LenProperties
<1>7. /\ Append(Accepted, Entry(o)) \in Seq(E) /\ Len(Append(Accepted, Entry(o))) = n + 1
      /\ \A h \in 1..n : Append(Accepted, Entry(o))[h] = Accepted[h]
      /\ Append(Accepted, Entry(o))[n + 1] = Entry(o)
  <2>1. Entry(o) \in E
    BY DEF E
  <2>. QED  BY <1>5, <2>1, AppendProperties
<1>8. ASSUME NEW h \in 1..(n + 1)
      PROVE  Accepted'[h] = Append(Accepted, Entry(o))[h]
  <2>1. h \in 1..n \/ h = n + 1
    BY <1>1
  <2>. QED  BY <1>1, <1>2, <1>7, <2>1
<1>. HIDE DEF E
<1>9. Accepted' = Append(Accepted, Entry(o))
  BY <1>6, <1>7, <1>8, SeqEqual
<1>. QED  BY <1>5, <1>9 DEF n

\* The orders that rest are the listed ones.
LEMMA RestingInLists ==
  Resting = {h \in Handle : \E s \in Side, p \in Prices : h \in Elements(levels[s][p].orders)}
BY DEF Resting, Listed, Elements

\* A removal takes the orders removed from those that rest.
LEMMA RestingWithout ==
  ASSUME Len(order') = Len(order), NEW gone, Without(levels', gone)
  PROVE  Resting' = Resting \ gone
<1>1. Resting' = {h \in Handle' : \E s \in Side, p \in Prices : h \in Elements(levels'[s][p].orders)}
  BY DEF Resting, Listed, Elements
<1>2. Handle' = Handle
  BY DEF Handle
<1>3. \A s \in Side, p \in Prices : Elements(levels'[s][p].orders) = Held(s, p) \ gone
  BY DEF Without
<1>. QED  BY <1>1, <1>2, <1>3, RestingInLists DEF Held

\* An addition, after a removal or not, adds the new order to them.
LEMMA RestingAdded ==
  ASSUME PositivePrices, Shape, NEW base \in Levels, NEW o \in OrderObject, AddOrder(o, base),
         NEW gone \in SUBSET Handle, Without(base, gone), ListedLive(base)
  PROVE  Resting' = (Resting \ gone) \cup {Len(order) + 1}
<1> DEFINE n == Len(order) + 1
<1>1. /\ o.side \in Side /\ o.price \in Prices
      /\ n \notin Handle /\ Handle' = Handle \cup {n}
      /\ \A s \in Side, p \in Prices :
           Elements(levels'[s][p].orders) =
             (Held(s, p) \ gone) \cup (IF s = o.side /\ p = o.price THEN {n} ELSE {})
  BY AddedLists
<1>. HIDE DEF n
<1>2. Resting' = {h \in Handle' : \E s \in Side, p \in Prices : h \in Elements(levels'[s][p].orders)}
  BY DEF Resting, Listed, Elements
<1>3. ASSUME NEW h
      PROVE  h \in Resting' <=> h \in (Resting \ gone) \cup {n}
  <2>1. CASE h = n
    BY <1>1, <1>2, <2>1
  <2>2. CASE h # n
    <3>1. \A s \in Side, p \in Prices : h \in Elements(levels'[s][p].orders) <=> h \in Held(s, p) /\ h \notin gone
      BY <1>1, <2>2
    <3>. QED  BY <1>1, <1>2, <2>2, <3>1, RestingInLists DEF Held
  <2>. QED  BY <2>1, <2>2
<1>4. Resting' = (Resting \ gone) \cup {n}
  BY <1>3
<1>. QED  BY <1>4 DEF n

\* A book that is not crossed is settled.
LEMMA UncrossedIsSettled ==
  ASSUME Shape, Lists, pc # "undefined", ~Crossed
  PROVE  Abstract!Settled
<1> SUFFICES ASSUME NEW b \in Resting, NEW a \in Resting,
                    order[b].side = "BUY", order[a].side = "SELL",
                    order[b].price >= order[a].price
             PROVE  FALSE
  <2>1. Resting \subseteq Handle
    BY DEF Resting
  <2>. QED  BY <2>1 DEF Abstract!Settled, Abstract!Matchable
<1>1. ASSUME NEW h \in Resting
      PROVE  order[h].price \in Live(order[h].side)
  <2>1. h \in Handle /\ h \in Held(order[h].side, order[h].price)
    BY RestingHeld
  <2>2. order[h].side \in Side /\ order[h].price \in Prices
    BY <2>1, OrderType DEF Shape
  <2>3. levels[order[h].side][order[h].price].orders # << >>
    BY <2>1 DEF Held, Elements
  <2>. QED  BY <2>2, <2>3 DEF Lists, NothingEmpty, Live
<1>. QED  BY <1>1 DEF Crossed

\* The front of the best level of a side is first in the abstract book.
LEMMA FrontIsAbstractFirst ==
  ASSUME Shape, Lists, pc # "undefined", NEW s \in Side, NEW p \in Prices, Best(s, p),
         1 \in DOMAIN levels[s][p].orders
  PROVE  Abstract!First(levels[s][p].orders[1])
<1>1. PICK h : h = levels[s][p].orders[1]
  OBVIOUS
<1>2. h \in Handle /\ h \in Held(s, p) /\ order[h].side = s /\ order[h].price = p
  BY <1>1, HeldProperties DEF Held, Elements
<1>3. h \in Resting
  BY <1>2, RestingHeld
<1>4. ASSUME NEW g \in Resting, Abstract!Before(g, h)
      PROVE  FALSE
  <2>1. ~Ahead(g, h)
    BY <1>1, FrontIsFirst
  <2>2. g \in Handle
    BY DEF Resting
  <2>3. /\ order[g].side = order[h].side
        /\ \/ order[g].price = order[h].price /\ g < h
           \/ order[g].side = "BUY" /\ order[g].price > order[h].price
           \/ order[g].side = "SELL" /\ order[g].price < order[h].price
    BY <1>2, <1>4, <2>2 DEF Abstract!Before
  <2>. QED  BY <2>1, <2>3 DEF Ahead, Better
<1>. QED  BY <1>1, <1>3, <1>4 DEF Abstract!First

\* An order is exhausted in the abstract book when nothing is left of it.
LEMMA ExhaustedOrder ==
  ASSUME NEW h \in Handle, NEW q
  PROVE  Abstract!Exhausted(h, q) <=> order[h].remaining = q
BY DEF Abstract!Exhausted

\* One iteration of match_orders is one match of the first buy with the first sell.
LEMMA MatchPairMatches ==
  ASSUME Shape, Lists, Fronts, MatchPair
  PROVE  Abstract!Match
<1>1. pc = "pair" /\ ~AtEnd("BUY") /\ ~AtEnd("SELL")
  BY DEF MatchPair
<1>2. /\ \A s \in Side : Best(s, px[s]) /\ it[s] = 1
      /\ px["BUY"] >= px["SELL"]
  BY <1>1, NewestUnderIterator DEF Fronts, MatchesFronts, Side
<1> DEFINE bb == At("BUY")
           aa == At("SELL")
           qq == Lesser(order[bb].remaining, order[aa].remaining)
<1>3. /\ \A s \in Side : /\ px[s] \in Prices
                         /\ it[s] \in DOMAIN levels[s][px[s]].orders
                         /\ levels[s][px[s]].orders[it[s]] = At(s)
      /\ bb \in Handle /\ order[bb].side = "BUY" /\ order[bb].price = px["BUY"]
      /\ aa \in Handle /\ order[aa].side = "SELL" /\ order[aa].price = px["SELL"]
      /\ order[bb].remaining \in Nat /\ order[aa].remaining \in Nat
      /\ qq \in Nat /\ qq > 0
      /\ Len(order') = Len(order) /\ \A g \in Handle \ {bb, aa} : order'[g] = order[g]
      /\ \A h \in {bb, aa} : /\ order'[h].side = order[h].side
                             /\ order'[h].price = order[h].price
                             /\ order'[h].remaining = order[h].remaining - qq
      /\ Without(levels', {h \in {bb, aa} : order'[h].remaining = 0})
  BY MatchPairEffect DEF Lists
<1>4. \A s \in Side : Abstract!First(At(s))
  BY <1>1, <1>2, <1>3, FrontIsAbstractFirst
<1>5. qq = IF order[bb].remaining <= order[aa].remaining THEN order[bb].remaining
                                                          ELSE order[aa].remaining
  BY DEF Lesser
<1>. HIDE DEF bb, aa, qq
<1>6. PICK b, a, q : b = bb /\ a = aa /\ q = qq
  OBVIOUS
<1>7. /\ b \in Handle /\ order[b].side = "BUY" /\ order[b].price = px["BUY"]
      /\ a \in Handle /\ order[a].side = "SELL" /\ order[a].price = px["SELL"]
      /\ order[b].remaining \in Nat /\ order[a].remaining \in Nat /\ q \in Nat /\ q > 0
      /\ q = IF order[b].remaining <= order[a].remaining THEN order[b].remaining
                                                          ELSE order[a].remaining
      /\ Abstract!First(b) /\ Abstract!First(a)
  BY <1>3, <1>4, <1>5, <1>6 DEF bb, aa, Side
<1>8. /\ Len(order') = Len(order) /\ \A g \in Handle \ {b, a} : order'[g] = order[g]
      /\ \A h \in {b, a} : /\ order'[h].side = order[h].side
                           /\ order'[h].price = order[h].price
                           /\ order'[h].remaining = order[h].remaining - q
      /\ Without(levels', {h \in {b, a} : order'[h].remaining = 0})
  BY <1>3, <1>6
<1>9. b \in Resting /\ a \in Resting /\ Abstract!Matchable(b, a)
  BY <1>2, <1>7 DEF Abstract!First, Abstract!Matchable
<1>10. Resting' = Resting \ {h \in {b, a} : Abstract!Exhausted(h, q)}
  <2>1. Resting' = Resting \ {h \in {b, a} : order'[h].remaining = 0}
    BY <1>8, RestingWithout
  <2>2. ASSUME NEW h \in {b, a}
        PROVE  order'[h].remaining = 0 <=> Abstract!Exhausted(h, q)
    <3>1. h \in Handle /\ order[h].remaining \in Nat /\ q \in Nat
      BY <1>7
    <3>2. order'[h].remaining = order[h].remaining - q
      BY <1>8
    <3>. QED  BY <3>1, <3>2, ExhaustedOrder
  <2>. QED  BY <2>1, <2>2
<1>11. Accepted' = [Accepted EXCEPT ![b] = Abstract!Reduced(b, q), ![a] = Abstract!Reduced(a, q)]
  <2>1. Handle' = Handle /\ b # a
    BY <1>7, <1>8 DEF Handle
  <2>2. ASSUME NEW h \in {b, a}
        PROVE  Entry(order'[h]) = Abstract!Reduced(h, q)
    <3>1. h \in Handle /\ order'[h].side = order[h].side /\ order'[h].price = order[h].price
          /\ order'[h].remaining = order[h].remaining - q
      BY <1>7, <1>8, <2>2
    <3>. QED  BY <3>1 DEF Abstract!Reduced, Entry
  <2>3. Accepted' = [h \in Handle |-> Entry(order'[h])]
    BY <2>1 DEF Accepted
  <2>4. ASSUME NEW h \in Handle
        PROVE  Entry(order'[h]) =
                 [Accepted EXCEPT ![b] = Abstract!Reduced(b, q), ![a] = Abstract!Reduced(a, q)][h]
    BY <1>7, <1>8, <2>1, <2>2 DEF Accepted
  <2>. QED  BY <2>3, <2>4 DEF Accepted
<1>12. q = IF Accepted[b].remaining <= Accepted[a].remaining
           THEN Accepted[b].remaining ELSE Accepted[a].remaining
  BY <1>7 DEF Accepted, Entry
<1>13. \E y, x \in Resting :
         /\ Abstract!First(y) /\ Abstract!First(x) /\ Abstract!Matchable(y, x)
         /\ LET m == IF Accepted[y].remaining <= Accepted[x].remaining
                     THEN Accepted[y].remaining ELSE Accepted[x].remaining
            IN  /\ m > 0
                /\ Accepted' = [Accepted EXCEPT ![y] = Abstract!Reduced(y, m),
                                               ![x] = Abstract!Reduced(x, m)]
                /\ Resting' = Resting \ {h \in {y, x} : Abstract!Exhausted(h, m)}
  <2>. b \in Resting /\ a \in Resting
    BY <1>9
  <2>. WITNESS b \in Resting, a \in Resting
  <2>. QED  BY <1>7, <1>9, <1>10, <1>11, <1>12
<1>. QED  BY <1>13 DEF Abstract!Match, Accepted, Entry

\* One execution of a market order takes from the first order of a side.
LEMMA FillTakes ==
  ASSUME Shape, Calm, Lists, Fronts, Fill
  PROVE  Abstract!Take
<1>1. pc = "fill" /\ taker.remaining > 0
  BY DEF Fill
<1>2. Best(Book, px[Book]) /\ it[Book] = 1
  BY <1>1 DEF Fronts, TakesFromFront
<1>3. Abstract!Settled
  BY <1>1, UncrossedIsSettled DEF Calm, CrossedOnlyWhileMatching
<1>4. PICK h, q :
        /\ h = At(Book) /\ Book \in Side /\ px[Book] \in Prices
        /\ it[Book] \in DOMAIN levels[Book][px[Book]].orders
        /\ levels[Book][px[Book]].orders[it[Book]] = h
        /\ h \in Handle /\ order[h].remaining \in Nat
        /\ q \in Nat /\ q > 0 /\ q <= order[h].remaining
        /\ Len(order') = Len(order) /\ \A g \in Handle \ {h} : order'[g] = order[g]
        /\ order'[h].side = order[h].side /\ order'[h].price = order[h].price
        /\ order'[h].remaining = order[h].remaining - q
        /\ Without(levels', IF order'[h].remaining = 0 THEN {h} ELSE {})
  BY FillEffect DEF Lists
<1>5. Abstract!First(h)
  BY <1>1, <1>2, <1>4, FrontIsAbstractFirst
<1>6. h \in Resting /\ q \in 1..order[h].remaining
  BY <1>4, <1>5 DEF Abstract!First
<1>7. Resting' = Resting \ {g \in {h} : Abstract!Exhausted(g, q)}
  <2>1. Resting' = Resting \ (IF order'[h].remaining = 0 THEN {h} ELSE {})
    BY <1>4, RestingWithout
  <2>2. order'[h].remaining = 0 <=> Abstract!Exhausted(h, q)
    BY <1>4, ExhaustedOrder
  <2>. QED  BY <2>1, <2>2
<1>8. Accepted' = [Accepted EXCEPT ![h] = Abstract!Reduced(h, q)]
  <2>1. Handle' = Handle
    BY <1>4 DEF Handle
  <2>2. Entry(order'[h]) = Abstract!Reduced(h, q)
    BY <1>4 DEF Abstract!Reduced, Entry
  <2>3. Accepted' = [g \in Handle |-> Entry(order'[g])]
    BY <2>1 DEF Accepted
  <2>. QED  BY <1>4, <2>2, <2>3 DEF Accepted
<1>. QED  BY <1>3, <1>4, <1>5, <1>6, <1>7, <1>8 DEF Abstract!Take, Accepted, Entry

\* A step that touches neither the orders nor the lists is no step of the abstract book.
LEMMA SameBook ==
  ASSUME UNCHANGED order, \A s \in Side, p \in Prices : levels'[s][p].orders = levels[s][p].orders
  PROVE  UNCHANGED Abstract!book
<1>1. Accepted' = Accepted
  BY DEF Accepted, Handle
<1>2. Resting' = Resting
  BY DEF Resting, Listed, Handle
<1>. QED  BY <1>1, <1>2 DEF Abstract!book, Accepted, Entry

\* A step that only takes orders out of the lists between calls withdraws them.
LEMMA RemovalWithdrawsAbstractly ==
  ASSUME Shape, Calm, Lists, pc = "idle", UNCHANGED order,
         NEW gone \in SUBSET Resting, Without(levels', gone)
  PROVE  Abstract!Withdraw \/ UNCHANGED Abstract!book
<1>1. Abstract!Settled
  BY UncrossedIsSettled DEF Calm, CrossedOnlyWhileMatching
<1>2. Accepted' = Accepted
  BY DEF Accepted, Handle
<1>3. Resting' = Resting \ gone
  BY RestingWithout
<1>4. CASE gone = {}
  BY <1>2, <1>3, <1>4 DEF Abstract!book, Accepted, Entry
<1>5. CASE gone # {}
  <2>1. \E out \in (SUBSET Resting) \ {{}} : Resting' = Resting \ out
    <3>1. gone \in (SUBSET Resting) \ {{}}
      BY <1>5
    <3>. HIDE DEF Resting
    <3>. QED  BY <1>3, <3>1
  <2>. QED  BY <1>1, <1>2, <2>1 DEF Abstract!Withdraw, Accepted, Entry
<1>. QED  BY <1>4, <1>5

\* A call is an acceptance, a withdrawal, a replacement or nothing to the abstract book.
LEMMA CallsImplement ==
  ASSUME PositivePrices, Shape, Calm, Lists, Call
  PROVE  Abstract!Next \/ UNCHANGED Abstract!book
<1>1. pc = "idle"
  BY DEF Call, SubmitLimit, SubmitMarket, Cancel, Modify, RemoveDangling, Clear
<1>2. Abstract!Settled /\ InArrivalOrder
  BY <1>1, UncrossedIsSettled DEF Calm, CrossedOnlyWhileMatching, Lists
<1>3. order \in Seq(OrderObject) /\ Resting \subseteq Handle
  BY DEF Shape, TypeOK, Resting
<1>4. ASSUME NEW id \in OrderIds, NEW s \in Side, NEW q \in Quantities, NEW p \in Prices,
             SubmitLimit(id, s, q, p)
      PROVE  Abstract!Next
  <2> DEFINE o == NewOrder(id, s, q, p)
  <2>1. /\ o \in OrderObject /\ levels \in Levels /\ AddOrder(o, levels)
        /\ order' = Append(order, o)
    BY <1>4, NewOrderType DEF SubmitLimit, AddOrder, Shape, TypeOK, Levels
  <2>2. Without(levels, {}) /\ ListedLive(levels) /\ {} \in SUBSET Handle
    BY <1>1 DEF Lists, InArrivalOrder, NothingEmpty, Held, Without, ListedLive
  <2>3. Entry(o) = Abstract!Entry(s, p, q) /\ s \in Abstract!Sides
    BY DEF NewOrder, Entry, Abstract!Entry, Abstract!Sides, Side
  <2>. HIDE DEF o
  <2>4. Resting' = (Resting \ {}) \cup {Len(order) + 1}
    BY <2>1, <2>2, RestingAdded
  <2>5. Len(Accepted) = Len(order) /\ Accepted' = Append(Accepted, Entry(o))
    BY <1>3, <2>1, AcceptedGrows
  <2>6. /\ Accepted' = Append(Accepted, Abstract!Entry(s, p, q))
        /\ Resting' = Resting \cup {Len(Accepted) + 1}
    BY <2>3, <2>4, <2>5
  <2>7. Abstract!Accept(s, p, q)
    BY <1>2, <2>6 DEF Abstract!Accept, Accepted, Entry
  <2>. QED  BY <2>3, <2>7 DEF Abstract!Next
<1>5. ASSUME NEW id \in OrderIds, Cancel(id)
      PROVE  Abstract!Next \/ UNCHANGED Abstract!book
  <2>1. orders[id] # NoOrder /\ UNCHANGED order /\ levels' = LevelsWithout(id)
    BY <1>5 DEF Cancel
  <2>2. CASE Found(id)
    <3>1. {NodeOf(id)} \in SUBSET Resting /\ Without(LevelsWithout(id), {NodeOf(id)})
      BY <1>2, <2>1, <2>2, RemovalEffect
    <3>. QED  BY <1>1, <2>1, <3>1, RemovalWithdrawsAbstractly DEF Abstract!Next
  <2>3. CASE ~Found(id)
    BY <2>1, <2>3, SameBook DEF LevelsWithout
  <2>. QED  BY <2>2, <2>3
<1>6. ASSUME NEW id \in OrderIds, NEW q, NEW p, Modify(id, q, p)
      PROVE  Abstract!Next \/ UNCHANGED Abstract!book
  <2>1. orders[id] # NoOrder
    BY <1>6 DEF Modify
  <2>2. CASE UNCHANGED <<order, levels>>
    BY <2>2, SameBook
  <2> DEFINE old == order[orders[id]]
             o == NewOrder(id, old.side, old.quantity, old.price)
             h == NodeOf(id)
  <2>3. CASE Found(id) /\ AddOrder(o, LevelsWithout(id))
    <3>1. LevelsWithout(id) \in Levels /\ orders[id] \in Handle
      BY <2>1, RemovalShrinks DEF Shape
    <3>2. old \in OrderObject
      BY <3>1, OrderType DEF Shape
    <3>3. /\ o \in OrderObject /\ old.quantity \in Quantities /\ old.price \in Prices
      BY <3>2, NewOrderType DEF OrderObject
    <3>4. /\ Without(LevelsWithout(id), {h}) /\ h \in Resting /\ order[h].side = old.side
          /\ ListedLive(LevelsWithout(id))
      BY <1>1, <1>2, <2>1, <2>3, RemovalEffect DEF Lists, ListedLive
    <3>5. Entry(o) = Abstract!Entry(Accepted[h].side, old.price, old.quantity)
      BY <1>3, <3>4 DEF NewOrder, Entry, Abstract!Entry, Accepted
    <3>6. {h} \in SUBSET Handle /\ order' = Append(order, o)
      BY <1>3, <2>3, <3>4 DEF AddOrder
    <3>. HIDE DEF o, h, old
    <3>7. Resting' = (Resting \ {h}) \cup {Len(order) + 1}
      BY <2>3, <3>1, <3>3, <3>4, <3>6, RestingAdded
    <3>8. Len(Accepted) = Len(order) /\ Accepted' = Append(Accepted, Entry(o))
      BY <1>3, <3>3, <3>6, AcceptedGrows
    <3>9. PICK g \in Resting, m \in Quantities, r \in Prices :
            /\ Accepted' = Append(Accepted, Abstract!Entry(Accepted[g].side, r, m))
            /\ Resting' = (Resting \ {g}) \cup {Len(Accepted) + 1}
      BY <3>3, <3>4, <3>5, <3>7, <3>8
    <3>10. Abstract!Replace
      BY <1>2, <3>9 DEF Abstract!Replace, Accepted, Entry
    <3>. QED  BY <3>10 DEF Abstract!Next
  <2>. QED  BY <1>6, <2>2, <2>3 DEF Modify
<1>7. ASSUME NEW id \in OrderIds, RemoveDangling(id)
      PROVE  Abstract!Next \/ UNCHANGED Abstract!book
  <2>1. UNCHANGED order
    BY <1>7 DEF RemoveDangling
  <2>2. CASE UNCHANGED levels
    BY <2>1, <2>2, SameBook
  <2>3. ASSUME NEW h \in Resting, Without(levels', {h})
        PROVE  Abstract!Next \/ UNCHANGED Abstract!book
    <3>1. {h} \in SUBSET Resting
      OBVIOUS
    <3>. QED  BY <1>1, <2>1, <2>3, <3>1, RemovalWithdrawsAbstractly DEF Abstract!Next
  <2>. QED  BY <1>2, <1>7, <2>2, <2>3, DanglingEffect
<1>8. CASE Clear
  <2>1. UNCHANGED order /\ Resting \in SUBSET Resting
    BY <1>8 DEF Clear
  <2>2. Without(levels', Resting)
    BY <1>8, ClearEmpties
  <2>. QED  BY <1>1, <2>1, <2>2, RemovalWithdrawsAbstractly DEF Abstract!Next
<1>9. ASSUME NEW s \in Side, NEW q \in Quantities, SubmitMarket(s, q)
      PROVE  UNCHANGED Abstract!book
  BY <1>9, SameBook DEF SubmitMarket
<1>. QED  BY <1>4, <1>5, <1>6, <1>7, <1>8, <1>9 DEF Call

\* What a call does by itself is an execution or nothing to the abstract book.
LEMMA ProceedImplements ==
  ASSUME Shape, Calm, Lists, Fronts, Proceed
  PROVE  Abstract!Next \/ UNCHANGED Abstract!book
<1>1. CASE MatchPair
  BY <1>1, MatchPairMatches DEF Abstract!Next
<1>2. CASE Fill
  BY <1>2, FillTakes DEF Abstract!Next
<1>3. CASE LeaveLevels \/ LeaveLevel
  <2>1. UNCHANGED order
    BY <1>3 DEF LeaveLevels, LeaveLevel
  <2>. QED  BY <1>3, <2>1, LeaveEffect, SameBook
<1>4. CASE \/ EnterLevels \/ MatchDone \/ MatchThrows \/ EnterLevel \/ MarketDone
           \/ FillThrows \/ Notify \/ Return
  <2>1. UNCHANGED <<order, levels>>
    BY <1>4 DEF EnterLevels, MatchDone, MatchThrows, EnterLevel, MarketDone, FillThrows,
       Notify, Return, Unwind
  <2>. QED  BY <2>1, SameBook
<1>. QED  BY <1>1, <1>2, <1>3, <1>4 DEF Proceed

\* The book, with its maps of levels, lists, iterators and loops, implements a set of
\* resting orders of which only the first of each side ever executes, and which takes
\* a new order only when no two of the resting ones can be matched.
THEOREM Refines == PositiveQuantities /\ PositivePrices => (Spec => ImplementsPriceTimeBook)
<1> SUFFICES ASSUME PositiveQuantities, PositivePrices PROVE Spec => Abstract!Spec
  BY DEF ImplementsPriceTimeBook
<1>1. Init => Abstract!Init
  <2> SUFFICES ASSUME Init PROVE Abstract!Init
    OBVIOUS
  <2>1. order = << >> /\ Handle = {}
    BY DEF Init, Handle
  <2>2. Resting = {}
    BY <2>1 DEF Resting
  <2>3. Accepted = << >>
    BY <2>1 DEF Accepted
  <2>. QED  BY <2>2, <2>3 DEF Abstract!Init, Accepted, Entry
<1>2. Shape /\ Calm /\ Lists /\ Fronts /\ [Next]_vars => [Abstract!Next]_(Abstract!book)
  <2> SUFFICES ASSUME Shape, Calm, Lists, Fronts, [Next]_vars
               PROVE  Abstract!Next \/ UNCHANGED Abstract!book
    OBVIOUS
  <2>1. CASE UNCHANGED vars
    BY <2>1, SameBook DEF vars
  <2>. QED  BY <2>1, CallsImplement, ProceedImplements DEF Next
<1>. QED  BY <1>1, <1>2, FrontsInvariant, PTL DEF Spec, Abstract!Spec

(***************************************************************************)
(* Induction, over sets of numbers, and the sum of a sequence.             *)
(***************************************************************************)

\* A set of natural numbers has a least element: intervals are well-founded.
LEMMA LeastNat ==
  ASSUME NEW B \in SUBSET Nat, B # {}
  PROVE  \E m \in B : \A k \in B : m <= k
<1> DEFINE F == FiniteSubsetsOf(Nat)
           R == StrictSubsetOrdering(Nat)
           T == {1..n : n \in B}
<1>1. IsWellFoundedOn(R, F)
  BY FS_StrictSubsetOrderingWellFounded
<1>2. T \subseteq F /\ T # {}
  <2>1. \A n \in Nat : 1..n \in SUBSET Nat /\ IsFiniteSet(1..n)
    BY FS_Interval
  <2>. QED  BY <2>1 DEF FiniteSubsetsOf
<1>3. \E x \in T : \A y \in T : ~(<<y, x>> \in R)
  <2>. HIDE DEF F, R, T
  <2>. QED  BY <1>1, <1>2, WFMin
<1>4. PICK m \in B : \A k \in B : ~(<<1..k, 1..m>> \in R)
  BY <1>3
<1>5. ASSUME NEW k \in B, ~(m <= k)
      PROVE  FALSE
  <2>1. k \in Nat /\ m \in Nat /\ k < m
    BY <1>5
  <2>2. 1..k \subseteq 1..m /\ m \in 1..m /\ m \notin 1..k
    BY <2>1
  <2>3. <<1..k, 1..m>> \in R
    BY <2>1, <2>2 DEF StrictSubsetOrdering
  <2>. QED  BY <1>4, <2>3
<1>. QED  BY <1>5

\* A set that has 0, and with a number its successor, has every number.
LEMMA SetInduction ==
  ASSUME NEW T, 0 \in T, \A n \in Nat : n \in T => n + 1 \in T
  PROVE  Nat \subseteq T
<1> SUFFICES ASSUME Nat \ T # {} PROVE FALSE
  OBVIOUS
<1>1. PICK m \in Nat \ T : \A k \in Nat \ T : m <= k
  BY LeastNat
<1>2. m # 0 /\ m - 1 \in Nat
  BY <1>1
<1>3. m - 1 \in T
  BY <1>1, <1>2
<1>. QED  BY <1>1, <1>2, <1>3

\* r has the running totals of s, from 0 to n.
Runs(s, n, r) ==
  /\ r \in [0..n -> Int]
  /\ r[0] = 0
  /\ \A i \in 1..n : r[i] = r[i - 1] + s[i]

\* Every sequence of numbers has running totals.
LEMMA RunsExist ==
  ASSUME NEW s \in Seq(Int)
  PROVE  \E r : Runs(s, Len(s), r)
<1> DEFINE T == {n \in Nat : n <= Len(s) => \E r : Runs(s, n, r)}
<1>1. Len(s) \in Nat /\ \A i \in 1..Len(s) : s[i] \in Int
  BY LenProperties, ElementOfSeq
<1>2. 0 \in T
  <2>1. Runs(s, 0, [i \in 0..0 |-> 0])
    BY DEF Runs
  <2>. QED  BY <2>1
<1>3. ASSUME NEW n \in Nat, n \in T
      PROVE  n + 1 \in T
  <2> SUFFICES ASSUME n + 1 <= Len(s) PROVE \E r : Runs(s, n + 1, r)
    OBVIOUS
  <2>1. n <= Len(s) /\ s[n + 1] \in Int
    BY <1>1
  <2>2. PICK r : Runs(s, n, r)
    BY <1>3, <2>1
  <2> DEFINE t == [i \in 0..(n + 1) |-> IF i = n + 1 THEN r[n] + s[n + 1] ELSE r[i]]
  <2>3. r \in [0..n -> Int] /\ r[0] = 0 /\ \A i \in 1..n : r[i] = r[i - 1] + s[i]
    BY <2>2 DEF Runs
  <2>4. t \in [0..(n + 1) -> Int] /\ t[0] = 0
    BY <2>1, <2>3
  <2>5. \A i \in 1..(n + 1) : t[i] = t[i - 1] + s[i]
    BY <2>3
  <2>. QED  BY <2>4, <2>5 DEF Runs
<1>4. Nat \subseteq T
  <2>. HIDE DEF T
  <2>. QED  BY <1>2, <1>3, SetInduction
<1>. QED  BY <1>1, <1>4

\* The total is the last of the running totals, whichever way they are found.
LEMMA TotalRuns ==
  ASSUME NEW s \in Seq(Int), NEW r, Runs(s, Len(s), r)
  PROVE  Total(s) = r[Len(s)]
<1> DEFINE Defines(f) == f = [n \in 0..Len(s) |-> IF n = 0 THEN 0 ELSE f[n - 1] + s[n]]
           sum == CHOOSE f : Defines(f)
<1>1. Total(s) = sum[Len(s)]
  BY DEF Total
<1>2. Len(s) \in Nat /\ \A i \in 1..Len(s) : s[i] \in Int
  BY LenProperties, ElementOfSeq
<1>3. /\ r \in [0..Len(s) -> Int] /\ r[0] = 0
      /\ \A i \in 1..Len(s) : r[i] = r[i - 1] + s[i]
  BY DEF Runs
<1>4. Defines(r)
  <2>1. \A n \in 0..Len(s) : r[n] = IF n = 0 THEN 0 ELSE r[n - 1] + s[n]
    BY <1>2, <1>3
  <2>. QED  BY <1>3, <2>1
<1>5. Defines(sum)
  <2>. HIDE DEF Defines
  <2>. QED  BY <1>4
<1>. HIDE DEF sum
<1> DEFINE T == {i \in Nat : i <= Len(s) => r[i] = sum[i]}
<1>6. 0 \in T
  BY <1>2, <1>3, <1>5
<1>7. ASSUME NEW i \in Nat, i \in T
      PROVE  i + 1 \in T
  <2> SUFFICES ASSUME i + 1 <= Len(s) PROVE r[i + 1] = sum[i + 1]
    OBVIOUS
  <2>1. i + 1 \in 0..Len(s) /\ i + 1 \in 1..Len(s) /\ (i + 1) - 1 = i /\ r[i] = sum[i]
    BY <1>2, <1>7
  <2>2. sum[i + 1] = sum[i] + s[i + 1]
    BY <1>5, <2>1
  <2>. QED  BY <1>3, <2>1, <2>2
<1>8. Nat \subseteq T
  <2>. HIDE DEF T
  <2>. QED  BY <1>6, <1>7, SetInduction
<1>. QED  BY <1>1, <1>2, <1>8

\* Nothing sums to 0.
LEMMA TotalEmpty == Total(<< >>) = 0
<1>1. << >> \in Seq(Int) /\ Len(<< >>) = 0
  BY EmptySeq
<1>2. Runs(<< >>, 0, [i \in 0..0 |-> 0])
  BY DEF Runs
<1>. QED  BY <1>1, <1>2, TotalRuns

\* An element added at the end adds to the total.
LEMMA TotalAppend ==
  ASSUME NEW s \in Seq(Int), NEW x \in Int
  PROVE  Total(Append(s, x)) = Total(s) + x /\ Total(s) \in Int
<1> DEFINE n == Len(s)
           t == Append(s, x)
<1>1. /\ n \in Nat /\ t \in Seq(Int) /\ Len(t) = n + 1 /\ t[n + 1] = x
      /\ \A i \in 1..n : t[i] = s[i]
  BY LenProperties, AppendProperties
<1>2. PICK r : Runs(s, n, r)
  BY RunsExist
<1>3. /\ Total(s) = r[n] /\ r \in [0..n -> Int] /\ r[0] = 0
      /\ \A i \in 1..n : r[i] = r[i - 1] + s[i]
  BY <1>2, TotalRuns DEF Runs
<1>. HIDE DEF n, t
<1> DEFINE q == [i \in 0..(n + 1) |-> IF i = n + 1 THEN r[n] + x ELSE r[i]]
<1>4. q \in [0..(n + 1) -> Int] /\ q[0] = 0 /\ q[n + 1] = r[n] + x
  BY <1>1, <1>3
<1>5. ASSUME NEW i \in 1..(n + 1)
      PROVE  q[i] = q[i - 1] + t[i]
  <2>1. CASE i = n + 1
    BY <1>1, <1>4, <2>1
  <2>2. CASE i # n + 1
    <3>1. i \in 1..n /\ i - 1 \in 0..(n + 1) /\ i - 1 # n + 1 /\ i \in 0..(n + 1)
      BY <1>1, <2>2
    <3>2. q[i] = r[i] /\ q[i - 1] = r[i - 1]
      BY <2>2, <3>1
    <3>. QED  BY <1>1, <1>3, <3>1, <3>2
  <2>. QED  BY <2>1, <2>2
<1>. HIDE DEF q
<1>6. Runs(t, n + 1, q)
  BY <1>4, <1>5 DEF Runs
<1>7. Total(t) = q[n + 1]
  BY <1>1, <1>6, TotalRuns
<1>. QED  BY <1>1, <1>3, <1>4, <1>7 DEF t

\* t is s, of n numbers, without the one at k.
Erased(s, n, k, t) ==
  /\ \A i \in 1..n : s[i] \in Int
  /\ \A j \in 1..(n - 1) : t[j] = IF j < k THEN s[j] ELSE s[j + 1]

\* The running totals of a sequence from which an element is erased.
LEMMA RunsErased ==
  ASSUME NEW n \in Nat, NEW k \in 1..n, NEW s, NEW t, Erased(s, n, k, t), NEW r, Runs(s, n, r)
  PROVE  \E q : Runs(t, n - 1, q) /\ q[n - 1] = r[n] - s[k]
<1> DEFINE q == [i \in 0..(n - 1) |-> IF i < k THEN r[i] ELSE r[i + 1] - s[k]]
<1>1. /\ r \in [0..n -> Int] /\ r[0] = 0 /\ \A i \in 1..n : r[i] = r[i - 1] + s[i]
      /\ s[k] \in Int /\ \A i \in 0..n : r[i] \in Int
  BY DEF Runs, Erased
<1>2. q \in [0..(n - 1) -> Int] /\ q[0] = 0
  <2>1. ASSUME NEW i \in 0..(n - 1)
        PROVE  (IF i < k THEN r[i] ELSE r[i + 1] - s[k]) \in Int
    <3>1. i \in 0..n /\ i + 1 \in 0..n
      OBVIOUS
    <3>2. r[i] \in Int /\ r[i + 1] \in Int
      BY <1>1, <3>1
    <3>3. r[i + 1] - s[k] \in Int
      BY <1>1, <3>2
    <3>. QED  BY <3>2, <3>3
  <2>2. q \in [0..(n - 1) -> Int]
    BY <2>1
  <2>3. 0 \in 0..(n - 1) /\ 0 < k
    OBVIOUS
  <2>. QED  BY <1>1, <2>2, <2>3
<1>3. q[n - 1] = r[n] - s[k]
  <2>1. n - 1 \in 0..(n - 1) /\ (n - 1) + 1 = n
    OBVIOUS
  <2>2. CASE n = k
    <3>1. r[n] = r[n - 1] + s[n] /\ r[n - 1] \in Int
      BY <1>1
    <3>. QED  BY <1>1, <2>1, <2>2, <3>1
  <2>3. CASE n # k
    BY <2>1, <2>3
  <2>. QED  BY <2>2, <2>3
<1>4. ASSUME NEW i \in 1..(n - 1)
      PROVE  q[i] = q[i - 1] + t[i]
  <2>1. /\ i \in 0..(n - 1) /\ i - 1 \in 0..(n - 1) /\ (i - 1) + 1 = i /\ (i + 1) - 1 = i
        /\ i \in 1..n /\ i + 1 \in 1..n
    OBVIOUS
  <2>2. /\ q[i] = IF i < k THEN r[i] ELSE r[i + 1] - s[k]
        /\ q[i - 1] = IF i - 1 < k THEN r[i - 1] ELSE r[i] - s[k]
        /\ t[i] = IF i < k THEN s[i] ELSE s[i + 1]
    BY <2>1 DEF Erased
  <2>3. /\ r[i - 1] \in Int /\ r[i] \in Int /\ r[i + 1] \in Int
        /\ s[i] \in Int /\ s[i + 1] \in Int
        /\ r[i + 1] = r[i] + s[i + 1] /\ r[i] = r[i - 1] + s[i]
    <3>1. r[i - 1] \in Int /\ r[i] \in Int /\ r[i + 1] \in Int
      BY <1>1, <2>1
    <3>2. r[i + 1] = r[i] + s[i + 1] /\ r[i] = r[i - 1] + s[i]
      BY <1>1, <2>1
    <3>3. s[i] \in Int /\ s[i + 1] \in Int
      BY <2>1 DEF Erased
    <3>. QED  BY <3>1, <3>2, <3>3
  <2>. HIDE DEF q
  <2>4. CASE i < k
    BY <2>2, <2>3, <2>4
  <2>5. CASE i = k
    <3>1. q[i] = r[i + 1] - s[i] /\ q[i - 1] = r[i - 1] /\ t[i] = s[i + 1]
      BY <2>2, <2>5
    <3>. QED  BY <2>3, <3>1
  <2>6. CASE i > k
    <3>1. q[i] = r[i + 1] - s[k] /\ q[i - 1] = r[i] - s[k] /\ t[i] = s[i + 1]
      BY <2>2, <2>6
    <3>2. s[k] \in Int
      BY <1>1
    <3>3. q[i - 1] + t[i] = (r[i] - s[k]) + s[i + 1]
      BY <3>1
    <3>4. r[i + 1] - s[k] = (r[i] - s[k]) + s[i + 1]
      BY <2>3, <3>2
    <3>. QED  BY <3>1, <3>3, <3>4
  <2>. QED  BY <2>4, <2>5, <2>6
<1>. QED  BY <1>2, <1>3, <1>4 DEF Runs

\* An element erased is taken off the total.
LEMMA TotalErased ==
  ASSUME NEW s \in Seq(Int), NEW k \in 1..Len(s), NEW t \in Seq(Int), Len(t) = Len(s) - 1,
         Erased(s, Len(s), k, t)
  PROVE  Total(t) = Total(s) - s[k]
<1>1. PICK n, u, v : n \in Nat /\ n = Len(s) /\ u = s /\ v = t
  BY LenProperties
<1>2. k \in 1..n /\ Erased(u, n, k, v)
  BY <1>1
<1>3. PICK r : Runs(u, n, r)
  BY <1>1, RunsExist
<1>4. PICK q : Runs(v, n - 1, q) /\ q[n - 1] = r[n] - u[k]
  BY <1>1, <1>2, <1>3, RunsErased
<1>5. Total(t) = q[n - 1] /\ Total(s) = r[n]
  BY <1>1, <1>3, <1>4, TotalRuns
<1>. QED  BY <1>1, <1>4, <1>5

\* Elements that do not grow do not make the total grow.
LEMMA TotalMonotone ==
  ASSUME NEW s \in Seq(Int), NEW t \in Seq(Int), Len(t) = Len(s),
         \A i \in 1..Len(s) : t[i] <= s[i]
  PROVE  Total(t) <= Total(s)
<1> DEFINE n == Len(s)
<1>1. n \in Nat /\ Len(t) = n /\ \A i \in 1..n : s[i] \in Int /\ t[i] \in Int /\ t[i] <= s[i]
  BY LenProperties, ElementOfSeq
<1>2. PICK r : Runs(s, n, r)
  BY RunsExist
<1>3. PICK q : Runs(t, n, q)
  BY <1>1, RunsExist
<1>4. /\ Total(s) = r[n] /\ r \in [0..n -> Int] /\ r[0] = 0
      /\ \A i \in 1..n : r[i] = r[i - 1] + s[i]
  BY <1>2, TotalRuns DEF Runs
<1>5. /\ Total(t) = q[n] /\ q \in [0..n -> Int] /\ q[0] = 0
      /\ \A i \in 1..n : q[i] = q[i - 1] + t[i]
  BY <1>1, <1>3, TotalRuns DEF Runs
<1>. HIDE DEF n
<1> DEFINE T == {i \in Nat : i <= n => q[i] <= r[i]}
<1>6. 0 \in T
  BY <1>4, <1>5
<1>7. ASSUME NEW i \in Nat, i \in T
      PROVE  i + 1 \in T
  <2> SUFFICES ASSUME i + 1 <= n PROVE q[i + 1] <= r[i + 1]
    OBVIOUS
  <2>1. i + 1 \in 1..n /\ (i + 1) - 1 = i /\ q[i] <= r[i] /\ i \in 0..n
    BY <1>1, <1>7
  <2>2. q[i + 1] = q[i] + t[i + 1] /\ r[i + 1] = r[i] + s[i + 1] /\ t[i + 1] <= s[i + 1]
    BY <1>1, <1>4, <1>5, <2>1
  <2>3. q[i] \in Int /\ r[i] \in Int /\ t[i + 1] \in Int /\ s[i + 1] \in Int
    BY <1>1, <1>4, <1>5, <2>1
  <2>. QED  BY <2>1, <2>2, <2>3
<1>8. Nat \subseteq T
  <2>. HIDE DEF T
  <2>. QED  BY <1>6, <1>7, SetInduction
<1>. QED  BY <1>1, <1>4, <1>5, <1>8

(***************************************************************************)
(* Executions and notifications.                                           *)
(***************************************************************************)

\* What each trade of a vector tells of an order.
Shares(list, h) == [i \in DOMAIN list |-> Share(list[i], h)]

\* They are numbers.
LEMMA SharesType ==
  ASSUME NEW list \in Seq(Trade), NEW h
  PROVE  /\ Shares(list, h) \in Seq(Int) /\ Len(Shares(list, h)) = Len(list)
         /\ \A i \in 1..Len(list) : Shares(list, h)[i] = Share(list[i], h)
<1>1. /\ Len(list) \in Nat /\ DOMAIN list = 1..Len(list)
      /\ \A i \in 1..Len(list) : list[i] \in Trade
  BY LenProperties, ElementOfSeq
<1>2. \A i \in 1..Len(list) : Share(list[i], h) \in Int
  BY <1>1 DEF Share, Trade
<1>3. /\ Shares(list, h) = [i \in 1..Len(list) |-> Share(list[i], h)]
      /\ Shares(list, h) \in [1..Len(list) -> Int]
  BY <1>1, <1>2 DEF Shares
<1>4. Shares(list, h) \in Seq(Int)
  BY <1>1, <1>3, SeqDef
<1>. QED  BY <1>1, <1>3, <1>4, LenProperties

\* A trade put into the vector adds its quantity to what its orders are to be told.
LEMMA ToldAppend ==
  ASSUME NEW t \in Trade, trades \in Seq(Trade), trades' = Append(trades, t), UNCHANGED reported,
         NEW h, reported[h] \in Nat
  PROVE  Told(h)' = Told(h) + Share(t, h) /\ Told(h) \in Int
<1>1. Share(t, h) \in Int
  BY DEF Share, Trade
<1>2. Shares(trades, h) \in Seq(Int)
  BY SharesType
<1>3. Shares(trades', h) = Append(Shares(trades, h), Share(t, h))
  <2>1. /\ trades' \in Seq(Trade) /\ Len(trades') = Len(trades) + 1
        /\ \A i \in 1..Len(trades) : trades'[i] = trades[i]
        /\ trades'[Len(trades) + 1] = t
    BY AppendProperties
  <2>2. /\ Shares(trades', h) \in Seq(Int) /\ Len(Shares(trades', h)) = Len(trades')
        /\ \A i \in 1..Len(trades') : Shares(trades', h)[i] = Share(trades'[i], h)
    BY <2>1, SharesType
  <2>3. /\ Len(Shares(trades, h)) = Len(trades)
        /\ \A i \in 1..Len(trades) : Shares(trades, h)[i] = Share(trades[i], h)
    BY SharesType
  <2>4. /\ Append(Shares(trades, h), Share(t, h)) \in Seq(Int)
        /\ Len(Append(Shares(trades, h), Share(t, h))) = Len(trades) + 1
        /\ \A i \in 1..Len(trades) :
             Append(Shares(trades, h), Share(t, h))[i] = Shares(trades, h)[i]
        /\ Append(Shares(trades, h), Share(t, h))[Len(trades) + 1] = Share(t, h)
    BY <1>1, <1>2, <2>3, AppendProperties
  <2>5. \A i \in 1..(Len(trades) + 1) : i \in 1..Len(trades) \/ i = Len(trades) + 1
    BY LenProperties
  <2>6. \A i \in 1..(Len(trades) + 1) :
          Shares(trades', h)[i] = Append(Shares(trades, h), Share(t, h))[i]
    BY <2>1, <2>2, <2>3, <2>4, <2>5
  <2>. QED  BY <2>1, <2>2, <2>4, <2>6, SeqEqual
<1>4. /\ Total(Shares(trades', h)) = Total(Shares(trades, h)) + Share(t, h)
      /\ Total(Shares(trades, h)) \in Int
  BY <1>1, <1>2, <1>3, TotalAppend
<1>5. /\ Told(h) = reported[h] + Total(Shares(trades, h))
      /\ Told(h)' = reported'[h] + Total(Shares(trades', h))
  BY DEF Told, Shares
<1>. QED  BY <1>1, <1>4, <1>5

\* Giving the first trade to the callbacks moves its quantity from what they are to
\* be told to what they have been told.
LEMMA ToldTail ==
  ASSUME trades \in Seq(Trade), trades # << >>, trades' = Tail(trades),
         NEW h, reported[h] \in Nat, reported'[h] = reported[h] + Share(Head(trades), h)
  PROVE  Told(h)' = Told(h)
<1> DEFINE n == Len(trades)
           s == Shares(trades, h)
           t == Shares(trades', h)
<1>1. /\ n \in Nat /\ n > 0 /\ Head(trades) = trades[1] /\ Head(trades) \in Trade
      /\ trades' \in Seq(Trade) /\ Len(trades') = n - 1
      /\ \A i \in 1..(n - 1) : trades'[i] = trades[i + 1]
  BY HeadTailProperties, LenProperties, EmptySeq, ElementOfSeq
<1>2. /\ s \in Seq(Int) /\ Len(s) = n /\ \A i \in 1..n : s[i] = Share(trades[i], h) /\ s[i] \in Int
  BY SharesType, ElementOfSeq
<1>3. /\ t \in Seq(Int) /\ Len(t) = n - 1 /\ \A i \in 1..(n - 1) : t[i] = Share(trades'[i], h)
  BY <1>1, SharesType
<1>. HIDE DEF n, s, t
<1>4. Erased(s, n, 1, t)
  <2>1. ASSUME NEW i \in 1..(n - 1)
        PROVE  t[i] = IF i < 1 THEN s[i] ELSE s[i + 1]
    <3>1. i + 1 \in 1..n /\ ~(i < 1)
      BY <1>1
    <3>. QED  BY <1>1, <1>2, <1>3, <3>1
  <2>. QED  BY <1>2, <2>1 DEF Erased
<1>5. 1 \in 1..n
  BY <1>1
<1>6. Total(t) = Total(s) - s[1]
  BY <1>2, <1>3, <1>4, <1>5, TotalErased
<1>7. s[1] = Share(Head(trades), h) /\ s[1] \in Int
  BY <1>1, <1>2, <1>5
<1>8. Total(s) \in Int
  BY <1>2, TotalAppend
<1>9. Told(h) = reported[h] + Total(s) /\ Told(h)' = reported'[h] + Total(t)
  BY DEF Told, Shares, s, t
<1>. QED  BY <1>6, <1>7, <1>8, <1>9

\* Every order executed what its trades say, in the vector and out of it.
Accounted ==
  /\ Len(order) <= MaxOrders
  /\ pc \in {"idle", "undefined"} => trades = << >>
  /\ \A h \in 1..MaxOrders :
       Told(h) = IF h \in Handle THEN order[h].quantity - order[h].remaining ELSE 0

\* A step that neither executes nor notifies.
LEMMA QuietKeepsAccounted ==
  ASSUME Accounted, UNCHANGED <<trades, reported>>, Len(order') = Len(order),
         \A h \in Handle : order'[h] = order[h],
         pc' \in {"idle", "undefined"} => trades = << >>
  PROVE  Accounted'
<1>1. Handle' = Handle /\ \A h : Told(h)' = Told(h)
  BY DEF Handle, Told
<1>. QED  BY <1>1 DEF Accounted

\* A new order has executed nothing, and nothing was told of its handle.
LEMMA AddKeepsAccounted ==
  ASSUME Shape, Accounted, UNCHANGED <<trades, reported>>, NEW base, NEW o \in OrderObject,
         AddOrder(o, base), o.remaining = o.quantity, Len(order) < MaxOrders,
         pc = "idle"
  PROVE  Accounted'
<1> DEFINE n == Len(order)
<1>1. /\ n \in Nat /\ Len(order') = n + 1 /\ order'[n + 1] = o
      /\ \A h \in 1..n : order'[h] = order[h]
  BY LenProperties, AppendProperties DEF Shape, TypeOK, AddOrder
<1>2. \A h : Told(h)' = Told(h)
  BY DEF Told
<1>3. MaxOrders \in Nat /\ o.quantity \in Nat
  BY BookAssumption DEF OrderObject
<1>4. ASSUME NEW h \in 1..MaxOrders
      PROVE  Told(h)' = IF h \in Handle' THEN order'[h].quantity - order'[h].remaining ELSE 0
  <2>1. CASE h = n + 1
    BY <1>1, <1>2, <1>3, <2>1 DEF Accounted, Handle
  <2>2. CASE h # n + 1
    BY <1>1, <1>2, <2>2 DEF Accounted, Handle
  <2>. QED  BY <2>1, <2>2
<1>5. Len(order') <= MaxOrders
  BY <1>1, <1>3
<1>. QED  BY <1>4, <1>5 DEF Accounted

\* An execution takes from its orders what the trade it puts into the vector says.
LEMMA ExecutionKeepsAccounted ==
  ASSUME Shape, Accounted, NEW t \in Trade, trades' = Append(trades, t), UNCHANGED reported,
         Len(order') = Len(order), pc' \notin {"idle", "undefined"},
         \A h \in Handle : /\ order'[h].quantity = order[h].quantity
                           /\ order'[h].remaining = order[h].remaining - Share(t, h),
         {t.buy, t.sell} \subseteq Handle \cup {NoOrder}
  PROVE  Accounted'
<1>1. Handle' = Handle /\ MaxOrders \in Nat
  BY BookAssumption DEF Handle
<1>2. ASSUME NEW h \in 1..MaxOrders
      PROVE  Told(h)' = IF h \in Handle THEN order'[h].quantity - order'[h].remaining ELSE 0
  <2>1. Told(h)' = Told(h) + Share(t, h) /\ Told(h) \in Int
    BY ToldAppend DEF Shape, TypeOK
  <2>2. CASE h \in Handle
    <3>1. order[h].quantity \in Nat /\ order[h].remaining \in Nat
      BY <2>2, OrderType, BookAssumption DEF Shape, OrderObject
    <3>2. Share(t, h) \in Int
      BY DEF Share, Trade
    <3>3. Told(h) = order[h].quantity - order[h].remaining
      BY <2>2 DEF Accounted
    <3>4. order'[h].quantity = order[h].quantity
      BY <2>2
    <3>5. order'[h].remaining = order[h].remaining - Share(t, h)
      BY <2>2
    <3>6. order'[h].quantity - order'[h].remaining = Told(h) + Share(t, h)
      BY <3>1, <3>2, <3>3, <3>4, <3>5
    <3>. QED  BY <2>1, <2>2, <3>6
  <2>3. CASE h \notin Handle
    <3>1. Share(t, h) = 0
      BY <1>1, <2>3 DEF Share, NoOrder
    <3>. QED  BY <2>1, <2>3, <3>1 DEF Accounted
  <2>. QED  BY <2>2, <2>3
<1>. QED  BY <1>1, <1>2 DEF Accounted

\* Every step keeps the account.
LEMMA StepKeepsAccounted ==
  ASSUME Shape, ListsLive, InArrivalOrder, Accounted, AnyStep
  PROVE  Accounted'
<1>1. ASSUME NEW id \in OrderIds, NEW s \in Side, NEW q \in Quantities, NEW p \in Prices,
             SubmitLimit(id, s, q, p)
      PROVE  Accounted'
  <2>1. NewOrder(id, s, q, p) \in OrderObject
    BY NewOrderType
  <2>2. NewOrder(id, s, q, p).remaining = NewOrder(id, s, q, p).quantity
    BY DEF NewOrder
  <2>. QED  BY <1>1, <2>1, <2>2, AddKeepsAccounted DEF SubmitLimit
<1>2. ASSUME NEW id \in OrderIds, NEW q, NEW p, Modify(id, q, p)
      PROVE  Accounted'
  <2>1. CASE Unknown(id) /\ UNCHANGED order
    BY <1>2, <2>1, QuietKeepsAccounted DEF Modify, Accounted
  <2>2. CASE /\ Len(order) < MaxOrders
             /\ LET o == order[orders[id]]
                IN  AddOrder(NewOrder(id, o.side, o.quantity, o.price), LevelsWithout(id))
    <3> DEFINE o == order[orders[id]]
               n == NewOrder(id, o.side, o.quantity, o.price)
    <3>1. o \in OrderObject
      BY <1>2, RemovalShrinks, OrderType DEF Modify, Shape
    <3>2. n \in OrderObject
      BY <3>1, NewOrderType DEF OrderObject
    <3>3. n.remaining = n.quantity
      BY DEF NewOrder
    <3>4. AddOrder(n, LevelsWithout(id)) /\ pc = "idle" /\ UNCHANGED <<trades, reported>>
      BY <1>2, <2>2 DEF Modify
    <3>. HIDE DEF n
    <3>. QED  BY <2>2, <3>2, <3>3, <3>4, AddKeepsAccounted
  <2>. QED  BY <1>2, <2>1, <2>2 DEF Modify
<1>3. CASE MatchPair
  <2> DEFINE b == At("BUY")
             a == At("SELL")
             q == Lesser(order[b].remaining, order[a].remaining)
             t == [buy |-> b, sell |-> a, price |-> px["SELL"], quantity |-> q]
  <2>1. /\ px["SELL"] \in Prices /\ pc' = "pair"
        /\ b \in Handle /\ order[b].side = "BUY"
        /\ a \in Handle /\ order[a].side = "SELL"
        /\ q \in Nat
        /\ Len(order') = Len(order) /\ \A g \in Handle \ {b, a} : order'[g] = order[g]
        /\ \A h \in {b, a} : /\ order'[h].quantity = order[h].quantity
                             /\ order'[h].remaining = order[h].remaining - q
    BY <1>3, MatchPairEffect DEF Side
  <2>2. trades' = Append(trades, t) /\ UNCHANGED reported
    BY <1>3 DEF MatchPair
  <2>. HIDE DEF b, a, q
  <2>3. t \in Trade /\ t.buy = b /\ t.sell = a
    BY <2>1, HandleType DEF Trade, Shape
  <2>4. \A h : Share(t, h) = IF h \in {b, a} THEN q ELSE 0
    BY DEF Share
  <2>5. ASSUME NEW h \in Handle
        PROVE  /\ order'[h].quantity = order[h].quantity
               /\ order'[h].remaining = order[h].remaining - Share(t, h)
    <3>1. CASE h \in {b, a}
      BY <2>1, <2>4, <3>1
    <3>2. CASE h \notin {b, a}
      <4>1. order'[h] = order[h] /\ order[h].remaining \in Nat
        BY <2>1, <3>2, OrderType DEF Shape
      <4>2. Share(t, h) = 0
        BY <2>4, <3>2
      <4>. QED  BY <4>1, <4>2
    <3>. QED  BY <3>1, <3>2
  <2>. HIDE DEF t
  <2>. QED  BY <2>1, <2>2, <2>3, <2>5, ExecutionKeepsAccounted
<1>4. CASE Fill
  <2> DEFINE h == At(Book)
             q == Lesser(taker.remaining, order[h].remaining)
             t == [buy |-> IF Book = "BUY" THEN h ELSE NoOrder,
                   sell |-> IF Book = "SELL" THEN h ELSE NoOrder,
                   price |-> px[Book], quantity |-> q]
  <2>1. /\ Book \in Side /\ px[Book] \in Prices /\ pc' = "fill"
        /\ h \in Handle /\ q \in Nat
        /\ Len(order') = Len(order) /\ \A g \in Handle \ {h} : order'[g] = order[g]
        /\ order'[h].quantity = order[h].quantity
        /\ order'[h].remaining = order[h].remaining - q
    BY <1>4, FillEffect
  <2>2. trades' = Append(trades, t) /\ UNCHANGED reported
    BY <1>4 DEF Fill
  <2>. HIDE DEF h, q
  <2>3. t \in Trade /\ {t.buy, t.sell} = {h, NoOrder} /\ t.quantity = q
    BY <2>1, HandleType DEF Trade, Shape, NoOrder, Side
  <2>4. \A g \in Handle : Share(t, g) = IF g = h THEN q ELSE 0
    BY <2>3 DEF Share, NoOrder, Handle
  <2>5. ASSUME NEW g \in Handle
        PROVE  /\ order'[g].quantity = order[g].quantity
               /\ order'[g].remaining = order[g].remaining - Share(t, g)
    <3>1. CASE g = h
      BY <2>1, <2>4, <3>1
    <3>2. CASE g # h
      <4>1. order'[g] = order[g] /\ order[g].remaining \in Nat
        BY <2>1, <3>2, OrderType DEF Shape
      <4>2. Share(t, g) = 0
        BY <2>4, <3>2
      <4>. QED  BY <4>1, <4>2
    <3>. QED  BY <3>1, <3>2
  <2>. HIDE DEF t
  <2>. QED  BY <2>1, <2>2, <2>3, <2>5, ExecutionKeepsAccounted
<1>5. CASE Notify
  <2>1. trades \in Seq(Trade) /\ trades # << >> /\ trades' = Tail(trades)
        /\ Len(order') = Len(order) /\ order' = order /\ pc' = "notify"
    BY <1>5 DEF Notify, Shape, TypeOK
  <2>2. Head(trades) \in Trade
    BY <2>1, HeadTailProperties
  <2>3. ASSUME NEW h \in 1..MaxOrders
        PROVE  Told(h)' = Told(h)
    <3>1. reported[h] \in Nat
      BY DEF Shape, TypeOK
    <3>2. reported'[h] = reported[h] + Share(Head(trades), h)
      <4>1. reported'[h] = IF h \in {Head(trades).buy, Head(trades).sell}
                             THEN reported[h] + Head(trades).quantity ELSE reported[h]
        BY <1>5 DEF Notify
      <4>. QED  BY <3>1, <4>1 DEF Share
    <3>. QED  BY <2>1, <3>1, <3>2, ToldTail
  <2>. QED  BY <2>1, <2>3 DEF Accounted, Handle
<1>6. CASE MatchThrows \/ FillThrows
  BY <1>6, MatchThrowsKeeps, FillThrowsKeeps
<1>7. CASE \/ \E s \in Side, q \in Quantities : SubmitMarket(s, q)
           \/ \E id \in OrderIds : Cancel(id) \/ RemoveDangling(id)
           \/ Clear
  <2>1. /\ pc = "idle" /\ UNCHANGED <<order, trades, reported>>
    BY <1>7 DEF SubmitMarket, Cancel, RemoveDangling, Clear
  <2>. QED  BY <2>1, QuietKeepsAccounted DEF Accounted
<1>8. CASE EnterLevels \/ MatchDone \/ LeaveLevels \/ EnterLevel \/ MarketDone \/ LeaveLevel
  <2>1. pc' \notin {"idle", "undefined"} /\ UNCHANGED <<order, trades, reported>>
    BY <1>8 DEF EnterLevels, MatchDone, LeaveLevels, EnterLevel, MarketDone, LeaveLevel
  <2>. QED  BY <2>1, QuietKeepsAccounted
<1>9. CASE Return
  BY <1>9, QuietKeepsAccounted DEF Return
<1>10. CASE UNCHANGED vars
  BY <1>10, QuietKeepsAccounted DEF vars, Accounted
<1>. QED
  BY <1>1, <1>2, <1>3, <1>4, <1>5, <1>6, <1>7, <1>8, <1>9, <1>10 DEF AnyStep, AnyCall, Proceed

\* Nothing was executed in a new book, and nothing told.
LEMMA InitAccounted == Init => Accounted
<1> SUFFICES ASSUME Init PROVE Accounted
  OBVIOUS
<1>1. Len(order) = 0 /\ trades = << >> /\ Handle = {} /\ MaxOrders \in Nat
  BY EmptySeq, BookAssumption DEF Init, Handle
<1>2. \A h \in 1..MaxOrders : Told(h) = 0
  <2> TAKE h \in 1..MaxOrders
  <2>1. [i \in DOMAIN trades |-> Share(trades[i], h)] = << >>
    BY <1>1
  <2>2. reported[h] = 0
    BY DEF Init
  <2>. QED  BY <2>1, <2>2, TotalEmpty DEF Told
<1>. QED  BY <1>1, <1>2 DEF Accounted

\* What is accounted for is told.
LEMMA AccountedIsTold ==
  ASSUME Shape, Accounted
  PROVE  ExecutionsAreTold
<1>1. ASSUME NEW h \in Handle
      PROVE  h \in 1..MaxOrders
  BY BookAssumption, HandleType DEF Handle, Accounted, Shape
<1>. QED  BY <1>1 DEF Accounted, ExecutionsAreTold

\* Executions and notifications agree, whatever the clients do: what an order has
\* executed is what the callbacks have been told of it and what the trades of the
\* call in progress will tell them (order_book.cpp:303-306, 372-375). No exception
\* drops a trade on the way, because every listed order has quantity left.
THEOREM ToldOnce == PositiveQuantities => (Spec => []ExecutionsAreTold)
<1> SUFFICES ASSUME PositiveQuantities PROVE Spec => []ExecutionsAreTold
  OBVIOUS
<1>2. Shape /\ Calm /\ Lists /\ Accounted /\ [Next]_vars => Accounted'
  BY NextIsAnyStep, StepKeepsAccounted DEF Calm, Lists
<1>. QED  BY <1>2, InitAccounted, AccountedIsTold, FrontsInvariant, PTL DEF Spec

(***************************************************************************)
(* The volume of a level.                                                  *)
(***************************************************************************)

\* What the orders in a list have left, by the objects in ord.
Remainders(ord, list) == [i \in DOMAIN list |-> ord[list[i]].remaining]
Left(ord, list) == Total(Remainders(ord, list))

\* The orders in a list have a quantity left that is a number.
Counts(ord, list) == list \in Seq(Nat) /\ \A i \in DOMAIN list : ord[list[i]].remaining \in Int

\* The remainders are a sequence of numbers.
LEMMA RemaindersType ==
  ASSUME NEW ord, NEW list, Counts(ord, list)
  PROVE  /\ Remainders(ord, list) \in Seq(Int) /\ Len(Remainders(ord, list)) = Len(list)
         /\ \A i \in 1..Len(list) : Remainders(ord, list)[i] = ord[list[i]].remaining
         /\ Left(ord, list) \in Int
<1>1. list \in Seq(Nat) /\ Len(list) \in Nat /\ DOMAIN list = 1..Len(list)
  BY LenProperties DEF Counts
<1>2. /\ Remainders(ord, list) = [i \in 1..Len(list) |-> ord[list[i]].remaining]
      /\ Remainders(ord, list) \in [1..Len(list) -> Int]
  BY <1>1 DEF Remainders, Counts
<1>3. Remainders(ord, list) \in Seq(Int)
  BY <1>1, <1>2, SeqDef
<1>4. Left(ord, list) \in Int
  BY <1>3, TotalAppend DEF Left
<1>. QED  BY <1>1, <1>2, <1>3, <1>4, LenProperties

\* Nothing is left of no orders.
LEMMA LeftOfNone ==
  ASSUME NEW ord
  PROVE  Left(ord, << >>) = 0 /\ Counts(ord, << >>)
<1>1. Remainders(ord, << >>) = << >>
  BY DEF Remainders
<1>. QED  BY <1>1, TotalEmpty, EmptySeq DEF Left, Counts

\* An order added to a list adds what it has left.
LEMMA LeftAppend ==
  ASSUME NEW ord, NEW list, Counts(ord, list), NEW h \in Nat, ord[h].remaining \in Int
  PROVE  /\ Left(ord, Append(list, h)) = Left(ord, list) + ord[h].remaining
         /\ Counts(ord, Append(list, h))
<1> DEFINE more == Append(list, h)
           r == Remainders(ord, list)
           t == Remainders(ord, more)
           x == ord[h].remaining
<1>1. /\ list \in Seq(Nat) /\ Len(list) \in Nat
      /\ \A i \in 1..Len(list) : ord[list[i]].remaining \in Int
  BY LenProperties DEF Counts
<1>2. /\ more \in Seq(Nat) /\ Len(more) = Len(list) + 1 /\ more[Len(list) + 1] = h
      /\ \A i \in 1..Len(list) : more[i] = list[i]
  BY <1>1, AppendProperties
<1>3. \A i \in 1..(Len(list) + 1) : i \in 1..Len(list) \/ i = Len(list) + 1
  BY <1>1
<1>4. Counts(ord, more)
  <2>1. \A i \in 1..Len(more) : ord[more[i]].remaining \in Int
    BY <1>1, <1>2, <1>3
  <2>. QED  BY <1>2, <2>1, LenProperties DEF Counts
<1>5. /\ r \in Seq(Int) /\ Len(r) = Len(list)
      /\ \A i \in 1..Len(list) : r[i] = ord[list[i]].remaining
  BY RemaindersType
<1>6. /\ t \in Seq(Int) /\ Len(t) = Len(list) + 1
      /\ \A i \in 1..(Len(list) + 1) : t[i] = ord[more[i]].remaining
  <2>. HIDE DEF more
  <2>1. /\ t \in Seq(Int) /\ Len(t) = Len(more)
        /\ \A i \in 1..Len(more) : t[i] = ord[more[i]].remaining
    BY <1>4, RemaindersType
  <2>. QED  BY <1>2, <2>1
<1>7. /\ Append(r, x) \in Seq(Int) /\ Len(Append(r, x)) = Len(list) + 1
      /\ \A i \in 1..Len(list) : Append(r, x)[i] = r[i]
      /\ Append(r, x)[Len(list) + 1] = x
  BY <1>5, AppendProperties
<1>8. \A i \in 1..(Len(list) + 1) : t[i] = Append(r, x)[i]
  <2> TAKE i \in 1..(Len(list) + 1)
  <2>1. t[i] = ord[more[i]].remaining
    BY <1>6
  <2>. HIDE DEF more, r, t
  <2>2. CASE i \in 1..Len(list)
    BY <1>2, <1>5, <1>7, <2>1, <2>2
  <2>3. CASE i = Len(list) + 1
    BY <1>2, <1>7, <2>1, <2>3
  <2>. QED  BY <1>3, <2>2, <2>3
<1>9. t = Append(r, x)
  BY <1>6, <1>7, <1>8, SeqEqual
<1>. QED  BY <1>4, <1>5, <1>9, TotalAppend DEF Left

\* An order erased from a list takes off what it has left.
LEMMA LeftErase ==
  ASSUME NEW ord, NEW list, Counts(ord, list), NEW k \in DOMAIN list
  PROVE  /\ Left(ord, RemoveAt(list, k)) = Left(ord, list) - ord[list[k]].remaining
         /\ Counts(ord, RemoveAt(list, k))
<1>1. PICK n, l, e : n = Len(list) /\ l = list /\ e = RemoveAt(list, k)
  OBVIOUS
<1>2. /\ l \in Seq(Nat) /\ n \in Nat /\ k \in 1..n
      /\ \A i \in 1..n : ord[l[i]].remaining \in Int
  BY <1>1, LenProperties DEF Counts
<1>3. /\ e \in Seq(Nat) /\ Len(e) = n - 1
      /\ \A j \in 1..(n - 1) : e[j] = IF j < k THEN l[j] ELSE l[j + 1]
  BY <1>1, <1>2, RemoveAtProperties
<1>4. Counts(ord, e)
  <2>1. ASSUME NEW j \in 1..(n - 1)
        PROVE  ord[e[j]].remaining \in Int
    <3>1. j \in 1..n /\ j + 1 \in 1..n
      BY <1>2
    <3>. QED  BY <1>2, <1>3, <3>1
  <2>. QED  BY <1>3, <2>1, LenProperties DEF Counts
<1> DEFINE r == Remainders(ord, l)
           t == Remainders(ord, e)
<1>5. /\ r \in Seq(Int) /\ Len(r) = n /\ \A i \in 1..n : r[i] = ord[l[i]].remaining
  BY <1>1, RemaindersType
<1>6. /\ t \in Seq(Int) /\ Len(t) = n - 1 /\ \A i \in 1..(n - 1) : t[i] = ord[e[i]].remaining
  <2>1. /\ t \in Seq(Int) /\ Len(t) = Len(e) /\ \A i \in 1..Len(e) : t[i] = ord[e[i]].remaining
    BY ONLY <1>4, RemaindersType
  <2>2. Len(e) = n - 1
    BY <1>3
  <2>. HIDE DEF t
  <2>. QED  BY ONLY <2>1, <2>2
<1>. HIDE DEF r, t
<1>7. Erased(r, n, k, t)
  <2>1. \A i \in 1..n : r[i] \in Int
    BY <1>2, <1>5
  <2>2. ASSUME NEW j \in 1..(n - 1)
        PROVE  t[j] = IF j < k THEN r[j] ELSE r[j + 1]
    <3>1. j \in 1..n /\ j + 1 \in 1..n
      BY <1>2
    <3>2. r[j] = ord[l[j]].remaining /\ r[j + 1] = ord[l[j + 1]].remaining
      BY <1>5, <3>1
    <3>3. e[j] = IF j < k THEN l[j] ELSE l[j + 1]
      BY <1>3
    <3>. QED  BY <1>6, <3>2, <3>3
  <2>. QED  BY <2>1, <2>2 DEF Erased
<1>8. Total(t) = Total(r) - r[k]
  BY <1>2, <1>5, <1>6, <1>7, TotalErased
<1>9. r[k] = ord[l[k]].remaining
  BY <1>2, <1>5
<1>. QED  BY <1>1, <1>4, <1>8, <1>9 DEF Left, r, t

\* Executions take from what is left.
LEMMA LeftFalls ==
  ASSUME NEW ord, NEW new, NEW list, Counts(ord, list), Counts(new, list),
         \A i \in DOMAIN list : new[list[i]].remaining <= ord[list[i]].remaining
  PROVE  Left(new, list) <= Left(ord, list)
<1> DEFINE r == Remainders(ord, list)
           t == Remainders(new, list)
<1>1. DOMAIN list = 1..Len(list)
  BY LenProperties DEF Counts
<1>2. /\ r \in Seq(Int) /\ Len(r) = Len(list)
      /\ \A i \in 1..Len(list) : r[i] = ord[list[i]].remaining
  BY RemaindersType
<1>3. /\ t \in Seq(Int) /\ Len(t) = Len(list)
      /\ \A i \in 1..Len(list) : t[i] = new[list[i]].remaining
  BY RemaindersType
<1>. HIDE DEF r, t
<1>4. \A i \in 1..Len(r) : t[i] <= r[i]
  BY <1>1, <1>2, <1>3
<1>5. Total(t) <= Total(r)
  BY <1>2, <1>3, <1>4, TotalMonotone
<1>. QED  BY <1>5 DEF Left, r, t

\* The volume of a level is at least what the orders in its list have left.
Fits(ord, l) == Counts(ord, l.orders) /\ l.total_volume >= Left(ord, l.orders)

\* A level that is absent or new has neither orders nor volume.
LEMMA NoLevelFits ==
  ASSUME NEW ord
  PROVE  Fits(ord, NoLevel) /\ Fits(ord, [NoLevel EXCEPT !.live = TRUE])
BY LeftOfNone DEF Fits, NoLevel

\* What a level counts does not fall when an order loses quantity.
LEMMA FallKeepsFits ==
  ASSUME NEW ord, NEW new, NEW l \in Level, Fits(ord, l),
         \A i \in DOMAIN l.orders : /\ new[l.orders[i]].remaining \in Int
                                    /\ new[l.orders[i]].remaining <= ord[l.orders[i]].remaining
  PROVE  Fits(new, l)
<1>1. Counts(ord, l.orders) /\ Counts(new, l.orders)
  BY DEF Fits, Counts
<1>2. Left(new, l.orders) <= Left(ord, l.orders)
  BY <1>1, LeftFalls
<1>3. Left(new, l.orders) \in Int /\ Left(ord, l.orders) \in Int /\ l.total_volume \in Int
  BY <1>1, RemaindersType DEF Level
<1>. QED  BY <1>1, <1>2, <1>3 DEF Fits

\* An order added is counted.
LEMMA AddKeepsFits ==
  ASSUME NEW ord, NEW l \in Level, Fits(ord, l), NEW h \in Nat, NEW o \in OrderObject,
         ord[h] = o
  PROVE  Fits(ord, WithOrder(l, h, o))
<1> DEFINE level == IF l.live /\ o.price # 0 THEN l ELSE [NoLevel EXCEPT !.live = TRUE]
           m == WithOrder(l, h, o)
<1>1. level \in Level /\ Fits(ord, level)
  BY NoLevelFits, NoLevelType DEF Level
<1>2. m = [level EXCEPT !.orders = Append(@, h), !.order_map[o.id] = h,
                        !.total_volume = @ + o.remaining]
  BY DEF WithOrder
<1>. HIDE DEF level, m
<1>3. m.orders = Append(level.orders, h) /\ m.total_volume = level.total_volume + o.remaining
  BY <1>1, <1>2 DEF Level
<1>4. o.remaining \in Int
  BY DEF OrderObject
<1>5. Counts(ord, level.orders) /\ level.total_volume >= Left(ord, level.orders)
  BY <1>1 DEF Fits
<1>6. /\ Left(ord, m.orders) = Left(ord, level.orders) + o.remaining
      /\ Counts(ord, m.orders)
  BY <1>3, <1>4, <1>5, LeftAppend
<1>7. level.total_volume \in Int /\ Left(ord, level.orders) \in Int
  BY <1>1, <1>5, RemaindersType DEF Level
<1>8. m.total_volume >= Left(ord, m.orders)
  BY <1>3, <1>4, <1>5, <1>6, <1>7
<1>. QED  BY <1>6, <1>8 DEF Fits, m

\* An order removed is counted no more.
LEMMA RemovalKeepsFits ==
  ASSUME NEW l \in Level, Fits(order, l), NEW id \in OrderIds, Listed(l, l.order_map[id])
  PROVE  Fits(order, WithoutOrder(l, id))
<1> DEFINE h == l.order_map[id]
           k == Position(l, h)
           m == WithoutOrder(l, id)
<1>1. k \in DOMAIN l.orders /\ l.orders[k] = h
  BY PositionOfListed
<1>2. m.orders = RemoveAt(l.orders, k) /\ m.total_volume = l.total_volume - order[h].remaining
  BY DEF WithoutOrder, Level
<1>. HIDE DEF h, k, m
<1>3. Counts(order, l.orders) /\ l.total_volume >= Left(order, l.orders)
  BY DEF Fits
<1>4. order[h].remaining \in Int
  BY <1>1, <1>3 DEF Counts
<1>5. /\ Left(order, m.orders) = Left(order, l.orders) - order[h].remaining
      /\ Counts(order, m.orders)
  BY <1>1, <1>2, <1>3, LeftErase
<1>6. l.total_volume \in Int /\ Left(order, l.orders) \in Int
  BY <1>3, RemaindersType DEF Level
<1>7. m.total_volume >= Left(order, m.orders)
  BY <1>2, <1>3, <1>4, <1>5, <1>6
<1>. QED  BY <1>5, <1>7 DEF Fits, m

\* An order that has nothing left leaves the list, or one that has something stays.
LEMMA AfterFillKeepsFits ==
  ASSUME NEW ord, NEW l \in Level, Fits(ord, l), NEW i \in DOMAIN l.orders,
         ord[l.orders[i]].status = "FILLED" <=> ord[l.orders[i]].remaining = 0
  PROVE  Fits(ord, AfterFill(l, i, ord[l.orders[i]]))
<1> DEFINE o == ord[l.orders[i]]
           m == AfterFill(l, i, o)
<1>1. CASE o.status # "FILLED"
  BY <1>1 DEF AfterFill
<1>2. CASE o.status = "FILLED"
  <2>1. m = [l EXCEPT !.orders = RemoveAt(@, i)] /\ o.remaining = 0
    BY <1>2 DEF AfterFill
  <2>. HIDE DEF m, o
  <2>2. m.orders = RemoveAt(l.orders, i) /\ m.total_volume = l.total_volume
    BY <2>1 DEF Level
  <2>3. Counts(ord, l.orders) /\ l.total_volume >= Left(ord, l.orders)
    BY DEF Fits
  <2>4. Left(ord, m.orders) = Left(ord, l.orders) - o.remaining /\ Counts(ord, m.orders)
    BY <2>2, <2>3, LeftErase DEF o
  <2>5. Left(ord, l.orders) \in Int
    BY <2>3, RemaindersType
  <2>. QED  BY <2>1, <2>2, <2>3, <2>4, <2>5 DEF Fits, m, o
<1>. QED  BY <1>1, <1>2

\* The erasures after a loop keep it.
LEMMA TrimKeepsFits ==
  ASSUME NEW ord, NEW l, Fits(ord, l)
  PROVE  Fits(ord, Trim(l))
BY NoLevelFits DEF Trim

\* The volumes of a book do not understate it.
AllFit(ord, lv) == \A s \in Side, p \in Prices : Fits(ord, lv[s][p])
Fit == pc # "undefined" => AllFit(order, levels)

\* A level after the iteration that executed the order at one position of its list,
\* or none.
Iterated(ord, l, m) ==
  \/ m = l
  \/ \E i \in DOMAIN l.orders :
       /\ m = AfterFill(l, i, ord[l.orders[i]])
       /\ ord[l.orders[i]].status = "FILLED" <=> ord[l.orders[i]].remaining = 0

\* Executions keep it, whichever orders they fill.
LEMMA IterationKeepsFits ==
  ASSUME Shape, AllFit(order, levels),
         \A h \in Handle : order'[h].remaining \in Int /\ order'[h].remaining <= order[h].remaining,
         \A s \in Side, p \in Prices : Iterated(order', levels[s][p], levels'[s][p])
  PROVE  AllFit(order', levels')
<1> SUFFICES ASSUME NEW s \in Side, NEW p \in Prices
             PROVE  Fits(order', levels'[s][p])
  BY DEF AllFit
<1>1. PICK l, m : l = levels[s][p] /\ m = levels'[s][p]
  OBVIOUS
<1>2. l \in Level /\ Fits(order, l) /\ \A i \in DOMAIN l.orders : l.orders[i] \in Handle
  BY <1>1 DEF Shape, TypeOK, ListsSound, AllFit
<1>3. Fits(order', l)
  BY <1>2, FallKeepsFits
<1>4. Iterated(order', l, m)
  BY <1>1
<1>5. ASSUME NEW i \in DOMAIN l.orders,
             m = AfterFill(l, i, order'[l.orders[i]]),
             order'[l.orders[i]].status = "FILLED" <=> order'[l.orders[i]].remaining = 0
      PROVE  Fits(order', m)
  BY <1>2, <1>3, <1>5, AfterFillKeepsFits
<1>. QED  BY <1>1, <1>3, <1>4, <1>5 DEF Iterated

\* One iteration of match_orders.
LEMMA MatchPairIterates ==
  ASSUME Shape, InArrivalOrder, MatchPair
  PROVE  /\ \A h \in Handle : order'[h].remaining \in Int /\ order'[h].remaining <= order[h].remaining
         /\ \A s \in Side, p \in Prices : Iterated(order', levels[s][p], levels'[s][p])
<1> DEFINE pb == px["BUY"]
           pa == px["SELL"]
           lb == levels["BUY"][pb]
           la == levels["SELL"][pa]
           b == At("BUY")
           a == At("SELL")
           q == Lesser(order[b].remaining, order[a].remaining)
           bid == Execute(order[b], q)
           ask == Execute(order[a], q)
           mb == AfterFill(lb, it["BUY"], bid)
           ma == AfterFill(la, it["SELL"], ask)
<1>1. /\ ~Throws(order[b], q) /\ ~Throws(order[a], q)
      /\ order' = [order EXCEPT ![b] = bid, ![a] = ask]
      /\ levels' = [levels EXCEPT !["BUY"][pb] = mb, !["SELL"][pa] = ma]
  BY DEF MatchPair
<1>2. /\ pb \in Prices /\ it["BUY"] \in DOMAIN lb.orders /\ lb.orders[it["BUY"]] = b
      /\ pa \in Prices /\ it["SELL"] \in DOMAIN la.orders /\ la.orders[it["SELL"]] = a
      /\ b \in Handle /\ order[b].side = "BUY" /\ a \in Handle /\ order[a].side = "SELL"
      /\ q \in Nat
      /\ Len(order') = Len(order) /\ \A g \in Handle \ {b, a} : order'[g] = order[g]
      /\ \A h \in {b, a} : order'[h].remaining = order[h].remaining - q
  BY MatchPairEffect DEF Side
<1>3. \A h \in Handle : order[h] \in OrderObject /\ order[h].remaining \in Nat
  BY OrderType DEF Shape
<1>. HIDE DEF b, a, q
<1>4. \A h \in Handle : order'[h].remaining \in Int /\ order'[h].remaining <= order[h].remaining
  <2> TAKE h \in Handle
  <2>1. CASE h \in {b, a}
    BY <1>2, <1>3, <2>1
  <2>2. CASE h \notin {b, a}
    BY <1>2, <1>3, <2>2
  <2>. QED  BY <2>1, <2>2
<1>5. /\ bid.status = "FILLED" <=> bid.remaining = 0
      /\ ask.status = "FILLED" <=> ask.remaining = 0
  BY <1>1, <1>2, <1>3, ExecuteProperties
<1>. HIDE DEF bid, ask
<1>6. order'[b] = bid /\ order'[a] = ask
  <2>1. b \in DOMAIN order /\ a \in DOMAIN order /\ a # b
    BY <1>2, LenProperties DEF Shape, TypeOK, Handle
  <2>. QED  BY <1>1, <2>1
<1>7. /\ levels'["BUY"][pb] = mb /\ levels'["SELL"][pa] = ma
      /\ \A s \in Side, r \in Prices :
           (s = "BUY" => r # pb) /\ (s = "SELL" => r # pa) => levels'[s][r] = levels[s][r]
  <2>. HIDE DEF mb, ma, pb, pa
  <2>1. levels \in Levels
    BY DEF Shape, TypeOK, Levels
  <2>. QED  BY <1>1, <1>2, <2>1 DEF Levels, Side
<1>8. Iterated(order', lb, mb) /\ Iterated(order', la, ma)
  <2>1. order'[lb.orders[it["BUY"]]] = bid /\ order'[la.orders[it["SELL"]]] = ask
    BY <1>2, <1>6
  <2>. HIDE DEF lb, la
  <2>. QED  BY <1>2, <1>5, <2>1 DEF Iterated
<1>9. ASSUME NEW s \in Side, NEW p \in Prices
      PROVE  Iterated(order', levels[s][p], levels'[s][p])
  <2>1. CASE s = "BUY" /\ p = pb
    BY <1>7, <1>8, <2>1
  <2>2. CASE s = "SELL" /\ p = pa
    BY <1>7, <1>8, <2>2
  <2>3. CASE (s = "BUY" => p # pb) /\ (s = "SELL" => p # pa)
    BY <1>7, <2>3 DEF Iterated
  <2>. QED  BY <2>1, <2>2, <2>3 DEF Side
<1>. QED  BY <1>4, <1>9

\* One iteration of process_market_order.
LEMMA FillIterates ==
  ASSUME Shape, InArrivalOrder, Fill
  PROVE  /\ \A h \in Handle : order'[h].remaining \in Int /\ order'[h].remaining <= order[h].remaining
         /\ \A s \in Side, p \in Prices : Iterated(order', levels[s][p], levels'[s][p])
<1> DEFINE t == Book
           r == px[t]
           l == levels[t][r]
           h == At(t)
           q == Lesser(taker.remaining, order[h].remaining)
           o == Execute(order[h], q)
           m == AfterFill(l, it[t], o)
<1>1. /\ ~Throws(order[h], q) /\ order' = [order EXCEPT ![h] = o]
      /\ levels' = [levels EXCEPT ![t][r] = m]
  BY DEF Fill
<1>2. /\ t \in Side /\ r \in Prices /\ it[t] \in DOMAIN l.orders /\ l.orders[it[t]] = h
      /\ h \in Handle /\ q \in Nat
      /\ Len(order') = Len(order) /\ \A g \in Handle \ {h} : order'[g] = order[g]
      /\ order'[h].remaining = order[h].remaining - q
  BY FillEffect
<1>3. \A g \in Handle : order[g] \in OrderObject /\ order[g].remaining \in Nat
  BY OrderType DEF Shape
<1>. HIDE DEF h, q, t
<1>4. \A g \in Handle : order'[g].remaining \in Int /\ order'[g].remaining <= order[g].remaining
  <2> TAKE g \in Handle
  <2>1. CASE g = h
    BY <1>2, <1>3, <2>1
  <2>2. CASE g # h
    BY <1>2, <1>3, <2>2
  <2>. QED  BY <2>1, <2>2
<1>5. o.status = "FILLED" <=> o.remaining = 0
  BY <1>1, <1>2, <1>3, ExecuteProperties
<1>. HIDE DEF o
<1>6. order'[h] = o
  <2>1. h \in DOMAIN order
    BY <1>2, LenProperties DEF Shape, TypeOK, Handle
  <2>. QED  BY <1>1, <2>1
<1>7. /\ levels'[t][r] = m
      /\ \A s \in Side, p \in Prices : s # t \/ p # r => levels'[s][p] = levels[s][p]
  <2>. HIDE DEF m, r
  <2>1. levels \in Levels
    BY DEF Shape, TypeOK, Levels
  <2>. QED  BY <1>1, <1>2, <2>1 DEF Levels
<1>8. Iterated(order', l, m)
  <2>1. order'[l.orders[it[t]]] = o
    BY <1>2, <1>6
  <2>. HIDE DEF l
  <2>. QED  BY <1>2, <1>5, <2>1 DEF Iterated
<1>9. ASSUME NEW s \in Side, NEW p \in Prices
      PROVE  Iterated(order', levels[s][p], levels'[s][p])
  <2>1. CASE s = t /\ p = r
    BY <1>7, <1>8, <2>1
  <2>2. CASE s # t \/ p # r
    BY <1>7, <2>2 DEF Iterated
  <2>. QED  BY <2>1, <2>2
<1>. QED  BY <1>4, <1>9

\* A removal keeps the volumes.
LEMMA CancelKeepsVolumes ==
  ASSUME Shape, AllFit(order, levels), NEW id \in OrderIds, orders[id] # NoOrder
  PROVE  AllFit(order, LevelsWithout(id))
<1>1. CASE ~Found(id)
  BY <1>1 DEF LevelsWithout
<1>2. CASE Found(id)
  <2> DEFINE s == order[orders[id]].side
             p == order[orders[id]].price
             l == levels[s][p]
             m == Trim(WithoutOrder(l, id))
  <2>1. Listed(l, l.order_map[id]) /\ orders[id] \in Handle
    BY <1>2, RemovalShrinks DEF Shape, Found, NodeOf, LevelOf
  <2>2. s \in Side /\ p \in Prices
    BY <2>1, OrderType DEF Shape
  <2>3. l \in Level /\ Fits(order, l)
    BY <2>2 DEF Shape, TypeOK, AllFit
  <2>4. Fits(order, m)
    <3>. HIDE DEF l
    <3>. QED  BY <2>1, <2>3, RemovalKeepsFits, TrimKeepsFits
  <2>5. LevelsWithout(id) = [levels EXCEPT ![s][p] = m]
    BY <1>2 DEF LevelsWithout
  <2>. HIDE DEF m, s, p
  <2>6. /\ LevelsWithout(id)[s][p] = m
        /\ \A t \in Side, r \in Prices : t # s \/ r # p => LevelsWithout(id)[t][r] = levels[t][r]
    BY <2>2, <2>5 DEF Shape, TypeOK
  <2>. QED  BY <2>4, <2>6 DEF AllFit
<1>. QED  BY <1>1, <1>2

\* So does an order added to what is left of the book.
LEMMA AddKeepsVolumes ==
  ASSUME Shape, NEW base \in Levels, Shrunk(base, levels), AllFit(order, base),
         NEW o \in OrderObject, AddOrder(o, base)
  PROVE  AllFit(order', levels')
<1> DEFINE n == Len(order) + 1
<1>1. /\ n \in Nat /\ order'[n] = o /\ \A h \in Handle : order'[h] = order[h]
  <2>1. order \in Seq(OrderObject) /\ order' = Append(order, o)
    BY DEF Shape, TypeOK, AddOrder
  <2>. QED  BY <2>1, AppendProperties, LenProperties DEF Handle
<1>2. o.side \in Side /\ o.price \in Prices
  BY DEF OrderObject
<1>3. /\ levels'[o.side][o.price] = WithOrder(base[o.side][o.price], n, o)
      /\ \A s \in Side, p \in Prices :
           s # o.side \/ p # o.price => levels'[s][p] = base[s][p]
  BY <1>2 DEF AddOrder, Levels
<1>. HIDE DEF n
<1>4. ASSUME NEW s \in Side, NEW p \in Prices
      PROVE  base[s][p] \in Level /\ Fits(order', base[s][p])
  <2>1. PICK l : l = base[s][p]
    OBVIOUS
  <2>2. l \in Level /\ Fits(order, l)
    BY <2>1 DEF AllFit, Levels
  <2>3. \A i \in DOMAIN l.orders : l.orders[i] \in Handle
    BY <2>1 DEF Shrunk, Sublist, Shape, ListsSound
  <2>4. \A i \in DOMAIN l.orders : order[l.orders[i]].remaining \in Nat
    BY <2>3, OrderType DEF Shape
  <2>5. \A i \in DOMAIN l.orders : order'[l.orders[i]].remaining = order[l.orders[i]].remaining
    BY <1>1, <2>3
  <2>6. Fits(order', l)
    BY <2>2, <2>4, <2>5, FallKeepsFits
  <2>. QED  BY <2>1, <2>2, <2>6
<1>5. ASSUME NEW s \in Side, NEW p \in Prices
      PROVE  Fits(order', levels'[s][p])
  <2>1. CASE s = o.side /\ p = o.price
    <3>1. Fits(order', WithOrder(base[s][p], n, o))
      BY <1>1, <1>4, AddKeepsFits
    <3>. QED  BY <1>3, <2>1, <3>1
  <2>2. CASE s # o.side \/ p # o.price
    BY <1>3, <1>4, <2>2
  <2>. QED  BY <2>1, <2>2
<1>. QED  BY <1>5 DEF AllFit

\* Every step keeps the volumes.
LEMMA StepKeepsVolumes ==
  ASSUME Shape, InArrivalOrder, Fit, AnyStep
  PROVE  Fit'
<1> SUFFICES ASSUME pc' # "undefined" PROVE AllFit(order', levels')
  BY DEF Fit
<1>1. pc # "undefined"
  <2> SUFFICES ASSUME pc = "undefined" PROVE FALSE
    OBVIOUS
  <2>1. ~AnyCall /\ ~Proceed
    BY DEF AnyCall, Proceed, SubmitLimit, SubmitMarket, Cancel, Modify, RemoveDangling, Clear,
           EnterLevels, MatchDone, MatchPair, MatchThrows, LeaveLevels, EnterLevel, MarketDone,
           Fill, FillThrows, LeaveLevel, Notify, Return
  <2>. QED  BY <2>1 DEF AnyStep, vars
<1>2. AllFit(order, levels)
  BY <1>1 DEF Fit
<1>3. levels \in Levels /\ Shrunk(levels, levels)
  BY DEF Shape, TypeOK, Levels, Shrunk, Sublist
<1>4. ASSUME NEW id \in OrderIds, NEW s \in Side, NEW q \in Quantities, NEW p \in Prices,
             SubmitLimit(id, s, q, p)
      PROVE  AllFit(order', levels')
  BY <1>2, <1>3, <1>4, NewOrderType, AddKeepsVolumes DEF SubmitLimit
<1>5. ASSUME NEW id \in OrderIds, Cancel(id)
      PROVE  AllFit(order', levels')
  BY <1>2, <1>5, CancelKeepsVolumes DEF Cancel
<1>6. ASSUME NEW id \in OrderIds, NEW q, NEW p, Modify(id, q, p)
      PROVE  AllFit(order', levels')
  <2>1. CASE UNCHANGED <<order, levels>>
    BY <1>2, <2>1
  <2>2. CASE LET o == order[orders[id]]
             IN  AddOrder(NewOrder(id, o.side, o.quantity, o.price), LevelsWithout(id))
    <3> DEFINE o == order[orders[id]]
               n == NewOrder(id, o.side, o.quantity, o.price)
    <3>1. orders[id] # NoOrder
      BY <1>6 DEF Modify
    <3>2. /\ LevelsWithout(id) \in Levels /\ Shrunk(LevelsWithout(id), levels)
          /\ o \in OrderObject
      BY <3>1, RemovalShrinks, OrderType DEF Shape
    <3>3. n \in OrderObject
      BY <3>2, NewOrderType DEF OrderObject
    <3>4. AllFit(order, LevelsWithout(id))
      BY <1>2, <3>1, CancelKeepsVolumes
    <3>5. AddOrder(n, LevelsWithout(id))
      BY <2>2
    <3>. HIDE DEF n
    <3>. QED  BY <3>2, <3>3, <3>4, <3>5, AddKeepsVolumes
  <2>. QED  BY <1>6, <2>1, <2>2 DEF Modify
<1>7. CASE Clear
  BY <1>7, NoLevelFits DEF Clear, AllFit
<1>8. CASE MatchPair \/ Fill
  BY <1>2, <1>8, MatchPairIterates, FillIterates, IterationKeepsFits
<1>9. CASE LeaveLevels
  <2>1. /\ levels' = [levels EXCEPT !["BUY"][px["BUY"]] = Trim(@),
                                    !["SELL"][px["SELL"]] = Trim(@)]
        /\ order' = order
    BY <1>9 DEF LeaveLevels
  <2>2. \A s \in Side, p \in Prices : levels'[s][p] \in {levels[s][p], Trim(levels[s][p])}
    BY <1>3, <2>1 DEF Levels, Side
  <2>3. order' = order
    BY <2>1
  <2>. QED  BY <1>2, <2>2, <2>3, TrimKeepsFits DEF AllFit
<1>10. CASE LeaveLevel
  <2>1. levels' = [levels EXCEPT ![Book][px[Book]] = Trim(@)] /\ order' = order
    BY <1>10 DEF LeaveLevel
  <2>2. \A s \in Side, p \in Prices : levels'[s][p] \in {levels[s][p], Trim(levels[s][p])}
    BY <1>3, <2>1 DEF Levels, Side
  <2>3. order' = order
    BY <2>1
  <2>. QED  BY <1>2, <2>2, <2>3, TrimKeepsFits DEF AllFit
<1>11. CASE UNCHANGED <<order, levels>>
  BY <1>2, <1>11
<1>12. ASSUME \/ \E s \in Side, q \in Quantities : SubmitMarket(s, q)
              \/ EnterLevels \/ MatchDone \/ MatchThrows \/ EnterLevel \/ MarketDone
              \/ FillThrows \/ Notify \/ Return \/ UNCHANGED vars
       PROVE  UNCHANGED <<order, levels>>
  BY <1>12 DEF SubmitMarket, EnterLevels, MatchDone, MatchThrows, EnterLevel, MarketDone,
               FillThrows, Notify, Return, Unwind, vars
<1>13. ASSUME NEW id \in OrderIds, RemoveDangling(id)
       PROVE  FALSE
  BY <1>13 DEF RemoveDangling
<1>. QED
  BY <1>4, <1>5, <1>6, <1>7, <1>8, <1>9, <1>10, <1>11, <1>12, <1>13 DEF AnyStep, AnyCall, Proceed

\* A new book has no volume.
LEMMA InitFit == Init => Fit
BY NoLevelFits DEF Init, AllFit, Fit

\* What fits is not understated.
LEMMA FitCovers ==
  ASSUME Fit
  PROVE  VolumeNotUnderstated
<1> SUFFICES ASSUME pc # "undefined", NEW s \in Side, NEW p \in Prices
             PROVE  levels[s][p].total_volume >= Quantity(levels[s][p])
  BY DEF VolumeNotUnderstated
<1>1. Fits(order, levels[s][p])
  BY DEF AllFit, Fit
<1>. QED  BY <1>1 DEF Fits, Left, Remainders, Quantity

\* Whatever the clients call and with whatever quantities and prices, the volume that
\* a level publishes never understates the orders that rest there: it is added and
\* subtracted with the orders, and the matching loops, which take quantity and orders
\* from under it, only make it overstate (order_book.cpp:350-360).
THEOREM VolumeCovers == Spec => []VolumeNotUnderstated
<1>1. Shape /\ Lists /\ Fit /\ [Next]_vars => Fit'
  BY NextIsAnyStep, StepKeepsVolumes DEF Lists
<1>. QED  BY <1>1, InitFit, FitCovers, ListsInvariant, PTL DEF Spec
==============================================================================
