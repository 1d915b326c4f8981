--------------------------- MODULE OrderBookProofs ---------------------------
(***************************************************************************)
(* Theorems about OrderBook: type correctness, that the book is never       *)
(* crossed between calls, and that every resting order answers to its id    *)
(* when no id is used twice. First come lemmas, for every set of ids, prices *)
(* and quantities and every number of orders: what the operators of a level *)
(* return and what the operations of the book do to the lists.             *)
(***************************************************************************)
EXTENDS OrderBook, SequenceTheorems, TLAPS

(***************************************************************************)
(* Lists: the library has no lemma for erasing one element.                *)
(***************************************************************************)

\* std::list::erase: the elements before the erased one stay where they are, the
\* ones after it move up by one.
LEMMA RemoveAtProperties ==
  ASSUME NEW S, NEW s \in Seq(S), NEW i \in 1..Len(s)
  PROVE  /\ RemoveAt(s, i) \in Seq(S)
         /\ Len(RemoveAt(s, i)) = Len(s) - 1
         /\ \A j \in 1..(Len(s) - 1) : RemoveAt(s, i)[j] = IF j < i THEN s[j] ELSE s[j + 1]
<1> DEFINE before == SubSeq(s, 1, i - 1)
           after == SubSeq(s, i + 1, Len(s))
<1>0. Len(s) \in Nat
  BY LenProperties
<1>1. /\ before \in Seq(S)
      /\ Len(before) = i - 1
      /\ \A j \in 1..(i - 1) : before[j] = s[j]
  BY <1>0, SubSeqProperties
<1>2. /\ after \in Seq(S)
      /\ Len(after) = Len(s) - i
      /\ \A j \in 1..(Len(s) - i) : after[j] = s[i + j]
  BY <1>0, SubSeqProperties
<1>3. RemoveAt(s, i) = before \o after
  BY DEF RemoveAt
<1>. HIDE DEF before, after
<1>4. /\ before \o after \in Seq(S)
      /\ Len(before \o after) = Len(before) + Len(after)
      /\ \A j \in 1..(Len(before) + Len(after)) :
           (before \o after)[j] =
             IF j <= Len(before) THEN before[j] ELSE after[j - Len(before)]
  BY <1>1, <1>2, ConcatProperties
<1>5. Len(before) + Len(after) = Len(s) - 1
  BY <1>0, <1>1, <1>2
<1>6. ASSUME NEW j \in 1..(Len(s) - 1)
      PROVE  (before \o after)[j] = IF j < i THEN s[j] ELSE s[j + 1]
  <2>1. CASE j < i
    <3>1. j \in 1..(i - 1) /\ j <= Len(before)
      BY <2>1, <1>0, <1>1
    <3>. QED  BY <2>1, <3>1, <1>1, <1>4, <1>5
  <2>2. CASE ~(j < i)
    <3>1. /\ ~(j <= Len(before))
          /\ j - Len(before) \in 1..(Len(s) - i)
          /\ i + (j - Len(before)) = j + 1
      BY <2>2, <1>0, <1>1
    <3>2. (before \o after)[j] = after[j - Len(before)]
      BY <3>1, <1>4, <1>5
    <3>3. after[j - Len(before)] = s[j + 1]
      BY <3>1, <1>2
    <3>. QED  BY <2>2, <3>2, <3>3
  <2>. QED  BY <2>1, <2>2
<1>. QED  BY <1>3, <1>4, <1>5, <1>6

(***************************************************************************)
(* Levels: what the operators of PriceLevel return.                        *)
(***************************************************************************)

\* An absent level is a level with an empty list.
LEMMA NoLevelType == NoLevel \in Level /\ NoLevel.orders = << >> /\ ~NoLevel.live
BY EmptySeq DEF NoLevel, Level, NoOrder

\* add_order puts the new order at the end of a list that was there already, or
\* of an empty one, and the level exists afterwards.
LEMMA WithOrderProperties ==
  ASSUME NEW l \in Level, NEW h \in Nat, NEW o \in OrderObject
  PROVE  /\ WithOrder(l, h, o) \in Level
         /\ WithOrder(l, h, o).live
         /\ \E list \in {l.orders, << >>} : WithOrder(l, h, o).orders = Append(list, h)
         /\ WithOrder(l, h, o).orders =
              Append(IF l.live /\ o.price # 0 THEN l.orders ELSE << >>, h)
<1> DEFINE level == IF l.live /\ o.price # 0 THEN l ELSE [NoLevel EXCEPT !.live = TRUE]
<1>1. /\ level \in Level /\ level.live
      /\ level.orders = IF l.live /\ o.price # 0 THEN l.orders ELSE << >>
  BY NoLevelType DEF Level
<1>2. WithOrder(l, h, o) = [level EXCEPT !.orders = Append(@, h),
                                         !.order_map[o.id] = h,
                                         !.total_volume = @ + o.remaining]
  BY DEF WithOrder
<1>. HIDE DEF level
<1>3. Append(level.orders, h) \in Seq(Nat)
  BY <1>1, AppendProperties DEF Level
<1>4. level.total_volume + o.remaining \in Int
  BY <1>1 DEF Level, OrderObject
<1>5. [level.order_map EXCEPT ![o.id] = h] \in [OrderIds -> Nat]
  BY <1>1 DEF Level, OrderObject
<1>6. WithOrder(l, h, o) = [live |-> level.live, orders |-> Append(level.orders, h),
                            order_map |-> [level.order_map EXCEPT ![o.id] = h],
                            total_volume |-> level.total_volume + o.remaining]
  BY <1>1, <1>2 DEF Level
<1>7. WithOrder(l, h, o) \in Level
  BY <1>1, <1>3, <1>4, <1>5, <1>6 DEF Level
<1>8. WithOrder(l, h, o).live
  BY <1>1, <1>6
<1>9. WithOrder(l, h, o).orders = Append(level.orders, h)
  BY <1>6
<1>. QED  BY <1>1, <1>7, <1>8, <1>9

\* Erasing a filled order keeps the level and removes at most one list element.
LEMMA AfterFillProperties ==
  ASSUME NEW l \in Level, NEW i \in DOMAIN l.orders, NEW o \in OrderObject
  PROVE  /\ AfterFill(l, i, o) \in Level
         /\ AfterFill(l, i, o).live = l.live
         /\ AfterFill(l, i, o).orders =
              IF o.status = "FILLED" THEN RemoveAt(l.orders, i) ELSE l.orders
<1>1. i \in 1..Len(l.orders)
  BY LenProperties DEF Level
<1>2. RemoveAt(l.orders, i) \in Seq(Nat)
  BY <1>1, RemoveAtProperties DEF Level
<1>. QED  BY <1>2 DEF AfterFill, Level

\* Erasing an emptied level keeps every list as it was.
LEMMA TrimProperties ==
  ASSUME NEW l \in Level
  PROVE  /\ Trim(l) \in Level
         /\ Trim(l).live => l.live
         /\ Trim(l).orders = l.orders
BY NoLevelType DEF Trim

\* r holds only what s holds, and no element twice if s does not.
Sublist(r, s) ==
  /\ \A j \in DOMAIN r : \E k \in DOMAIN s : r[j] = s[k]
  /\ (\A j, k \in DOMAIN s : s[j] = s[k] => j = k)
       => \A j, k \in DOMAIN r : r[j] = r[k] => j = k

\* The list after an erase holds what it held before, without the erased one.
LEMMA RemoveAtElements ==
  ASSUME NEW s \in Seq(Nat), NEW i \in DOMAIN s
  PROVE  /\ RemoveAt(s, i) \in Seq(Nat)
         /\ Sublist(RemoveAt(s, i), s)
         /\ (\A j, k \in DOMAIN s : s[j] = s[k] => j = k)
              => \A j \in DOMAIN RemoveAt(s, i) : RemoveAt(s, i)[j] # s[i]
<1> DEFINE r == RemoveAt(s, i)
           from(j) == IF j < i THEN j ELSE j + 1
<1>1. /\ i \in 1..Len(s)
      /\ Len(s) \in Nat
      /\ DOMAIN s = 1..Len(s)
  BY LenProperties
<1>2. /\ r \in Seq(Nat)
      /\ Len(r) = Len(s) - 1
      /\ \A j \in 1..(Len(s) - 1) : r[j] = IF j < i THEN s[j] ELSE s[j + 1]
  <2>. HIDE DEF r, from
  <2>1. s \in Seq(Nat) /\ i \in 1..Len(s)
    BY <1>1
  <2>2. /\ RemoveAt(s, i) \in Seq(Nat)
        /\ Len(RemoveAt(s, i)) = Len(s) - 1
        /\ \A j \in 1..(Len(s) - 1) : RemoveAt(s, i)[j] = IF j < i THEN s[j] ELSE s[j + 1]
    BY ONLY <2>1, RemoveAtProperties
  <2>. QED  BY ONLY <2>2 DEF r
<1>3. DOMAIN r = 1..(Len(s) - 1)
  BY <1>2, LenProperties
<1>. HIDE DEF r
<1>4. \A j \in DOMAIN r : from(j) \in DOMAIN s /\ from(j) # i /\ r[j] = s[from(j)]
  <2>1. \A j \in DOMAIN r : from(j) \in DOMAIN s /\ from(j) # i
    BY <1>1, <1>3
  <2>2. ASSUME NEW j \in DOMAIN r PROVE r[j] = s[from(j)]
    <3>1. r[j] = IF j < i THEN s[j] ELSE s[j + 1]
      BY <1>2, <1>3
    <3>. QED  BY <3>1
  <2>. QED  BY <2>1, <2>2
<1>5. \A j, k \in DOMAIN r : from(j) = from(k) => j = k
  BY <1>1, <1>3
<1>. HIDE DEF from
<1>6. r \in Seq(Nat)
  BY <1>2
<1>7. Sublist(r, s)
  BY <1>4, <1>5 DEF Sublist
<1>8. ASSUME \A j, k \in DOMAIN s : s[j] = s[k] => j = k
      PROVE  \A j \in DOMAIN r : r[j] # s[i]
  BY <1>1, <1>4, <1>8
<1>. QED  BY <1>6, <1>7, <1>8 DEF r

\* Replacing one level of the two maps.
LEMMA LevelUpdate ==
  ASSUME NEW lv \in [Side -> [Prices -> Level]], NEW s \in Side, NEW p \in Prices,
         NEW l \in Level
  PROVE  /\ [lv EXCEPT ![s][p] = l] \in [Side -> [Prices -> Level]]
         /\ [lv EXCEPT ![s][p] = l][s][p] = l
         /\ \A t \in Side, q \in Prices :
              t # s \/ q # p => [lv EXCEPT ![s][p] = l][t][q] = lv[t][q]
OBVIOUS

(***************************************************************************)
(* The book: what its operations do to the lists.                          *)
(***************************************************************************)

Levels == [Side -> [Prices -> Level]]

\* The lists of `new` hold only what those of `old` hold, and no level appears.
Shrunk(new, old) ==
  \A s \in Side, p \in Prices :
    /\ new[s][p].live => old[s][p].live
    /\ Sublist(new[s][p].orders, old[s][p].orders)

\* Shrinking one level shrinks the book.
LEMMA OneLevelShrinks ==
  ASSUME NEW lv \in Levels, NEW s \in Side, NEW p \in Prices, NEW m \in Level,
         m.live => lv[s][p].live, Sublist(m.orders, lv[s][p].orders)
  PROVE  /\ [lv EXCEPT ![s][p] = m] \in Levels
         /\ Shrunk([lv EXCEPT ![s][p] = m], lv)
<1> DEFINE new == [lv EXCEPT ![s][p] = m]
<1>1. /\ new \in Levels
      /\ new[s][p] = m
      /\ \A t \in Side, q \in Prices : t # s \/ q # p => new[t][q] = lv[t][q]
  BY LevelUpdate DEF Levels
<1>. HIDE DEF new
<1>2. ASSUME NEW t \in Side, NEW q \in Prices
      PROVE  (new[t][q].live => lv[t][q].live) /\ Sublist(new[t][q].orders, lv[t][q].orders)
  <2>1. CASE t # s \/ q # p
    BY <1>1, <2>1 DEF Sublist
  <2>2. CASE t = s /\ q = p
    BY <1>1, <2>2
  <2>. QED  BY <2>1, <2>2
<1>3. Shrunk(new, lv)
  BY <1>2 DEF Shrunk
<1>. QED  BY <1>1, <1>3 DEF new

\* The same of one level of each side.
LEMMA TwoLevelsShrink ==
  ASSUME NEW lv \in Levels, NEW b \in Prices, NEW a \in Prices,
         NEW mb \in Level, NEW ma \in Level,
         mb.live => lv["BUY"][b].live, Sublist(mb.orders, lv["BUY"][b].orders),
         ma.live => lv["SELL"][a].live, Sublist(ma.orders, lv["SELL"][a].orders)
  PROVE  LET new == [lv EXCEPT !["BUY"][b] = mb, !["SELL"][a] = ma]
         IN  /\ new \in Levels /\ Shrunk(new, lv)
             /\ new["BUY"][b] = mb /\ new["SELL"][a] = ma
<1> DEFINE one == [lv EXCEPT !["BUY"][b] = mb]
           new == [one EXCEPT !["SELL"][a] = ma]
<1>1. "BUY" \in Side /\ "SELL" \in Side /\ "BUY" # "SELL"
  BY DEF Side
<1>2. one \in Levels /\ Shrunk(one, lv)
  BY <1>1, OneLevelShrinks
<1>3. one["BUY"][b] = mb /\ one["SELL"][a] = lv["SELL"][a]
  BY <1>1 DEF Levels
<1>. HIDE DEF one
<1>4. (ma.live => one["SELL"][a].live) /\ Sublist(ma.orders, one["SELL"][a].orders)
  BY <1>3
<1>5. new \in Levels /\ Shrunk(new, one)
  BY <1>1, <1>2, <1>4, OneLevelShrinks
<1>6. new["SELL"][a] = ma /\ new["BUY"][b] = one["BUY"][b]
  BY <1>1, <1>2 DEF Levels
<1>. HIDE DEF new
<1>7. Shrunk(new, lv)
  <2> SUFFICES ASSUME NEW s \in Side, NEW p \in Prices
               PROVE  /\ new[s][p].live => lv[s][p].live
                      /\ Sublist(new[s][p].orders, lv[s][p].orders)
    BY DEF Shrunk
  <2> DEFINE x == new[s][p].orders
             y == one[s][p].orders
             z == lv[s][p].orders
  <2>1. /\ Sublist(x, y) /\ Sublist(y, z)
        /\ new[s][p].live => lv[s][p].live
    BY <1>2, <1>5 DEF Shrunk
  <2>. HIDE DEF x, y, z
  <2>2. Sublist(x, z)
    BY <2>1 DEF Sublist
  <2>. QED  BY <2>1, <2>2 DEF x, z
<1>. QED  BY <1>3, <1>5, <1>6, <1>7 DEF new, one

\* The position that remove_order erases at is one of the list.
LEMMA PositionOfListed ==
  ASSUME NEW l \in Level, NEW h, Listed(l, h)
  PROVE  Position(l, h) \in DOMAIN l.orders /\ l.orders[Position(l, h)] = h
BY DEF Listed, Position

\* Handles are natural numbers.
LEMMA HandleType == TypeOK => Handle \subseteq Nat /\ Len(order) \in Nat
BY LenProperties DEF TypeOK, Handle

\* Every handle names an Order object with its fields' types.
LEMMA OrderType ==
  ASSUME TypeOK, NEW h \in Handle
  PROVE  /\ order[h] \in OrderObject
         /\ order[h].side \in Side /\ order[h].price \in Prices
         /\ order[h].remaining \in Nat
<1>1. order[h] \in OrderObject
  BY ElementOfSeq DEF TypeOK, Handle
<1>. QED  BY <1>1 DEF OrderObject

\* PriceLevel::remove_order erases one list element, the one the iterator names.
LEMMA WithoutOrderProperties ==
  ASSUME NEW l \in Level, NEW id \in OrderIds, Listed(l, l.order_map[id]),
         order[l.order_map[id]].remaining \in Int
  PROVE  /\ WithoutOrder(l, id) \in Level
         /\ WithoutOrder(l, id).live = l.live
         /\ \E i \in DOMAIN l.orders :
              WithoutOrder(l, id).orders = RemoveAt(l.orders, i)
<1> DEFINE h == l.order_map[id]
           i == Position(l, h)
<1>1. i \in DOMAIN l.orders
  BY PositionOfListed
<1>2. RemoveAt(l.orders, i) \in Seq(Nat)
  BY <1>1, RemoveAtElements DEF Level
<1>3. [l.order_map EXCEPT ![id] = NoOrder] \in [OrderIds -> Nat]
  BY DEF Level, NoOrder
<1>4. l.total_volume - order[h].remaining \in Int
  BY DEF Level
<1>5. WithoutOrder(l, id) = [l EXCEPT !.orders = RemoveAt(@, i), !.order_map[id] = NoOrder,
                                      !.total_volume = @ - order[h].remaining]
  BY DEF WithoutOrder
<1>. HIDE DEF h, i
<1>6. WithoutOrder(l, id) =
        [live |-> l.live, orders |-> RemoveAt(l.orders, i),
         order_map |-> [l.order_map EXCEPT ![id] = NoOrder],
         total_volume |-> l.total_volume - order[h].remaining]
  BY <1>5 DEF Level
<1>7. l.live \in BOOLEAN
  BY DEF Level
<1>8. WithoutOrder(l, id) \in Level
  BY <1>2, <1>3, <1>4, <1>6, <1>7 DEF Level
<1>. QED  BY <1>1, <1>6, <1>8

\* A removal shrinks the book; what it removes is an order.
LEMMA RemovalShrinks ==
  ASSUME TypeOK, OrdersSound, ListsSound, NEW id \in OrderIds, orders[id] # NoOrder
  PROVE  /\ LevelsWithout(id) \in Levels
         /\ Shrunk(LevelsWithout(id), levels)
         /\ orders[id] \in Handle
         /\ Found(id) => NodeOf(id) \in Handle
<1> DEFINE s == order[orders[id]].side
           p == order[orders[id]].price
           l == levels[s][p]
           h == l.order_map[id]
<1>1. orders[id] \in Handle
  BY DEF TypeOK, OrdersSound, Handle, NoOrder
<1>2. s \in Side /\ p \in Prices /\ l \in Level
  BY <1>1, OrderType DEF TypeOK
<1>3. CASE ~Found(id)
  BY <1>1, <1>3 DEF LevelsWithout, Shrunk, Sublist, TypeOK, Levels
<1>4. CASE Found(id)
  <2>1. Listed(l, h)
    BY <1>4 DEF Found, LevelOf, NodeOf
  <2>2. h \in Handle
    <3>1. PICK k \in DOMAIN l.orders : l.orders[k] = h
      BY <2>1 DEF Listed
    <3>. HIDE DEF h, s, p
    <3>. QED  BY <3>1, <1>2 DEF ListsSound
  <2>3. order[h].remaining \in Int
    <3>. HIDE DEF h
    <3>. QED  BY <2>2, OrderType
  <2> DEFINE m == WithoutOrder(l, id)
             t == Trim(m)
  <2>4. LevelsWithout(id) = [levels EXCEPT ![s][p] = t]
    BY <1>4 DEF LevelsWithout
  <2>5. NodeOf(id) = h
    BY DEF NodeOf, LevelOf
  <2>. HIDE DEF s, p, l
  <2>6. /\ m \in Level /\ m.live = l.live
        /\ \E i \in DOMAIN l.orders : m.orders = RemoveAt(l.orders, i)
    BY <1>2, <2>1, <2>3, WithoutOrderProperties
  <2>. HIDE DEF m, h
  <2>7. /\ t \in Level /\ (t.live => l.live)
        /\ \E i \in DOMAIN l.orders : t.orders = RemoveAt(l.orders, i)
    BY <2>6, TrimProperties
  <2>. HIDE DEF t
  <2>8. Sublist(t.orders, l.orders)
    BY <1>2, <2>7, RemoveAtElements DEF Level
  <2>9. levels \in Levels
    BY DEF TypeOK, Levels
  <2>10. levels[s][p] = l
    BY DEF l
  <2>11. /\ t \in Level /\ (t.live => levels[s][p].live)
         /\ Sublist(t.orders, levels[s][p].orders)
    BY <2>7, <2>8, <2>10
  <2>12. /\ [levels EXCEPT ![s][p] = t] \in Levels
         /\ Shrunk([levels EXCEPT ![s][p] = t], levels)
    BY <1>2, <2>9, <2>11, OneLevelShrinks
  <2>13. LevelsWithout(id) \in Levels /\ Shrunk(LevelsWithout(id), levels)
    BY <2>4, <2>12
  <2>. QED  BY <1>1, <2>2, <2>5, <2>13
<1>. QED  BY <1>3, <1>4

\* add_order lists the new order at the end of its own level, and nothing else.
LEMMA AddOrderKeeps ==
  ASSUME TypeOK, ListsSound, NEW base \in Levels, Shrunk(base, levels),
         NEW o \in OrderObject, AddOrder(o, base)
  PROVE  /\ order' \in Seq(OrderObject) /\ Len(order') = Len(order) + 1
         /\ levels' \in Levels
         /\ ListsSound'
         /\ \A s \in Side, p \in Prices :
              levels'[s][p].live => base[s][p].live \/ (s = o.side /\ p = o.price)
         /\ ListsLive /\ o.remaining > 0 => ListsLive'
<1> DEFINE h == Len(order) + 1
           l == base[o.side][o.price]
           m == WithOrder(l, h, o)
<1>1. /\ Len(order) \in Nat /\ h \in Nat
      /\ o.side \in Side /\ o.price \in Prices /\ o.remaining \in Nat /\ l \in Level
  BY LenProperties DEF TypeOK, OrderObject, Levels
<1>2. /\ order' \in Seq(OrderObject) /\ Len(order') = h
      /\ \A g \in Handle : order'[g] = order[g]
      /\ order'[h] = o
  BY AppendProperties DEF AddOrder, TypeOK, Handle
<1>3. /\ m \in Level /\ m.live
      /\ \E list \in {l.orders, << >>} : m.orders = Append(list, h)
  BY <1>1, WithOrderProperties
<1>. HIDE DEF m
<1>4. levels' = [base EXCEPT ![o.side][o.price] = m]
  BY DEF AddOrder, m
<1>5. /\ levels' \in Levels
      /\ levels'[o.side][o.price] = m
      /\ \A s \in Side, p \in Prices :
           s # o.side \/ p # o.price => levels'[s][p] = base[s][p]
  BY <1>1, <1>3, <1>4, LevelUpdate DEF Levels
<1>6. PICK list \in {l.orders, << >>} : m.orders = Append(list, h)
  BY <1>3
<1>7. /\ list \in Seq(Nat)
      /\ Sublist(list, levels[o.side][o.price].orders)
  <2>1. l.orders \in Seq(Nat) /\ Sublist(l.orders, levels[o.side][o.price].orders)
    BY <1>1 DEF Level, Shrunk
  <2>2. << >> \in Seq(Nat) /\ DOMAIN << >> = {}
    BY EmptySeq
  <2>3. Sublist(<< >>, levels[o.side][o.price].orders)
    BY <2>2 DEF Sublist
  <2>. HIDE DEF l
  <2>. QED  BY <1>6, <2>1, <2>2, <2>3
<1>8. /\ DOMAIN list = 1..Len(list) /\ Len(list) \in Nat
      /\ DOMAIN m.orders = 1..(Len(list) + 1)
      /\ \A i \in DOMAIN list : m.orders[i] = list[i]
      /\ m.orders[Len(list) + 1] = h
  <2>1. /\ Append(list, h) \in Seq(Nat)
        /\ Len(Append(list, h)) = Len(list) + 1
        /\ \A i \in 1..Len(list) : Append(list, h)[i] = list[i]
        /\ Append(list, h)[Len(list) + 1] = h
    <3>. HIDE DEF h, l
    <3>. QED  BY <1>1, <1>7, AppendProperties
  <2>2. DOMAIN list = 1..Len(list) /\ Len(list) \in Nat
    BY <1>7, LenProperties
  <2>3. DOMAIN Append(list, h) = 1..(Len(list) + 1)
    <3>. HIDE DEF h, l
    <3>. QED  BY <2>1, LenProperties
  <2>. HIDE DEF h, l
  <2>. QED  BY <1>6, <2>1, <2>2, <2>3
<1>9. \A i \in DOMAIN list : LET g == list[i] IN
        g \in Handle /\ order[g].side = o.side /\ order[g].price = o.price
  <2>1. ASSUME NEW i \in DOMAIN list
        PROVE  \E k \in DOMAIN levels[o.side][o.price].orders :
                 list[i] = levels[o.side][o.price].orders[k]
    BY <1>7 DEF Sublist
  <2>2. \A k \in DOMAIN levels[o.side][o.price].orders :
          LET g == levels[o.side][o.price].orders[k]
          IN  g \in Handle /\ order[g].side = o.side /\ order[g].price = o.price
    <3>. HIDE DEF h, l
    <3>. QED  BY <1>1 DEF ListsSound
  <2>. QED  BY <2>1, <2>2
<1>10. Handle' = 1..h /\ h \notin Handle /\ Handle \subseteq Handle'
  BY <1>1, <1>2 DEF Handle
<1>. HIDE DEF h, l
<1>11. ASSUME NEW s \in Side, NEW p \in Prices, s # o.side \/ p # o.price
       PROVE  /\ levels'[s][p] = base[s][p]
              /\ Sublist(levels'[s][p].orders, levels[s][p].orders)
  BY <1>5, <1>11 DEF Shrunk
<1>12. ListsSound'
  <2> SUFFICES ASSUME NEW s \in Side, NEW p \in Prices, NEW i \in DOMAIN levels'[s][p].orders
               PROVE  LET g == levels'[s][p].orders[i]
                      IN  g \in Handle' /\ order'[g].side = s /\ order'[g].price = p
    BY DEF ListsSound
  <2>1. CASE s # o.side \/ p # o.price
    <3>1. PICK k \in DOMAIN levels[s][p].orders :
            levels'[s][p].orders[i] = levels[s][p].orders[k]
      BY <1>11, <2>1 DEF Sublist
    <3>2. LET g == levels[s][p].orders[k]
          IN  g \in Handle /\ order[g].side = s /\ order[g].price = p
      BY DEF ListsSound
    <3>. QED  BY <3>1, <3>2, <1>2, <1>10
  <2>2. CASE s = o.side /\ p = o.price
    <3>1. levels'[s][p].orders = m.orders
      BY <2>2, <1>5
    <3>2. CASE i \in DOMAIN list
      <4> DEFINE g == list[i]
      <4>1. levels'[s][p].orders[i] = g
        BY <3>1, <3>2, <1>8
      <4>2. g \in Handle /\ order[g].side = o.side /\ order[g].price = o.price
        BY <3>2, <1>9
      <4>. HIDE DEF g
      <4>. QED  BY <4>1, <4>2, <2>2, <1>2, <1>10
    <3>3. CASE i = Len(list) + 1
      BY <3>1, <3>3, <2>2, <1>1, <1>2, <1>8, <1>10 DEF h
    <3>. QED  BY <3>1, <3>2, <3>3, <1>8
  <2>. QED  BY <2>1, <2>2
<1>13. ASSUME ListsLive, o.remaining > 0
       PROVE  ListsLive'
  <2> SUFFICES ASSUME NEW s \in Side, NEW p \in Prices
               PROVE  LET new == levels'[s][p].orders
                      IN  /\ \A i, j \in DOMAIN new : new[i] = new[j] => i = j
                          /\ \A i \in DOMAIN new : order'[new[i]].remaining > 0
    BY DEF ListsLive
  <2> DEFINE new == levels'[s][p].orders
             old == levels[s][p].orders
  <2>1. /\ \A i, j \in DOMAIN old : old[i] = old[j] => i = j
        /\ \A i \in DOMAIN old : old[i] \in Handle /\ order[old[i]].remaining > 0
    BY <1>13 DEF ListsLive, ListsSound
  <2>2. \A i \in DOMAIN old : order'[old[i]].remaining > 0
    BY <2>1, <1>2
  <2>3. CASE s # o.side \/ p # o.price
    <3>1. Sublist(new, old)
      BY <1>11, <2>3
    <3>. HIDE DEF new, old
    <3>2. QED  BY <3>1, <2>1, <2>2 DEF Sublist, new
  <2>4. CASE s = o.side /\ p = o.price
    <3>1. new = m.orders /\ Sublist(list, old)
      BY <2>4, <1>5, <1>7
    <3>. HIDE DEF new, old
    <3>2. \A i, j \in DOMAIN list : list[i] = list[j] => i = j
      BY <3>1, <2>1 DEF Sublist
    <3>3. \A i \in DOMAIN list : list[i] # h /\ order'[list[i]].remaining > 0
      BY <3>1, <1>9, <1>10, <2>2 DEF Sublist
    <3>4. order'[h].remaining > 0
      BY <1>2, <1>13 DEF h
    <3>5. \A i \in DOMAIN new : i \in DOMAIN list \/ i = Len(list) + 1
      BY <3>1, <1>8
    <3>6. \A i, j \in DOMAIN new : new[i] = new[j] => i = j
      BY <3>1, <3>2, <3>3, <3>5, <1>8
    <3>7. \A i \in DOMAIN new : order'[new[i]].remaining > 0
      BY <3>1, <3>3, <3>4, <3>5, <1>8
    <3>. QED  BY <3>6, <3>7 DEF new
  <2>. QED  BY <2>3, <2>4
<1>. QED  BY <1>2, <1>5, <1>12, <1>13 DEF h

\* An execution keeps what an order is, and fills it exactly when it takes all.
LEMMA ExecuteProperties ==
  ASSUME NEW o \in OrderObject, NEW q \in Nat, ~Throws(o, q)
  PROVE  /\ Execute(o, q) \in OrderObject
         /\ Execute(o, q).side = o.side /\ Execute(o, q).price = o.price
         /\ Execute(o, q).quantity = o.quantity
         /\ Execute(o, q).remaining = o.remaining - q
         /\ Execute(o, q).status = "FILLED" <=> Execute(o, q).remaining = 0
<1>1. o.remaining \in Nat /\ o.remaining - q \in Nat
  BY DEF OrderObject, Throws
<1> DEFINE st == IF o.remaining - q <= 0 THEN "FILLED" ELSE "PARTIALLY_FILLED"
<1>2. st \in Status
  BY DEF Status
<1>3. Execute(o, q) = [o EXCEPT !.remaining = @ - q, !.status = st]
  BY DEF Execute
<1>4. st = "FILLED" <=> o.remaining - q = 0
  BY <1>1
<1>. HIDE DEF st
<1>5. /\ Execute(o, q) \in OrderObject
      /\ Execute(o, q).remaining = o.remaining - q
      /\ Execute(o, q).status = st
      /\ Execute(o, q).side = o.side /\ Execute(o, q).price = o.price
      /\ Execute(o, q).quantity = o.quantity
  BY <1>1, <1>2, <1>3 DEF OrderObject
<1>. QED  BY <1>1, <1>4, <1>5

\* What an execution leaves in the list of its level: no filled order.
LEMMA FillProperties ==
  ASSUME NEW l \in Level, NEW i \in DOMAIN l.orders, NEW o \in OrderObject,
         o.status = "FILLED" <=> o.remaining = 0
  PROVE  /\ AfterFill(l, i, o) \in Level
         /\ AfterFill(l, i, o).live = l.live
         /\ Sublist(AfterFill(l, i, o).orders, l.orders)
         /\ (\A j, k \in DOMAIN l.orders : l.orders[j] = l.orders[k] => j = k)
              => \A j \in DOMAIN AfterFill(l, i, o).orders :
                   AfterFill(l, i, o).orders[j] = l.orders[i] => o.remaining > 0
<1> DEFINE m == AfterFill(l, i, o)
<1>1. /\ m \in Level /\ m.live = l.live
      /\ m.orders = IF o.status = "FILLED" THEN RemoveAt(l.orders, i) ELSE l.orders
  BY AfterFillProperties
<1>2. l.orders \in Seq(Nat) /\ o.remaining \in Nat
  BY DEF Level, OrderObject
<1>. HIDE DEF m
<1>3. CASE o.status = "FILLED"
  <2> DEFINE r == RemoveAt(l.orders, i)
  <2>1. /\ Sublist(r, l.orders)
        /\ (\A j, k \in DOMAIN l.orders : l.orders[j] = l.orders[k] => j = k)
             => \A j \in DOMAIN r : r[j] # l.orders[i]
    BY <1>2, RemoveAtElements
  <2>2. m.orders = r
    BY <1>1, <1>3
  <2>. HIDE DEF r
  <2>3. /\ Sublist(m.orders, l.orders)
        /\ (\A j, k \in DOMAIN l.orders : l.orders[j] = l.orders[k] => j = k)
             => \A j \in DOMAIN m.orders : m.orders[j] # l.orders[i]
    BY <2>1, <2>2
  <2>. QED  BY <1>1, <2>3 DEF m
<1>4. CASE o.status # "FILLED"
  <2>1. o.remaining > 0
    BY <1>2, <1>4
  <2>2. Sublist(l.orders, l.orders)
    BY DEF Sublist
  <2>. QED  BY <1>1, <1>4, <2>1, <2>2 DEF m
<1>. QED  BY <1>3, <1>4

\* A step that takes from the lists and levels, and changes of the orders at
\* most their quantities, keeps the lists sound and cannot make the book cross.
LEMMA ShrinkingKeeps ==
  ASSUME TypeOK, ListsSound, Shrunk(levels', levels), Len(order') = Len(order),
         \A g \in Handle : order'[g].side = order[g].side /\ order'[g].price = order[g].price
  PROVE  /\ ListsSound'
         /\ \A s \in Side : Live(s)' \subseteq Live(s)
         /\ ~Crossed => ~Crossed'
         /\ ListsLive /\ UNCHANGED order => ListsLive'
<1>1. \A s \in Side : Live(s)' \subseteq Live(s)
  BY DEF Live, Shrunk
<1>2. ~Crossed => ~Crossed'
  BY <1>1 DEF Crossed, Side
<1>3. ListsSound'
  <2> SUFFICES ASSUME NEW s \in Side, NEW p \in Prices, NEW i \in DOMAIN levels'[s][p].orders
               PROVE  LET g == levels'[s][p].orders[i]
                      IN  g \in Handle' /\ order'[g].side = s /\ order'[g].price = p
    BY DEF ListsSound
  <2>1. PICK k \in DOMAIN levels[s][p].orders : levels'[s][p].orders[i] = levels[s][p].orders[k]
    BY DEF Shrunk, Sublist
  <2>2. LET g == levels[s][p].orders[k] IN g \in Handle /\ order[g].side = s /\ order[g].price = p
    BY DEF ListsSound
  <2>. QED  BY <2>1, <2>2 DEF Handle
<1>4. ListsLive /\ UNCHANGED order => ListsLive'
  <2> SUFFICES ASSUME ListsLive, UNCHANGED order, NEW s \in Side, NEW p \in Prices
               PROVE  LET new == levels'[s][p].orders
                      IN  /\ \A i, j \in DOMAIN new : new[i] = new[j] => i = j
                          /\ \A i \in DOMAIN new : order'[new[i]].remaining > 0
    BY DEF ListsLive
  <2>1. Sublist(levels'[s][p].orders, levels[s][p].orders)
    BY DEF Shrunk
  <2>. QED  BY <2>1 DEF Sublist, ListsLive
<1>. QED  BY <1>1, <1>2, <1>3, <1>4

(***************************************************************************)
(* Type correctness and the uncrossed book. Each action has a lemma; Shape  *)
(* is what holds of every instance, and the rest of BookInv takes positive  *)
(* quantities.                                                             *)
(***************************************************************************)

Shape == TypeOK /\ OrdersSound /\ ListsSound /\ IteratorsSound
Calm == ListsLive /\ CrossedOnlyWhileMatching

\* Between the inner loops the iterators are not used.
LEMMA NoIterators ==
  ASSUME px' = [s \in Side |-> NoPrice], it' = [s \in Side |-> 1],
         pc' \notin {"pair", "fill"}
  PROVE  /\ px' \in [Side -> Prices \cup {NoPrice}] /\ it' \in [Side -> Nat]
         /\ IteratorsSound'
BY DEF IteratorsSound

\* The constructors of OrderBook and MatchingEngine establish the invariant.
THEOREM InitHolds == Init => Shape /\ Calm
<1> SUFFICES ASSUME Init PROVE Shape /\ Calm
  OBVIOUS
<1>1. /\ order \in Seq(OrderObject) /\ Len(order) = 0
      /\ trades \in Seq(Trade)
  BY EmptySeq DEF Init
<1>2. levels \in Levels /\ \A s \in Side, p \in Prices : levels[s][p] = NoLevel
  BY NoLevelType DEF Init, Levels
<1>3. TypeOK
  BY <1>1, <1>2, BookAssumption DEF Init, TypeOK, NoFrame, NoTaker, Levels, Side, NoOrder
<1>4. OrdersSound
  BY <1>1 DEF OrdersSound, Init, NoOrder
<1>5. \A s \in Side, p \in Prices : DOMAIN levels[s][p].orders = {} /\ ~levels[s][p].live
  BY <1>2, NoLevelType
<1>6. ListsSound /\ ListsLive
  BY <1>5 DEF ListsSound, ListsLive
<1>7. IteratorsSound
  BY DEF IteratorsSound, Init
<1>8. CrossedOnlyWhileMatching
  BY <1>5 DEF CrossedOnlyWhileMatching, Crossed, Live, Side
<1>. QED  BY <1>3, <1>4, <1>6, <1>7, <1>8 DEF Shape, Calm

(***************************************************************************)
(* The calls.                                                              *)
(***************************************************************************)

\* The Order constructor builds an Order object with all of its quantity left.
LEMMA NewOrderType ==
  ASSUME NEW id \in OrderIds, NEW s \in Side, NEW q \in Quantities, NEW p \in Prices
  PROVE  /\ NewOrder(id, s, q, p) \in OrderObject
         /\ NewOrder(id, s, q, p).remaining = q
BY BookAssumption DEF NewOrder, OrderObject, Status

\* add_order of a LIMIT order keeps the invariant: the book may now be crossed,
\* and match_orders is next.
LEMMA SubmitLimitKeeps ==
  ASSUME Shape, NEW id \in OrderIds, NEW s \in Side, NEW q \in Quantities, NEW p \in Prices,
         SubmitLimit(id, s, q, p)
  PROVE  Shape' /\ (PositiveQuantities /\ Calm => Calm')
<1> DEFINE o == NewOrder(id, s, q, p)
<1>1. o \in OrderObject /\ o.remaining = q
  BY NewOrderType
<1>2. levels \in Levels /\ Shrunk(levels, levels)
  BY DEF Shape, TypeOK, Levels, Shrunk, Sublist
<1>3. AddOrder(o, levels)
  BY DEF SubmitLimit
<1>. HIDE DEF o
<1>4. /\ order' \in Seq(OrderObject) /\ Len(order') = Len(order) + 1
      /\ levels' \in Levels
      /\ ListsSound'
      /\ ListsLive /\ o.remaining > 0 => ListsLive'
  BY <1>1, <1>2, <1>3, AddOrderKeeps DEF Shape
<1>5. Len(order) \in Nat
  BY LenProperties DEF Shape, TypeOK
<1>6. orders' \in [OrderIds -> Nat] /\ OrdersSound'
  BY <1>4, <1>5 DEF Shape, TypeOK, OrdersSound, SubmitLimit
<1>7. TypeOK'
  BY <1>4, <1>6 DEF Shape, TypeOK, SubmitLimit, frame, Levels
<1>8. IteratorsSound' /\ CrossedOnlyWhileMatching'
  BY DEF IteratorsSound, CrossedOnlyWhileMatching, SubmitLimit
<1>. QED  BY <1>1, <1>4, <1>6, <1>7, <1>8 DEF Shape, Calm, PositiveQuantities

\* process_market_order starts with the book as it is.
LEMMA SubmitMarketKeeps ==
  ASSUME Shape, NEW s \in Side, NEW q \in Quantities, SubmitMarket(s, q)
  PROVE  Shape' /\ (Calm => Calm')
<1> USE DEF SubmitMarket
<1>1. TypeOK'
  BY BookAssumption DEF Shape, TypeOK
<1>2. OrdersSound' /\ ListsSound' /\ IteratorsSound'
  BY DEF Shape, OrdersSound, ListsSound, IteratorsSound, Handle
<1>3. Calm => Calm'
  BY DEF Calm, ListsLive, CrossedOnlyWhileMatching, Crossed, Live
<1>. QED  BY <1>1, <1>2, <1>3 DEF Shape

\* cancel_order keeps the invariant: it only takes an order away.
LEMMA CancelKeeps ==
  ASSUME Shape, NEW id \in OrderIds, Cancel(id)
  PROVE  Shape' /\ (Calm => Calm')
<1> USE DEF Shape
<1>1. /\ levels' \in Levels /\ Shrunk(levels', levels)
      /\ Found(id) => NodeOf(id) \in Handle
  BY RemovalShrinks DEF Cancel
<1>2. withdrawn' \subseteq Nat
  <2>1. withdrawn' \subseteq withdrawn \cup Handle
    BY <1>1 DEF Cancel
  <2>. QED  BY <2>1, HandleType DEF TypeOK
<1>3. TypeOK' /\ OrdersSound'
  BY <1>1, <1>2 DEF Cancel, TypeOK, OrdersSound, frame, Levels, NoOrder
<1>4. /\ ListsSound' /\ (~Crossed => ~Crossed')
      /\ ListsLive => ListsLive'
  BY <1>1, ShrinkingKeeps DEF Cancel
<1>5. IteratorsSound' /\ (Calm => Calm')
  BY <1>4 DEF Cancel, IteratorsSound, Calm, CrossedOnlyWhileMatching
<1>. QED  BY <1>3, <1>4, <1>5

\* modify_order keeps the invariant: the clone has the side and the price of the
\* order it replaces, so it cannot cross the book.
LEMMA ModifyKeeps ==
  ASSUME Shape, NEW id \in OrderIds, NEW q, NEW p, Modify(id, q, p)
  PROVE  Shape' /\ (PositiveQuantities /\ Calm => Calm')
<1> USE DEF Shape
<1> DEFINE old == order[orders[id]]
           o == NewOrder(id, old.side, old.quantity, old.price)
<1>1. /\ LevelsWithout(id) \in Levels /\ Shrunk(LevelsWithout(id), levels)
      /\ orders[id] \in Handle
      /\ Found(id) => NodeOf(id) \in Handle
  BY RemovalShrinks DEF Modify
<1>2. /\ old \in OrderObject /\ old.quantity \in Quantities
      /\ old.side \in Side /\ old.price \in Prices
  BY <1>1, OrderType DEF OrderObject
<1>3. o \in OrderObject /\ o.remaining \in Quantities
  BY <1>2, NewOrderType
<1>4. pc = "idle" /\ pc' = "idle" /\ UNCHANGED <<px, it, taker, trades, reported>>
  BY DEF Modify, frame
<1>5. IteratorsSound'
  BY <1>4 DEF IteratorsSound
<1>. HIDE DEF old, o
<1>6. CASE /\ Found(id)
           /\ AddOrder(o, LevelsWithout(id))
           /\ orders' = [orders EXCEPT ![id] = Len(order) + 1]
           /\ withdrawn' = withdrawn \cup {NodeOf(id)}
  <2>1. /\ order' \in Seq(OrderObject) /\ Len(order') = Len(order) + 1
        /\ levels' \in Levels
        /\ ListsSound'
        /\ \A s \in Side, r \in Prices :
             levels'[s][r].live => LevelsWithout(id)[s][r].live \/ (s = o.side /\ r = o.price)
        /\ ListsLive /\ o.remaining > 0 => ListsLive'
    BY <1>1, <1>3, <1>6, AddOrderKeeps
  <2>2. orders' \in [OrderIds -> Nat] /\ OrdersSound'
    BY <1>6, <2>1, HandleType DEF TypeOK, OrdersSound
  <2>3. withdrawn' \subseteq Nat
    BY <1>1, <1>6, HandleType DEF TypeOK
  <2>4. TypeOK'
    BY <1>4, <2>1, <2>2, <2>3 DEF TypeOK, Levels
  <2>5. levels[o.side][o.price].live
    <3>1. o.side = old.side /\ o.price = old.price
      BY DEF o, NewOrder
    <3>. QED  BY <1>6, <3>1 DEF Found, LevelOf, old
  <2>6. \A s \in Side : Live(s)' \subseteq Live(s)
    BY <1>1, <2>1, <2>5 DEF Live, Shrunk
  <2>7. ~Crossed => ~Crossed'
    BY <2>6 DEF Crossed, Side
  <2>8. PositiveQuantities /\ Calm => Calm'
    BY <1>3, <1>4, <2>1, <2>7 DEF Calm, CrossedOnlyWhileMatching, PositiveQuantities
  <2>. QED  BY <1>5, <2>1, <2>2, <2>4, <2>8
<1>7. CASE /\ orders' = [orders EXCEPT ![id] = NoOrder]
           /\ UNCHANGED <<order, levels, withdrawn>>
  <2>1. TypeOK' /\ OrdersSound'
    BY <1>4, <1>7 DEF TypeOK, OrdersSound, NoOrder
  <2>2. ListsSound' /\ (ListsLive => ListsLive')
    BY <1>4, <1>7 DEF ListsSound, Handle, ListsLive
  <2>3. CrossedOnlyWhileMatching => CrossedOnlyWhileMatching'
    BY <1>4, <1>7 DEF CrossedOnlyWhileMatching, Crossed, Live
  <2>. QED  BY <1>5, <2>1, <2>2, <2>3 DEF Calm
<1>. QED  BY <1>6, <1>7 DEF Modify, old, o

\* Unlinking another order through a dangling iterator, or aborting.
LEMMA RemoveDanglingKeeps ==
  ASSUME Shape, NEW id \in OrderIds, RemoveDangling(id)
  PROVE  Shape' /\ (Calm => Calm')
<1> USE DEF Shape
<1>1. levels' \in Levels /\ Shrunk(levels', levels)
  <2>1. CASE UNCHANGED levels
    BY <2>1 DEF TypeOK, Levels, Shrunk, Sublist
  <2>2. ASSUME NEW h \in Resting,
               levels' = [levels EXCEPT ![order[h].side][order[h].price].orders =
                            RemoveAt(@, Position(levels[order[h].side][order[h].price], h))]
        PROVE  levels' \in Levels /\ Shrunk(levels', levels)
    <3> DEFINE s == order[h].side
               p == order[h].price
               l == levels[s][p]
               i == Position(l, h)
               m == [l EXCEPT !.orders = RemoveAt(@, i)]
    <3>1. h \in Handle /\ Listed(l, h)
      <4>1. PICK t \in Side, q \in Prices : h \in Handle /\ Listed(levels[t][q], h)
        BY DEF Resting
      <4>2. order[h].side = t /\ order[h].price = q
        BY <4>1 DEF ListsSound, Listed
      <4>. QED  BY <4>1, <4>2
    <3>2. s \in Side /\ p \in Prices /\ l \in Level
      BY <3>1, OrderType DEF TypeOK
    <3>3. i \in DOMAIN l.orders
      BY <3>1, <3>2, PositionOfListed
    <3>4. levels' = [levels EXCEPT ![s][p] = m]
      BY <2>2
    <3>. HIDE DEF s, p, l, i
    <3>5. RemoveAt(l.orders, i) \in Seq(Nat) /\ Sublist(RemoveAt(l.orders, i), l.orders)
      BY <3>2, <3>3, RemoveAtElements DEF Level
    <3>6. m \in Level /\ m.live = l.live /\ Sublist(m.orders, l.orders)
      BY <3>2, <3>5 DEF Level
    <3>7. levels[s][p] = l
      BY DEF l
    <3>. HIDE DEF m
    <3>. QED  BY <3>2, <3>4, <3>6, <3>7, OneLevelShrinks DEF TypeOK, Levels
  <2>. QED  BY <2>1, <2>2 DEF RemoveDangling
<1>2. UNCHANGED <<order, orders, px, it, taker, trades, reported, withdrawn>> /\ pc' = "undefined"
  BY DEF RemoveDangling, frame
<1>3. TypeOK' /\ OrdersSound' /\ IteratorsSound'
  BY <1>1, <1>2 DEF TypeOK, OrdersSound, IteratorsSound, Levels
<1>4. ListsSound' /\ (ListsLive => ListsLive')
  BY <1>1, <1>2, ShrinkingKeeps
<1>. QED  BY <1>2, <1>3, <1>4 DEF Calm, CrossedOnlyWhileMatching

\* clear keeps the invariant.
LEMMA ClearKeeps ==
  ASSUME Shape, Clear
  PROVE  Shape' /\ (Calm => Calm')
<1> USE DEF Shape
<1>1. levels' \in Levels /\ \A s \in Side, p \in Prices : levels'[s][p] = NoLevel
  BY NoLevelType DEF Clear, Levels
<1>2. \A s \in Side, p \in Prices : DOMAIN levels'[s][p].orders = {} /\ ~levels'[s][p].live
  BY <1>1, NoLevelType
<1>3. Resting \subseteq Nat
  BY HandleType DEF Resting
<1>4. TypeOK' /\ OrdersSound'
  BY <1>1, <1>3, HandleType DEF Clear, TypeOK, OrdersSound, frame, Levels, NoOrder
<1>5. ListsSound' /\ ListsLive'
  BY <1>2 DEF ListsSound, ListsLive
<1>6. IteratorsSound' /\ CrossedOnlyWhileMatching'
  BY <1>2 DEF Clear, frame, IteratorsSound, CrossedOnlyWhileMatching, Crossed, Live, Side
<1>. QED  BY <1>4, <1>5, <1>6 DEF Calm

(***************************************************************************)
(* The loops.                                                              *)
(***************************************************************************)

\* The order under an iterator that is not at its end.
LEMMA UnderIterator ==
  ASSUME Shape, NEW s \in Side, px[s] \in Live(s), it[s] >= 1, ~AtEnd(s)
  PROVE  /\ px[s] \in Prices /\ levels[s][px[s]] \in Level
         /\ it[s] \in DOMAIN levels[s][px[s]].orders
         /\ levels[s][px[s]].orders[it[s]] = At(s)
         /\ At(s) \in Handle
         /\ order[At(s)].side = s /\ order[At(s)].price = px[s]
         /\ ListsLive => order[At(s)].remaining > 0
<1> DEFINE l == levels[s][px[s]]
<1>1. px[s] \in Prices /\ l \in Level /\ it[s] \in Nat
  BY DEF Shape, TypeOK, Live
<1>2. it[s] \in DOMAIN l.orders
  <2>1. it[s] \in 1..Len(l.orders)
    BY <1>1, LenProperties DEF AtEnd, Level
  <2>. QED  BY <1>1, <2>1, LenProperties DEF Level
<1>3. l.orders[it[s]] = At(s)
  BY DEF At
<1>. QED  BY <1>1, <1>2, <1>3 DEF Shape, ListsSound, ListsLive

\* Orders that only executed are the same orders; what is still listed of them
\* has quantity left if the filled ones are gone from the lists.
LEMMA ExecutionKeepsLive ==
  ASSUME Shape, ListsLive, Shrunk(levels', levels), NEW hs \in SUBSET Handle,
         \A g \in Handle \ hs : order'[g] = order[g],
         \A h \in hs : \A j \in DOMAIN levels'[order[h].side][order[h].price].orders :
           levels'[order[h].side][order[h].price].orders[j] = h => order'[h].remaining > 0
  PROVE  ListsLive'
<1> SUFFICES ASSUME NEW s \in Side, NEW p \in Prices
             PROVE  LET new == levels'[s][p].orders
                    IN  /\ \A i, j \in DOMAIN new : new[i] = new[j] => i = j
                        /\ \A i \in DOMAIN new : order'[new[i]].remaining > 0
  BY DEF ListsLive
<1> DEFINE new == levels'[s][p].orders
           old == levels[s][p].orders
<1>1. Sublist(new, old)
  BY DEF Shrunk
<1>2. /\ \A i, j \in DOMAIN old : old[i] = old[j] => i = j
      /\ \A i \in DOMAIN old : /\ old[i] \in Handle /\ order[old[i]].remaining > 0
                               /\ order[old[i]].side = s /\ order[old[i]].price = p
  BY DEF ListsLive, Shape, ListsSound
<1>3. ASSUME NEW i \in DOMAIN new
      PROVE  order'[new[i]].remaining > 0
  <2> DEFINE g == new[i]
  <2>1. /\ g \in Handle /\ order[g].remaining > 0
        /\ order[g].side = s /\ order[g].price = p
    <3>. HIDE DEF new, old
    <3>. QED  BY <1>1, <1>2 DEF Sublist
  <2>2. CASE g \in hs
    BY <2>1, <2>2
  <2>3. CASE g \notin hs
    BY <2>1, <2>3
  <2>. QED  BY <2>2, <2>3
<1>4. \A i, j \in DOMAIN new : new[i] = new[j] => i = j
  <2>. HIDE DEF new, old
  <2>. QED  BY <1>1, <1>2 DEF Sublist
<1>. QED  BY <1>3, <1>4

\* One iteration of process_market_order keeps the invariant.
LEMMA FillKeeps ==
  ASSUME Shape, Fill
  PROVE  Shape' /\ (Calm => Calm')
<1> DEFINE s == Book
           p == px[Book]
           l == levels[s][p]
           i == it[Book]
           h == At(Book)
           q == Lesser(taker.remaining, order[h].remaining)
           o == Execute(order[h], q)
           m == AfterFill(l, i, o)
<1>1. /\ pc = "fill" /\ pc' = "fill" /\ taker.remaining > 0 /\ ~AtEnd(s)
      /\ ~Throws(order[h], q)
      /\ order' = [order EXCEPT ![h] = o]
      /\ levels' = [levels EXCEPT ![s][p] = m]
      /\ it' = [it EXCEPT ![s] = IF o.status = "FILLED" THEN i ELSE i + 1]
      /\ taker' = [taker EXCEPT !.remaining = @ - q]
      /\ trades' = Append(trades, [buy |-> IF s = "BUY" THEN h ELSE NoOrder,
                                   sell |-> IF s = "SELL" THEN h ELSE NoOrder,
                                   price |-> p, quantity |-> q])
      /\ UNCHANGED <<orders, px, reported, withdrawn>>
  BY DEF Fill
<1>2. s \in Side /\ p \in Live(s) /\ i >= 1 /\ i \in Nat
  BY <1>1 DEF Shape, TypeOK, IteratorsSound, Book, Opposite, Side
<1>3. /\ p \in Prices /\ l \in Level /\ i \in DOMAIN l.orders /\ l.orders[i] = h
      /\ h \in Handle /\ order[h].side = s /\ order[h].price = p
  BY <1>1, <1>2, UnderIterator
<1>4. order[h] \in OrderObject /\ order[h].remaining \in Nat
  BY <1>3, OrderType DEF Shape
<1>5. taker.remaining \in Nat /\ q \in Nat /\ q <= taker.remaining
  BY <1>4 DEF Shape, TypeOK, Lesser
<1>. HIDE DEF h, q
<1>6. /\ o \in OrderObject /\ o.side = s /\ o.price = p
      /\ o.status = "FILLED" <=> o.remaining = 0
  BY <1>1, <1>3, <1>4, <1>5, ExecuteProperties
<1>. HIDE DEF o
<1>7. /\ m \in Level /\ m.live = l.live /\ Sublist(m.orders, l.orders)
      /\ (\A j, k \in DOMAIN l.orders : l.orders[j] = l.orders[k] => j = k)
           => \A j \in DOMAIN m.orders : m.orders[j] = h => o.remaining > 0
  BY <1>3, <1>6, FillProperties
<1>. HIDE DEF m
<1>8. /\ levels' \in Levels /\ Shrunk(levels', levels)
  BY <1>1, <1>2, <1>3, <1>7, OneLevelShrinks DEF Shape, TypeOK, Levels
<1>9. levels'[s][p] = m
  BY <1>1, <1>2, <1>3, <1>7, LevelUpdate DEF Shape, TypeOK
<1>10. /\ order' \in Seq(OrderObject) /\ Len(order') = Len(order)
       /\ order'[h] = o /\ \A g \in Handle \ {h} : order'[g] = order[g]
  BY <1>1, <1>3, <1>6, ExceptSeq DEF Shape, TypeOK, Handle
<1>11. \A g \in Handle : order'[g].side = order[g].side /\ order'[g].price = order[g].price
  BY <1>3, <1>6, <1>10
<1>12. ListsSound' /\ (~Crossed => ~Crossed')
  BY <1>8, <1>10, <1>11, ShrinkingKeeps DEF Shape
<1>13. TypeOK'
  <2>1. it' \in [Side -> Nat]
    BY <1>1, <1>2 DEF Shape, TypeOK
  <2>2. taker' \in [side : Side, remaining : Nat] /\ taker'.side = taker.side
    <3>1. taker.remaining - q \in Nat
      BY <1>5
    <3>2. taker \in [side : Side, remaining : Nat]
      BY DEF Shape, TypeOK
    <3>. QED  BY <1>1, <3>1, <3>2
  <2>3. h \in Nat
    BY <1>3, HandleType DEF Shape
  <2>4. trades' \in Seq(Trade)
    BY <1>1, <1>3, <1>5, <2>3, AppendProperties DEF Shape, TypeOK, Trade, NoOrder
  <2>. QED  BY <1>1, <1>8, <1>10, <2>1, <2>2, <2>4 DEF Shape, TypeOK, Levels
<1>14. OrdersSound'
  BY <1>1, <1>10 DEF Shape, OrdersSound
<1>15. IteratorsSound'
  <2>1. Book' = s
    BY <1>1 DEF Book, Shape, TypeOK
  <2>2. px'[s] = p /\ it'[s] >= 1
    BY <1>1, <1>2 DEF Shape, TypeOK
  <2>3. levels'[s][p].live /\ p \in Prices
    BY <1>2, <1>3, <1>7, <1>9 DEF Live
  <2>. HIDE DEF s, p
  <2>. QED  BY <1>1, <2>1, <2>2, <2>3 DEF IteratorsSound, Live
<1>16. ASSUME ListsLive PROVE ListsLive'
  <2>1. \A j, k \in DOMAIN l.orders : l.orders[j] = l.orders[k] => j = k
    BY <1>2, <1>3, <1>16 DEF ListsLive
  <2>2. \A j \in DOMAIN m.orders : m.orders[j] = h => o.remaining > 0
    BY <1>7, <2>1
  <2>. HIDE DEF s, p, l
  <2>3. \A g \in {h} : \A j \in DOMAIN levels'[order[g].side][order[g].price].orders :
          levels'[order[g].side][order[g].price].orders[j] = g => order'[g].remaining > 0
    BY <2>2, <1>3, <1>9, <1>10
  <2> DEFINE hs == {h}
  <2>4. hs \in SUBSET Handle /\ \A g \in Handle \ hs : order'[g] = order[g]
    BY <1>3, <1>10
  <2>5. \A g \in hs : \A j \in DOMAIN levels'[order[g].side][order[g].price].orders :
          levels'[order[g].side][order[g].price].orders[j] = g => order'[g].remaining > 0
    BY <2>3
  <2>. HIDE DEF hs
  <2>. QED  BY <1>8, <1>16, <2>4, <2>5, ExecutionKeepsLive
<1>. QED  BY <1>1, <1>12, <1>13, <1>14, <1>15, <1>16 DEF Shape, Calm, CrossedOnlyWhileMatching

\* One iteration of match_orders changes one level of each side.
LEMMA MatchPairKeeps ==
  ASSUME Shape, MatchPair
  PROVE  Shape' /\ (Calm => Calm')
<1> DEFINE pb == px["BUY"]
           pa == px["SELL"]
           lb == levels["BUY"][pb]
           la == levels["SELL"][pa]
           b == At("BUY")
           a == At("SELL")
           q == Lesser(order[b].remaining, order[a].remaining)
           bid == Execute(order[b], q)
           ask == Execute(order[a], q)
           mb == AfterFill(lb, it["BUY"], bid)
           ma == AfterFill(la, it["SELL"], ask)
<1>1. /\ pc = "pair" /\ pc' = "pair" /\ ~AtEnd("BUY") /\ ~AtEnd("SELL")
      /\ ~Throws(order[b], q) /\ ~Throws(order[a], q)
      /\ order' = [order EXCEPT ![b] = bid, ![a] = ask]
      /\ levels' = [levels EXCEPT !["BUY"][pb] = AfterFill(@, it["BUY"], bid),
                                  !["SELL"][pa] = AfterFill(@, it["SELL"], ask)]
      /\ it' = [s \in Side |-> IF (IF s = "BUY" THEN bid ELSE ask).status = "FILLED"
                               THEN it[s] ELSE it[s] + 1]
      /\ trades' = Append(trades, [buy |-> b, sell |-> a, price |-> pa, quantity |-> q])
      /\ UNCHANGED <<orders, px, taker, reported, withdrawn>>
  BY DEF MatchPair
<1>2. /\ "BUY" \in Side /\ "SELL" \in Side
      /\ \A s \in Side : px[s] \in Live(s) /\ it[s] \in Nat /\ it[s] >= 1
  BY <1>1 DEF Shape, TypeOK, IteratorsSound, Side
<1>3. /\ pb \in Prices /\ lb \in Level /\ it["BUY"] \in DOMAIN lb.orders /\ lb.orders[it["BUY"]] = b
      /\ b \in Handle /\ order[b].side = "BUY" /\ order[b].price = pb
  BY <1>1, <1>2, UnderIterator
<1>4. /\ pa \in Prices /\ la \in Level /\ it["SELL"] \in DOMAIN la.orders /\ la.orders[it["SELL"]] = a
      /\ a \in Handle /\ order[a].side = "SELL" /\ order[a].price = pa
  BY <1>1, <1>2, UnderIterator
<1>5. /\ order[b] \in OrderObject /\ order[a] \in OrderObject
      /\ order[b].remaining \in Nat /\ order[a].remaining \in Nat
  BY <1>3, <1>4, OrderType DEF Shape
<1>6. q \in Nat /\ a # b
  BY <1>3, <1>4, <1>5 DEF Lesser
<1>. HIDE DEF a, b, q
<1>7. /\ bid \in OrderObject /\ bid.side = "BUY" /\ bid.price = pb
      /\ bid.status = "FILLED" <=> bid.remaining = 0
  BY <1>1, <1>3, <1>5, <1>6, ExecuteProperties
<1>8. /\ ask \in OrderObject /\ ask.side = "SELL" /\ ask.price = pa
      /\ ask.status = "FILLED" <=> ask.remaining = 0
  BY <1>1, <1>4, <1>5, <1>6, ExecuteProperties
<1>. HIDE DEF bid, ask
<1>9. /\ mb \in Level /\ mb.live = lb.live /\ Sublist(mb.orders, lb.orders)
      /\ (\A j, k \in DOMAIN lb.orders : lb.orders[j] = lb.orders[k] => j = k)
           => \A j \in DOMAIN mb.orders : mb.orders[j] = b => bid.remaining > 0
  BY <1>3, <1>7, FillProperties
<1>10. /\ ma \in Level /\ ma.live = la.live /\ Sublist(ma.orders, la.orders)
       /\ (\A j, k \in DOMAIN la.orders : la.orders[j] = la.orders[k] => j = k)
            => \A j \in DOMAIN ma.orders : ma.orders[j] = a => ask.remaining > 0
  BY <1>4, <1>8, FillProperties
<1>11. /\ levels' \in Levels /\ Shrunk(levels', levels)
       /\ levels'["BUY"][pb] = mb /\ levels'["SELL"][pa] = ma
  <2>1. levels' = [levels EXCEPT !["BUY"][pb] = mb, !["SELL"][pa] = ma]
    BY <1>1
  <2>. HIDE DEF mb, ma
  <2>2. levels \in Levels
    BY DEF Shape, TypeOK, Levels
  <2>3. /\ mb.live => levels["BUY"][pb].live
        /\ Sublist(mb.orders, levels["BUY"][pb].orders)
        /\ ma.live => levels["SELL"][pa].live
        /\ Sublist(ma.orders, levels["SELL"][pa].orders)
    BY <1>9, <1>10
  <2>4. mb \in Level /\ ma \in Level /\ pb \in Prices /\ pa \in Prices
    BY <1>3, <1>4, <1>9, <1>10
  <2> DEFINE new == [levels EXCEPT !["BUY"][pb] = mb, !["SELL"][pa] = ma]
  <2>. HIDE DEF pb, pa, lb, la
  <2>5. new \in Levels /\ Shrunk(new, levels)
    BY <2>2, <2>3, <2>4, TwoLevelsShrink
  <2>6. new["BUY"][pb] = mb /\ new["SELL"][pa] = ma
    BY <2>2, <2>4 DEF Levels, Side
  <2>. HIDE DEF new
  <2>7. levels' = new
    BY <2>1 DEF new
  <2>. QED  BY <2>5, <2>6, <2>7
<1>. HIDE DEF mb, ma
<1>12. /\ order' \in Seq(OrderObject) /\ Len(order') = Len(order)
       /\ order'[b] = bid /\ order'[a] = ask
       /\ \A g \in Handle \ {a, b} : order'[g] = order[g]
  <2> DEFINE first == [order EXCEPT ![b] = bid]
  <2>1. /\ first \in Seq(OrderObject) /\ Len(first) = Len(order)
        /\ first[b] = bid /\ \A g \in Handle \ {b} : first[g] = order[g]
    BY <1>3, <1>7, ExceptSeq DEF Shape, TypeOK, Handle
  <2>2. order' = [first EXCEPT ![a] = ask]
    BY <1>1
  <2>. HIDE DEF first
  <2>3. /\ order' \in Seq(OrderObject) /\ Len(order') = Len(first)
        /\ order'[a] = ask /\ \A g \in Handle \ {a} : order'[g] = first[g]
    BY <2>1, <2>2, <1>4, <1>8, ExceptSeq DEF Handle
  <2>. QED  BY <2>1, <2>3, <1>3, <1>6
<1>13. \A g \in Handle : order'[g].side = order[g].side /\ order'[g].price = order[g].price
  BY <1>3, <1>4, <1>7, <1>8, <1>12
<1>14. ListsSound'
  BY <1>11, <1>12, <1>13, ShrinkingKeeps DEF Shape
<1>15. TypeOK'
  <2>1. it' \in [Side -> Nat]
    BY <1>1, <1>2
  <2>2. a \in Nat /\ b \in Nat
    BY <1>3, <1>4, HandleType DEF Shape
  <2>3. trades' \in Seq(Trade)
    BY <1>1, <1>4, <1>6, <2>2, AppendProperties DEF Shape, TypeOK, Trade
  <2>. QED  BY <1>1, <1>11, <1>12, <2>1, <2>3 DEF Shape, TypeOK, Levels
<1>16. OrdersSound'
  BY <1>1, <1>12 DEF Shape, OrdersSound
<1>17. IteratorsSound'
  <2>1. mb.live /\ ma.live
    BY <1>2, <1>9, <1>10 DEF Live
  <2>2. \A s \in Side : px'[s] \in Prices /\ levels'[s][px'[s]].live
    BY <1>1, <1>3, <1>4, <1>11, <2>1 DEF Side
  <2>3. \A s \in Side : it'[s] >= 1
    BY <1>1, <1>2
  <2>. QED  BY <1>1, <2>2, <2>3 DEF IteratorsSound, Live
<1>18. ASSUME ListsLive PROVE ListsLive'
  <2> DEFINE hs == {a, b}
  <2>1. /\ \A j \in DOMAIN mb.orders : mb.orders[j] = b => bid.remaining > 0
        /\ \A j \in DOMAIN ma.orders : ma.orders[j] = a => ask.remaining > 0
    <3>1. /\ \A j, k \in DOMAIN lb.orders : lb.orders[j] = lb.orders[k] => j = k
          /\ \A j, k \in DOMAIN la.orders : la.orders[j] = la.orders[k] => j = k
      BY <1>2, <1>3, <1>4, <1>18 DEF ListsLive
    <3>. QED  BY <3>1, <1>9, <1>10
  <2>2. hs \in SUBSET Handle /\ \A g \in Handle \ hs : order'[g] = order[g]
    BY <1>3, <1>4, <1>12
  <2>. HIDE DEF pa, pb, la, lb
  <2>3. \A g \in hs : \A j \in DOMAIN levels'[order[g].side][order[g].price].orders :
          levels'[order[g].side][order[g].price].orders[j] = g => order'[g].remaining > 0
    BY <2>1, <1>3, <1>4, <1>11, <1>12
  <2>. HIDE DEF hs
  <2>. QED  BY <1>11, <1>18, <2>2, <2>3, ExecutionKeepsLive
<1>. QED  BY <1>1, <1>14, <1>15, <1>16, <1>17, <1>18 DEF Shape, Calm, CrossedOnlyWhileMatching

\* Taking the next levels, or leaving the emptied ones.
LEMMA EnterLevelsKeeps ==
  ASSUME Shape, EnterLevels
  PROVE  Shape' /\ (Calm => Calm')
<1> USE DEF EnterLevels
<1>1. \A s \in Side : px'[s] \in Live(s) /\ it'[s] >= 1
  BY DEF Side, Best
<1>2. px' \in [Side -> Prices \cup {NoPrice}] /\ it' \in [Side -> Nat]
  BY DEF Side, Live
<1>3. TypeOK' /\ OrdersSound' /\ ListsSound'
  BY <1>2 DEF Shape, TypeOK, OrdersSound, ListsSound, Handle
<1>4. IteratorsSound'
  BY <1>1 DEF IteratorsSound, Live
<1>5. Calm => Calm'
  BY DEF Calm, ListsLive, CrossedOnlyWhileMatching
<1>. QED  BY <1>3, <1>4, <1>5 DEF Shape

\* Taking the best level of the side a market order takes from keeps it.
LEMMA EnterLevelKeeps ==
  ASSUME Shape, EnterLevel
  PROVE  Shape' /\ (Calm => Calm')
<1> USE DEF EnterLevel
<1>1. Book' = Book /\ Book \in Side
  BY DEF Book, Opposite, Side
<1>2. px'[Book] \in Live(Book) /\ it'[Book] >= 1
  BY <1>1 DEF Best, Shape, TypeOK
<1>3. px' \in [Side -> Prices \cup {NoPrice}] /\ it' \in [Side -> Nat]
  BY <1>1 DEF Live, Shape, TypeOK
<1>4. TypeOK' /\ OrdersSound' /\ ListsSound'
  BY <1>3 DEF Shape, TypeOK, OrdersSound, ListsSound, Handle
<1>5. IteratorsSound'
  BY <1>1, <1>2 DEF IteratorsSound, Live
<1>6. Calm => Calm'
  BY DEF Calm, ListsLive, CrossedOnlyWhileMatching, Crossed, Live
<1>. QED  BY <1>4, <1>5, <1>6 DEF Shape

\* Erasing the levels that the inner loop of match_orders emptied keeps it.
LEMMA LeaveLevelsKeeps ==
  ASSUME Shape, LeaveLevels
  PROVE  Shape' /\ (Calm => Calm')
<1> DEFINE pb == px["BUY"]
           pa == px["SELL"]
           mb == Trim(levels["BUY"][pb])
           ma == Trim(levels["SELL"][pa])
<1>1. /\ pc = "pair" /\ pc' = "match"
      /\ levels' = [levels EXCEPT !["BUY"][pb] = Trim(@), !["SELL"][pa] = Trim(@)]
      /\ px' = [s \in Side |-> NoPrice]
      /\ it' = [s \in Side |-> 1]
      /\ UNCHANGED <<order, orders, taker, trades, reported, withdrawn>>
  BY DEF LeaveLevels
<1>2. levels' = [levels EXCEPT !["BUY"][pb] = mb, !["SELL"][pa] = ma]
  BY <1>1
<1>3. pb \in Prices /\ pa \in Prices /\ levels \in Levels
  BY <1>1 DEF Shape, TypeOK, IteratorsSound, Live, Side, Levels
<1>4. levels["BUY"][pb] \in Level /\ levels["SELL"][pa] \in Level
  BY <1>3 DEF Levels, Side
<1>5. /\ mb \in Level /\ (mb.live => levels["BUY"][pb].live)
      /\ Sublist(mb.orders, levels["BUY"][pb].orders)
      /\ ma \in Level /\ (ma.live => levels["SELL"][pa].live)
      /\ Sublist(ma.orders, levels["SELL"][pa].orders)
  BY <1>4, TrimProperties DEF Sublist
<1> DEFINE new == [levels EXCEPT !["BUY"][pb] = mb, !["SELL"][pa] = ma]
<1>. HIDE DEF mb, ma, pb, pa
<1>6. new \in Levels /\ Shrunk(new, levels)
  BY <1>3, <1>5, TwoLevelsShrink
<1>. HIDE DEF new
<1>7. levels' \in Levels /\ Shrunk(levels', levels)
  BY <1>2, <1>6 DEF new
<1>8. ListsSound' /\ (~Crossed => ~Crossed') /\ (ListsLive => ListsLive')
  BY <1>1, <1>7, ShrinkingKeeps DEF Shape
<1>9. TypeOK' /\ OrdersSound' /\ IteratorsSound'
  BY <1>1, <1>7, NoIterators DEF Shape, TypeOK, OrdersSound, Levels
<1>. QED  BY <1>1, <1>8, <1>9 DEF Shape, Calm, CrossedOnlyWhileMatching

\* Erasing the level that process_market_order emptied keeps it.
LEMMA LeaveLevelKeeps ==
  ASSUME Shape, LeaveLevel
  PROVE  Shape' /\ (Calm => Calm')
<1> DEFINE s == Book
           p == px[Book]
           m == Trim(levels[s][p])
<1>1. /\ pc = "fill" /\ pc' = "market"
      /\ levels' = [levels EXCEPT ![s][p] = m]
      /\ px' = [u \in Side |-> NoPrice]
      /\ it' = [u \in Side |-> 1]
      /\ UNCHANGED <<order, orders, taker, trades, reported, withdrawn>>
  BY DEF LeaveLevel
<1>2. s \in Side /\ p \in Prices /\ levels \in Levels
  BY <1>1 DEF Shape, TypeOK, IteratorsSound, Live, Levels, Book, Opposite, Side
<1>3. levels[s][p] \in Level
  BY <1>2 DEF Levels
<1>4. /\ m \in Level /\ (m.live => levels[s][p].live)
      /\ Sublist(m.orders, levels[s][p].orders)
  BY <1>3, TrimProperties DEF Sublist
<1>. HIDE DEF s, p, m
<1>5. levels' \in Levels /\ Shrunk(levels', levels)
  BY <1>1, <1>2, <1>4, OneLevelShrinks
<1>6. ListsSound' /\ (~Crossed => ~Crossed') /\ (ListsLive => ListsLive')
  BY <1>1, <1>5, ShrinkingKeeps DEF Shape
<1>7. TypeOK' /\ OrdersSound' /\ IteratorsSound'
  BY <1>1, <1>5, NoIterators DEF Shape, TypeOK, OrdersSound, Levels
<1>. QED  BY <1>1, <1>6, <1>7 DEF Shape, Calm, CrossedOnlyWhileMatching

\* The ends of the loops. Only MatchDone has to show that the book is not
\* crossed: it is the loop's own condition.
LEMMA MatchDoneKeeps ==
  ASSUME Shape, MatchDone
  PROVE  Shape' /\ (Calm => Calm')
<1> USE DEF MatchDone, frame
<1>1. TypeOK' /\ OrdersSound' /\ ListsSound' /\ IteratorsSound'
  BY DEF Shape, TypeOK, OrdersSound, ListsSound, Handle, IteratorsSound
<1>2. Calm => Calm'
  BY DEF Calm, ListsLive, CrossedOnlyWhileMatching, Crossed, Live
<1>. QED  BY <1>1, <1>2 DEF Shape

\* The end of process_market_order's loop keeps it.
LEMMA MarketDoneKeeps ==
  ASSUME Shape, MarketDone
  PROVE  Shape' /\ (Calm => Calm')
<1> USE DEF MarketDone
<1>1. TypeOK' /\ OrdersSound' /\ ListsSound' /\ IteratorsSound'
  BY NoIterators DEF Shape, TypeOK, OrdersSound, ListsSound, Handle
<1>2. Calm => Calm'
  BY DEF Calm, ListsLive, CrossedOnlyWhileMatching, Crossed, Live
<1>. QED  BY <1>1, <1>2 DEF Shape

\* An exception leaves the book as it is. It needs an order with nothing left.
LEMMA UnwindKeeps ==
  ASSUME Shape, Unwind
  PROVE  Shape'
<1> USE DEF Unwind
<1>1. trades' \in Seq(Trade) /\ taker' \in [side : Side, remaining : Nat]
  BY EmptySeq DEF NoTaker, Side
<1>2. TypeOK' /\ OrdersSound' /\ ListsSound' /\ IteratorsSound'
  BY <1>1, NoIterators DEF Shape, TypeOK, OrdersSound, ListsSound, Handle
<1>. QED  BY <1>2 DEF Shape

\* The exception out of match_orders keeps Shape, and cannot happen in Calm.
LEMMA MatchThrowsKeeps ==
  ASSUME Shape, MatchThrows
  PROVE  Shape' /\ ~ListsLive
<1>1. Shape'
  BY UnwindKeeps DEF MatchThrows
<1>2. ASSUME ListsLive PROVE FALSE
  <2>1. /\ "BUY" \in Side /\ "SELL" \in Side
        /\ \A s \in Side : px[s] \in Live(s) /\ it[s] >= 1
    BY DEF Shape, IteratorsSound, Side, MatchThrows
  <2>2. order[At("BUY")].remaining > 0 /\ order[At("SELL")].remaining > 0
    BY <1>2, <2>1, UnderIterator DEF MatchThrows
  <2>3. order[At("BUY")].remaining \in Nat /\ order[At("SELL")].remaining \in Nat
    BY <2>1, UnderIterator, OrderType DEF MatchThrows, Shape
  <2>. QED  BY <2>2, <2>3 DEF MatchThrows, Lesser
<1>. QED  BY <1>1, <1>2

\* The exception out of process_market_order keeps Shape, and cannot happen in
\* Calm.
LEMMA FillThrowsKeeps ==
  ASSUME Shape, FillThrows
  PROVE  Shape' /\ ~ListsLive
<1>1. Shape'
  BY UnwindKeeps DEF FillThrows
<1>2. ASSUME ListsLive PROVE FALSE
  <2>1. Book \in Side /\ px[Book] \in Live(Book) /\ it[Book] >= 1
    BY DEF Shape, TypeOK, IteratorsSound, Book, Opposite, Side, FillThrows
  <2>2. order[At(Book)].remaining > 0 /\ order[At(Book)].remaining \in Nat
    BY <1>2, <2>1, UnderIterator, OrderType DEF FillThrows, Shape
  <2>. QED  BY <2>2 DEF FillThrows
<1>. QED  BY <1>1, <1>2

\* Giving a trade to the callbacks keeps the invariant.
LEMMA NotifyKeeps ==
  ASSUME Shape, Notify
  PROVE  Shape' /\ (Calm => Calm')
<1> USE DEF Notify, frame
<1>1. trades \in Seq(Trade) /\ reported \in [1..MaxOrders -> Nat]
  BY DEF Shape, TypeOK
<1>2. Head(trades) \in Trade /\ trades' \in Seq(Trade)
  BY <1>1, HeadTailProperties
<1>3. reported' \in [1..MaxOrders -> Nat]
  BY <1>1, <1>2 DEF Trade
<1>4. TypeOK' /\ OrdersSound' /\ ListsSound' /\ IteratorsSound'
  <2>1. TypeOK'
    BY <1>2, <1>3 DEF Shape, TypeOK
  <2>2. OrdersSound' /\ ListsSound'
    BY DEF Shape, OrdersSound, ListsSound, Handle
  <2>3. IteratorsSound'
    BY DEF IteratorsSound
  <2>. QED  BY <2>1, <2>2, <2>3
<1>5. ListsLive => ListsLive'
  BY DEF ListsLive
<1>6. CrossedOnlyWhileMatching => CrossedOnlyWhileMatching'
  BY DEF CrossedOnlyWhileMatching, Crossed, Live
<1>. QED  BY <1>4, <1>5, <1>6 DEF Shape, Calm

\* Returning from process_order keeps the invariant.
LEMMA ReturnKeeps ==
  ASSUME Shape, Return
  PROVE  Shape' /\ (Calm => Calm')
<1> USE DEF Return
<1>1. TypeOK' /\ OrdersSound' /\ ListsSound' /\ IteratorsSound'
  <2>1. NoTaker \in [side : Side, remaining : Nat]
    BY DEF NoTaker, Side
  <2>2. TypeOK'
    BY <2>1 DEF Shape, TypeOK
  <2>3. OrdersSound' /\ ListsSound'
    BY DEF Shape, OrdersSound, ListsSound, Handle
  <2>4. IteratorsSound'
    BY DEF IteratorsSound
  <2>. QED  BY <2>2, <2>3, <2>4
<1>2. ListsLive => ListsLive'
  BY DEF ListsLive
<1>3. CrossedOnlyWhileMatching => CrossedOnlyWhileMatching'
  BY DEF CrossedOnlyWhileMatching, Crossed, Live
<1>. QED  BY <1>1, <1>2, <1>3 DEF Shape, Calm

(***************************************************************************)
(* The theorems.                                                           *)
(***************************************************************************)

\* Every step keeps Shape, and with positive quantities Calm as well.
LEMMA NextKeeps ==
  ASSUME Shape, [Next]_vars
  PROVE  Shape' /\ (PositiveQuantities /\ Calm => Calm')
<1>1. ASSUME NEW id \in OrderIds, NEW s \in Side, NEW q \in Quantities, NEW p \in Prices,
             SubmitLimit(id, s, q, p)
      PROVE  Shape' /\ (PositiveQuantities /\ Calm => Calm')
  BY <1>1, SubmitLimitKeeps
<1>2. ASSUME NEW s \in Side, NEW q \in Quantities, SubmitMarket(s, q)
      PROVE  Shape' /\ (Calm => Calm')
  BY <1>2, SubmitMarketKeeps
<1>3. ASSUME NEW id \in OrderIds, Cancel(id)
      PROVE  Shape' /\ (Calm => Calm')
  BY <1>3, CancelKeeps
<1>4. ASSUME NEW id \in OrderIds, NEW r \in Revisions, Modify(id, r[1], r[2])
      PROVE  Shape' /\ (PositiveQuantities /\ Calm => Calm')
  BY <1>4, ModifyKeeps
<1>5. ASSUME NEW id \in OrderIds, RemoveDangling(id)
      PROVE  Shape' /\ (Calm => Calm')
  BY <1>5, RemoveDanglingKeeps
<1>6. CASE Call
  BY <1>1, <1>2, <1>3, <1>4, <1>5, <1>6, ClearKeeps DEF Call
<1>7. CASE Proceed
  BY <1>7, EnterLevelsKeeps, MatchDoneKeeps, MatchPairKeeps, MatchThrowsKeeps,
     LeaveLevelsKeeps, EnterLevelKeeps, MarketDoneKeeps, FillKeeps, FillThrowsKeeps,
     LeaveLevelKeeps, NotifyKeeps, ReturnKeeps DEF Proceed, Calm
<1>8. CASE UNCHANGED vars
  <2>1. UNCHANGED <<order, orders, levels, pc, px, it, taker, trades, reported, withdrawn>>
    BY <1>8 DEF vars, frame
  <2>2. Shape'
    BY <2>1 DEF Shape, TypeOK, OrdersSound, ListsSound, Handle, IteratorsSound, Live, Book
  <2>3. Calm => Calm'
    BY <2>1 DEF Calm, ListsLive, CrossedOnlyWhileMatching, Crossed, Live
  <2>. QED  BY <2>2, <2>3
<1>. QED  BY <1>6, <1>7, <1>8 DEF Next

\* Every variable keeps its type, whatever orders, cancellations and clears reach
\* the book, and also after an exception or an undefined removal: the lists name
\* existing orders of their own side and price, and the iterators of the loops
\* designate levels that exist.
THEOREM TypeCorrect == Spec => []TypeOK
<1>1. Init => Shape
  BY InitHolds
<1>2. Shape /\ [Next]_vars => Shape'
  BY NextKeeps
<1>3. Shape => TypeOK
  BY DEF Shape
<1>. QED  BY <1>1, <1>2, <1>3, PTL DEF Spec

\* The inductive invariant: with positive quantities no list has a filled order,
\* or an order twice, and the book is crossed only while match_orders is at work.
THEOREM BookInvariant == PositiveQuantities => (Spec => []BookInv)
<1> SUFFICES ASSUME PositiveQuantities PROVE Spec => []BookInv
  OBVIOUS
<1>1. Init => BookInv
  BY InitHolds DEF Shape, Calm, BookInv
<1>2. BookInv /\ [Next]_vars => BookInv'
  BY NextKeeps DEF Shape, Calm, BookInv
<1>. QED  BY <1>1, <1>2, PTL DEF Spec

\* When quantities are positive, no call leaves a crossed book behind.
THEOREM NotCrossed == PositiveQuantities => (Spec => []NotCrossedBetweenCalls)
<1>1. BookInv => NotCrossedBetweenCalls
  BY DEF BookInv, CrossedOnlyWhileMatching, NotCrossedBetweenCalls
<1>. QED  BY <1>1, BookInvariant, PTL

(***************************************************************************)
(* Ids. When no id is used twice, every resting order answers to its id.    *)
(* The lemmas are stated for the steps of the book, so that ExchangeProofs  *)
(* can use them in the composition.                                        *)
(***************************************************************************)

IdsUnique == \A g, h \in Handle : order[g].id = order[h].id => g = h

FilledSound == \A h \in Handle : order[h].status = "FILLED" => order[h].remaining = 0

\* AnswersToId, said of the lists instead of the resting orders.
ListsAnswer ==
  \A s \in Side, p \in Prices : \A i \in DOMAIN levels[s][p].orders :
    LET h == levels[s][p].orders[i]
    IN  /\ levels[s][p].live
        /\ orders[order[h].id] = h
        /\ levels[s][p].order_map[order[h].id] = h

\* The two kinds of map lead from an id to an order with that id.
MapsSound ==
  \A id \in OrderIds :
    /\ orders[id] # NoOrder => orders[id] \in Handle /\ order[orders[id]].id = id
    /\ \A s \in Side, p \in Prices :
         levels[s][p].order_map[id] # NoOrder =>
           /\ levels[s][p].order_map[id] \in Handle
           /\ order[levels[s][p].order_map[id]].id = id

Ids == IdsUnique /\ FilledSound /\ (pc # "undefined" => ListsAnswer /\ MapsSound)

\* What the two invariants say of one listed order.
LEMMA ListedAnswers ==
  ASSUME Shape, ListsAnswer, NEW s \in Side, NEW p \in Prices,
         NEW i \in DOMAIN levels[s][p].orders, NEW h, levels[s][p].orders[i] = h
  PROVE  /\ h \in Handle /\ order[h].side = s /\ order[h].price = p
         /\ levels[s][p].live /\ orders[order[h].id] = h
         /\ levels[s][p].order_map[order[h].id] = h
<1>1. h \in Handle /\ order[h].side = s /\ order[h].price = p
  BY DEF Shape, ListsSound
<1>2. /\ levels[s][p].live /\ orders[order[h].id] = h
      /\ levels[s][p].order_map[order[h].id] = h
  BY DEF ListsAnswer
<1>. QED  BY <1>1, <1>2

(***************************************************************************)
(* The matching loops.                                                     *)
(***************************************************************************)

\* m is l with elements taken out of its list, or nothing at all.
Thinned(m, l) ==
  /\ \A id \in OrderIds : m.order_map[id] \in {l.order_map[id], NoOrder}
  /\ \A i \in DOMAIN m.orders :
       /\ m.live = l.live /\ m.order_map = l.order_map
       /\ \E k \in DOMAIN l.orders : m.orders[i] = l.orders[k]

\* What every step of the loops leaves alone.
Matched ==
  /\ Len(order') = Len(order) /\ orders' = orders
  /\ \A g \in Handle : /\ order'[g].id = order[g].id
                       /\ order'[g] = order[g] \/ (order'[g].status = "FILLED" => order'[g].remaining = 0)
  /\ \A s \in Side, p \in Prices : Thinned(levels'[s][p], levels[s][p])
  /\ pc = "undefined" => pc' = "undefined"

\* Such a step keeps the ids sound.
LEMMA MatchedKeepsIds ==
  ASSUME Shape, Ids, Matched
  PROVE  Ids'
<1>1. IdsUnique' /\ FilledSound'
  BY DEF Ids, IdsUnique, FilledSound, Matched, Handle
<1>2. ASSUME pc' # "undefined", NEW s \in Side, NEW p \in Prices,
             NEW i \in DOMAIN levels'[s][p].orders
      PROVE  LET h == levels'[s][p].orders[i]
             IN  /\ levels'[s][p].live
                 /\ orders'[order'[h].id] = h
                 /\ levels'[s][p].order_map[order'[h].id] = h
  <2>0. pc # "undefined"
    BY <1>2 DEF Matched
  <2>1. ListsAnswer
    BY <2>0 DEF Ids
  <2>2. /\ levels'[s][p].live = levels[s][p].live
        /\ levels'[s][p].order_map = levels[s][p].order_map
    BY <1>2 DEF Matched, Thinned
  <2>3. PICK k \in DOMAIN levels[s][p].orders : levels'[s][p].orders[i] = levels[s][p].orders[k]
    BY <1>2 DEF Matched, Thinned
  <2> DEFINE h == levels[s][p].orders[k]
  <2>4. h \in Handle
    BY DEF Shape, ListsSound
  <2>5. levels[s][p].live /\ orders[order[h].id] = h /\ levels[s][p].order_map[order[h].id] = h
    BY <2>1 DEF ListsAnswer
  <2>. HIDE DEF h
  <2>6. order'[h].id = order[h].id /\ orders' = orders
    BY <2>4 DEF Matched
  <2>. QED  BY <2>2, <2>3, <2>5, <2>6 DEF h
<1>3. pc' # "undefined" => ListsAnswer'
  BY <1>2 DEF ListsAnswer
<1>4. ASSUME pc' # "undefined" PROVE MapsSound'
  <2>1. pc # "undefined"
    BY <1>4 DEF Matched
  <2>2. MapsSound
    BY <2>1 DEF Ids
  <2>3. Handle' = Handle /\ orders' = orders /\ \A g \in Handle : order'[g].id = order[g].id
    BY DEF Matched, Handle
  <2>4. \A id \in OrderIds, s \in Side, p \in Prices :
          levels'[s][p].order_map[id] \in {levels[s][p].order_map[id], NoOrder}
    BY DEF Matched, Thinned
  <2>. QED  BY <2>2, <2>3, <2>4 DEF MapsSound
<1>. QED  BY <1>1, <1>3, <1>4 DEF Ids

\* Steps that leave the orders and the levels alone.
LEMMA NothingMatched ==
  ASSUME UNCHANGED <<order, orders, levels>>, pc = "undefined" => pc' = "undefined"
  PROVE  Matched
BY DEF Matched, Thinned

\* Erasing what was filled thins a level; erasing an emptied level does.
LEMMA AfterFillThins ==
  ASSUME NEW l \in Level, NEW i \in DOMAIN l.orders, NEW o \in OrderObject
  PROVE  Thinned(AfterFill(l, i, o), l)
<1>1. CASE o.status = "FILLED"
  <2> DEFINE r == RemoveAt(l.orders, i)
  <2>1. Sublist(r, l.orders)
    BY RemoveAtElements DEF Level
  <2>2. AfterFill(l, i, o) = [l EXCEPT !.orders = r]
    BY <1>1 DEF AfterFill
  <2>. HIDE DEF r
  <2>3. /\ AfterFill(l, i, o).orders = r /\ AfterFill(l, i, o).live = l.live
        /\ AfterFill(l, i, o).order_map = l.order_map
    BY <2>2 DEF Level
  <2>. QED  BY <2>1, <2>3 DEF Thinned, Sublist
<1>2. CASE o.status # "FILLED"
  BY <1>2 DEF AfterFill, Thinned
<1>. QED  BY <1>1, <1>2

\* Trimming only takes orders away.
LEMMA TrimThins == ASSUME NEW l \in Level PROVE Thinned(Trim(l), l)
<1>1. CASE l.orders = << >>
  <2>1. Trim(l).orders = << >>
    BY <1>1, TrimProperties
  <2>2. \A id \in OrderIds : Trim(l).order_map[id] = NoOrder
    BY <1>1 DEF Trim, NoLevel
  <2>. QED  BY <2>1, <2>2 DEF Thinned
<1>2. CASE l.orders # << >>
  BY <1>2 DEF Trim, Thinned
<1>. QED  BY <1>1, <1>2

\* Thinning one level, or one of each side, thins every level.
LEMMA ThinnedLevels ==
  ASSUME NEW lv \in Levels, NEW s \in Side, NEW p \in Prices, NEW m \in Level,
         Thinned(m, lv[s][p])
  PROVE  \A t \in Side, q \in Prices : Thinned([lv EXCEPT ![s][p] = m][t][q], lv[t][q])
<1> DEFINE new == [lv EXCEPT ![s][p] = m]
<1>1. /\ new[s][p] = m
      /\ \A t \in Side, q \in Prices : t # s \/ q # p => new[t][q] = lv[t][q]
  BY LevelUpdate DEF Levels
<1>. HIDE DEF new
<1>2. \A t \in Side, q \in Prices : Thinned(new[t][q], lv[t][q])
  BY <1>1 DEF Thinned
<1>. QED  BY <1>2 DEF new

\* A level thinned on either side thins the book.
LEMMA ThinnedPair ==
  ASSUME NEW lv \in Levels, NEW b \in Prices, NEW a \in Prices, NEW mb \in Level, NEW ma \in Level,
         Thinned(mb, lv["BUY"][b]), Thinned(ma, lv["SELL"][a])
  PROVE  LET new == [lv EXCEPT !["BUY"][b] = mb, !["SELL"][a] = ma]
         IN  \A t \in Side, q \in Prices : Thinned(new[t][q], lv[t][q])
<1> DEFINE one == [lv EXCEPT !["BUY"][b] = mb]
           new == [one EXCEPT !["SELL"][a] = ma]
<1>1. "BUY" \in Side /\ "SELL" \in Side /\ "BUY" # "SELL"
  BY DEF Side
<1>2. one \in Levels /\ \A t \in Side, q \in Prices : Thinned(one[t][q], lv[t][q])
  BY <1>1, ThinnedLevels, LevelUpdate DEF Levels
<1>3. one["SELL"][a] = lv["SELL"][a]
  BY <1>1 DEF Levels
<1>. HIDE DEF one
<1>4. /\ new["SELL"][a] = ma
      /\ \A t \in Side, q \in Prices : t # "SELL" \/ q # a => new[t][q] = one[t][q]
  BY <1>1, <1>2, LevelUpdate DEF Levels
<1>. HIDE DEF new
<1>5. \A t \in Side, q \in Prices : Thinned(new[t][q], lv[t][q])
  BY <1>1, <1>2, <1>4
<1>. QED  BY <1>5 DEF new, one

\* Executing an order keeps its id.
LEMMA ExecuteId ==
  ASSUME NEW o \in OrderObject, NEW q \in Nat
  PROVE  Execute(o, q).id = o.id
BY DEF Execute, OrderObject

\* One iteration of process_market_order.
LEMMA FillMatched ==
  ASSUME Shape, Fill
  PROVE  Matched
<1> DEFINE s == Book
           p == px[Book]
           l == levels[s][p]
           i == it[Book]
           h == At(Book)
           q == Lesser(taker.remaining, order[h].remaining)
           o == Execute(order[h], q)
           m == AfterFill(l, i, o)
<1>1. /\ pc = "fill" /\ pc' = "fill" /\ ~AtEnd(s) /\ ~Throws(order[h], q)
      /\ order' = [order EXCEPT ![h] = o]
      /\ levels' = [levels EXCEPT ![s][p] = m]
      /\ orders' = orders
  BY DEF Fill
<1>2. s \in Side /\ p \in Live(s) /\ i >= 1
  BY <1>1 DEF Shape, TypeOK, IteratorsSound, Book, Opposite, Side
<1>3. /\ p \in Prices /\ l \in Level /\ i \in DOMAIN l.orders /\ h \in Handle
  BY <1>1, <1>2, UnderIterator
<1>4. order[h] \in OrderObject /\ order[h].remaining \in Nat
  BY <1>3, OrderType DEF Shape
<1>5. q \in Nat
  BY <1>4 DEF Shape, TypeOK, Lesser
<1>. HIDE DEF h, q
<1>6. /\ o \in OrderObject /\ o.id = order[h].id
      /\ o.status = "FILLED" <=> o.remaining = 0
  BY <1>1, <1>4, <1>5, ExecuteProperties, ExecuteId
<1>. HIDE DEF o
<1>7. m \in Level /\ Thinned(m, l)
  BY <1>3, <1>6, AfterFillProperties, AfterFillThins
<1>. HIDE DEF m, s, p
<1>8. \A t \in Side, u \in Prices : Thinned(levels'[t][u], levels[t][u])
  BY <1>1, <1>2, <1>3, <1>7, ThinnedLevels DEF Shape, TypeOK, Levels
<1>9. /\ Len(order') = Len(order)
      /\ order'[h] = o /\ \A g \in Handle \ {h} : order'[g] = order[g]
  BY <1>1, <1>3, <1>6, ExceptSeq DEF Shape, TypeOK, Handle
<1>10. \A g \in Handle : /\ order'[g].id = order[g].id
                         /\ order'[g] = order[g] \/ (order'[g].status = "FILLED" => order'[g].remaining = 0)
  BY <1>6, <1>9
<1>. QED  BY <1>1, <1>8, <1>9, <1>10 DEF Matched

\* One iteration of match_orders.
LEMMA MatchPairMatched ==
  ASSUME Shape, MatchPair
  PROVE  Matched
<1> DEFINE pb == px["BUY"]
           pa == px["SELL"]
           lb == levels["BUY"][pb]
           la == levels["SELL"][pa]
           b == At("BUY")
           a == At("SELL")
           q == Lesser(order[b].remaining, order[a].remaining)
           bid == Execute(order[b], q)
           ask == Execute(order[a], q)
           mb == AfterFill(lb, it["BUY"], bid)
           ma == AfterFill(la, it["SELL"], ask)
<1>1. /\ pc = "pair" /\ pc' = "pair" /\ ~AtEnd("BUY") /\ ~AtEnd("SELL")
      /\ ~Throws(order[b], q) /\ ~Throws(order[a], q)
      /\ order' = [order EXCEPT ![b] = bid, ![a] = ask]
      /\ levels' = [levels EXCEPT !["BUY"][pb] = AfterFill(@, it["BUY"], bid),
                                  !["SELL"][pa] = AfterFill(@, it["SELL"], ask)]
      /\ orders' = orders
  BY DEF MatchPair
<1>2. /\ "BUY" \in Side /\ "SELL" \in Side
      /\ \A s \in Side : px[s] \in Live(s) /\ it[s] \in Nat /\ it[s] >= 1
  BY <1>1 DEF Shape, TypeOK, IteratorsSound, Side
<1>3. /\ pb \in Prices /\ lb \in Level /\ it["BUY"] \in DOMAIN lb.orders
      /\ b \in Handle /\ order[b].side = "BUY"
  BY <1>1, <1>2, UnderIterator
<1>4. /\ pa \in Prices /\ la \in Level /\ it["SELL"] \in DOMAIN la.orders
      /\ a \in Handle /\ order[a].side = "SELL"
  BY <1>1, <1>2, UnderIterator
<1>5. /\ order[b] \in OrderObject /\ order[a] \in OrderObject
      /\ order[b].remaining \in Nat /\ order[a].remaining \in Nat
  BY <1>3, <1>4, OrderType DEF Shape
<1>6. q \in Nat /\ a # b
  BY <1>3, <1>4, <1>5 DEF Lesser
<1>. HIDE DEF a, b, q
<1>7. /\ bid \in OrderObject /\ bid.id = order[b].id
      /\ bid.status = "FILLED" <=> bid.remaining = 0
      /\ ask \in OrderObject /\ ask.id = order[a].id
      /\ ask.status = "FILLED" <=> ask.remaining = 0
  BY <1>1, <1>5, <1>6, ExecuteProperties, ExecuteId
<1>. HIDE DEF bid, ask
<1>8. /\ mb \in Level /\ Thinned(mb, lb)
      /\ ma \in Level /\ Thinned(ma, la)
  BY <1>3, <1>4, <1>7, AfterFillProperties, AfterFillThins
<1>9. levels' = [levels EXCEPT !["BUY"][pb] = mb, !["SELL"][pa] = ma]
  BY <1>1
<1>. HIDE DEF mb, ma, pb, pa
<1>10. \A t \in Side, u \in Prices : Thinned(levels'[t][u], levels[t][u])
  BY <1>3, <1>4, <1>8, <1>9, ThinnedPair DEF Shape, TypeOK, Levels
<1>11. /\ Len(order') = Len(order) /\ order'[b] = bid /\ order'[a] = ask
       /\ \A g \in Handle \ {a, b} : order'[g] = order[g]
  <2> DEFINE first == [order EXCEPT ![b] = bid]
  <2>1. /\ first \in Seq(OrderObject) /\ Len(first) = Len(order)
        /\ first[b] = bid /\ \A g \in Handle \ {b} : first[g] = order[g]
    BY <1>3, <1>7, ExceptSeq DEF Shape, TypeOK, Handle
  <2>2. order' = [first EXCEPT ![a] = ask]
    BY <1>1
  <2>. HIDE DEF first
  <2>3. /\ Len(order') = Len(first)
        /\ order'[a] = ask /\ \A g \in Handle \ {a} : order'[g] = first[g]
    BY <2>1, <2>2, <1>4, <1>7, ExceptSeq DEF Handle
  <2>. QED  BY <2>1, <2>3, <1>3, <1>6
<1>12. \A g \in Handle : /\ order'[g].id = order[g].id
                         /\ order'[g] = order[g] \/ (order'[g].status = "FILLED" => order'[g].remaining = 0)
  BY <1>7, <1>11
<1>. QED  BY <1>1, <1>10, <1>11, <1>12 DEF Matched

\* Erasing the levels that the loops emptied.
LEMMA LeaveLevelsMatched ==
  ASSUME Shape, LeaveLevels
  PROVE  Matched
<1> DEFINE pb == px["BUY"]
           pa == px["SELL"]
           mb == Trim(levels["BUY"][pb])
           ma == Trim(levels["SELL"][pa])
<1>1. /\ pc = "pair" /\ pc' = "match"
      /\ levels' = [levels EXCEPT !["BUY"][pb] = mb, !["SELL"][pa] = ma]
      /\ UNCHANGED <<order, orders>>
  BY DEF LeaveLevels
<1>2. /\ pb \in Prices /\ pa \in Prices /\ levels \in Levels
      /\ levels["BUY"][pb] \in Level /\ levels["SELL"][pa] \in Level
  BY <1>1 DEF Shape, TypeOK, IteratorsSound, Live, Side, Levels
<1>3. /\ mb \in Level /\ Thinned(mb, levels["BUY"][pb])
      /\ ma \in Level /\ Thinned(ma, levels["SELL"][pa])
  BY <1>2, TrimProperties, TrimThins
<1>. HIDE DEF mb, ma, pb, pa
<1>4. \A t \in Side, u \in Prices : Thinned(levels'[t][u], levels[t][u])
  BY <1>1, <1>2, <1>3, ThinnedPair
<1>. QED  BY <1>1, <1>4 DEF Matched

\* A level that a market order has emptied is only thinned.
LEMMA LeaveLevelMatched ==
  ASSUME Shape, LeaveLevel
  PROVE  Matched
<1> DEFINE s == Book
           p == px[Book]
           m == Trim(levels[s][p])
<1>1. /\ pc = "fill" /\ pc' = "market"
      /\ levels' = [levels EXCEPT ![s][p] = m]
      /\ UNCHANGED <<order, orders>>
  BY DEF LeaveLevel
<1>2. s \in Side /\ p \in Prices /\ levels \in Levels /\ levels[s][p] \in Level
  BY <1>1 DEF Shape, TypeOK, IteratorsSound, Live, Levels, Book, Opposite, Side
<1>3. m \in Level /\ Thinned(m, levels[s][p])
  BY <1>2, TrimProperties, TrimThins
<1>. HIDE DEF s, p, m
<1>4. \A t \in Side, u \in Prices : Thinned(levels'[t][u], levels[t][u])
  BY <1>1, <1>2, <1>3, ThinnedLevels
<1>. QED  BY <1>1, <1>4 DEF Matched

\* What a call does after it has been made.
LEMMA ProceedMatched ==
  ASSUME Shape, Proceed
  PROVE  Matched
<1>1. ASSUME EnterLevels \/ MatchDone \/ EnterLevel \/ MarketDone
      PROVE  Matched
  BY <1>1, NothingMatched DEF EnterLevels, MatchDone, EnterLevel, MarketDone, frame
<1>2. ASSUME MatchThrows \/ FillThrows \/ Notify \/ Return
      PROVE  Matched
  BY <1>2, NothingMatched DEF MatchThrows, FillThrows, Notify, Return, Unwind, frame
<1>. QED  BY <1>1, <1>2, FillMatched, MatchPairMatched, LeaveLevelsMatched, LeaveLevelMatched DEF Proceed

(***************************************************************************)
(* The calls.                                                              *)
(***************************************************************************)

\* add_order enters the new order under its id, and forgets nothing of a list
\* that it keeps.
LEMMA WithOrderAnswers ==
  ASSUME NEW l \in Level, NEW h \in Nat, NEW o \in OrderObject
  PROVE  LET m == WithOrder(l, h, o)
         IN  /\ m.live /\ m.order_map[o.id] = h
             /\ \A id \in OrderIds \ {o.id} : m.order_map[id] \in {l.order_map[id], NoOrder}
             /\ \A k \in DOMAIN m.orders :
                  \/ m.orders[k] = h
                  \/ /\ \E j \in DOMAIN l.orders : m.orders[k] = l.orders[j]
                     /\ \A id \in OrderIds \ {o.id} : m.order_map[id] = l.order_map[id]
<1> DEFINE level == IF l.live /\ o.price # 0 THEN l ELSE [NoLevel EXCEPT !.live = TRUE]
           m == WithOrder(l, h, o)
<1>1. /\ level \in Level /\ level.live
      /\ level.orders = << >> \/ level = l
      /\ \A id \in OrderIds : level.order_map[id] \in {l.order_map[id], NoOrder}
  BY NoLevelType DEF Level, NoLevel
<1>2. m = [level EXCEPT !.orders = Append(@, h), !.order_map[o.id] = h,
                        !.total_volume = @ + o.remaining]
  BY DEF WithOrder
<1>. HIDE DEF level, m
<1>3. /\ m.live = level.live /\ m.orders = Append(level.orders, h)
      /\ m.order_map = [level.order_map EXCEPT ![o.id] = h]
  BY <1>1, <1>2 DEF Level
<1>4. o.id \in OrderIds /\ level.order_map \in [OrderIds -> Nat] /\ level.orders \in Seq(Nat)
  BY <1>1 DEF OrderObject, Level
<1>5. /\ DOMAIN m.orders = 1..(Len(level.orders) + 1)
      /\ Len(level.orders) \in Nat /\ DOMAIN level.orders = 1..Len(level.orders)
      /\ \A i \in 1..Len(level.orders) : m.orders[i] = level.orders[i]
      /\ m.orders[Len(level.orders) + 1] = h
  <2> DEFINE list == level.orders
             longer == Append(list, h)
  <2>1. list \in Seq(Nat) /\ h \in Nat
    BY <1>4
  <2>2. /\ longer \in Seq(Nat) /\ Len(longer) = Len(list) + 1
        /\ \A i \in 1..Len(list) : longer[i] = list[i]
        /\ longer[Len(list) + 1] = h
    <3>. HIDE DEF list
    <3>. QED  BY <2>1, AppendProperties
  <2>. HIDE DEF longer
  <2>3. DOMAIN longer = 1..(Len(list) + 1) /\ DOMAIN list = 1..Len(list) /\ Len(list) \in Nat
    <3>. HIDE DEF list
    <3>. QED  BY <2>1, <2>2, LenProperties
  <2>4. m.orders = longer
    BY <1>3 DEF longer
  <2>. QED  BY <2>2, <2>3, <2>4
<1>6. m.live /\ m.order_map[o.id] = h /\ \A id \in OrderIds \ {o.id} : m.order_map[id] = level.order_map[id]
  BY <1>1, <1>3, <1>4
<1>7. ASSUME NEW k \in DOMAIN m.orders, m.orders[k] # h
      PROVE  /\ \E j \in DOMAIN l.orders : m.orders[k] = l.orders[j]
             /\ \A id \in OrderIds \ {o.id} : m.order_map[id] = l.order_map[id]
  <2>1. k \in DOMAIN level.orders /\ m.orders[k] = level.orders[k]
    BY <1>5, <1>7
  <2>2. level.orders # << >>
    BY <2>1, EmptySeq
  <2>3. level = l
    BY <2>2, <1>1
  <2>. QED  BY <2>1, <2>3, <1>6
<1>. QED  BY <1>1, <1>6, <1>7 DEF m

\* An order with an id that no earlier order has keeps the ids sound.
LEMMA SubmitLimitKeepsIds ==
  ASSUME Shape, Ids, NEW id \in OrderIds, NEW s \in Side, NEW q \in Quantities, NEW p \in Prices,
         \A g \in Handle : order[g].id # id, SubmitLimit(id, s, q, p)
  PROVE  Ids'
<1> DEFINE h == Len(order) + 1
           o == NewOrder(id, s, q, p)
           l == levels[s][p]
           m == WithOrder(l, h, o)
<1>1. /\ o \in OrderObject /\ o.id = id /\ o.status = "NEW"
  BY NewOrderType DEF NewOrder
<1>2. /\ pc = "idle" /\ order' = Append(order, o) /\ levels' = [levels EXCEPT ![s][p] = m]
      /\ orders' = [orders EXCEPT ![id] = h]
  BY DEF SubmitLimit, AddOrder, NewOrder
<1>3. /\ Len(order) \in Nat /\ h \in Nat /\ l \in Level /\ levels \in Levels
      /\ orders \in [OrderIds -> Nat] /\ order \in Seq(OrderObject)
  BY LenProperties DEF Shape, TypeOK, Levels
<1>. HIDE DEF o, l, m
<1>4. /\ Handle' = 1..h /\ Handle = 1..Len(order) /\ order'[h] = o
      /\ \A g \in Handle : order'[g] = order[g]
  <2>1. /\ Len(order') = h /\ order'[h] = o
        /\ \A g \in 1..Len(order) : order'[g] = order[g]
    BY <1>1, <1>2, <1>3, AppendProperties
  <2>. QED  BY <2>1 DEF Handle
<1>5. /\ m.live /\ m.order_map[id] = h
      /\ \A i \in OrderIds \ {id} : m.order_map[i] \in {l.order_map[i], NoOrder}
      /\ \A k \in DOMAIN m.orders :
           \/ m.orders[k] = h
           \/ /\ \E j \in DOMAIN l.orders : m.orders[k] = l.orders[j]
              /\ \A i \in OrderIds \ {id} : m.order_map[i] = l.order_map[i]
  BY <1>1, <1>3, WithOrderAnswers DEF m
<1>6. /\ levels'[s][p] = m
      /\ \A t \in Side, u \in Prices : t # s \/ u # p => levels'[t][u] = levels[t][u]
  <2>1. m \in Level
    BY <1>1, <1>3, WithOrderProperties DEF m
  <2>. QED  BY <1>2, <1>3, <2>1, LevelUpdate DEF Levels
<1>. HIDE DEF h
<1>7. \A g \in Handle' : g \in Handle \/ g = h
  BY <1>3, <1>4 DEF h
<1>8. h \in Handle' /\ h \notin Handle /\ Handle \subseteq Handle'
  BY <1>3, <1>4 DEF h
<1>9. IdsUnique' /\ FilledSound'
  BY <1>1, <1>4, <1>7 DEF Ids, IdsUnique, FilledSound
<1>10. ListsAnswer /\ MapsSound
  BY <1>2 DEF Ids
<1>11. ASSUME NEW t \in Side, NEW u \in Prices, NEW i \in DOMAIN levels'[t][u].orders
       PROVE  LET g == levels'[t][u].orders[i]
              IN  /\ levels'[t][u].live
                  /\ orders'[order'[g].id] = g
                  /\ levels'[t][u].order_map[order'[g].id] = g
  <2> DEFINE g == levels'[t][u].orders[i]
  <2>1. CASE t = s /\ u = p /\ g = h
    BY <2>1, <1>1, <1>2, <1>3, <1>4, <1>5, <1>6
  <2>2. ASSUME ~(t = s /\ u = p /\ g = h)
        PROVE  /\ \E j \in DOMAIN levels[t][u].orders : g = levels[t][u].orders[j]
               /\ \A x \in OrderIds \ {id} : levels'[t][u].order_map[x] = levels[t][u].order_map[x]
               /\ levels[t][u].live => levels'[t][u].live
    <3>1. CASE t = s /\ u = p
      <4>1. levels'[t][u] = m /\ levels[t][u] = l
        BY <3>1, <1>6 DEF l
      <4>2. i \in DOMAIN m.orders /\ m.orders[i] # h /\ g = m.orders[i]
        BY <4>1, <3>1, <2>2
      <4>. QED  BY <4>1, <4>2, <1>5
    <3>2. CASE t # s \/ u # p
      BY <3>2, <1>6
    <3>. QED  BY <3>1, <3>2
  <2>3. CASE ~(t = s /\ u = p /\ g = h)
    <3>1. PICK j \in DOMAIN levels[t][u].orders : g = levels[t][u].orders[j]
      BY <2>2, <2>3
    <3>2. /\ g \in Handle /\ levels[t][u].live /\ orders[order[g].id] = g
          /\ levels[t][u].order_map[order[g].id] = g
      <4>. HIDE DEF g
      <4>. QED  BY <3>1, <1>10, ListedAnswers
    <3>. HIDE DEF g
    <3>3. order[g].id \in OrderIds \ {id} /\ order'[g] = order[g]
      BY <3>2, <1>4, OrderType DEF Shape, OrderObject
    <3>4. orders'[order[g].id] = orders[order[g].id]
      BY <3>3, <1>2, <1>3
    <3>5. levels'[t][u].order_map[order[g].id] = g /\ levels'[t][u].live
      BY <2>2, <2>3, <3>2, <3>3
    <3>. QED  BY <3>2, <3>3, <3>4, <3>5 DEF g
  <2>. QED  BY <2>1, <2>3
<1>12. ListsAnswer'
  BY <1>11 DEF ListsAnswer
<1>13. ASSUME NEW i \in OrderIds
       PROVE  /\ orders'[i] # NoOrder => orders'[i] \in Handle' /\ order'[orders'[i]].id = i
              /\ \A t \in Side, u \in Prices :
                   levels'[t][u].order_map[i] # NoOrder =>
                     /\ levels'[t][u].order_map[i] \in Handle'
                     /\ order'[levels'[t][u].order_map[i]].id = i
  <2>1. orders'[i] = IF i = id THEN h ELSE orders[i]
    BY <1>2, <1>3
  <2>2. \A t \in Side, u \in Prices :
          \/ levels'[t][u].order_map[i] \in {levels[t][u].order_map[i], NoOrder}
          \/ i = id /\ levels'[t][u].order_map[i] = h
    BY <1>5, <1>6 DEF l
  <2>3. /\ orders[i] # NoOrder => orders[i] \in Handle /\ order[orders[i]].id = i
        /\ \A t \in Side, u \in Prices :
             levels[t][u].order_map[i] # NoOrder =>
               levels[t][u].order_map[i] \in Handle /\ order[levels[t][u].order_map[i]].id = i
    BY <1>10 DEF MapsSound
  <2>4. \A g \in Handle : g \in Handle' /\ order'[g].id = order[g].id
    BY <1>4, <1>8
  <2>5. h \in Handle' /\ order'[h].id = id
    BY <1>1, <1>4, <1>8
  <2>. QED  BY <2>1, <2>2, <2>3, <2>4, <2>5
<1>14. MapsSound'
  BY <1>13 DEF MapsSound
<1>. QED  BY <1>9, <1>12, <1>14 DEF Ids

\* The lists of `new` are those of the book, without every order of the id.
Withdrawn(new, id) ==
  \A s \in Side, p \in Prices :
    /\ \A i \in DOMAIN new[s][p].orders :
         /\ new[s][p].live = levels[s][p].live
         /\ order[new[s][p].orders[i]].id # id
         /\ \E k \in DOMAIN levels[s][p].orders : new[s][p].orders[i] = levels[s][p].orders[k]
         /\ \A x \in OrderIds \ {id} : new[s][p].order_map[x] = levels[s][p].order_map[x]
    /\ \A x \in OrderIds : new[s][p].order_map[x] \in {levels[s][p].order_map[x], NoOrder}

\* remove_order takes the order with the id out of the book, if it is there.
LEMMA RemovalWithdraws ==
  ASSUME Shape, ListsLive, IdsUnique, ListsAnswer, MapsSound,
         NEW id \in OrderIds, orders[id] # NoOrder, ~Dangling(id)
  PROVE  Withdrawn(LevelsWithout(id), id)
<1> DEFINE s == order[orders[id]].side
           p == order[orders[id]].price
           l == levels[s][p]
           h == l.order_map[id]
<1>1. /\ orders[id] \in Handle /\ order[orders[id]].id = id
      /\ s \in Side /\ p \in Prices /\ l \in Level /\ levels \in Levels
  BY OrderType DEF MapsSound, Shape, TypeOK, Levels
<1>2. ASSUME NEW t \in Side, NEW u \in Prices, NEW i \in DOMAIN levels[t][u].orders,
             order[levels[t][u].orders[i]].id = id
      PROVE  /\ Found(id) /\ t = s /\ u = p /\ levels[t][u].orders[i] = h
  <2> DEFINE g == levels[t][u].orders[i]
  <2>1. /\ g \in Handle /\ order[g].side = t /\ order[g].price = u
        /\ levels[t][u].live /\ orders[id] = g /\ levels[t][u].order_map[id] = g
    <3>1. order[g].id = id /\ levels[t][u].orders[i] = g
      BY <1>2
    <3>. HIDE DEF g
    <3>. QED  BY <3>1, ListedAnswers
  <2>2. g # NoOrder /\ Listed(levels[t][u], g)
    BY <2>1 DEF Listed, Handle, NoOrder
  <2>. QED  BY <2>1, <2>2 DEF Found, LevelOf, NodeOf
<1>3. CASE ~Found(id)
  <2>1. LevelsWithout(id) = levels
    BY <1>3 DEF LevelsWithout
  <2>. QED  BY <2>1, <1>2, <1>3 DEF Withdrawn
<1>4. CASE Found(id)
  <2> DEFINE i == Position(l, h)
             m == WithoutOrder(l, id)
             t == Trim(m)
  <2>1. /\ LevelsWithout(id) = [levels EXCEPT ![s][p] = t]
        /\ l.live /\ h # NoOrder /\ Listed(l, h)
    BY <1>4 DEF LevelsWithout, Found, LevelOf, NodeOf
  <2>2. i \in DOMAIN l.orders /\ l.orders[i] = h
    <3>. HIDE DEF l, h
    <3>. QED  BY <1>1, <2>1, PositionOfListed
  <2>3. h \in Handle
    <3>. HIDE DEF h, i, s, p
    <3>. QED  BY <1>1, <2>2 DEF Shape, ListsSound
  <2>4. order[h].remaining \in Int
    <3>. HIDE DEF h
    <3>. QED  BY <2>3, OrderType DEF Shape
  <2>5. m \in Level
    BY <1>1, <2>1, <2>4, WithoutOrderProperties
  <2>6. m = [l EXCEPT !.orders = RemoveAt(@, i), !.order_map[id] = NoOrder,
                      !.total_volume = @ - order[h].remaining]
    BY DEF WithoutOrder
  <2>. HIDE DEF h, i, s, p, l, m
  <2>7. /\ m.live = l.live /\ m.orders = RemoveAt(l.orders, i)
        /\ m.order_map = [l.order_map EXCEPT ![id] = NoOrder]
    BY <1>1, <2>6 DEF Level
  <2>8. /\ Sublist(m.orders, l.orders)
        /\ \A j \in DOMAIN m.orders : m.orders[j] # h
    <3>1. \A j, k \in DOMAIN l.orders : l.orders[j] = l.orders[k] => j = k
      BY <1>1 DEF ListsLive, l
    <3> DEFINE r == RemoveAt(l.orders, i)
    <3>2. l.orders \in Seq(Nat)
      BY <1>1 DEF Level
    <3>3. Sublist(r, l.orders) /\ \A j \in DOMAIN r : r[j] # l.orders[i]
      BY <3>1, <3>2, <2>2, RemoveAtElements
    <3>4. m.orders = r
      BY <2>7
    <3>. HIDE DEF r
    <3>. QED  BY <3>3, <3>4, <2>2
  <2>9. \A x \in OrderIds : m.order_map[x] = IF x = id THEN NoOrder ELSE l.order_map[x]
    BY <1>1, <2>7 DEF Level
  <2>10. t \in Level /\ Thinned(t, m)
    BY <2>5, TrimProperties, TrimThins
  <2>. HIDE DEF t
  <2>11. /\ LevelsWithout(id)[s][p] = t
         /\ \A a \in Side, b \in Prices : a # s \/ b # p => LevelsWithout(id)[a][b] = levels[a][b]
    BY <1>1, <2>1, <2>10, LevelUpdate DEF Levels
  <2>12. ASSUME NEW k \in DOMAIN t.orders
         PROVE  /\ t.live = l.live
                /\ order[t.orders[k]].id # id
                /\ \E j \in DOMAIN l.orders : t.orders[k] = l.orders[j]
                /\ \A x \in OrderIds \ {id} : t.order_map[x] = l.order_map[x]
    <3>1. t.live = m.live /\ t.order_map = m.order_map
      BY <2>10 DEF Thinned
    <3>2. PICK j \in DOMAIN m.orders : t.orders[k] = m.orders[j]
      BY <2>10 DEF Thinned
    <3>3. PICK n \in DOMAIN l.orders : m.orders[j] = l.orders[n]
      BY <2>8 DEF Sublist
    <3>4. t.orders[k] # h /\ t.orders[k] = l.orders[n]
      BY <3>2, <3>3, <2>8
    <3>5. order[l.orders[n]].id # id
      BY <3>4, <1>1, <1>2 DEF l, h
    <3>. QED  BY <3>1, <3>4, <3>5, <2>7, <2>9
  <2>13. \A x \in OrderIds : t.order_map[x] \in {l.order_map[x], NoOrder}
    BY <2>9, <2>10 DEF Thinned
  <2>14. ASSUME NEW a \in Side, NEW b \in Prices
         PROVE  /\ \A k \in DOMAIN LevelsWithout(id)[a][b].orders :
                     /\ LevelsWithout(id)[a][b].live = levels[a][b].live
                     /\ order[LevelsWithout(id)[a][b].orders[k]].id # id
                     /\ \E j \in DOMAIN levels[a][b].orders :
                          LevelsWithout(id)[a][b].orders[k] = levels[a][b].orders[j]
                     /\ \A x \in OrderIds \ {id} :
                          LevelsWithout(id)[a][b].order_map[x] = levels[a][b].order_map[x]
                /\ \A x \in OrderIds :
                     LevelsWithout(id)[a][b].order_map[x] \in {levels[a][b].order_map[x], NoOrder}
    <3>1. CASE a = s /\ b = p
      BY <3>1, <2>11, <2>12, <2>13 DEF l
    <3>2. CASE a # s \/ b # p
      BY <3>2, <2>11, <1>2
    <3>. QED  BY <3>1, <3>2
  <2>. QED  BY <2>14 DEF Withdrawn
<1>. QED  BY <1>3, <1>4

\* cancel_order keeps the ids sound, and no order in the book has the id then.
LEMMA CancelKeepsIds ==
  ASSUME Shape, ListsLive, Ids, NEW id \in OrderIds, Cancel(id)
  PROVE  Ids' /\ Withdrawn(levels', id)
<1>1. /\ pc = "idle" /\ pc' = pc /\ UNCHANGED order /\ levels' = LevelsWithout(id)
      /\ orders' = [orders EXCEPT ![id] = NoOrder]
      /\ orders[id] # NoOrder /\ ~Dangling(id)
  BY DEF Cancel
<1>2. IdsUnique /\ FilledSound /\ ListsAnswer /\ MapsSound
  BY <1>1 DEF Ids
<1>3. Withdrawn(levels', id)
  BY <1>1, <1>2, RemovalWithdraws
<1>4. \A x \in OrderIds : orders'[x] = IF x = id THEN NoOrder ELSE orders[x]
  BY <1>1 DEF Shape, TypeOK
<1>5. IdsUnique' /\ FilledSound' /\ Handle' = Handle
  BY <1>1, <1>2 DEF IdsUnique, FilledSound, Handle
<1>6. ASSUME NEW s \in Side, NEW p \in Prices, NEW i \in DOMAIN levels'[s][p].orders
      PROVE  LET h == levels'[s][p].orders[i]
             IN  /\ levels'[s][p].live
                 /\ orders'[order'[h].id] = h
                 /\ levels'[s][p].order_map[order'[h].id] = h
  <2>1. PICK k \in DOMAIN levels[s][p].orders : levels'[s][p].orders[i] = levels[s][p].orders[k]
    BY <1>3 DEF Withdrawn
  <2> DEFINE h == levels[s][p].orders[k]
  <2>2. /\ h \in Handle /\ levels[s][p].live /\ orders[order[h].id] = h
        /\ levels[s][p].order_map[order[h].id] = h
    <3>1. levels[s][p].orders[k] = h
      OBVIOUS
    <3>. HIDE DEF h
    <3>. QED  BY <3>1, <1>2, ListedAnswers
  <2>. HIDE DEF h
  <2>3. order[h].id \in OrderIds
    BY <2>2, OrderType DEF Shape, OrderObject
  <2>4. levels'[s][p].orders[i] = h
    BY <2>1 DEF h
  <2>5. /\ order[h].id # id /\ levels'[s][p].live = levels[s][p].live
        /\ levels'[s][p].order_map[order[h].id] = levels[s][p].order_map[order[h].id]
    BY <2>3, <2>4, <1>3 DEF Withdrawn
  <2>. QED  BY <2>2, <2>3, <2>4, <2>5, <1>1, <1>4
<1>7. ListsAnswer'
  BY <1>6 DEF ListsAnswer
<1>8. MapsSound'
  <2>1. \A x \in OrderIds, s \in Side, p \in Prices :
          levels'[s][p].order_map[x] \in {levels[s][p].order_map[x], NoOrder}
    BY <1>3 DEF Withdrawn
  <2>. QED  BY <1>1, <1>2, <1>4, <1>5, <2>1 DEF MapsSound
<1>. QED  BY <1>3, <1>5, <1>7, <1>8 DEF Ids

\* An undefined removal changes no order.
LEMMA RemoveDanglingKeepsIds ==
  ASSUME Ids, NEW id \in OrderIds, RemoveDangling(id)
  PROVE  Ids'
<1>1. pc' = "undefined" /\ UNCHANGED order
  BY DEF RemoveDangling
<1>. QED  BY <1>1 DEF Ids, IdsUnique, FilledSound, Handle

\* clear leaves nothing to answer.
LEMMA ClearKeepsIds ==
  ASSUME Ids, Clear
  PROVE  Ids'
<1>1. /\ UNCHANGED order /\ orders' = [id \in OrderIds |-> NoOrder]
      /\ levels' = [s \in Side |-> [p \in Prices |-> NoLevel]]
  BY DEF Clear
<1>2. \A s \in Side, p \in Prices :
        DOMAIN levels'[s][p].orders = {} /\ \A id \in OrderIds : levels'[s][p].order_map[id] = NoOrder
  BY <1>1, EmptySeq DEF NoLevel
<1>3. ListsAnswer' /\ MapsSound'
  BY <1>1, <1>2 DEF ListsAnswer, MapsSound
<1>. QED  BY <1>1, <1>3 DEF Ids, IdsUnique, FilledSound, Handle

(***************************************************************************)
(* The theorem.                                                            *)
(***************************************************************************)

\* Every order of the lists, and so every resting one, answers to its id.
LEMMA ListsAnswerEnough ==
  ASSUME Shape, Ids
  PROVE  AnswersToId
<1> SUFFICES ASSUME pc # "undefined", NEW h \in Resting
             PROVE  /\ orders[order[h].id] = h
                    /\ levels[order[h].side][order[h].price].order_map[order[h].id] = h
  BY DEF AnswersToId
<1>1. PICK s \in Side, p \in Prices : Listed(levels[s][p], h)
  BY DEF Resting
<1>2. PICK i \in DOMAIN levels[s][p].orders : levels[s][p].orders[i] = h
  BY <1>1 DEF Listed
<1>3. order[h].side = s /\ order[h].price = p
  BY <1>2 DEF Shape, ListsSound
<1>. QED  BY <1>2, <1>3 DEF Ids, ListsAnswer

\* When clients use every id once, and do not modify orders (the replacement has
\* the id of the order it replaces), a resting order can always be found and
\* cancelled under its id.
THEOREM AlwaysAnswers ==
  PositiveQuantities /\ FreshIds /\ "modify" \notin Calls => (Spec => []AnswersToId)
<1> SUFFICES ASSUME PositiveQuantities, FreshIds, "modify" \notin Calls
             PROVE  Spec => []AnswersToId
  OBVIOUS
<1> DEFINE Inv == Shape /\ Calm /\ Ids
<1>1. Init => Inv
  <2> SUFFICES ASSUME Init PROVE Ids
    BY InitHolds
  <2>1. Handle = {}
    BY EmptySeq DEF Init, Handle
  <2>2. \A s \in Side, p \in Prices :
          DOMAIN levels[s][p].orders = {} /\ \A id \in OrderIds : levels[s][p].order_map[id] = NoOrder
    BY EmptySeq DEF Init, NoLevel
  <2>3. ListsAnswer /\ MapsSound
    BY <2>2 DEF ListsAnswer, MapsSound, Init
  <2>. QED  BY <2>1, <2>3 DEF Ids, IdsUnique, FilledSound
<1>2. Inv /\ [Next]_vars => Inv'
  <2> SUFFICES ASSUME Shape, Calm, Ids, [Next]_vars PROVE Ids'
    BY NextKeeps
  <2>1. ASSUME NEW id \in OrderIds, NEW s \in Side, NEW q \in Quantities, NEW p \in Prices,
               SubmitLimit(id, s, q, p)
        PROVE  Ids'
    <3>1. id \in Unused
      BY <2>1 DEF SubmitLimit, Usable
    <3>2. \A g \in Handle : order[g].id # id
      BY <3>1 DEF Unused
    <3>. QED  BY <3>2, <2>1, SubmitLimitKeepsIds
  <2>2. ASSUME (\E s \in Side, q \in Quantities : SubmitMarket(s, q)) \/ UNCHANGED vars
        PROVE  Ids'
    <3>1. UNCHANGED <<order, orders, levels>> /\ (pc = "undefined" => pc' = "undefined")
      BY <2>2 DEF SubmitMarket, vars
    <3>. QED  BY <3>1, NothingMatched, MatchedKeepsIds
  <2>3. CASE Call
    BY <2>1, <2>2, <2>3, CancelKeepsIds, RemoveDanglingKeepsIds, ClearKeepsIds DEF Call, Calm
  <2>. QED  BY <2>2, <2>3, ProceedMatched, MatchedKeepsIds DEF Next
<1>3. Inv => AnswersToId
  BY ListsAnswerEnough
<1>. QED  BY <1>1, <1>2, <1>3, PTL DEF Spec
==============================================================================
