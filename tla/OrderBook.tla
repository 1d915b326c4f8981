------------------------------ MODULE OrderBook ------------------------------
(***************************************************************************)
(* One instrument's OrderBook together with the MatchingEngine in front of  *)
(* it (engine/src/order_book.hpp, order_book.cpp).                          *)
(*                                                                         *)
(* A call into the book is a sequence of steps, one per iteration of the    *)
(* loops of match_orders and process_market_order, so the states between    *)
(* two executions are states of the model: this is where an exception       *)
(* leaves the book, and what another thread reading the book can see.       *)
(*                                                                         *)
(* An Order object is named by its handle, its position in the sequence     *)
(* `order`: objects are created in arrival order, so handles compare as     *)
(* arrival times do. An order id is a separate thing, because a client may  *)
(* give two objects the same id. NoOrder is the null pointer, and stands in *)
(* a trade for the throw-away Order object of a market order.               *)
(***************************************************************************)
EXTENDS Integers, Sequences, FiniteSets, SequencesExt

CONSTANTS
  OrderIds,    (* order ids clients use                                       *)
  Prices,      (* limit prices, in ticks                                      *)
  Quantities,  (* order quantities, in lots                                   *)
  Revisions,   (* <<new_quantity, new_price>> pairs given to modify_order     *)
  MaxOrders,   (* bound on the number of Order objects ever created           *)
  FreshIds,    (* TRUE when no client ever reuses an order id                 *)
  Calls        (* which calls clients make: bounds the interleavings          *)

ASSUME BookAssumption ==
  /\ Prices \subseteq Nat
  /\ Quantities \subseteq Nat
  /\ MaxOrders \in Nat
  /\ FreshIds \in BOOLEAN
  /\ Calls \subseteq {"limit", "market", "cancel", "modify", "clear"}

NoOrder == 0
Side == {"BUY", "SELL"}
Status == {"NEW", "PARTIALLY_FILLED", "FILLED"}
NoPrice == -1

VARIABLES
  order,      (* every Order object, by handle                                *)
  orders,     (* OrderBook::orders_: order id -> handle                       *)
  levels,     (* bid_levels_ ("BUY") and ask_levels_ ("SELL"), by price       *)
  pc,         (* where the call in progress is; "idle" between calls          *)
  px,         (* prices of the levels a matching loop holds iterators to      *)
  it,         (* positions of those iterators                                 *)
  taker,      (* [side, remaining] of the market order being processed        *)
  trades,     (* local vector of trades, not yet given to the callbacks       *)
  reported,   (* history: the quantity of each order in the trades that the   *)
              (*   callbacks received                                         *)
  withdrawn   (* history: handles that a client's call took out of the book   *)

frame == <<px, it, taker>>
vars == <<order, orders, levels, pc, frame, trades, reported, withdrawn>>

Handle == 1..Len(order)

(***************************************************************************)
(* Data.                                                                   *)
(***************************************************************************)

OrderObject == [id : OrderIds, side : Side, quantity : Quantities,
                remaining : Nat, price : Prices, status : Status]

\* An absent map entry; an operator[] on it yields a level with nothing in it.
NoLevel == [live |-> FALSE, orders |-> << >>,
            order_map |-> [id \in OrderIds |-> NoOrder], total_volume |-> 0]

Level == [live : BOOLEAN, orders : Seq(Nat),
          order_map : [OrderIds -> Nat], total_volume : Int]

Live(s) == {p \in Prices : levels[s][p].live}

\* Key order of the two maps: bids from the highest price, asks from the lowest.
Better(s, p, q) == IF s = "BUY" THEN p > q ELSE p < q

\* levels[s][p] is the level that begin() designates.
Best(s, p) == p \in Live(s) /\ \A q \in Live(s) : ~Better(s, q, p)

Crossed == \E b \in Live("BUY"), a \in Live("SELL") : b >= a

Opposite(s) == IF s = "BUY" THEN "SELL" ELSE "BUY"
Lesser(x, y) == IF x <= y THEN x ELSE y

NoTaker == [side |-> "BUY", remaining |-> 0]
NoFrame == /\ px = [s \in Side |-> NoPrice]
           /\ it = [s \in Side |-> 1]
           /\ taker = NoTaker

Init ==
  /\ order = << >>
  /\ orders = [id \in OrderIds |-> NoOrder]
  /\ levels = [s \in Side |-> [p \in Prices |-> NoLevel]]
  /\ pc = "idle"
  /\ NoFrame
  /\ trades = << >>
  /\ reported = [h \in 1..MaxOrders |-> 0]
  /\ withdrawn = {}

(***************************************************************************)
(* Order and PriceLevel.                                                   *)
(***************************************************************************)

NewOrder(id, s, q, p) ==
  [id |-> id, side |-> s, quantity |-> q, remaining |-> q, price |-> p,
   status |-> "NEW"]

\* Definitions named X_... are X with a mistake in it, for checking that the
\* properties notice: each stands before the definition it is a variant of.

\* < for <=: an order with nothing left counts as partially filled.
Execute_Strict(o, q) ==
  [o EXCEPT !.remaining = @ - q,
            !.status = IF o.remaining - q < 0 THEN "FILLED" ELSE "PARTIALLY_FILLED"]

\* Order::execute on legal arguments. It throws on any other: see Throws.
Execute(o, q) ==
  [o EXCEPT !.remaining = @ - q,
            !.status = IF o.remaining - q <= 0 THEN "FILLED"
                                               ELSE "PARTIALLY_FILLED"]

Throws(o, q) == q <= 0 \/ q > o.remaining

\* push_front for push_back.
WithOrder_Front(l, h, o) ==
  [l EXCEPT !.live = TRUE, !.orders = <<h>> \o @, !.order_map[o.id] = h,
            !.total_volume = @ + o.remaining]

\* PriceLevel::add_order on the level operator[] returned. A level whose price
\* reads 0.0 is taken for a new one and replaced by an empty level first.
WithOrder(l, h, o) ==
  LET level == IF l.live /\ o.price # 0 THEN l ELSE [NoLevel EXCEPT !.live = TRUE]
  IN  [level EXCEPT !.orders = Append(@, h),
                    !.order_map[o.id] = h,
                    !.total_volume = @ + o.remaining]

\* begin() for the iterator order_map_ keeps.
Position_Begin(l, h) == CHOOSE i \in DOMAIN l.orders : TRUE

\* PriceLevel::remove_order through the iterator order_map_ keeps for the id.
Position(l, h) == CHOOSE i \in DOMAIN l.orders : l.orders[i] = h

WithoutOrder(l, id) ==
  LET h == l.order_map[id]
  IN  [l EXCEPT !.orders = RemoveAt(@, Position(l, h)),
                !.order_map[id] = NoOrder,
                !.total_volume = @ - order[h].remaining]

\* Empty levels are kept.
Trim_Never(l) == l

\* The erasures after a removal or a matching loop: no empty level is kept.
Trim(l) == IF l.orders = << >> THEN NoLevel ELSE l

\* A partially filled order is erased too.
AfterFill_Always(l, i, o) == [l EXCEPT !.orders = RemoveAt(@, i)]

\* The volume falls by the order's whole quantity at every execution.
AfterFill_Volume(l, i, o) ==
  [l EXCEPT !.orders = IF o.status = "FILLED" THEN RemoveAt(@, i) ELSE @,
            !.total_volume = @ - o.quantity]

\* A matching loop erases a filled order from the list of its level, and from
\* nothing else: order_map_, total_volume_ and orders_ still count it.
AfterFill(l, i, o) ==
  IF o.status = "FILLED" THEN [l EXCEPT !.orders = RemoveAt(@, i)] ELSE l

Listed(l, h) == \E i \in DOMAIN l.orders : l.orders[i] = h

\* The orders in the lists of the book.
Resting == {h \in Handle : \E s \in Side, p \in Prices : Listed(levels[s][p], h)}

(***************************************************************************)
(* OrderBook::add_order, remove_order, modify_order, clear.                *)
(***************************************************************************)

\* The new object o takes the next handle; `base` are the levels it is added to.
AddOrder(o, base) ==
  LET h == Len(order) + 1
  IN  /\ order' = Append(order, o)
      /\ levels' = [base EXCEPT ![o.side][o.price] = WithOrder(@, h, o)]

\* A client may name an order by any id, or only by one never used before. The
\* book only compares ids, so which of the unused ones comes next is fixed.
Unused == OrderIds \ {order[h].id : h \in Handle}
Usable(id) == FreshIds => id \in Unused /\ id = CHOOSE i \in Unused : TRUE

\* MatchingEngine::process_order, LIMIT: add_order, then match_orders.
SubmitLimit(id, s, q, p) ==
  /\ pc = "idle"
  /\ Len(order) < MaxOrders
  /\ Usable(id)
  /\ AddOrder(NewOrder(id, s, q, p), levels)
  /\ orders' = [orders EXCEPT ![id] = Len(order) + 1]
  /\ pc' = "match"
  /\ UNCHANGED <<frame, trades, reported, withdrawn>>

\* The level in which remove_order looks the id up: that of the object orders_
\* holds under the id, and the list node the level's order_map_ has for the id.
LevelOf(id) == levels[order[orders[id]].side][order[orders[id]].price]
NodeOf(id) == LevelOf(id).order_map[id]

\* The level exists and its iterator for the id designates a node of its list.
Found(id) == LevelOf(id).live /\ NodeOf(id) # NoOrder /\ Listed(LevelOf(id), NodeOf(id))
\* The level does not exist or does not know the id.
Unknown(id) == ~LevelOf(id).live \/ NodeOf(id) = NoOrder
\* The iterator designates a node that a matching loop erased from the list.
Dangling(id) == ~Found(id) /\ ~Unknown(id)

LevelsWithout(id) ==
  LET o == order[orders[id]]
  IN  IF Found(id)
      THEN [levels EXCEPT ![o.side][o.price] = Trim(WithoutOrder(@, id))]
      ELSE levels

\* MatchingEngine::cancel_order, when remove_order has a defined behaviour.
Cancel(id) ==
  /\ pc = "idle"
  /\ orders[id] # NoOrder
  /\ ~Dangling(id)
  /\ levels' = LevelsWithout(id)
  /\ orders' = [orders EXCEPT ![id] = NoOrder]
  /\ withdrawn' = IF Found(id) THEN withdrawn \cup {NodeOf(id)} ELSE withdrawn
  /\ UNCHANGED <<order, pc, frame, trades, reported>>

\* OrderBook::modify_order with other than the current terms: remove the order,
\* and if that succeeded add a clone of the object. The clone has the object's
\* original quantity and price: the setters for the new ones are commented out.
Modify(id, q, p) ==
  /\ pc = "idle"
  /\ orders[id] # NoOrder
  /\ q # order[orders[id]].remaining \/ p # order[orders[id]].price
  /\ \/ /\ Found(id)
        /\ Len(order) < MaxOrders
        /\ LET o == order[orders[id]]
           IN  AddOrder(NewOrder(id, o.side, o.quantity, o.price), LevelsWithout(id))
        /\ orders' = [orders EXCEPT ![id] = Len(order) + 1]
        /\ withdrawn' = withdrawn \cup {NodeOf(id)}
     \/ /\ Unknown(id)
        /\ orders' = [orders EXCEPT ![id] = NoOrder]
        /\ UNCHANGED <<order, levels, withdrawn>>
  /\ UNCHANGED <<pc, frame, trades, reported>>

\* Cancel and modify alike: erasing through a dangling iterator is undefined.
\* Either the allocator notices and the process aborts, or the freed node has
\* been reused for an order listed later (at most those that arrived after the
\* erased one), and that order is unlinked instead. Nothing is claimed of what
\* follows: the model stops.
RemoveDangling(id) ==
  /\ pc = "idle"
  /\ orders[id] # NoOrder
  /\ Dangling(id)
  /\ pc' = "undefined"
  /\ \/ UNCHANGED levels
     \/ \E h \in Resting :
          /\ h > NodeOf(id)
          /\ levels' = [levels EXCEPT ![order[h].side][order[h].price].orders =
                          RemoveAt(@, Position(levels[order[h].side][order[h].price], h))]
  /\ UNCHANGED <<order, orders, frame, trades, reported, withdrawn>>

\* OrderBook::clear.
Clear ==
  /\ pc = "idle"
  /\ levels' = [s \in Side |-> [p \in Prices |-> NoLevel]]
  /\ orders' = [id \in OrderIds |-> NoOrder]
  /\ withdrawn' = withdrawn \cup Resting
  /\ UNCHANGED <<order, pc, frame, trades, reported>>

(***************************************************************************)
(* OrderBook::match_orders, one step per loop iteration.                   *)
(***************************************************************************)

Trade == [buy : Nat, sell : Nat, price : Prices, quantity : Nat]

\* The order under an iterator, and whether the iterator has reached end().
At(s) == levels[s][px[s]].orders[it[s]]
AtEnd(s) == it[s] > Len(levels[s][px[s]].orders)

\* An exception leaves the call: its locals and its vector of trades are gone,
\* what it did to the book stays.
Unwind ==
  /\ pc' = "idle"
  /\ px' = [s \in Side |-> NoPrice]
  /\ it' = [s \in Side |-> 1]
  /\ taker' = NoTaker
  /\ trades' = << >>
  /\ UNCHANGED <<order, orders, levels, reported, withdrawn>>

\* The outer loop takes the best level of each side while they overlap.
EnterLevels ==
  /\ pc = "match"
  /\ \E b \in Live("BUY"), a \in Live("SELL") :
       /\ Best("BUY", b)
       /\ Best("SELL", a)
       /\ b >= a
       /\ px' = [s \in Side |-> IF s = "BUY" THEN b ELSE a]
  /\ it' = [s \in Side |-> 1]
  /\ pc' = "pair"
  /\ UNCHANGED <<order, orders, levels, taker, trades, reported, withdrawn>>

\* > for >=: levels at the same price do not overlap.
MatchDone_Strict ==
  /\ pc = "match"
  /\ \A b \in Live("BUY"), a \in Live("SELL") : b <= a
  /\ pc' = "notify"
  /\ UNCHANGED <<order, orders, levels, frame, trades, reported, withdrawn>>

\* One side is empty, or the best bid is below the best ask.
MatchDone ==
  /\ pc = "match"
  /\ ~Crossed
  /\ pc' = "notify"
  /\ UNCHANGED <<order, orders, levels, frame, trades, reported, withdrawn>>

\* One iteration of the inner loop, at the ask level's price. A filled order is
\* erased; the iterator moves past one that is filled in part.
MatchPair ==
  /\ pc = "pair"
  /\ ~AtEnd("BUY") /\ ~AtEnd("SELL")
  /\ LET b == At("BUY")
         a == At("SELL")
         q == Lesser(order[b].remaining, order[a].remaining)
         bid == Execute(order[b], q)
         ask == Execute(order[a], q)
     IN  /\ ~Throws(order[b], q) /\ ~Throws(order[a], q)
         /\ order' = [order EXCEPT ![b] = bid, ![a] = ask]
         /\ levels' = [levels EXCEPT
              !["BUY"][px["BUY"]] = AfterFill(@, it["BUY"], bid),
              !["SELL"][px["SELL"]] = AfterFill(@, it["SELL"], ask)]
         /\ it' = [s \in Side |->
                     IF (IF s = "BUY" THEN bid ELSE ask).status = "FILLED"
                     THEN it[s] ELSE it[s] + 1]
         /\ trades' = Append(trades, [buy |-> b, sell |-> a,
                                      price |-> px["SELL"], quantity |-> q])
  /\ UNCHANGED <<orders, pc, px, taker, reported, withdrawn>>

\* bid_order->execute throws: one of the two has nothing left to execute.
MatchThrows ==
  /\ pc = "pair"
  /\ ~AtEnd("BUY") /\ ~AtEnd("SELL")
  /\ Lesser(order[At("BUY")].remaining, order[At("SELL")].remaining) <= 0
  /\ Unwind

\* An iterator is at its end: erase the levels this emptied, look again.
LeaveLevels ==
  /\ pc = "pair"
  /\ AtEnd("BUY") \/ AtEnd("SELL")
  /\ levels' = [levels EXCEPT !["BUY"][px["BUY"]] = Trim(@),
                              !["SELL"][px["SELL"]] = Trim(@)]
  /\ pc' = "match"
  /\ px' = [s \in Side |-> NoPrice]
  /\ it' = [s \in Side |-> 1]
  /\ UNCHANGED <<order, orders, taker, trades, reported, withdrawn>>

(***************************************************************************)
(* OrderBook::process_market_order, one step per loop iteration.           *)
(***************************************************************************)

\* MatchingEngine::process_order, MARKET. The order itself is never stored.
SubmitMarket(s, q) ==
  /\ pc = "idle"
  /\ taker' = [side |-> s, remaining |-> q]
  /\ pc' = "market"
  /\ UNCHANGED <<order, orders, levels, px, it, trades, reported, withdrawn>>

\* The side a market order takes from.
Book == Opposite(taker.side)

\* A level of the side, not its best one.
EnterLevel_Any ==
  /\ pc = "market"
  /\ taker.remaining > 0
  /\ \E p \in Live(Book) : px' = [px EXCEPT ![Book] = p]
  /\ it' = [s \in Side |-> 1]
  /\ pc' = "fill"
  /\ UNCHANGED <<order, orders, levels, taker, trades, reported, withdrawn>>

EnterLevel ==
  /\ pc = "market"
  /\ taker.remaining > 0
  /\ \E p \in Live(Book) : Best(Book, p) /\ px' = [px EXCEPT ![Book] = p]
  /\ it' = [s \in Side |-> 1]
  /\ pc' = "fill"
  /\ UNCHANGED <<order, orders, levels, taker, trades, reported, withdrawn>>

MarketDone ==
  /\ pc = "market"
  /\ taker.remaining <= 0 \/ Live(Book) = {}
  /\ pc' = "notify"
  /\ px' = [s \in Side |-> NoPrice]
  /\ it' = [s \in Side |-> 1]
  /\ UNCHANGED <<order, orders, levels, taker, trades, reported, withdrawn>>

Fill ==
  /\ pc = "fill"
  /\ ~AtEnd(Book) /\ taker.remaining > 0
  /\ LET h == At(Book)
         q == Lesser(taker.remaining, order[h].remaining)
         o == Execute(order[h], q)
     IN  /\ ~Throws(order[h], q)
         /\ order' = [order EXCEPT ![h] = o]
         /\ levels' = [levels EXCEPT ![Book][px[Book]] = AfterFill(@, it[Book], o)]
         /\ it' = [it EXCEPT ![Book] = IF o.status = "FILLED" THEN @ ELSE @ + 1]
         /\ taker' = [taker EXCEPT !.remaining = @ - q]
         /\ trades' = Append(trades,
              [buy |-> IF Book = "BUY" THEN h ELSE NoOrder,
               sell |-> IF Book = "SELL" THEN h ELSE NoOrder,
               price |-> px[Book], quantity |-> q])
  /\ UNCHANGED <<orders, pc, px, reported, withdrawn>>

FillThrows ==
  /\ pc = "fill"
  /\ ~AtEnd(Book) /\ taker.remaining > 0
  /\ order[At(Book)].remaining <= 0
  /\ Unwind

LeaveLevel ==
  /\ pc = "fill"
  /\ AtEnd(Book) \/ taker.remaining <= 0
  /\ levels' = [levels EXCEPT ![Book][px[Book]] = Trim(@)]
  /\ pc' = "market"
  /\ px' = [s \in Side |-> NoPrice]
  /\ it' = [s \in Side |-> 1]
  /\ UNCHANGED <<order, orders, taker, trades, reported, withdrawn>>

(***************************************************************************)
(* Both loops end by giving their trades to the callbacks, one by one.     *)
(***************************************************************************)

\* Only the first trade is given to the callbacks.
Notify_First ==
  /\ pc = "notify"
  /\ trades # << >>
  /\ LET t == Head(trades)
     IN  reported' = [h \in 1..MaxOrders |->
           IF h \in {t.buy, t.sell} THEN reported[h] + t.quantity ELSE reported[h]]
  /\ trades' = << >>
  /\ UNCHANGED <<order, orders, levels, pc, frame, withdrawn>>

Notify ==
  /\ pc = "notify"
  /\ trades # << >>
  /\ LET t == Head(trades)
     IN  reported' = [h \in 1..MaxOrders |->
           IF h \in {t.buy, t.sell} THEN reported[h] + t.quantity ELSE reported[h]]
  /\ trades' = Tail(trades)
  /\ UNCHANGED <<order, orders, levels, pc, frame, withdrawn>>

Return ==
  /\ pc = "notify"
  /\ trades = << >>
  /\ pc' = "idle"
  /\ taker' = NoTaker
  /\ UNCHANGED <<order, orders, levels, px, it, trades, reported, withdrawn>>

\* What a client calls, and what a call then does by itself.
Call ==
  \/ /\ "limit" \in Calls
     /\ \E id \in OrderIds, s \in Side, q \in Quantities, p \in Prices : SubmitLimit(id, s, q, p)
  \/ "market" \in Calls /\ \E s \in Side, q \in Quantities : SubmitMarket(s, q)
  \/ "cancel" \in Calls /\ \E id \in OrderIds : Cancel(id)
  \/ "modify" \in Calls /\ \E id \in OrderIds, r \in Revisions : Modify(id, r[1], r[2])
  \/ Calls \cap {"cancel", "modify"} # {} /\ \E id \in OrderIds : RemoveDangling(id)
  \/ "clear" \in Calls /\ Clear

Proceed ==
  \/ EnterLevels \/ MatchDone \/ MatchPair \/ MatchThrows \/ LeaveLevels
  \/ EnterLevel \/ MarketDone \/ Fill \/ FillThrows \/ LeaveLevel
  \/ Notify \/ Return

Next == Call \/ Proceed

Spec == Init /\ [][Next]_vars

\* A call is a function running on a thread: once called, it goes on.
FairSpec == Spec /\ WF_vars(Proceed)

(***************************************************************************)
(* Properties.                                                             *)
(***************************************************************************)

\* Every variable keeps its type.
TypeOK ==
  /\ order \in Seq(OrderObject)
  /\ orders \in [OrderIds -> Nat]
  /\ levels \in [Side -> [Prices -> Level]]
  /\ pc \in {"idle", "match", "pair", "market", "fill", "notify", "undefined"}
  /\ px \in [Side -> Prices \cup {NoPrice}]
  /\ it \in [Side -> Nat]
  /\ taker \in [side : Side, remaining : Nat]
  /\ trades \in Seq(Trade)
  /\ reported \in [1..MaxOrders -> Nat]
  /\ withdrawn \subseteq Nat

\* orders_ names existing orders; so do the lists, each of its own side and price.
OrdersSound == \A id \in OrderIds : orders[id] <= Len(order)

ListsSound ==
  \A s \in Side, p \in Prices : \A i \in DOMAIN levels[s][p].orders :
    LET h == levels[s][p].orders[i]
    IN  h \in Handle /\ order[h].side = s /\ order[h].price = p

\* Inside the loops the iterators designate levels that exist.
IteratorsSound ==
  /\ pc = "pair" => \A s \in Side : px[s] \in Live(s) /\ it[s] >= 1
  /\ pc = "fill" => px[Book] \in Live(Book) /\ it[Book] >= 1

\* No list has an order twice, and every listed order has quantity left: the
\* loops erase in the iteration that fills. It takes positive quantities.
PositiveQuantities == \A q \in Quantities : q > 0

ListsLive ==
  \A s \in Side, p \in Prices :
    LET list == levels[s][p].orders
    IN  /\ \A i, j \in DOMAIN list : list[i] = list[j] => i = j
        /\ \A i \in DOMAIN list : order[list[i]].remaining > 0

\* Only the loop of match_orders works on a crossed book.
CrossedOnlyWhileMatching ==
  pc \in {"idle", "market", "fill", "notify"} => ~Crossed

\* The inductive invariant behind NotCrossedBetweenCalls.
BookInv ==
  TypeOK /\ OrdersSound /\ ListsSound /\ IteratorsSound /\ ListsLive /\ CrossedOnlyWhileMatching

\* Between calls the book is not crossed: match_orders leaves no bid at or above
\* an ask, in whatever order limits, market orders, cancels and modifications
\* reach it (the loop of order_book.cpp:315-370, which moves its iterators past
\* orders it filled only in part).
NotCrossedBetweenCalls == pc = "idle" => ~Crossed

\* The handles that must give way: ahead of h on the same side of the book.
Ahead(g, h) ==
  /\ order[g].side = order[h].side
  /\ \/ Better(order[g].side, order[g].price, order[h].price)
     \/ order[g].price = order[h].price /\ g < h

\* Price-time priority (README.md:31): an execution takes an order only if no
\* order resting on its side has a better price, or its price and an earlier
\* arrival. Nothing sorts the book: the maps, push_back and the iterators do it.
PriceTimePriority ==
  [][\A h \in Handle : order'[h].remaining < order[h].remaining
       => \A g \in Resting : ~Ahead(g, h)]_vars

\* The sum of a sequence of numbers.
Total(s) ==
  LET sum[n \in 0..Len(s)] == IF n = 0 THEN 0 ELSE sum[n - 1] + s[n]
  IN  sum[Len(s)]

\* What a trade tells the callbacks of an order.
Share(t, h) == IF h \in {t.buy, t.sell} THEN t.quantity ELSE 0

\* What the callbacks have been told of an order, and what the trades still
\* waiting in the vector will tell them.
Told(h) == reported[h] + Total([i \in DOMAIN trades |-> Share(trades[i], h)])

\* Executions and notifications agree: what an order executed is what the
\* callbacks are told of it, once, and a call returns only when it has told all
\* (the deferred loops of order_book.cpp:303-306 and 372-375).
ExecutionsAreTold ==
  /\ \A h \in Handle : order[h].quantity - order[h].remaining = Told(h)
  /\ pc = "idle" => trades = << >>

\* No order is lost and none is kept too long: an order rests in the book, in
\* one place of the list of its own side and price, exactly while it has
\* quantity left and no client's call took it out.
Places(l, h) == {i \in DOMAIN l.orders : l.orders[i] = h}

NoOrderLost ==
  pc # "undefined" =>
    \A h \in Handle, s \in Side, p \in Prices :
      Cardinality(Places(levels[s][p], h)) =
        IF /\ order[h].remaining > 0
           /\ h \notin withdrawn
           /\ order[h].side = s /\ order[h].price = p
        THEN 1 ELSE 0

\* Between calls no level is kept without orders: best_bid and best_ask
\* (order_book.cpp:384-396) read the first key of the map, so an empty level
\* would be quoted as a price at which nobody trades.
NoEmptyLevel ==
  pc = "idle" => \A s \in Side, p \in Prices :
                   levels[s][p].live <=> levels[s][p].orders # << >>

Quantity(l) == Total([i \in DOMAIN l.orders |-> order[l.orders[i]].remaining])

\* The volume a level publishes never understates what rests there, although the
\* matching loops do not maintain it (order_book.cpp:350-360).
VolumeNotUnderstated ==
  pc # "undefined" => \A s \in Side, p \in Prices :
                        levels[s][p].total_volume >= Quantity(levels[s][p])

\* With ids used once, every resting order answers to its id: get_order finds it
\* and cancel_order takes it, and no other, out of the book.
AnswersToId ==
  pc \notin {"undefined"} =>
    \A h \in Resting :
      /\ orders[order[h].id] = h
      /\ levels[order[h].side][order[h].price].order_map[order[h].id] = h

\* Every call returns, unless it runs into undefined behaviour: the nested
\* matching loops terminate.
CallsReturn == pc \notin {"idle", "undefined"} ~> pc \in {"idle", "undefined"}

\* The book implements the abstract one: each execution of the loops is one
\* match of the first buy with the first sell, or one market order taking from
\* the first order of a side, and the steps around it change nothing; orders are
\* accepted, withdrawn and replaced only in a book with nothing left to match.
Abstract == INSTANCE PriceTimeBook WITH
  accepted <- [h \in Handle |-> [side |-> order[h].side, price |-> order[h].price,
                                 remaining |-> order[h].remaining]],
  resting <- Resting

ImplementsPriceTimeBook == Abstract!Spec

(***************************************************************************)
(* What a comment in the source says of the book, and the code does not do. *)
(***************************************************************************)

\* order_book.cpp:133 "Order not found": removing an id the book no longer has an
\* order for reports failure. It never leads to undefined behaviour.
RemovalIsDefined == pc # "undefined"
==============================================================================
