---------------------------- MODULE ExchangeProofs ----------------------------
(***************************************************************************)
(* Theorems about Exchange: what a subscriber has seen last is the book, the *)
(* book keeps its invariant and its promises within the composition, an     *)
(* actor can withdraw whatever it has in the book, and closing the session  *)
(* leaves no order.                                                        *)
(***************************************************************************)
EXTENDS Exchange, PriceTimeProofs

(***************************************************************************)
(* Market data.                                                            *)
(***************************************************************************)

\* The inductive invariant behind SnapshotIsCurrent.
FeedInv ==
  /\ feed = [a \in Actors |-> feed[a]]
  /\ subscribers \subseteq Actors
  /\ listings \in Nat
  /\ SnapshotIsCurrent

\* After a broadcast of the book as it is everyone has seen it.
LEMMA BroadcastIsCurrent ==
  ASSUME subscribers' = subscribers, subscribers \subseteq Actors,
         Broadcast(levels', last_trade')
  PROVE  /\ feed' = [a \in Actors |-> feed'[a]]
         /\ SnapshotIsCurrent'
BY DEF Broadcast, SnapshotIsCurrent, View, BestPrice

\* A step that changes neither the book nor what was broadcast of it.
LEMMA QuietIsCurrent ==
  ASSUME FeedInv, UNCHANGED <<levels, pc, stage, listings, subscribers, last_trade, feed>>
  PROVE  FeedInv'
<1>1. View(levels, last_trade)' = View(levels, last_trade)
  BY DEF View, BestPrice
<1>. QED  BY <1>1 DEF FeedInv, SnapshotIsCurrent, Free

\* A step into the midst of a call, or to its undefined end, claims nothing.
LEMMA BusyIsCurrent ==
  ASSUME FeedInv, UNCHANGED <<listings, subscribers>>, ~Free',
         feed' = feed \/ \E lv, last : Broadcast(lv, last)
  PROVE  FeedInv'
<1>1. feed' = [a \in Actors |-> feed'[a]]
  BY DEF FeedInv, Broadcast
<1>. QED  BY <1>1 DEF FeedInv, SnapshotIsCurrent

\* Every step keeps it.
LEMMA FeedStep ==
  ASSUME FeedInv, [ExNext]_exVars
  PROVE  FeedInv'
<1>. USE DEF session, market, clients, call
<1>1. CASE OpenTradingSession
  BY <1>1, QuietIsCurrent DEF OpenTradingSession, vars
<1>2. CASE CloseTradingSession
  <2>1. ~Free'
    BY <1>2 DEF CloseTradingSession, Free
  <2>. QED  BY <1>2, <2>1, BusyIsCurrent DEF CloseTradingSession
<1>3. CASE CloseOne
  <2>1. ~Free'
    BY <1>3 DEF CloseOne, Free
  <2>. QED  BY <1>3, <2>1, BusyIsCurrent DEF CloseOne
<1>4. CASE CloseDone
  <2>1. CASE listings > 0
    <3>1. /\ subscribers' = subscribers /\ subscribers \subseteq Actors
          /\ Broadcast(levels', last_trade')
      BY <1>4, <2>1 DEF CloseDone, vars, FeedInv, Broadcast, View, BestPrice
    <3>. QED  BY <1>4, <3>1, BroadcastIsCurrent DEF CloseDone, FeedInv
  <2>2. CASE ~(listings > 0)
    BY <1>4, <2>2 DEF CloseDone, FeedInv, SnapshotIsCurrent
  <2>. QED  BY <2>1, <2>2
<1>5. CASE AddInstrument
  <2>1. subscribers' = subscribers /\ Broadcast(levels', last_trade') /\ listings' = listings + 1
    BY <1>5 DEF AddInstrument
  <2>. QED  BY <2>1, BroadcastIsCurrent DEF FeedInv
<1>6. CASE Match
  <2>1. ~Free'
    BY <1>6 DEF Match, Free
  <2>. QED  BY <1>6, <2>1, BusyIsCurrent DEF Match
<1>7. CASE TradeCallbacks
  <2>1. ~Free'
    BY <1>7 DEF TradeCallbacks, Free
  <2>. QED  BY <1>7, <2>1, BusyIsCurrent DEF TradeCallbacks
<1>8. CASE OrderProcessed \/ ProcessResult
  <2>1. ~Free'
    BY <1>8 DEF OrderProcessed, ProcessResult, Free
  <2>. QED  BY <1>8, <2>1, BusyIsCurrent DEF OrderProcessed, ProcessResult
<1>9. CASE Submitted
  <2>1. /\ subscribers' = subscribers /\ subscribers \subseteq Actors
        /\ Broadcast(levels', last_trade')
    BY <1>9 DEF Submitted, vars, FeedInv, Broadcast, View, BestPrice
  <2>. QED  BY <1>9, <2>1, BroadcastIsCurrent DEF Submitted, FeedInv
<1>10. ASSUME NEW a \in Watchers, Subscribe(a)
       PROVE  FeedInv'
  <2>1. a \in Actors
    BY ExchangeAssumption
  <2> DEFINE v == View(levels, last_trade)
  <2>2. v' = v /\ Free
    BY <1>10 DEF Subscribe, vars, View, BestPrice
  <2>3. /\ subscribers' = subscribers \cup {a} /\ listings' = listings
        /\ feed' = IF listings > 0 THEN [feed EXCEPT ![a] = v] ELSE feed
    BY <1>10 DEF Subscribe
  <2>4. SnapshotIsCurrent' <=> (Free' /\ listings > 0 => \A b \in subscribers' : feed'[b] = v)
    BY <2>2, <2>3 DEF SnapshotIsCurrent
  <2>5. listings > 0 => \A b \in subscribers : feed[b] = v
    BY <2>2 DEF FeedInv, SnapshotIsCurrent
  <2>. HIDE DEF v
  <2>6. feed = [b \in Actors |-> feed[b]] /\ subscribers \subseteq Actors /\ listings \in Nat
    BY DEF FeedInv
  <2>7. feed' = [b \in Actors |-> feed'[b]] /\ subscribers' \subseteq Actors
    BY <2>1, <2>3, <2>6
  <2>8. SnapshotIsCurrent'
    BY <2>1, <2>3, <2>4, <2>5, <2>6
  <2>. QED  BY <2>3, <2>6, <2>7, <2>8 DEF FeedInv
<1>11. ASSUME NEW a \in Watchers, Unsubscribe(a)
       PROVE  FeedInv'
  <2>1. a \in Actors
    BY ExchangeAssumption
  <2>. QED  BY <1>11, <2>1 DEF Unsubscribe, vars, Free, FeedInv, SnapshotIsCurrent, View, BestPrice
<1>12. ASSUME NEW a \in Actors, NEW id \in OrderIds, CancelOrder(a, id)
       PROVE  FeedInv'
  <2>1. CASE Broadcast(levels', last_trade)
    BY <1>12, <2>1, BroadcastIsCurrent DEF CancelOrder, FeedInv
  <2>2. CASE UNCHANGED <<vars, feed, accounts>>
    BY <1>12, <2>2, QuietIsCurrent DEF CancelOrder, vars
  <2>. QED  BY <1>12, <2>1, <2>2 DEF CancelOrder
<1>13. ASSUME NEW a \in Actors, NEW id \in OrderIds, NEW s \in Side, NEW p \in RejectedAt,
              Reject(a, id, s, p)
       PROVE  FeedInv'
  BY <1>13, QuietIsCurrent DEF Reject, vars
<1>14. ASSUME NEW a \in Actors, NEW id \in OrderIds, NEW s \in Side, NEW q \in Quantities,
              \/ \E p \in Prices : SubmitLimitOrder(a, id, s, q, p)
              \/ SubmitMarketOrder(a, id, s, q)
       PROVE  FeedInv'
  <2>1. ~Free'
    BY <1>14 DEF SubmitLimitOrder, SubmitMarketOrder, Free
  <2>. QED  BY <1>14, <2>1, BusyIsCurrent DEF SubmitLimitOrder, SubmitMarketOrder
<1>15. CASE UNCHANGED exVars
  BY <1>15, QuietIsCurrent DEF exVars, vars
<1>. QED  BY <1>1, <1>2, <1>3, <1>4, <1>5, <1>6, <1>7, <1>8, <1>9, <1>10, <1>11, <1>12,
             <1>13, <1>14, <1>15 DEF ExNext

\* Whatever is submitted, cancelled, listed, opened or closed, and wherever in the
\* callbacks of the book a snapshot is taken: when a call has returned, the last
\* one a subscriber was sent shows the book as it is, and the last trade.
THEOREM SnapshotsAreCurrent == ExSpec => []SnapshotIsCurrent
<1>1. ExInit => FeedInv
  BY DEF ExInit, FeedInv, SnapshotIsCurrent
<1>2. FeedInv /\ [ExNext]_exVars => FeedInv'
  BY FeedStep
<1>3. FeedInv => SnapshotIsCurrent
  BY DEF FeedInv
<1>. QED  BY <1>1, <1>2, <1>3, PTL DEF ExSpec

(***************************************************************************)
(* The book within the exchange.                                           *)
(***************************************************************************)

\* What a step of the exchange is for the book.
BookStep(id) == (Cancel(id) \/ RemoveDangling(id)) /\ UNCHANGED <<owner, used>>
NewLimit(a, id, s, q, p) ==
  /\ SubmitLimit(id, s, q, p)
  /\ id \notin used /\ used' = used \cup {id}
  /\ owner' = Append(owner, a)

\* Every step of the exchange is one of these for the book.
LEMMA StepsOfTheBook ==
  ASSUME ExNext \/ UNCHANGED exVars, closing \subseteq OrderIds
  PROVE  \/ UNCHANGED <<vars, owner>> /\ used \subseteq used'
         \/ (Proceed \/ \E s \in Side, q \in Quantities : SubmitMarket(s, q))
              /\ UNCHANGED owner /\ used \subseteq used'
         \/ \E id \in OrderIds : BookStep(id)
         \/ \E a \in Actors, id \in OrderIds, s \in Side, q \in Quantities, p \in Prices :
              NewLimit(a, id, s, q, p)
         \/ AddInstrument
<1> DEFINE Quiet == UNCHANGED <<vars, owner>> /\ used \subseteq used'
<1>. USE DEF clients
<1>1. OpenTradingSession \/ CloseTradingSession \/ CloseDone \/ ProcessResult \/ Submitted => Quiet
  BY DEF OpenTradingSession, CloseTradingSession, CloseDone, ProcessResult, Submitted
<1>2. \A a \in Watchers : Subscribe(a) \/ Unsubscribe(a) => Quiet
  BY DEF Subscribe, Unsubscribe
<1>3. Match \/ TradeCallbacks \/ OrderProcessed => Proceed /\ UNCHANGED owner /\ used \subseteq used'
  BY DEF Match, TradeCallbacks, OrderProcessed, Proceed
<1>4. CloseOne => \E id \in OrderIds : BookStep(id)
  BY DEF CloseOne, BookStep
<1>5. ASSUME NEW a \in Actors, NEW id \in OrderIds, CancelOrder(a, id)
      PROVE  Quiet \/ BookStep(id)
  BY <1>5 DEF CancelOrder, BookStep
<1>6. ASSUME NEW a \in Actors, NEW id \in OrderIds, NEW s \in Side, NEW p \in RejectedAt,
             Reject(a, id, s, p)
      PROVE  Quiet
  BY <1>6 DEF Reject, Activate
<1>7. ASSUME NEW a \in Actors, NEW id \in OrderIds, NEW s \in Side, NEW q \in Quantities,
             NEW p \in Prices, SubmitLimitOrder(a, id, s, q, p)
      PROVE  NewLimit(a, id, s, q, p)
  BY <1>7 DEF SubmitLimitOrder, NewLimit, Activate, FreeIds
<1>8. ASSUME NEW a \in Actors, NEW id \in OrderIds, NEW s \in Side, NEW q \in Quantities,
             SubmitMarketOrder(a, id, s, q)
      PROVE  SubmitMarket(s, q) /\ UNCHANGED owner /\ used \subseteq used'
  BY <1>8 DEF SubmitMarketOrder, Activate
<1>9. UNCHANGED exVars => Quiet
  BY DEF exVars
<1>. HIDE DEF Quiet
<1>10. ASSUME NEW a \in Actors, NEW id \in OrderIds,
              \/ CancelOrder(a, id)
              \/ \E s \in Side :
                   \/ \E p \in RejectedAt : Reject(a, id, s, p)
                   \/ \E q \in Quantities, p \in Prices : SubmitLimitOrder(a, id, s, q, p)
                   \/ \E q \in Quantities : SubmitMarketOrder(a, id, s, q)
       PROVE  \/ Quiet \/ BookStep(id)
              \/ \E s \in Side, q \in Quantities, p \in Prices : NewLimit(a, id, s, q, p)
              \/ (\E s \in Side, q \in Quantities : SubmitMarket(s, q))
                   /\ UNCHANGED owner /\ used \subseteq used'
  BY <1>5, <1>6, <1>7, <1>8, <1>10
<1>. QED  BY <1>1, <1>2, <1>3, <1>4, <1>9, <1>10 DEF ExNext, Quiet

(***************************************************************************)
(* add_instrument: a new book, empty or with one order on either side.     *)
(***************************************************************************)

Owners == owner \in Seq(Actors \cup {Nobody}) /\ Len(owner) = Len(order)

\* The level l holds the order g and nothing else.
Holds(l, g, s, p) ==
  /\ l.live /\ DOMAIN l.orders = {1} /\ l.orders[1] = g /\ l.orders = Append(<< >>, g)
  /\ order'[g].side = s /\ order'[g].price = p /\ l.total_volume = order'[g].remaining
  /\ orders'[order'[g].id] = g /\ l.order_map[order'[g].id] = g
  /\ \A x \in OrderIds \ {order'[g].id} : l.order_map[x] = NoOrder

NewHandle == Handle' \ Handle

\* What a new book has in common with and without liquidity.
Relisted ==
  /\ order' \in Seq(OrderObject) /\ Len(order) <= Len(order')
  /\ Len(order') = Len(order) \/ Len(order') <= MaxOrders
  /\ \A g \in Handle : order'[g] = order[g]
  /\ \A g \in NewHandle : /\ order'[g].id \notin used /\ order'[g].id \in used'
                          /\ order'[g].status = "NEW" /\ order'[g].remaining > 0
                          /\ order'[g].remaining = order'[g].quantity
                          /\ Holds(levels'[order'[g].side][order'[g].price], g,
                                   order'[g].side, order'[g].price)
  /\ \A g, k \in NewHandle : order'[g].id = order'[k].id => g = k
  /\ orders' \in [OrderIds -> Nat]
  /\ \A x \in OrderIds : orders'[x] # NoOrder => orders'[x] \in Handle' /\ order'[orders'[x]].id = x
  /\ levels' \in Levels
  /\ \A s \in Side, p \in Prices :
       levels'[s][p] = NoLevel \/ \E g \in NewHandle : Holds(levels'[s][p], g, s, p)
  /\ ~Crossed'

\* The orders of the initial liquidity belong to nobody.
RelistedOwners ==
  /\ owner' \in Seq(Actors \cup {Nobody}) /\ Len(owner') = Len(order')
  /\ \A g \in Handle : owner'[g] = owner[g]
  /\ \A g \in NewHandle : owner'[g] = Nobody

\* Two elements put at the end of a sequence.
LEMMA AppendTwo ==
  ASSUME NEW S, NEW s \in Seq(S), NEW x \in S, NEW y \in S
  PROVE  LET t == Append(Append(s, x), y)
         IN  /\ t \in Seq(S) /\ Len(s) \in Nat /\ Len(t) = Len(s) + 2
             /\ \A i \in 1..Len(s) : t[i] = s[i]
             /\ t[Len(s) + 1] = x /\ t[Len(s) + 2] = y
<1> DEFINE r == Append(s, x)
<1>1. /\ r \in Seq(S) /\ Len(r) = Len(s) + 1 /\ Len(s) \in Nat
      /\ \A i \in 1..Len(s) : r[i] = s[i]
      /\ r[Len(s) + 1] = x
  BY AppendProperties, LenProperties
<1>. HIDE DEF r
<1>2. /\ Append(r, y) \in Seq(S) /\ Len(Append(r, y)) = Len(r) + 1
      /\ \A i \in 1..Len(r) : Append(r, y)[i] = r[i]
      /\ Append(r, y)[Len(r) + 1] = y
  BY <1>1, AppendProperties
<1>3. Len(r) + 1 = Len(s) + 2 /\ Len(s) + 1 \in 1..Len(r) /\ \A i \in 1..Len(s) : i \in 1..Len(r)
  BY <1>1
<1>. QED  BY <1>1, <1>2, <1>3 DEF r

\* A new level with its first order.
LEMMA FirstOrder ==
  ASSUME NEW h \in Nat, NEW o \in OrderObject
  PROVE  LET l == WithOrder(NoLevel, h, o)
         IN  /\ l \in Level /\ l.live /\ DOMAIN l.orders = {1} /\ l.orders[1] = h
             /\ l.orders = Append(<< >>, h) /\ l.total_volume = o.remaining
             /\ l.order_map[o.id] = h
             /\ \A x \in OrderIds \ {o.id} : l.order_map[x] = NoOrder
<1> DEFINE l == WithOrder(NoLevel, h, o)
<1>1. /\ l \in Level /\ l.live
      /\ \E list \in {NoLevel.orders, << >>} : l.orders = Append(list, h)
  BY NoLevelType, WithOrderProperties
<1>2. /\ l.order_map[o.id] = h
      /\ \A x \in OrderIds \ {o.id} : l.order_map[x] \in {NoLevel.order_map[x], NoOrder}
  BY NoLevelType, WithOrderAnswers
<1>. HIDE DEF l
<1>3. l.orders = Append(<< >>, h)
  BY <1>1, NoLevelType
<1>4. DOMAIN l.orders = {1} /\ l.orders[1] = h
  BY <1>3
<1>5. l.total_volume = o.remaining
  BY DEF l, WithOrder, NoLevel, OrderObject
<1>. QED  BY <1>1, <1>2, <1>3, <1>4, <1>5 DEF l, NoLevel

\* A listing without orders puts an empty book in the place of the old one.
LEMMA EmptyListing ==
  ASSUME Shape, Owners, levels' = EmptyLevels, orders' = NoIds, UNCHANGED <<order, owner, used>>
  PROVE  Relisted /\ RelistedOwners
<1>1. \A s \in Side, p \in Prices : levels'[s][p] = NoLevel /\ ~levels'[s][p].live
  BY NoLevelType DEF EmptyLevels
<1>2. levels' \in Levels
  BY NoLevelType DEF EmptyLevels, Levels
<1>3. ~Crossed'
  BY <1>1 DEF Crossed, Live, Side
<1>4. NewHandle = {} /\ Len(order) <= Len(order')
  BY LenProperties DEF NewHandle, Handle, Shape, TypeOK
<1>. QED  BY <1>1, <1>2, <1>3, <1>4 DEF Relisted, RelistedOwners, Owners, NoIds, NoOrder, Shape, TypeOK

\* A listing with liquidity puts one order on each side of an empty book.
LEMMA LiquidListing ==
  ASSUME Shape, Owners, NEW i \in OrderIds \ used, NEW j \in OrderIds \ used, i # j, NEW h,
         NEW bid, NEW ask, h = Len(order) + 1,
         bid = NewOrder(i, "BUY", InitialSize, InitialBid),
         ask = NewOrder(j, "SELL", InitialSize, InitialAsk),
         order' = Append(Append(order, bid), ask),
         owner' = Append(Append(owner, Nobody), Nobody),
         orders' = [NoIds EXCEPT ![i] = h, ![j] = h + 1],
         levels' = [EmptyLevels EXCEPT !["BUY"][InitialBid] = WithOrder(@, h, bid),
                                       !["SELL"][InitialAsk] = WithOrder(@, h + 1, ask)],
         used' = used \cup {i, j}, Len(order) + 1 < MaxOrders
  PROVE  Relisted /\ RelistedOwners
<1> DEFINE mb == WithOrder(NoLevel, h, bid)
           ma == WithOrder(NoLevel, h + 1, ask)
<1>1. /\ "BUY" \in Side /\ "SELL" \in Side /\ "BUY" # "SELL" /\ InitialSize > 0
      /\ InitialBid \in Prices /\ InitialAsk \in Prices /\ InitialBid < InitialAsk
      /\ InitialBid \in Nat /\ InitialAsk \in Nat
  BY ExchangeAssumption, BookAssumption DEF Side
<1>2. /\ bid \in OrderObject /\ bid.id = i /\ bid.side = "BUY" /\ bid.price = InitialBid
      /\ bid.status = "NEW" /\ bid.remaining > 0 /\ bid.remaining = bid.quantity
      /\ ask \in OrderObject /\ ask.id = j /\ ask.side = "SELL" /\ ask.price = InitialAsk
      /\ ask.status = "NEW" /\ ask.remaining > 0 /\ ask.remaining = ask.quantity
  BY <1>1, NewOrderType, ExchangeAssumption DEF NewOrder
<1>3. /\ order' \in Seq(OrderObject) /\ Len(order) \in Nat /\ Len(order') = h + 1
      /\ \A g \in Handle : order'[g] = order[g]
      /\ order'[h] = bid /\ order'[h + 1] = ask
  <2>1. order \in Seq(OrderObject)
    BY DEF Shape, TypeOK
  <2>. QED  BY <1>2, <2>1, AppendTwo DEF Handle
<1>4. h \in Nat /\ NewHandle = {h, h + 1} /\ Handle' = 1..(h + 1)
  <2>1. h \in Nat /\ Handle = 1..(h - 1) /\ Handle' = 1..(h + 1)
    BY <1>3 DEF Handle
  <2>2. (1..(h + 1)) \ (1..(h - 1)) = {h, h + 1}
    BY ONLY <1>3, h = Len(order) + 1
  <2>. QED  BY <2>1, <2>2 DEF NewHandle
<1>5. RelistedOwners
  BY <1>3, <1>4, AppendTwo DEF Owners, RelistedOwners, Handle
<1>6. /\ mb \in Level /\ mb.live /\ DOMAIN mb.orders = {1} /\ mb.orders[1] = h
      /\ mb.orders = Append(<< >>, h) /\ mb.total_volume = bid.remaining
      /\ mb.order_map[i] = h /\ \A x \in OrderIds \ {i} : mb.order_map[x] = NoOrder
      /\ ma \in Level /\ ma.live /\ DOMAIN ma.orders = {1} /\ ma.orders[1] = h + 1
      /\ ma.orders = Append(<< >>, h + 1) /\ ma.total_volume = ask.remaining
      /\ ma.order_map[j] = h + 1 /\ \A x \in OrderIds \ {j} : ma.order_map[x] = NoOrder
  <2>1. h + 1 \in Nat
    BY <1>4
  <2>2. /\ mb \in Level /\ mb.live /\ DOMAIN mb.orders = {1} /\ mb.orders[1] = h
        /\ mb.orders = Append(<< >>, h) /\ mb.total_volume = bid.remaining
        /\ mb.order_map[bid.id] = h /\ \A x \in OrderIds \ {bid.id} : mb.order_map[x] = NoOrder
    BY ONLY <1>2, <1>4, FirstOrder
  <2>3. /\ ma \in Level /\ ma.live /\ DOMAIN ma.orders = {1} /\ ma.orders[1] = h + 1
        /\ ma.orders = Append(<< >>, h + 1) /\ ma.total_volume = ask.remaining
        /\ ma.order_map[ask.id] = h + 1 /\ \A x \in OrderIds \ {ask.id} : ma.order_map[x] = NoOrder
    BY ONLY <1>2, <2>1, FirstOrder
  <2>. HIDE DEF mb, ma
  <2>. QED  BY <1>2, <2>2, <2>3
<1>7. \A x \in OrderIds : orders'[x] = IF x = i THEN h ELSE IF x = j THEN h + 1 ELSE NoOrder
  BY DEF NoIds
<1>8. /\ levels' = [EmptyLevels EXCEPT !["BUY"][InitialBid] = mb, !["SELL"][InitialAsk] = ma]
      /\ EmptyLevels \in Levels
      /\ \A s \in Side, p \in Prices : EmptyLevels[s][p] = NoLevel
  BY <1>1, NoLevelType DEF EmptyLevels, Levels
<1>. HIDE DEF mb, ma
<1>9. /\ levels' \in Levels
      /\ levels'["BUY"][InitialBid] = mb /\ levels'["SELL"][InitialAsk] = ma
      /\ \A s \in Side, p \in Prices :
           ~(s = "BUY" /\ p = InitialBid) /\ ~(s = "SELL" /\ p = InitialAsk) => levels'[s][p] = NoLevel
  <2> DEFINE one == [EmptyLevels EXCEPT !["BUY"][InitialBid] = mb]
  <2>1. /\ one \in Levels /\ one["BUY"][InitialBid] = mb
        /\ \A s \in Side, p \in Prices : s # "BUY" \/ p # InitialBid => one[s][p] = NoLevel
    BY <1>1, <1>6, <1>8, LevelUpdate DEF Levels
  <2>2. levels' = [one EXCEPT !["SELL"][InitialAsk] = ma]
    BY <1>8
  <2>. HIDE DEF one
  <2>3. /\ levels' \in Levels /\ levels'["SELL"][InitialAsk] = ma
        /\ \A s \in Side, p \in Prices : s # "SELL" \/ p # InitialAsk => levels'[s][p] = one[s][p]
    <3>1. ma \in Level /\ one \in [Side -> [Prices -> Level]]
      BY <1>6, <2>1 DEF Levels
    <3>2. "SELL" \in Side /\ InitialAsk \in Prices
      BY <1>1
    <3> DEFINE two == [one EXCEPT !["SELL"][InitialAsk] = ma]
    <3>3. /\ two \in [Side -> [Prices -> Level]] /\ two["SELL"][InitialAsk] = ma
          /\ \A s \in Side, p \in Prices : s # "SELL" \/ p # InitialAsk => two[s][p] = one[s][p]
      BY ONLY <3>1, <3>2, LevelUpdate
    <3>. HIDE DEF two
    <3>4. levels' = two
      BY <2>2 DEF two
    <3>. QED  BY <3>3, <3>4 DEF Levels
  <2>4. levels'["BUY"][InitialBid] = mb
    BY ONLY <1>1, <2>1, <2>3
  <2>5. \A s \in Side, p \in Prices :
          ~(s = "BUY" /\ p = InitialBid) /\ ~(s = "SELL" /\ p = InitialAsk) => levels'[s][p] = NoLevel
    BY ONLY <2>1, <2>3
  <2>. QED  BY ONLY <2>3, <2>4, <2>5
<1>10. /\ Holds(mb, h, "BUY", InitialBid) /\ Holds(ma, h + 1, "SELL", InitialAsk)
  <2>1. orders'[i] = h /\ orders'[j] = h + 1
    BY <1>7
  <2>2. Holds(mb, h, "BUY", InitialBid)
    BY ONLY <1>2, <1>3, <1>6, <2>1 DEF Holds
  <2>3. Holds(ma, h + 1, "SELL", InitialAsk)
    BY ONLY <1>2, <1>3, <1>6, <2>1 DEF Holds
  <2>. QED  BY <2>2, <2>3
<1>11. \A s \in Side, p \in Prices :
         levels'[s][p] = NoLevel \/ \E g \in NewHandle : Holds(levels'[s][p], g, s, p)
  BY <1>4, <1>9, <1>10
<1>12. ~Crossed'
  <2>1. \A p \in Prices : /\ levels'["BUY"][p].live => p = InitialBid
                          /\ levels'["SELL"][p].live => p = InitialAsk
    BY <1>1, <1>9, NoLevelType
  <2>2. ASSUME NEW b \in Prices, NEW a \in Prices, levels'["BUY"][b].live, levels'["SELL"][a].live
        PROVE  ~(b >= a)
    <3>1. b = InitialBid
      BY <2>1, <2>2
    <3>2. a = InitialAsk
      BY <2>1, <2>2
    <3>. QED  BY <3>1, <3>2, <1>1
  <2>. QED  BY <2>2 DEF Crossed, Live
<1>13. /\ orders' \in [OrderIds -> Nat]
       /\ \A x \in OrderIds : orders'[x] # NoOrder => orders'[x] \in Handle' /\ order'[orders'[x]].id = x
  <2>1. orders' \in [OrderIds -> Nat]
    BY <1>4 DEF NoIds, NoOrder
  <2>2. h \in Handle' /\ h + 1 \in Handle'
    BY <1>3, <1>4
  <2>. QED  BY <2>1, <2>2, <1>2, <1>3, <1>7
<1>14. /\ \A g \in NewHandle : /\ order'[g].id \notin used /\ order'[g].id \in used'
                               /\ order'[g].status = "NEW" /\ order'[g].remaining > 0
                               /\ order'[g].remaining = order'[g].quantity
       /\ \A g, k \in NewHandle : order'[g].id = order'[k].id => g = k
  BY <1>2, <1>3, <1>4
<1>15. Len(order) <= Len(order') /\ Len(order') <= MaxOrders
  <2>1. MaxOrders \in Nat
    BY BookAssumption
  <2>. QED  BY <1>3, <2>1
<1>16. \A g \in NewHandle :
         Holds(levels'[order'[g].side][order'[g].price], g, order'[g].side, order'[g].price)
  <2>1. Holds(levels'[order'[h].side][order'[h].price], h, order'[h].side, order'[h].price)
    BY <1>2, <1>3, <1>9, <1>10
  <2>2. Holds(levels'[order'[h + 1].side][order'[h + 1].price], h + 1,
              order'[h + 1].side, order'[h + 1].price)
    BY <1>2, <1>3, <1>9, <1>10
  <2>. QED  BY <1>4, <2>1, <2>2
<1>. QED
  BY <1>3, <1>5, <1>9, <1>11, <1>12, <1>13, <1>14, <1>15, <1>16 DEF Relisted

\* add_instrument does the one or the other.
LEMMA ListingRelists ==
  ASSUME Shape, Owners, AddInstrument
  PROVE  Relisted /\ RelistedOwners
<1>1. CASE levels' = EmptyLevels /\ orders' = NoIds /\ UNCHANGED <<order, owner, last_trade, used>>
  BY <1>1, EmptyListing
<1>2. CASE ~(levels' = EmptyLevels /\ orders' = NoIds /\ UNCHANGED <<order, owner, last_trade, used>>)
  <2> DEFINE i == CHOOSE id \in FreeIds \ {NextId} : TRUE
             h == Len(order) + 1
             bid == NewOrder(NextId, "BUY", InitialSize, InitialBid)
             ask == NewOrder(i, "SELL", InitialSize, InitialAsk)
  <2>1. /\ FreeIds # {} /\ FreeIds \ {NextId} # {}
        /\ order' = Append(Append(order, bid), ask)
        /\ owner' = Append(Append(owner, Nobody), Nobody)
        /\ orders' = [NoIds EXCEPT ![NextId] = h, ![i] = h + 1]
        /\ levels' = [EmptyLevels EXCEPT !["BUY"][InitialBid] = WithOrder(@, h, bid),
                                         !["SELL"][InitialAsk] = WithOrder(@, h + 1, ask)]
        /\ used' = used \cup {NextId, i} /\ Len(order) + 1 < MaxOrders
    BY <1>2 DEF AddInstrument
  <2>2. NextId \in FreeIds /\ i \in FreeIds \ {NextId}
    BY <2>1 DEF NextId
  <2>3. NextId \in OrderIds \ used /\ i \in OrderIds \ used /\ NextId # i
    BY <2>2 DEF FreeIds
  <2>. HIDE DEF i
  <2>. QED  BY <2>1, <2>3, LiquidListing
<1>. QED  BY <1>1, <1>2

\* What an element of a list of the new book is.
LEMMA RelistedElement ==
  ASSUME Relisted, NEW s \in Side, NEW p \in Prices, NEW k \in DOMAIN levels'[s][p].orders
  PROVE  /\ k = 1 /\ levels'[s][p].orders[k] \in NewHandle
         /\ Holds(levels'[s][p], levels'[s][p].orders[k], s, p)
<1>1. levels'[s][p] # NoLevel
  BY EmptySeq DEF NoLevel
<1>2. PICK g \in NewHandle : Holds(levels'[s][p], g, s, p)
  BY <1>1 DEF Relisted
<1>3. k = 1 /\ levels'[s][p].orders[k] = g
  BY <1>2 DEF Holds
<1>. QED  BY <1>2, <1>3

\* A new book is in order.
LEMMA ListingKeeps ==
  ASSUME Shape, Owners, AddInstrument
  PROVE  Shape' /\ Calm'
<1>1. Relisted
  BY ListingRelists
<1>2. /\ UNCHANGED <<pc, px, it, taker, trades, reported>> /\ pc = "idle"
      /\ withdrawn' = withdrawn \cup Resting
  BY DEF AddInstrument, frame, Free
<1>3. withdrawn' \subseteq Nat
  BY <1>2, HandleType DEF Shape, TypeOK, Resting
<1>4. TypeOK'
  BY <1>1, <1>2, <1>3 DEF Shape, TypeOK, Relisted, Levels
<1>5. OrdersSound'
  BY <1>1 DEF OrdersSound, Relisted, Handle, NoOrder
<1>6. ListsSound' /\ ListsLive'
  <2>1. ASSUME NEW s \in Side, NEW p \in Prices, NEW k \in DOMAIN levels'[s][p].orders
        PROVE  LET g == levels'[s][p].orders[k]
               IN  /\ k = 1 /\ g \in Handle' /\ order'[g].side = s /\ order'[g].price = p
                   /\ order'[g].remaining > 0
    <3> DEFINE g == levels'[s][p].orders[k]
    <3>1. k = 1 /\ g \in NewHandle /\ Holds(levels'[s][p], g, s, p)
      BY <1>1, RelistedElement
    <3>. HIDE DEF g
    <3>2. g \in Handle' /\ order'[g].remaining > 0
      BY <3>1, <1>1 DEF Relisted, NewHandle
    <3>3. order'[g].side = s /\ order'[g].price = p
      BY <3>1 DEF Holds
    <3>. QED  BY <3>1, <3>2, <3>3 DEF g
  <2>. QED  BY <2>1 DEF ListsSound, ListsLive
<1>7. IteratorsSound' /\ CrossedOnlyWhileMatching'
  BY <1>1, <1>2 DEF IteratorsSound, CrossedOnlyWhileMatching, Relisted
<1>. QED  BY <1>4, <1>5, <1>6, <1>7 DEF Shape, Calm

\* It keeps the ids sound too: the new orders have ids of their own.
LEMMA ListingKeepsIds ==
  ASSUME Shape, Owners, Ids, AddInstrument, \A g \in Handle : order[g].id \in used
  PROVE  Ids' /\ \A g \in Handle' : order'[g].id \in used'
<1>1. Relisted
  BY ListingRelists
<1>2. Handle \subseteq Handle'
  BY <1>1, LenProperties DEF Relisted, Handle, Shape, TypeOK
<1>3. used \subseteq used'
  BY DEF AddInstrument
<1>4. \A g \in Handle' : (g \in Handle /\ order'[g] = order[g]) \/ g \in NewHandle
  BY <1>1 DEF Relisted, NewHandle
<1>5. IdsUnique'
  <2> SUFFICES ASSUME NEW g \in Handle', NEW k \in Handle', order'[g].id = order'[k].id
               PROVE  g = k
    BY DEF IdsUnique
  <2>1. CASE g \in Handle /\ k \in Handle
    BY <2>1, <1>1 DEF Ids, IdsUnique, Relisted
  <2>2. CASE g \in NewHandle /\ k \in NewHandle
    BY <2>2, <1>1 DEF Relisted
  <2>3. CASE g \in Handle /\ k \in NewHandle
    BY <2>3, <1>1 DEF Relisted
  <2>4. CASE g \in NewHandle /\ k \in Handle
    BY <2>4, <1>1 DEF Relisted
  <2>. QED  BY <2>1, <2>2, <2>3, <2>4, <1>4
<1>6. FilledSound'
  <2> SUFFICES ASSUME NEW g \in Handle', order'[g].status = "FILLED"
               PROVE  order'[g].remaining = 0
    BY DEF FilledSound
  <2>1. g \notin NewHandle
    BY <1>1 DEF Relisted
  <2>. QED  BY <2>1, <1>4 DEF Ids, FilledSound
<1>7. \A g \in Handle' : order'[g].id \in used'
  BY <1>1, <1>3, <1>4 DEF Relisted
<1>8. ASSUME NEW s \in Side, NEW p \in Prices, NEW k \in DOMAIN levels'[s][p].orders
      PROVE  LET h == levels'[s][p].orders[k]
             IN  /\ levels'[s][p].live
                 /\ orders'[order'[h].id] = h
                 /\ levels'[s][p].order_map[order'[h].id] = h
  <2>1. Holds(levels'[s][p], levels'[s][p].orders[k], s, p)
    BY <1>1, RelistedElement
  <2>. QED  BY <2>1 DEF Holds
<1>9. ListsAnswer'
  BY <1>8 DEF ListsAnswer
<1>10. ASSUME NEW x \in OrderIds, NEW s \in Side, NEW p \in Prices,
              levels'[s][p].order_map[x] # NoOrder
       PROVE  /\ levels'[s][p].order_map[x] \in Handle'
              /\ order'[levels'[s][p].order_map[x]].id = x
  <2>1. levels'[s][p] # NoLevel
    BY <1>10 DEF NoLevel
  <2>2. PICK g \in NewHandle : Holds(levels'[s][p], g, s, p)
    BY <2>1, <1>1 DEF Relisted
  <2>3. x = order'[g].id /\ levels'[s][p].order_map[x] = g
    BY <2>2, <1>10 DEF Holds
  <2>. QED  BY <2>2, <2>3 DEF NewHandle
<1>11. MapsSound'
  BY <1>1, <1>10 DEF MapsSound, Relisted
<1>. QED  BY <1>5, <1>6, <1>7, <1>9, <1>11 DEF Ids

(***************************************************************************)
(* Every step keeps the book in order and its ids sound.                   *)
(***************************************************************************)

UsedIds == \A g \in Handle : order[g].id \in used

BookPart == Shape /\ Calm /\ Owners /\ Ids /\ UsedIds /\ closing \subseteq OrderIds

\* A step of the loops changes no id and no owner.
LEMMA ProceedKeepsBook ==
  ASSUME BookPart, Proceed \/ \E s \in Side, q \in Quantities : SubmitMarket(s, q),
         UNCHANGED owner, used \subseteq used'
  PROVE  Shape' /\ Calm' /\ Owners' /\ Ids' /\ UsedIds'
<1>1. Matched
  <2>1. ASSUME NEW s \in Side, NEW q \in Quantities, SubmitMarket(s, q)
        PROVE  Matched
    BY <2>1, NothingMatched DEF SubmitMarket
  <2>. QED  BY <2>1, ProceedMatched DEF BookPart
<1>2. Ids'
  BY <1>1, MatchedKeepsIds DEF BookPart
<1>3. Shape' /\ Calm'
  <2>1. CASE Proceed
    BY <2>1, EnterLevelsKeeps, MatchDoneKeeps, MatchPairKeeps, MatchThrowsKeeps,
       LeaveLevelsKeeps, EnterLevelKeeps, MarketDoneKeeps, FillKeeps, FillThrowsKeeps,
       LeaveLevelKeeps, NotifyKeeps, ReturnKeeps DEF Proceed, Calm, BookPart
  <2>2. ASSUME NEW s \in Side, NEW q \in Quantities, SubmitMarket(s, q)
        PROVE  Shape' /\ Calm'
    BY <2>2, SubmitMarketKeeps DEF BookPart
  <2>. QED  BY <2>1, <2>2
<1>4. Owners' /\ UsedIds'
  BY <1>1 DEF BookPart, Owners, UsedIds, Matched, Handle
<1>. QED  BY <1>2, <1>3, <1>4

\* A limit order of an actor has a new id.
LEMMA NewLimitKeepsBook ==
  ASSUME BookPart, NEW a \in Actors, NEW id \in OrderIds, NEW s \in Side, NEW q \in Quantities,
         NEW p \in Prices, NewLimit(a, id, s, q, p)
  PROVE  /\ Shape' /\ Calm' /\ Owners' /\ Ids' /\ UsedIds'
         /\ Handle' = Handle \cup {Len(order) + 1} /\ Len(order) + 1 \notin Handle
         /\ \A g \in Handle : order'[g] = order[g] /\ owner'[g] = owner[g]
         /\ order'[Len(order) + 1].id = id /\ owner'[Len(order) + 1] = a
<1> DEFINE h == Len(order) + 1
           o == NewOrder(id, s, q, p)
<1>1. /\ SubmitLimit(id, s, q, p) /\ owner' = Append(owner, a) /\ used' = used \cup {id}
      /\ \A g \in Handle : order[g].id # id
  BY DEF NewLimit, BookPart, UsedIds
<1>2. Shape' /\ Calm' /\ Ids'
  BY <1>1, SubmitLimitKeeps, SubmitLimitKeepsIds, ExchangeAssumption DEF BookPart, PositiveQuantities
<1>3. /\ order \in Seq(OrderObject) /\ owner \in Seq(Actors \cup {Nobody}) /\ Len(owner) = Len(order)
      /\ Len(order) \in Nat /\ o \in OrderObject /\ o.id = id /\ order' = Append(order, o)
  BY <1>1, LenProperties, NewOrderType DEF BookPart, Shape, TypeOK, Owners, SubmitLimit, AddOrder, NewOrder
<1>. HIDE DEF o
<1>4. /\ Len(order') = h /\ order'[h] = o /\ \A g \in 1..Len(order) : order'[g] = order[g]
  BY <1>3, AppendProperties
<1>5. /\ owner' \in Seq(Actors \cup {Nobody}) /\ Len(owner') = h /\ owner'[h] = a
      /\ \A g \in 1..Len(order) : owner'[g] = owner[g]
  <2>1. a \in Actors \cup {Nobody}
    OBVIOUS
  <2>. QED  BY <2>1, <1>1, <1>3, AppendProperties
<1>6. Handle' = Handle \cup {h} /\ h \notin Handle
  BY <1>3, <1>4 DEF Handle
<1>7. Owners'
  BY <1>4, <1>5 DEF Owners
<1>8. UsedIds'
  BY <1>1, <1>3, <1>4, <1>6 DEF BookPart, UsedIds, Handle
<1>. QED  BY <1>2, <1>3, <1>4, <1>5, <1>6, <1>7, <1>8 DEF Handle

\* A removal, by an actor or by the closing session.
LEMMA BookStepKeepsBook ==
  ASSUME BookPart, NEW id \in OrderIds, BookStep(id)
  PROVE  /\ Shape' /\ Calm' /\ Owners' /\ Ids' /\ UsedIds' /\ UNCHANGED order
         /\ pc' # "undefined" => Withdrawn(levels', id)
<1>1. CASE Cancel(id)
  <2>1. Shape' /\ Calm' /\ Ids' /\ Withdrawn(levels', id)
    BY <1>1, CancelKeeps, CancelKeepsIds DEF BookPart, Calm
  <2>2. UNCHANGED <<order, owner, used>>
    BY <1>1 DEF Cancel, BookStep
  <2>. QED  BY <2>1, <2>2 DEF BookPart, Owners, UsedIds, Handle
<1>2. CASE RemoveDangling(id)
  <2>1. Shape' /\ Calm' /\ Ids'
    BY <1>2, RemoveDanglingKeeps, RemoveDanglingKeepsIds DEF BookPart
  <2>2. UNCHANGED <<order, owner, used>> /\ pc' = "undefined"
    BY <1>2 DEF RemoveDangling, BookStep
  <2>. QED  BY <2>1, <2>2 DEF BookPart, Owners, UsedIds, Handle
<1>. QED  BY <1>1, <1>2 DEF BookStep

\* The ids that close_trading_session works through are order ids.
LEMMA ClosingIds ==
  ASSUME closing \subseteq OrderIds, [ExNext]_exVars
  PROVE  closing' \subseteq OrderIds
BY DEF ExNext, exVars, call, OpenTradingSession, CloseTradingSession, OpenIds, CloseOne, CloseDone,
   AddInstrument, Match, TradeCallbacks, OrderProcessed, ProcessResult, Submitted, Subscribe,
   Unsubscribe, CancelOrder, Reject, SubmitLimitOrder, SubmitMarketOrder

\* The book keeps its invariants in every step of the exchange.
LEMMA BookPartStep ==
  ASSUME BookPart, [ExNext]_exVars
  PROVE  BookPart'
<1>1. closing' \subseteq OrderIds
  BY ClosingIds DEF BookPart
<1>2. ASSUME UNCHANGED <<vars, owner>>, used \subseteq used'
      PROVE  Shape' /\ Calm' /\ Owners' /\ Ids' /\ UsedIds'
  <2>1. UNCHANGED <<order, orders, levels, pc, px, it, taker, trades, reported, withdrawn>>
    BY <1>2 DEF vars, frame
  <2>2. Shape'
    BY <2>1 DEF BookPart, Shape, TypeOK, OrdersSound, ListsSound, Handle, IteratorsSound, Live, Book
  <2>3. Calm'
    BY <2>1 DEF BookPart, Calm, ListsLive, CrossedOnlyWhileMatching, Crossed, Live
  <2>4. Ids'
    BY <2>1, NothingMatched, MatchedKeepsIds DEF BookPart
  <2>5. Owners' /\ UsedIds'
    BY <1>2, <2>1 DEF BookPart, Owners, UsedIds, Handle
  <2>. QED  BY <2>2, <2>3, <2>4, <2>5
<1>3. ASSUME AddInstrument
      PROVE  Shape' /\ Calm' /\ Owners' /\ Ids' /\ UsedIds'
  <2>1. Shape' /\ Calm'
    BY <1>3, ListingKeeps DEF BookPart
  <2>2. Ids' /\ UsedIds'
    BY <1>3, ListingKeepsIds DEF BookPart, UsedIds
  <2>3. Owners'
    BY <1>3, ListingRelists DEF BookPart, RelistedOwners, Owners
  <2>. QED  BY <2>1, <2>2, <2>3
<1>4. Shape' /\ Calm' /\ Owners' /\ Ids' /\ UsedIds'
  BY <1>2, <1>3, StepsOfTheBook, ProceedKeepsBook, NewLimitKeepsBook, BookStepKeepsBook DEF BookPart
<1>. QED  BY <1>1, <1>4 DEF BookPart

\* They hold of the empty exchange.
LEMMA BookPartInit == ExInit => BookPart
<1> SUFFICES ASSUME ExInit PROVE BookPart
  OBVIOUS
<1>1. Init /\ owner = << >> /\ order = << >> /\ closing = {}
  BY DEF ExInit, Init
<1>2. Shape /\ Calm
  BY <1>1, InitHolds
<1>3. Handle = {}
  BY <1>1, EmptySeq DEF Handle
<1>4. Owners /\ UsedIds
  BY <1>1, <1>3, EmptySeq DEF Owners, UsedIds
<1>5. Ids
  <2>1. \A s \in Side, p \in Prices :
          DOMAIN levels[s][p].orders = {} /\ \A id \in OrderIds : levels[s][p].order_map[id] = NoOrder
    BY <1>1, EmptySeq DEF Init, NoLevel
  <2>2. ListsAnswer /\ MapsSound
    BY <1>1, <2>1 DEF ListsAnswer, MapsSound, Init
  <2>. QED  BY <1>3, <2>2 DEF Ids, IdsUnique, FilledSound
<1>. QED  BY <1>1, <1>2, <1>4, <1>5 DEF BookPart

\* The composition keeps the book's own promises: what the exchange and the
\* actors do to it between and within calls, and the new books of add_instrument,
\* leave it sound and not crossed.
THEOREM BookInExchange == ExSpec => [](BookInv /\ NotCrossedBetweenCalls /\ AnswersToId)
<1>1. BookPart => BookInv /\ NotCrossedBetweenCalls /\ AnswersToId
  BY ListsAnswerEnough
     DEF BookPart, Shape, Calm, BookInv, CrossedOnlyWhileMatching, NotCrossedBetweenCalls
<1>. QED  BY <1>1, BookPartInit, BookPartStep, PTL DEF ExSpec

(***************************************************************************)
(* What rests in the book after each kind of step.                         *)
(***************************************************************************)

\* Membership in the book, said of the lists.
LEMMA RestingListed ==
  ASSUME NEW h
  PROVE  h \in Resting <=> h \in Handle /\ \E s \in Side, p \in Prices :
                               \E i \in DOMAIN levels[s][p].orders : levels[s][p].orders[i] = h
BY DEF Resting, Listed

\* A resting order is live, and answers to its id.
LEMMA RestingSound ==
  ASSUME BookPart, pc # "undefined", NEW h \in Resting
  PROVE  /\ h \in Handle /\ order[h].remaining > 0 /\ order[h].id \in OrderIds
         /\ orders[order[h].id] = h /\ orders[order[h].id] # NoOrder
<1>0. PICK s \in Side, p \in Prices : \E i \in DOMAIN levels[s][p].orders : levels[s][p].orders[i] = h
  BY RestingListed
<1>1. PICK i \in DOMAIN levels[s][p].orders : levels[s][p].orders[i] = h
  BY <1>0
<1>2. h \in Handle /\ orders[order[h].id] = h
  BY <1>1, ListedAnswers DEF BookPart, Ids
<1>3. order[h].remaining > 0
  BY <1>1 DEF BookPart, Calm, ListsLive
<1>4. order[h].id \in OrderIds
  BY <1>2, OrderType DEF BookPart, Shape, OrderObject
<1>. QED  BY <1>2, <1>3, <1>4 DEF Handle, NoOrder

\* What matching leaves resting was resting.
LEMMA MatchedResting ==
  ASSUME BookPart, Matched
  PROVE  Resting' \subseteq Resting /\ \A h \in Handle : order'[h].id = order[h].id
<1>1. ASSUME NEW h, h \in Resting' PROVE h \in Resting
  <2>1. PICK s \in Side, p \in Prices : h \in Handle' /\ Listed(levels'[s][p], h)
    BY <1>1 DEF Resting, Listed
  <2>2. PICK i \in DOMAIN levels'[s][p].orders : levels'[s][p].orders[i] = h
    BY <2>1 DEF Listed
  <2>3. PICK k \in DOMAIN levels[s][p].orders : levels'[s][p].orders[i] = levels[s][p].orders[k]
    BY DEF Matched, Thinned
  <2>4. h \in Handle
    BY <2>1 DEF Matched, Handle
  <2>. QED  BY <2>2, <2>3, <2>4, RestingListed
<1>. QED  BY <1>1 DEF Matched

\* What a withdrawal leaves resting was resting.
LEMMA WithdrawnResting ==
  ASSUME UNCHANGED order, NEW id \in OrderIds, Withdrawn(levels', id)
  PROVE  Resting' \subseteq Resting /\ \A h \in Resting' : order[h].id # id
<1>1. ASSUME NEW h, h \in Resting' PROVE h \in Resting /\ order[h].id # id
  <2>1. PICK s \in Side, p \in Prices : h \in Handle' /\ Listed(levels'[s][p], h)
    BY <1>1 DEF Resting, Listed
  <2>2. PICK i \in DOMAIN levels'[s][p].orders : levels'[s][p].orders[i] = h
    BY <2>1 DEF Listed
  <2>3. /\ order[h].id # id
        /\ \E k \in DOMAIN levels[s][p].orders : h = levels[s][p].orders[k]
    BY <2>2 DEF Withdrawn
  <2>4. h \in Handle
    BY <2>1 DEF Handle
  <2>. QED  BY <2>3, <2>4, RestingListed
<1>. QED  BY <1>1

\* A new limit order adds at most itself to what rests.
LEMMA LimitResting ==
  ASSUME BookPart, NEW id \in OrderIds, NEW s \in Side, NEW q \in Quantities, NEW p \in Prices,
         SubmitLimit(id, s, q, p)
  PROVE  Resting' \subseteq Resting \cup {Len(order) + 1}
<1> DEFINE n == Len(order) + 1
           o == NewOrder(id, s, q, p)
           l == levels[s][p]
           m == WithOrder(l, n, o)
<1>1. /\ o \in OrderObject /\ l \in Level /\ levels \in Levels /\ n \in Nat /\ Len(order) \in Nat
      /\ order \in Seq(OrderObject)
  BY NewOrderType, LenProperties DEF BookPart, Shape, TypeOK, Levels
<1>2. order' = Append(order, o) /\ levels' = [levels EXCEPT ![s][p] = m]
  BY DEF SubmitLimit, AddOrder, NewOrder
<1>3. /\ m \in Level
      /\ \A k \in DOMAIN m.orders :
           m.orders[k] = n \/ \E j \in DOMAIN l.orders : m.orders[k] = l.orders[j]
  <2>. HIDE DEF n, o, l
  <2>1. WithOrder(l, n, o) \in Level
    BY ONLY <1>1, WithOrderProperties
  <2>2. \A k \in DOMAIN WithOrder(l, n, o).orders :
          \/ WithOrder(l, n, o).orders[k] = n
          \/ \E j \in DOMAIN l.orders : WithOrder(l, n, o).orders[k] = l.orders[j]
    BY ONLY <1>1, WithOrderAnswers
  <2>. QED  BY <2>1, <2>2
<1>. HIDE DEF o, m, n
<1>4. /\ levels'[s][p] = m
      /\ \A t \in Side, u \in Prices : t # s \/ u # p => levels'[t][u] = levels[t][u]
  BY <1>1, <1>2, <1>3, LevelUpdate DEF Levels
<1>5. Handle' = Handle \cup {n}
  <2>1. Len(order') = n
    BY <1>1, <1>2, AppendProperties DEF n
  <2>. QED  BY <2>1, <1>1 DEF Handle, n
<1>6. ASSUME NEW h, h \in Resting', h # n PROVE h \in Resting
  <2>1. PICK t \in Side, u \in Prices : h \in Handle' /\ Listed(levels'[t][u], h)
    BY <1>6 DEF Resting, Listed
  <2>2. PICK i \in DOMAIN levels'[t][u].orders : levels'[t][u].orders[i] = h
    BY <2>1 DEF Listed
  <2>3. \E j \in DOMAIN levels[t][u].orders : h = levels[t][u].orders[j]
    <3>1. CASE t = s /\ u = p
      <4>1. levels'[t][u] = m /\ levels[t][u] = l
        BY <3>1, <1>4
      <4>. HIDE DEF l
      <4>. QED  BY <4>1, <2>2, <1>3, <1>6
    <3>2. CASE t # s \/ u # p
      BY <3>2, <2>2, <1>4
    <3>. QED  BY <3>1, <3>2
  <2>. QED  BY <2>1, <2>3, <1>5, <1>6, RestingListed
<1>. QED  BY <1>6 DEF n

\* All that rests in a new book is new.
LEMMA RelistedResting ==
  ASSUME Relisted
  PROVE  Resting' \subseteq NewHandle
<1>1. ASSUME NEW h, h \in Resting' PROVE h \in NewHandle
  <2>1. PICK s \in Side, p \in Prices : h \in Handle' /\ Listed(levels'[s][p], h)
    BY <1>1 DEF Resting, Listed
  <2>2. PICK i \in DOMAIN levels'[s][p].orders : levels'[s][p].orders[i] = h
    BY <2>1 DEF Listed
  <2>. QED  BY <2>2, RelistedElement
<1>. QED  BY <1>1

(***************************************************************************)
(* The trades on their way to process_trade name orders of the book.       *)
(***************************************************************************)

Named == {t \in Trade : {t.buy, t.sell} \subseteq Handle \cup {NoOrder}}
NamedTrades == trades \in Seq(Named) /\ batch \in Seq(Named)

\* One more trade between orders of the book.
LEMMA NamedAppend ==
  ASSUME trades \in Seq(Named), NEW t, Append(trades, t) \in Seq(Trade),
         {t.buy, t.sell} \subseteq Handle \cup {NoOrder}, trades' = Append(trades, t)
  PROVE  trades' \in Seq(Named) /\ trades' \in Seq(Trade)
<1> DEFINE S == Named \cup {t}
<1>1. trades \in Seq(S) /\ t \in S
  BY SeqMonotonic
<1>2. /\ Len(Append(trades, t)) = Len(trades) + 1 /\ Len(trades) \in Nat
      /\ Append(trades, t)[Len(trades) + 1] = t
  BY <1>1, AppendProperties, LenProperties
<1>3. t \in Trade
  BY <1>2, ElementOfSeq
<1>4. t \in Named
  BY <1>3 DEF Named
<1>. QED  BY <1>4, AppendProperties

\* The trades a step of the loops makes are of orders under its iterators.
LEMMA LoopsNameOrders ==
  ASSUME BookPart, Proceed \/ \E s \in Side, q \in Quantities : SubmitMarket(s, q),
         trades \in Seq(Named)
  PROVE  trades' \in Seq(Named) /\ trades' \in Seq(Trade)
<1>1. CASE Fill
  <2>1. Book \in Side /\ px[Book] \in Live(Book) /\ it[Book] >= 1 /\ ~AtEnd(Book)
    BY <1>1 DEF BookPart, Shape, TypeOK, IteratorsSound, Book, Opposite, Side, Fill
  <2>2. At(Book) \in Handle
    BY <2>1, UnderIterator DEF BookPart
  <2>3. trades' \in Seq(Trade)
    BY <1>1, FillKeeps DEF BookPart, Shape, TypeOK
  <2> DEFINE t == [buy |-> IF Book = "BUY" THEN At(Book) ELSE NoOrder,
                   sell |-> IF Book = "SELL" THEN At(Book) ELSE NoOrder,
                   price |-> px[Book],
                   quantity |-> Lesser(taker.remaining, order[At(Book)].remaining)]
  <2>4. trades' = Append(trades, t)
    BY <1>1 DEF Fill
  <2>5. {t.buy, t.sell} \subseteq Handle \cup {NoOrder}
    BY <2>2
  <2>. HIDE DEF t
  <2>. QED  BY <2>3, <2>4, <2>5, NamedAppend
<1>2. CASE MatchPair
  <2>1. /\ "BUY" \in Side /\ "SELL" \in Side /\ ~AtEnd("BUY") /\ ~AtEnd("SELL")
        /\ \A s \in Side : px[s] \in Live(s) /\ it[s] >= 1
    BY <1>2 DEF BookPart, Shape, TypeOK, IteratorsSound, Side, MatchPair
  <2>2. At("BUY") \in Handle /\ At("SELL") \in Handle
    BY <2>1, UnderIterator DEF BookPart
  <2>3. trades' \in Seq(Trade)
    BY <1>2, MatchPairKeeps DEF BookPart, Shape, TypeOK
  <2> DEFINE t == [buy |-> At("BUY"), sell |-> At("SELL"), price |-> px["SELL"],
                   quantity |-> Lesser(order[At("BUY")].remaining, order[At("SELL")].remaining)]
  <2>4. trades' = Append(trades, t)
    BY <1>2 DEF MatchPair
  <2>5. {t.buy, t.sell} \subseteq Handle \cup {NoOrder}
    BY <2>2
  <2>. HIDE DEF t
  <2>. QED  BY <2>3, <2>4, <2>5, NamedAppend
<1>3. CASE MatchThrows \/ FillThrows
  BY <1>3, EmptySeq DEF MatchThrows, FillThrows, Unwind
<1>4. CASE Notify
  BY <1>4, HeadTailProperties DEF Notify, BookPart, Shape, TypeOK
<1>5. CASE ~(Fill \/ MatchPair \/ MatchThrows \/ FillThrows \/ Notify)
  <2>1. trades' = trades
    BY <1>5 DEF Proceed, EnterLevels, MatchDone, LeaveLevels, EnterLevel, MarketDone, LeaveLevel,
                Return, SubmitMarket, frame
  <2>. QED  BY <2>1 DEF BookPart, Shape, TypeOK
<1>. QED  BY <1>1, <1>2, <1>3, <1>4, <1>5

\* Orders are added and never taken away from the history of all orders.
LEMMA HandlesGrow ==
  ASSUME BookPart, [ExNext]_exVars
  PROVE  Handle \subseteq Handle'
<1>1. CASE UNCHANGED <<vars, owner>>
  BY <1>1 DEF vars, Handle
<1>2. ASSUME Proceed \/ \E s \in Side, q \in Quantities : SubmitMarket(s, q)
      PROVE  Handle' = Handle
  <2>1. CASE Proceed
    BY <2>1, ProceedMatched DEF BookPart, Matched, Handle
  <2>2. ASSUME NEW s \in Side, NEW q \in Quantities, SubmitMarket(s, q)
        PROVE  Handle' = Handle
    BY <2>2 DEF SubmitMarket, Handle
  <2>. QED  BY <1>2, <2>1, <2>2
<1>3. ASSUME NEW id \in OrderIds, BookStep(id)
      PROVE  Handle' = Handle
  BY <1>3, BookStepKeepsBook DEF Handle
<1>4. ASSUME NEW a \in Actors, NEW id \in OrderIds, NEW s \in Side, NEW q \in Quantities,
             NEW p \in Prices, NewLimit(a, id, s, q, p)
      PROVE  Handle \subseteq Handle'
  BY <1>4, NewLimitKeepsBook
<1>5. CASE AddInstrument
  <2>1. Relisted
    BY <1>5, ListingRelists DEF BookPart
  <2>. QED  BY <2>1, LenProperties DEF Relisted, Handle, BookPart, Shape, TypeOK
<1>. QED  BY <1>1, <1>2, <1>3, <1>4, <1>5, StepsOfTheBook DEF BookPart

\* Every step keeps the trades under way named.
LEMMA NamedStep ==
  ASSUME BookPart, NamedTrades, [ExNext]_exVars
  PROVE  NamedTrades'
<1>1. trades' \in Seq(Named)
  <2>1. CASE UNCHANGED <<vars, owner>>
    BY <2>1 DEF vars, NamedTrades
  <2>2. CASE Proceed \/ \E s \in Side, q \in Quantities : SubmitMarket(s, q)
    BY <2>2, LoopsNameOrders DEF NamedTrades
  <2>3. ASSUME \/ \E id \in OrderIds : BookStep(id)
               \/ \E a \in Actors, id \in OrderIds, s \in Side, q \in Quantities, p \in Prices :
                    NewLimit(a, id, s, q, p)
               \/ AddInstrument
        PROVE  trades' = trades
    BY <2>3 DEF BookStep, Cancel, RemoveDangling, NewLimit, SubmitLimit, AddInstrument
  <2>. QED  BY <2>1, <2>2, <2>3, StepsOfTheBook DEF BookPart, NamedTrades
<1>2. batch' \in Seq(Named)
  <2>1. CASE TradeCallbacks
    <3>1. trades # << >> /\ batch' = Append(batch, Head(trades))
      BY <2>1 DEF TradeCallbacks, Notify
    <3>2. Head(trades) \in Named
      BY <3>1, HeadTailProperties DEF NamedTrades
    <3>. QED  BY <3>1, <3>2, AppendProperties DEF NamedTrades
  <2>2. CASE ProcessResult
    BY <2>2, HeadTailProperties DEF ProcessResult, NamedTrades
  <2>3. CASE ~(TradeCallbacks \/ ProcessResult)
    <3>1. batch' = batch
      BY <2>3 DEF ExNext, exVars, call, OpenTradingSession, CloseTradingSession, CloseOne, CloseDone,
         AddInstrument, Match, OrderProcessed, Submitted, Subscribe,
         Unsubscribe, CancelOrder, Reject, SubmitLimitOrder, SubmitMarketOrder
    <3>. QED  BY <3>1 DEF NamedTrades
  <2>. QED  BY <2>1, <2>2, <2>3
<1>3. Named \subseteq Named'
  BY HandlesGrow DEF Named
<1>. QED  BY <1>1, <1>2, <1>3, SeqMonotonic DEF NamedTrades

(***************************************************************************)
(* What rests is active, and gone when the session is closed.              *)
(***************************************************************************)

Activity == NamedTrades /\ active_orders \in [Actors -> SUBSET OrderIds] /\ RestingIsActive

\* The closing session still has the id of every order that rests.
Sessions ==
  /\ stage \in {"book", "loop"} => is_trading_open
  /\ stage = "close" /\ pc # "undefined" => \A h \in Resting : order[h].id \in closing
  /\ ClosedMeansEmpty

\* Nothing new rests, and no actor forgets an order.
LEMMA RestingStays ==
  ASSUME RestingIsActive, pc' # "undefined" => pc # "undefined", Resting' \subseteq Resting,
         \A h \in Handle : order'[h].id = order[h].id /\ owner'[h] = owner[h],
         \A a \in Actors : active_orders[a] \subseteq active_orders'[a]
  PROVE  RestingIsActive'
BY DEF RestingIsActive, Resting

\* process_trade takes from an actor only what is filled: none of that rests.
LEMMA ProcessTradeKeeps ==
  ASSUME BookPart, Activity, NEW t \in Named, ProcessTrade(t),
         UNCHANGED <<order, orders, levels, owner, pc>>
  PROVE  active_orders' \in [Actors -> SUBSET OrderIds] /\ RestingIsActive'
<1>1. active_orders' = [a \in Actors |->
        IF OrderOf(a, t) # NoOrder /\ NowFilled(order[OrderOf(a, t)])
        THEN active_orders[a] \ {order[OrderOf(a, t)].id} ELSE active_orders[a]]
  BY DEF ProcessTrade
<1>2. active_orders' \in [Actors -> SUBSET OrderIds]
  BY <1>1 DEF Activity
<1>3. Resting' = Resting
  BY DEF Resting, Listed, Handle
<1>4. ASSUME pc # "undefined", NEW h \in Resting, owner[h] \in Actors
      PROVE  order[h].id \in active_orders'[owner[h]]
  <2> DEFINE a == owner[h]
             g == OrderOf(a, t)
  <2>1. order[h].id \in active_orders[a]
    BY <1>4 DEF Activity, RestingIsActive
  <2>2. h \in Handle /\ order[h].remaining > 0
    BY <1>4, RestingSound
  <2>3. ASSUME g # NoOrder, NowFilled(order[g]), order[g].id = order[h].id
        PROVE  FALSE
    <3>1. PICK k \in {t.buy, t.sell} : k # NoOrder /\ g = orders[order[k].id]
      BY <2>3 DEF OrderOf
    <3>2. k \in Handle
      BY <3>1 DEF Named
    <3>3. order[k].id \in OrderIds
      BY <3>2, OrderType DEF BookPart, Shape, OrderObject
    <3>4. g \in Handle
      BY <2>3, <3>1, <3>3, HandleType DEF BookPart, Shape, TypeOK, OrdersSound, Handle, NoOrder
    <3>5. g = h
      BY <2>2, <2>3, <3>4 DEF BookPart, Ids, IdsUnique
    <3>. QED  BY <2>2, <2>3, <3>4, <3>5 DEF BookPart, Ids, FilledSound, NowFilled
  <2>4. active_orders'[a] = IF g # NoOrder /\ NowFilled(order[g])
                            THEN active_orders[a] \ {order[g].id} ELSE active_orders[a]
    BY <1>1, <1>4
  <2>. HIDE DEF g
  <2>. QED  BY <2>1, <2>3, <2>4
<1>. QED  BY <1>2, <1>3, <1>4 DEF RestingIsActive

\* cancel_order takes from an actor an order that no longer rests.
LEMMA CancelOrderKeeps ==
  ASSUME BookPart, Activity, NEW a \in Actors, NEW id \in OrderIds, CancelOrder(a, id)
  PROVE  active_orders' \in [Actors -> SUBSET OrderIds] /\ RestingIsActive'
<1>1. active_orders' = [active_orders EXCEPT ![a] = @ \ {id}] /\ UNCHANGED owner /\ pc = "idle"
  BY DEF CancelOrder, Free
<1>2. active_orders' \in [Actors -> SUBSET OrderIds]
  BY <1>1 DEF Activity
<1>3. ASSUME pc' # "undefined"
      PROVE  UNCHANGED order /\ Resting' \subseteq Resting /\ \A h \in Resting' : order[h].id # id
  <2>1. CASE Cancel(id) \/ RemoveDangling(id)
    <3>1. BookStep(id)
      BY <2>1 DEF CancelOrder, BookStep
    <3>. QED  BY <1>3, <3>1, BookStepKeepsBook, WithdrawnResting
  <2>2. CASE orders[id] = NoOrder /\ UNCHANGED vars
    <3>1. UNCHANGED order /\ Resting' = Resting
      BY <2>2 DEF vars, Resting, Listed, Handle
    <3>. QED  BY <1>1, <2>2, <3>1, RestingSound
  <2>. QED  BY <2>1, <2>2 DEF CancelOrder
<1>4. ASSUME pc' # "undefined", NEW h \in Resting', owner'[h] \in Actors
      PROVE  order'[h].id \in active_orders'[owner'[h]]
  <2>1. h \in Resting /\ order'[h].id = order[h].id /\ order[h].id # id /\ owner'[h] = owner[h]
    BY <1>1, <1>3, <1>4
  <2>2. order[h].id \in active_orders[owner[h]]
    BY <1>1, <1>4, <2>1 DEF Activity, RestingIsActive
  <2>. QED  BY <1>1, <1>4, <2>1, <2>2 DEF Activity
<1>. QED  BY <1>2, <1>4 DEF RestingIsActive

\* submit_order takes the order for active before the book has it.
LEMMA SubmitLimitOrderKeeps ==
  ASSUME BookPart, Activity, NEW a \in Actors, NEW id \in OrderIds, NEW s \in Side,
         NEW q \in Quantities, NEW p \in Prices, SubmitLimitOrder(a, id, s, q, p)
  PROVE  active_orders' \in [Actors -> SUBSET OrderIds] /\ RestingIsActive'
<1>1. /\ SubmitLimit(id, s, q, p) /\ NewLimit(a, id, s, q, p) /\ pc = "idle"
      /\ active_orders' = [active_orders EXCEPT ![a] = @ \cup {id}]
  BY DEF SubmitLimitOrder, NewLimit, Activate, FreeIds, Free
<1>2. active_orders' \in [Actors -> SUBSET OrderIds]
  BY <1>1 DEF Activity
<1> DEFINE n == Len(order) + 1
<1>3. /\ Resting' \subseteq Resting \cup {n} /\ order'[n].id = id /\ owner'[n] = a
      /\ \A g \in Handle : order'[g] = order[g] /\ owner'[g] = owner[g]
  BY <1>1, LimitResting, NewLimitKeepsBook
<1>. HIDE DEF n
<1>4. ASSUME NEW h \in Resting', owner'[h] \in Actors
      PROVE  order'[h].id \in active_orders'[owner'[h]]
  <2>1. CASE h = n
    BY <1>1, <1>3, <2>1 DEF Activity
  <2>2. CASE h \in Resting
    <3>1. h \in Handle
      BY <2>2 DEF Resting
    <3>2. order'[h] = order[h] /\ owner'[h] = owner[h]
      BY <1>3, <3>1
    <3>3. order[h].id \in active_orders[owner[h]]
      BY <1>1, <1>4, <2>2, <3>2 DEF Activity, RestingIsActive
    <3>. QED  BY <1>1, <1>4, <3>2, <3>3 DEF Activity
  <2>. QED  BY <1>3, <2>1, <2>2
<1>. QED  BY <1>2, <1>4 DEF RestingIsActive

\* Every step keeps what rests active.
LEMMA ActivityStep ==
  ASSUME BookPart, Activity, [ExNext]_exVars
  PROVE  Activity'
<1> DEFINE Kept == active_orders' \in [Actors -> SUBSET OrderIds] /\ RestingIsActive'
<1>. SUFFICES Kept
  BY NamedStep DEF Activity
<1>1. ASSUME UNCHANGED <<vars, owner>>, UNCHANGED active_orders
      PROVE  Kept
  <2>1. Resting' = Resting /\ UNCHANGED <<order, pc>>
    BY <1>1 DEF vars, Resting, Listed, Handle
  <2>. QED  BY <1>1, <2>1, RestingStays DEF Activity
<1>2. CASE OpenTradingSession \/ CloseTradingSession \/ CloseDone \/ Submitted \/ UNCHANGED exVars
  BY <1>1, <1>2 DEF OpenTradingSession, CloseTradingSession, CloseDone, Submitted, exVars, clients
<1>3. ASSUME NEW a \in Watchers, Subscribe(a) \/ Unsubscribe(a)
      PROVE  Kept
  BY <1>1, <1>3 DEF Subscribe, Unsubscribe, clients
<1>4. CASE CloseOne
  <2>1. UNCHANGED <<owner, active_orders>>
    BY <1>4 DEF CloseOne, clients
  <2>2. PICK id \in OrderIds : BookStep(id) /\ pc = "idle"
    BY <1>4 DEF CloseOne, clients, BookStep, BookPart, Cancel, RemoveDangling
  <2>3. UNCHANGED order /\ (pc' # "undefined" => Resting' \subseteq Resting)
    BY <2>2, BookStepKeepsBook, WithdrawnResting
  <2>. QED  BY <2>1, <2>2, <2>3, RestingStays DEF Activity, RestingIsActive
<1>5. CASE AddInstrument
  <2>1. Relisted /\ RelistedOwners /\ UNCHANGED active_orders
    BY <1>5, ListingRelists DEF BookPart, AddInstrument
  <2>2. \A h \in Resting' : owner'[h] = Nobody
    BY <2>1, RelistedResting DEF RelistedOwners
  <2>. QED  BY <2>1, <2>2, ExchangeAssumption DEF Activity, RestingIsActive
<1>6. CASE Match \/ OrderProcessed
  <2>1. Proceed /\ UNCHANGED <<owner, active_orders>>
    BY <1>6 DEF Match, OrderProcessed, Proceed, clients
  <2>2. Matched
    BY <2>1, ProceedMatched DEF BookPart
  <2>3. /\ Resting' \subseteq Resting /\ \A h \in Handle : order'[h].id = order[h].id
        /\ pc' # "undefined" => pc # "undefined"
    BY <2>2, MatchedResting DEF Matched
  <2>. QED  BY <2>1, <2>3, RestingStays DEF Activity
<1>7. CASE TradeCallbacks
  <2>1. trades # << >> /\ ProcessTrade(Head(trades)) /\ UNCHANGED <<order, orders, levels, owner, pc>>
    BY <1>7 DEF TradeCallbacks, Notify
  <2>2. Head(trades) \in Named
    BY <2>1, HeadTailProperties DEF Activity, NamedTrades
  <2>. QED  BY <2>1, <2>2, ProcessTradeKeeps
<1>8. CASE ProcessResult
  <2>1. batch # << >> /\ ProcessTrade(Head(batch)) /\ UNCHANGED <<order, orders, levels, owner, pc>>
    BY <1>8 DEF ProcessResult, vars
  <2>2. Head(batch) \in Named
    BY <2>1, HeadTailProperties DEF Activity, NamedTrades
  <2>. QED  BY <2>1, <2>2, ProcessTradeKeeps
<1>9. ASSUME NEW a \in Actors, NEW id \in OrderIds, NEW s \in Side,
             \/ \E p \in RejectedAt : Reject(a, id, s, p)
             \/ \E q \in Quantities : SubmitMarketOrder(a, id, s, q)
      PROVE  Kept
  <2>1. /\ active_orders' = [active_orders EXCEPT ![a] = @ \cup {id}]
        /\ UNCHANGED <<order, levels, owner>> /\ pc # "undefined"
    BY <1>9 DEF Reject, SubmitMarketOrder, SubmitMarket, Activate, vars, Free
  <2>2. Resting' = Resting
    BY <2>1 DEF Resting, Listed, Handle
  <2>3. /\ active_orders' \in [Actors -> SUBSET OrderIds]
        /\ \A b \in Actors : active_orders[b] \subseteq active_orders'[b]
    BY <2>1 DEF Activity
  <2>. QED  BY <2>1, <2>2, <2>3, RestingStays DEF Activity
<1>10. ASSUME NEW a \in Actors, NEW id \in OrderIds, CancelOrder(a, id)
       PROVE  Kept
  BY <1>10, CancelOrderKeeps
<1>11. ASSUME NEW a \in Actors, NEW id \in OrderIds, NEW s \in Side, NEW q \in Quantities,
              NEW p \in Prices, SubmitLimitOrder(a, id, s, q, p)
       PROVE  Kept
  BY <1>11, SubmitLimitOrderKeeps
<1>. HIDE DEF Kept
<1>. QED  BY <1>2, <1>3, <1>4, <1>5, <1>6, <1>7, <1>8, <1>9, <1>10, <1>11 DEF ExNext

\* Every step keeps the promise of the closing session.
LEMMA SessionsStep ==
  ASSUME BookPart, Sessions, [ExNext]_exVars
  PROVE  Sessions'
<1>1. ASSUME UNCHANGED <<order, levels, pc, owner, is_trading_open, stage, closing>>
      PROVE  Sessions'
  <2>1. Resting' = Resting
    BY <1>1 DEF Resting, Listed, Handle
  <2>. QED  BY <1>1, <2>1 DEF Sessions, ClosedMeansEmpty, Free
<1>2. ASSUME is_trading_open', stage' # "close"
      PROVE  Sessions'
  BY <1>2 DEF Sessions, ClosedMeansEmpty
<1>3. CASE OpenTradingSession
  <2>1. is_trading_open' /\ stage' # "close"
    BY <1>3 DEF OpenTradingSession, call, Free
  <2>. QED  BY <2>1, <1>2
<1>4. CASE CloseTradingSession
  <2>1. /\ stage' = "close" /\ closing' = OpenIds /\ UNCHANGED <<order, levels>> /\ pc # "undefined"
    BY <1>4 DEF CloseTradingSession, vars, Free
  <2>2. Resting' = Resting
    BY <2>1 DEF Resting, Listed, Handle
  <2>3. \A h \in Resting' : order'[h].id \in closing'
    BY <2>1, <2>2, RestingSound DEF OpenIds
  <2>. QED  BY <2>1, <2>3 DEF Sessions, ClosedMeansEmpty, Free
<1>5. CASE CloseOne
  <2>1. stage = "close" /\ stage' = "close" /\ pc # "undefined"
    BY <1>5 DEF CloseOne, Cancel, RemoveDangling
  <2>2. PICK id \in closing : BookStep(id) /\ closing' = closing \ {id}
    BY <1>5 DEF CloseOne, BookStep, clients
  <2>3. id \in OrderIds
    BY DEF BookPart
  <2>4. ASSUME pc' # "undefined", NEW h \in Resting'
        PROVE  order'[h].id \in closing'
    <3>1. h \in Resting /\ order'[h].id = order[h].id /\ order[h].id # id
      BY <2>2, <2>3, <2>4, BookStepKeepsBook, WithdrawnResting
    <3>. QED  BY <2>1, <2>2, <3>1 DEF Sessions
  <2>. QED  BY <2>1, <2>4 DEF Sessions, ClosedMeansEmpty, Free
<1>6. CASE CloseDone
  <2>1. /\ stage = "close" /\ pc = "idle" /\ closing = {} /\ stage' = "free"
        /\ UNCHANGED <<order, levels>>
    BY <1>6 DEF CloseDone, vars
  <2>2. Resting' = Resting
    BY <2>1 DEF Resting, Listed, Handle
  <2>. QED  BY <2>1, <2>2 DEF Sessions, ClosedMeansEmpty
<1>7. CASE AddInstrument
  <2>1. Relisted /\ RelistedOwners /\ stage' = "free"
    BY <1>7, ListingRelists DEF BookPart, AddInstrument, call, Free
  <2>2. \A h \in Resting' : owner'[h] = Nobody
    BY <2>1, RelistedResting DEF RelistedOwners
  <2>. QED  BY <2>1, <2>2 DEF Sessions, ClosedMeansEmpty
<1>8. CASE Match \/ TradeCallbacks \/ OrderProcessed \/ ProcessResult \/ Submitted
  <2>1. is_trading_open' /\ stage' # "close"
    BY <1>8 DEF Match, TradeCallbacks, OrderProcessed, ProcessResult, Submitted, session, call, Sessions
  <2>. QED  BY <2>1, <1>2
<1>9. ASSUME NEW a \in Actors, NEW id \in OrderIds, NEW s \in Side, NEW q \in Quantities,
             \/ \E p \in Prices : SubmitLimitOrder(a, id, s, q, p)
             \/ SubmitMarketOrder(a, id, s, q)
      PROVE  Sessions'
  <2>1. is_trading_open' /\ stage' # "close"
    BY <1>9 DEF SubmitLimitOrder, SubmitMarketOrder, session
  <2>. QED  BY <2>1, <1>2
<1>10. ASSUME NEW a \in Actors, NEW id \in OrderIds, CancelOrder(a, id)
       PROVE  Sessions'
  <2>1. UNCHANGED <<is_trading_open, owner, stage, closing>> /\ stage = "free" /\ pc = "idle"
    BY <1>10 DEF CancelOrder, session, call, Free
  <2>2. CASE Cancel(id) \/ RemoveDangling(id)
    <3>1. BookStep(id)
      BY <1>10, <2>2 DEF CancelOrder, BookStep
    <3>2. pc' # "undefined" => Resting' \subseteq Resting
      BY <3>1, BookStepKeepsBook, WithdrawnResting
    <3>. QED  BY <2>1, <3>2 DEF Sessions, ClosedMeansEmpty, Free
  <2>3. CASE UNCHANGED vars
    BY <1>1, <2>1, <2>3 DEF vars
  <2>. QED  BY <1>10, <2>2, <2>3 DEF CancelOrder
<1>11. ASSUME NEW a \in Actors, NEW id \in OrderIds, NEW s \in Side, NEW p \in RejectedAt,
              Reject(a, id, s, p)
       PROVE  Sessions'
  BY <1>1, <1>11 DEF Reject, vars, session, call
<1>12. ASSUME NEW a \in Watchers, Subscribe(a) \/ Unsubscribe(a)
       PROVE  Sessions'
  BY <1>1, <1>12 DEF Subscribe, Unsubscribe, vars, session, call
<1>13. CASE UNCHANGED exVars
  BY <1>1, <1>13 DEF exVars, vars, session, call
<1>. QED  BY <1>3, <1>4, <1>5, <1>6, <1>7, <1>8, <1>9, <1>10, <1>11, <1>12, <1>13 DEF ExNext

\* No order that rests in the book is ever lost to its actor: submit_order,
\* executions in part and in full, told twice or not at all, rejections and
\* cancellations all leave its id in active_orders_.
THEOREM RestingStaysActive == ExSpec => []RestingIsActive
<1>1. ExInit => Activity
  <2> SUFFICES ASSUME ExInit PROVE Activity
    OBVIOUS
  <2>1. Resting = {}
    BY EmptySeq DEF ExInit, Init, Resting, Handle
  <2>. QED  BY <2>1, EmptySeq DEF ExInit, Init, Activity, NamedTrades, RestingIsActive
<1>2. BookPart /\ Activity /\ [ExNext]_exVars => Activity'
  BY ActivityStep
<1>3. Activity => RestingIsActive
  BY DEF Activity
<1>. QED  BY <1>1, <1>2, <1>3, BookPartInit, BookPartStep, PTL DEF ExSpec

\* A session that has closed has taken every order of an actor out of the book,
\* in whatever order it removed them, and none comes in until the next one opens.
THEOREM ClosedSessionIsEmpty == ExSpec => []ClosedMeansEmpty
<1>1. ExInit => Sessions
  <2> SUFFICES ASSUME ExInit PROVE Sessions
    OBVIOUS
  <2>1. Resting = {}
    BY EmptySeq DEF ExInit, Init, Resting, Handle
  <2>. QED  BY <2>1 DEF ExInit, Sessions, ClosedMeansEmpty
<1>2. BookPart /\ Sessions /\ [ExNext]_exVars => Sessions'
  BY SessionsStep
<1>3. Sessions => ClosedMeansEmpty
  BY DEF Sessions
<1>. QED  BY <1>1, <1>2, <1>3, BookPartInit, BookPartStep, PTL DEF ExSpec

(***************************************************************************)
(* What the book promises, within the exchange.                            *)
(***************************************************************************)

\* What PriceTimeProofs shows of the book's own steps.
Promises == Lists /\ Fronts /\ Accounted /\ Fit

\* The orders of the new book are objects like any other.
LEMMA RelistedOrders ==
  ASSUME Relisted
  PROVE  /\ \A g \in NewHandle : g \in Nat /\ g \in Handle'
         /\ \A g \in Handle' : /\ order'[g].side \in Side /\ order'[g].price \in Prices
                               /\ order'[g].remaining \in Nat /\ order'[g].quantity \in Nat
<1>1. order' \in Seq(OrderObject) /\ Len(order') \in Nat
  BY LenProperties DEF Relisted
<1>2. \A g \in Handle' : g \in Nat /\ order'[g] \in OrderObject
  BY <1>1, ElementOfSeq DEF Handle
<1>3. \A o \in OrderObject : /\ o.side \in Side /\ o.price \in Prices
                             /\ o.remaining \in Nat /\ o.quantity \in Nat
  BY BookAssumption DEF OrderObject
<1>. QED  BY <1>2, <1>3 DEF NewHandle

\* A new book has one order in a list, in a level of its volume, or no level.
LEMMA ListingKeepsLists ==
  ASSUME BookPart, AddInstrument
  PROVE  Lists' /\ Fronts' /\ Fit'
<1>1. Relisted /\ pc' = "idle"
  BY ListingRelists DEF BookPart, AddInstrument, Free
<1>2. Fronts'
  BY <1>1 DEF Fronts, TakesFromFront, NewestOverlaps, MatchesFronts
<1>3. InArrivalOrder'
  <2>1. ASSUME NEW s \in Side, NEW p \in Prices
        PROVE  Ascending(levels'[s][p].orders)
    <3>1. \A k \in DOMAIN levels'[s][p].orders : k = 1
      BY <1>1, RelistedElement
    <3>. QED  BY <3>1 DEF Ascending
  <2>. QED  BY <2>1 DEF InArrivalOrder
<1>4. NothingEmpty'
  <2>1. ASSUME NEW s \in Side, NEW p \in Prices
        PROVE  levels'[s][p].live <=> levels'[s][p].orders # << >>
    <3>1. CASE levels'[s][p] = NoLevel
      BY <3>1, NoLevelType
    <3>2. ASSUME NEW g \in NewHandle, Holds(levels'[s][p], g, s, p)
          PROVE  levels'[s][p].live <=> levels'[s][p].orders # << >>
      BY <3>2 DEF Holds
    <3>. QED  BY <1>1, <3>1, <3>2 DEF Relisted
  <2>. QED  BY <2>1 DEF NothingEmpty
<1>5. Fit'
  <2>1. ASSUME NEW s \in Side, NEW p \in Prices
        PROVE  Fits(order', levels'[s][p])
    <3>1. CASE levels'[s][p] = NoLevel
      BY <3>1, NoLevelFits
    <3>2. ASSUME NEW g \in NewHandle, Holds(levels'[s][p], g, s, p)
          PROVE  Fits(order', levels'[s][p])
      <4>1. /\ levels'[s][p].orders = Append(<< >>, g)
            /\ levels'[s][p].total_volume = order'[g].remaining
        BY <3>2 DEF Holds
      <4>2. g \in Nat /\ order'[g].remaining \in Nat
        BY <1>1, RelistedOrders
      <4>3. /\ Left(order', Append(<< >>, g)) = Left(order', << >>) + order'[g].remaining
            /\ Counts(order', Append(<< >>, g)) /\ Left(order', << >>) = 0
        <5>1. Left(order', << >>) = 0 /\ Counts(order', << >>)
          BY LeftOfNone
        <5>2. order'[g].remaining \in Int
          BY <4>2
        <5>. QED  BY <4>2, <5>1, <5>2, LeftAppend
      <4>. QED  BY <4>1, <4>2, <4>3 DEF Fits
    <3>. QED  BY <1>1, <3>1, <3>2 DEF Relisted
  <2>. QED  BY <2>1 DEF Fit, AllFit
<1>. QED  BY <1>2, <1>3, <1>4, <1>5 DEF Lists

\* The orders of the old book count as withdrawn, those of the new one rest.
LEMMA ListingKeepsComplete ==
  ASSUME BookPart, Complete, AddInstrument
  PROVE  Complete'
<1>1. /\ Relisted /\ pc = "idle" /\ pc' = "idle" /\ withdrawn' = withdrawn \cup Resting
      /\ Shape /\ withdrawn \subseteq Handle /\ Resting \subseteq Handle
  BY ListingRelists DEF BookPart, AddInstrument, Free, Complete, Resting
<1>2. Handle \subseteq Handle'
  BY <1>1, LenProperties DEF Relisted, Handle, Shape, TypeOK
<1>3. \A s \in Side, p \in Prices : \A h \in Held(s, p)' : h \in NewHandle
  BY <1>1, RelistedElement DEF Held, Elements
<1>4. \A h \in Handle' : order'[h].side \in Side /\ order'[h].price \in Prices
  BY <1>1, RelistedOrders
<1>5. ASSUME NEW h \in Handle
      PROVE  h \notin NewHandle /\ ~(order'[h].remaining > 0 /\ h \notin withdrawn')
  <2>1. order'[h] = order[h] /\ h \notin NewHandle
    BY <1>1 DEF Relisted, NewHandle
  <2>2. order[h].remaining > 0 /\ h \notin withdrawn => h \in Resting
    BY <1>1, RestingHeld DEF Complete
  <2>. QED  BY <1>1, <2>1, <2>2
<1>6. ASSUME NEW h \in NewHandle
      PROVE  /\ h \in Elements(levels'[order'[h].side][order'[h].price].orders)
             /\ order'[h].remaining > 0 /\ h \notin withdrawn'
  <2>1. h \notin withdrawn'
    BY <1>1 DEF NewHandle
  <2>2. Holds(levels'[order'[h].side][order'[h].price], h, order'[h].side, order'[h].price)
    BY <1>1 DEF Relisted
  <2>3. h \in Elements(levels'[order'[h].side][order'[h].price].orders)
    BY <2>2 DEF Holds, Elements
  <2>4. order'[h].remaining > 0
    BY <1>1 DEF Relisted
  <2>. QED  BY <2>1, <2>3, <2>4
<1>7. \A h \in Handle' : h \in Handle \/ h \in NewHandle
  BY DEF NewHandle
<1>8. \A h \in Handle' :
        h \in Elements(levels'[order'[h].side][order'[h].price].orders)
          <=> order'[h].remaining > 0 /\ h \notin withdrawn'
  <2>1. \A h \in Handle' : h \in Elements(levels'[order'[h].side][order'[h].price].orders)
                             => h \in NewHandle
    BY <1>3, <1>4 DEF Held
  <2>. QED  BY <1>5, <1>6, <1>7, <2>1
<1>9. withdrawn' \subseteq Handle'
  BY <1>1, <1>2
<1>. QED  BY <1>8, <1>9 DEF Complete, Held

\* The orders of a new book have executed nothing yet.
LEMMA ListingKeepsAccounted ==
  ASSUME BookPart, Accounted, AddInstrument
  PROVE  Accounted'
<1>1. Relisted /\ UNCHANGED <<pc, trades, reported>>
  BY ListingRelists DEF BookPart, AddInstrument
<1>2. \A h : Told(h)' = Told(h)
  BY <1>1 DEF Told
<1>3. Len(order') <= MaxOrders
  BY <1>1 DEF Relisted, Accounted
<1>4. \A h \in Handle' : h \in Handle \/ h \in NewHandle
  BY DEF NewHandle
<1>5. Handle \subseteq Handle'
  BY <1>1, LenProperties DEF BookPart, Relisted, Handle, Shape, TypeOK
<1>6. ASSUME NEW h \in 1..MaxOrders
      PROVE  Told(h)' = IF h \in Handle' THEN order'[h].quantity - order'[h].remaining ELSE 0
  <2>1. CASE h \in Handle
    <3>1. order'[h] = order[h] /\ h \in Handle'
      BY <1>1, <1>5, <2>1 DEF Relisted
    <3>. QED  BY <1>2, <2>1, <3>1 DEF Accounted
  <2>2. CASE h \in NewHandle
    <3>1. h \notin Handle /\ h \in Handle'
      BY <2>2 DEF NewHandle
    <3>2. order'[h].remaining = order'[h].quantity /\ order'[h].quantity \in Nat
      BY <1>1, <2>2, RelistedOrders DEF Relisted
    <3>3. order'[h].quantity - order'[h].remaining = 0
      BY <3>2
    <3>. QED  BY <1>2, <3>1, <3>3 DEF Accounted
  <2>3. CASE h \notin Handle'
    BY <1>2, <1>5, <2>3 DEF Accounted
  <2>. QED  BY <1>4, <2>1, <2>2, <2>3
<1>7. pc' \in {"idle", "undefined"} => trades' = << >>
  BY <1>1 DEF Accounted
<1>. QED  BY <1>3, <1>6, <1>7 DEF Accounted

\* Every step of the exchange but a listing is a step of a book that is offered
\* every call.
LEMMA ExchangeIsAnyStep ==
  ASSUME BookPart, [ExNext]_exVars
  PROVE  AnyStep \/ AddInstrument
<1>1. closing \subseteq OrderIds
  BY DEF BookPart
<1>2. ASSUME NEW id \in OrderIds, BookStep(id)
      PROVE  AnyStep
  BY <1>2 DEF BookStep, AnyStep, AnyCall
<1>3. ASSUME NEW a \in Actors, NEW id \in OrderIds, NEW s \in Side, NEW q \in Quantities,
             NEW p \in Prices, NewLimit(a, id, s, q, p)
      PROVE  AnyStep
  BY <1>3 DEF NewLimit, AnyStep, AnyCall
<1>4. Proceed \/ (\E s \in Side, q \in Quantities : SubmitMarket(s, q)) \/ UNCHANGED vars => AnyStep
  BY DEF AnyStep, AnyCall
<1>. QED  BY <1>1, <1>2, <1>3, <1>4, StepsOfTheBook

\* So the book keeps its promises.
LEMMA PromisesStep ==
  ASSUME BookPart, Promises, [ExNext]_exVars
  PROVE  /\ Promises'
         /\ PositivePrices /\ Complete => Complete'
<1>1. Shape /\ Shape' /\ ListsLive /\ CrossedOnlyWhileMatching /\ PositiveQuantities
  BY BookPartStep, ExchangeAssumption DEF BookPart, Calm, PositiveQuantities
<1>2. CASE AnyStep
  <2>1. Lists' /\ Fronts'
    BY <1>1, <1>2, StepKeepsLists, StepKeepsFronts DEF Promises
  <2>2. Accounted' /\ Fit'
    BY <1>1, <1>2, StepKeepsAccounted, StepKeepsVolumes DEF Promises, Lists
  <2>3. PositivePrices /\ Complete => Complete'
    BY <1>1, <1>2, StepKeepsComplete DEF Promises
  <2>. QED  BY <2>1, <2>2, <2>3 DEF Promises
<1>3. CASE AddInstrument
  BY <1>3, ListingKeepsLists, ListingKeepsComplete, ListingKeepsAccounted DEF Promises
<1>. QED  BY <1>2, <1>3, ExchangeIsAnyStep

\* They hold of the empty exchange.
LEMMA PromisesInit == ExInit => Promises /\ Complete
BY InitLists, InitFronts, InitComplete, InitAccounted, InitFit DEF ExInit, Promises

\* An execution in an exchange takes the order that comes first, too.
LEMMA ExchangeTakesFirst ==
  ASSUME BookPart, Promises, [ExNext]_exVars,
         NEW h \in Handle, order'[h].remaining < order[h].remaining
  PROVE  \A g \in Resting : ~Ahead(g, h)
<1>1. order[h].remaining \in Nat
  BY OrderType DEF BookPart, Shape
<1>2. ~AddInstrument
  <2> SUFFICES ASSUME AddInstrument PROVE FALSE
    OBVIOUS
  <2>1. order'[h] = order[h]
    BY ListingRelists DEF BookPart, Relisted
  <2>. QED  BY <1>1, <2>1
<1>. QED  BY <1>2, ExchangeIsAnyStep, OnlyFrontsExecute DEF BookPart, Promises

\* What the theorems of PriceTimeProofs say of a book that is called by clients holds
\* of the book of an exchange, where sessions open and close, the liquidity of an
\* instrument comes from nobody and a listing puts a new book in the place of the old
\* one: executions keep to price-time priority, the trades told account for all of
\* them, the volume published understates nothing, and no empty level is left to be
\* quoted.
THEOREM PromisesInExchange ==
  ExSpec => /\ PriceTimePriority
            /\ [](ExecutionsAreTold /\ VolumeNotUnderstated /\ NoEmptyLevel)
<1>1. BookPart /\ Promises /\ [ExNext]_exVars => Promises'
  BY PromisesStep
<1>2. BookPart /\ Promises => ExecutionsAreTold /\ VolumeNotUnderstated /\ NoEmptyLevel
  BY AccountedIsTold, FitCovers
     DEF BookPart, Promises, Lists, NothingEmpty, Working, NoEmptyLevel
<1>3. BookPart /\ Promises /\ [ExNext]_exVars
        => [\A h \in Handle : order'[h].remaining < order[h].remaining
              => \A g \in Resting : ~Ahead(g, h)]_vars
  BY ExchangeTakesFirst
<1>. QED
  BY <1>1, <1>2, <1>3, BookPartInit, BookPartStep, PromisesInit, PTL DEF ExSpec, PriceTimePriority

\* And no order is lost there or kept too long, through sessions that close on all
\* of them and listings that forget them.
THEOREM NothingLostInExchange == PositivePrices => (ExSpec => []NoOrderLost)
<1> SUFFICES ASSUME PositivePrices PROVE ExSpec => []NoOrderLost
  OBVIOUS
<1>1. BookPart /\ Promises /\ Complete /\ [ExNext]_exVars => Promises' /\ Complete'
  BY PromisesStep
<1>2. BookPart /\ Promises /\ Complete => NoOrderLost
  BY CompleteLosesNothing DEF BookPart, Promises
<1>. QED
  BY <1>1, <1>2, BookPartInit, BookPartStep, PromisesInit, PTL DEF ExSpec
==============================================================================
