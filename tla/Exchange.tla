------------------------------ MODULE Exchange ------------------------------
(***************************************************************************)
(* One instrument of an Exchange (engine/src/exchange.cpp) composed with    *)
(* its OrderBook and with the base Actors that trade on it (actor.cpp):     *)
(* the trading session, the way of an order through process_order_-         *)
(* submission, the callbacks that reach actors and subscribers meanwhile,   *)
(* the actors' active orders and accounts.                                 *)
(*                                                                         *)
(* Calls arrive one after another here: SimulationNode is about threads.    *)
(* Quantities are positive, so nothing throws: OrderBook shows what a zero  *)
(* does. Market data is what the last event scheduled for a subscriber      *)
(* shows; Traders is about what actors make of it.                         *)
(***************************************************************************)
EXTENDS OrderBook, Accounting

CONSTANTS
  Actors,        (* registered actors                                         *)
  Nobody,        (* the id no actor has: the virtual liquidity provider's     *)
  Liquidity,     (* TRUE, FALSE: may add_instrument be given a price, or none *)
  InitialBid, InitialAsk, InitialSize,   (* the initial liquidity then         *)
  Watchers,      (* actors that subscribe to market data                      *)
  RejectedAt,    (* prices of the orders sent when they are rejected          *)
  MaxListings    (* bound on the calls of add_instrument                      *)

ASSUME ExchangeAssumption ==
  /\ Nobody \notin Actors
  /\ Liquidity \subseteq BOOLEAN
  /\ InitialBid \in Prices /\ InitialAsk \in Prices /\ InitialBid < InitialAsk
  /\ InitialSize \in Quantities
  /\ Watchers \subseteq Actors
  /\ MaxListings \in Nat
  /\ \A q \in Quantities : q > 0

VARIABLES
  is_trading_open,
  listings,       (* calls of add_instrument; the book exists from the first   *)
  owner,          (* actor_id of every Order object, by handle                 *)
  subscribers,    (* actors with a market data subscription                    *)
  last_trade,     (* price in last_trades_                                     *)
  feed,           (* the last snapshot scheduled for each subscriber           *)
  active_orders,  (* Actor::active_orders_, ids by actor                       *)
  accounts,       (* Actor::positions_ and capital_                            *)
  stage,          (* where the exchange's call in progress is                  *)
  used,           (* history: ids of the orders sent; no client reuses one     *)
  caller,         (* the actor whose order is being processed                  *)
  batch,          (* the trades process_order returned, still to be processed  *)
  closing         (* the ids close_trading_session has still to remove         *)

session == <<is_trading_open, listings>>
market == <<subscribers, last_trade, feed>>
clients == <<active_orders, accounts, used>>
call == <<stage, caller, batch, closing>>
exVars == <<vars, session, owner, market, clients, call>>

(***************************************************************************)
(* Market data.                                                            *)
(***************************************************************************)

\* The price add_instrument is given, between InitialBid and InitialAsk.
InitialPrice == -2

BestPrice(lv, s) ==
  LET live == {p \in Prices : lv[s][p].live}
  IN  IF live = {} THEN NoPrice ELSE CHOOSE p \in live : \A q \in live : ~Better(s, q, p)

View(lv, last) == [best_bid |-> BestPrice(lv, "BUY"), best_ask |-> BestPrice(lv, "SELL"),
                   last_trade |-> last]
NoView == [best_bid |-> NoPrice, best_ask |-> NoPrice, last_trade |-> NoPrice]

\* broadcast_market_data: an event for every subscriber.
Broadcast(lv, last) ==
  feed' = [a \in Actors |-> IF a \in subscribers THEN View(lv, last) ELSE feed[a]]

(***************************************************************************)
(* process_trade and Actor::on_order_executed.                             *)
(***************************************************************************)

\* buyer_id and seller_id: a market order is the caller's.
Buyer(t) == IF t.buy = NoOrder THEN caller ELSE owner[t.buy]
Seller(t) == IF t.sell = NoOrder THEN caller ELSE owner[t.sell]

\* The order an actor is told about, as a buyer if it is one: the object that
\* get_order finds under its id. A market order is in no map.
OrderOf(a, t) ==
  LET h == IF a = Buyer(t) THEN t.buy ELSE t.sell
  IN  IF a \notin {Buyer(t), Seller(t)} \/ h = NoOrder THEN NoOrder ELSE orders[order[h].id]

\* Any execution erases the order from active_orders_.
NowFilled_Touched(o) == o.status # "NEW"
NowFilled(o) == o.status = "FILLED"

\* on_order_executed of every actor involved that still has an order known.
ProcessTrade(t) ==
  LET told == {a \in Actors : OrderOf(a, t) # NoOrder}
  IN  /\ last_trade' = t.price
      /\ accounts' = [a \in Actors |->
            IF a \in told THEN UpdatePosition(accounts[a], a = Buyer(t), t.quantity, t.price)
            ELSE accounts[a]]
      /\ active_orders' = [a \in Actors |->
            IF a \in told /\ NowFilled(order[OrderOf(a, t)])
            THEN active_orders[a] \ {order[OrderOf(a, t)].id} ELSE active_orders[a]]

\* The notification of a rejection or a cancellation is a trade of quantity 0.
DummyTrade(a, is_buyer, price) ==
  accounts' = [accounts EXCEPT ![a] = UpdatePosition(@, is_buyer, 0, price)]

ExInit ==
  /\ Init
  /\ is_trading_open = FALSE
  /\ listings = 0
  /\ owner = << >>
  /\ subscribers = {}
  /\ last_trade = NoPrice
  /\ feed = [a \in Actors |-> NoView]
  /\ active_orders = [a \in Actors |-> {}]
  /\ used = {}
  /\ accounts = [a \in Actors |-> Account]
  /\ stage = "free"
  /\ caller = Nobody
  /\ batch = << >>
  /\ closing = {}

(***************************************************************************)
(* Sessions, instruments, subscriptions.                                   *)
(***************************************************************************)

Free == stage = "free" /\ pc = "idle"

OpenTradingSession ==
  /\ Free
  /\ is_trading_open' = TRUE
  /\ UNCHANGED <<vars, listings, owner, market, clients, call>>

\* The book only compares ids, so which of the unused ones comes next is fixed.
FreeIds == OrderIds \ used
NextId == CHOOSE id \in FreeIds : TRUE

EmptyLevels == [s \in Side |-> [p \in Prices |-> NoLevel]]
NoIds == [id \in OrderIds |-> NoOrder]

\* add_instrument makes a new book, and forgets the one it may have had. Given a
\* price it adds liquidity to it, whatever the session: five levels a side in the
\* code, one here.
AddInstrument ==
  /\ Free
  /\ listings < MaxListings
  /\ listings' = listings + 1
  /\ withdrawn' = withdrawn \cup Resting
  /\ \/ /\ FALSE \in Liquidity
        /\ levels' = EmptyLevels
        /\ orders' = NoIds
        /\ UNCHANGED <<order, owner, last_trade, used>>
     \/ /\ TRUE \in Liquidity
        /\ Len(order) + 1 < MaxOrders
        /\ FreeIds # {} /\ FreeIds \ {NextId} # {}
        /\ LET h == Len(order) + 1
               i == CHOOSE id \in FreeIds \ {NextId} : TRUE
               bid == NewOrder(NextId, "BUY", InitialSize, InitialBid)
               ask == NewOrder(i, "SELL", InitialSize, InitialAsk)
           IN  /\ order' = Append(Append(order, bid), ask)
               /\ owner' = Append(Append(owner, Nobody), Nobody)
               /\ orders' = [NoIds EXCEPT ![NextId] = h, ![i] = h + 1]
               /\ levels' = [EmptyLevels EXCEPT !["BUY"][InitialBid] = WithOrder(@, h, bid),
                                                !["SELL"][InitialAsk] = WithOrder(@, h + 1, ask)]
               /\ used' = used \cup {NextId, i}
        /\ last_trade' = InitialPrice
  /\ Broadcast(levels', last_trade')
  /\ UNCHANGED <<pc, frame, trades, reported, is_trading_open, subscribers, active_orders, accounts, call>>

\* subscribe_to_market_data sends a first snapshot, if there is a book.
Subscribe(a) ==
  /\ Free
  /\ subscribers' = subscribers \cup {a}
  /\ feed' = IF listings > 0 THEN [feed EXCEPT ![a] = View(levels, last_trade)] ELSE feed
  /\ UNCHANGED <<vars, session, owner, last_trade, clients, call>>

Unsubscribe(a) ==
  /\ Free
  /\ subscribers' = subscribers \ {a}
  /\ feed' = [feed EXCEPT ![a] = NoView]
  /\ UNCHANGED <<vars, session, owner, last_trade, clients, call>>

\* Orders executed in part are left out.
OpenIds_New == {id \in OrderIds : orders[id] # NoOrder /\ order[orders[id]].status = "NEW"}
\* get_all_orders: what orders_ knows, filled orders included.
OpenIds == {id \in OrderIds : orders[id] # NoOrder}

\* close_trading_session, open or not, removes all of them, one by one and in
\* arbitrary order.
CloseTradingSession ==
  /\ Free
  /\ is_trading_open' = FALSE
  /\ closing' = OpenIds
  /\ stage' = "close"
  /\ UNCHANGED <<vars, listings, owner, market, clients, caller, batch>>

\* remove_order, whose callback broadcasts whether or not the level had the order.
CloseOne ==
  /\ stage = "close"
  /\ \E id \in closing :
       /\ Cancel(id) \/ RemoveDangling(id)
       /\ closing' = closing \ {id}
  /\ Broadcast(levels', last_trade)
  /\ UNCHANGED <<session, owner, subscribers, last_trade, clients, stage, caller, batch>>

CloseDone ==
  /\ stage = "close" /\ pc = "idle"
  /\ closing = {}
  /\ IF listings > 0 THEN Broadcast(levels, last_trade) ELSE UNCHANGED feed
  /\ stage' = "free"
  /\ UNCHANGED <<vars, session, owner, subscribers, last_trade, clients, caller, batch, closing>>

(***************************************************************************)
(* Orders.                                                                 *)
(***************************************************************************)

\* Actor::submit_order before the exchange: the order counts as active at once.
Activate(a, id) ==
  /\ Free
  /\ id \in FreeIds /\ id = NextId
  /\ active_orders' = [active_orders EXCEPT ![a] = @ \cup {id}]
  /\ used' = used \cup {id}

\* The session is closed, or nothing is listed. The order object is the actor's
\* alone; its price is 0 when it is a market order.
Reject(a, id, s, p) ==
  /\ Activate(a, id)
  /\ ~is_trading_open \/ listings = 0
  /\ DummyTrade(a, s = "BUY", p)
  /\ UNCHANGED <<vars, session, owner, market, call>>

\* add_order's callback broadcasts the book as it is before matching.
SubmitLimitOrder(a, id, s, q, p) ==
  /\ Activate(a, id)
  /\ is_trading_open /\ listings > 0
  /\ SubmitLimit(id, s, q, p)
  /\ owner' = Append(owner, a)
  /\ Broadcast(levels', last_trade)
  /\ stage' = "book"
  /\ caller' = a
  /\ UNCHANGED <<session, subscribers, last_trade, accounts, batch, closing>>

SubmitMarketOrder(a, id, s, q) ==
  /\ Activate(a, id)
  /\ is_trading_open /\ listings > 0
  /\ SubmitMarket(s, q)
  /\ stage' = "book"
  /\ caller' = a
  /\ UNCHANGED <<session, owner, market, accounts, batch, closing>>

\* The matching loops of the book; no callback runs meanwhile.
Match ==
  /\ stage = "book"
  /\ \/ EnterLevels \/ MatchPair \/ LeaveLevels \/ MatchDone
     \/ EnterLevel \/ Fill \/ LeaveLevel \/ MarketDone
  /\ UNCHANGED <<session, owner, market, clients, call>>

\* The book's two callbacks, for one trade: on_order_book_update broadcasts with
\* the last trade as it was, then the matching engine's calls process_trade.
TradeCallbacks ==
  /\ stage = "book"
  /\ Notify
  /\ Broadcast(levels, last_trade)
  /\ ProcessTrade(Head(trades))
  /\ batch' = Append(batch, Head(trades))
  /\ UNCHANGED <<session, owner, subscribers, used, stage, caller, closing>>

OrderProcessed ==
  /\ stage = "book"
  /\ Return
  /\ stage' = "loop"
  /\ UNCHANGED <<session, owner, market, clients, caller, batch, closing>>

\* "Process resulting trades": each of them once more.
ProcessResult ==
  /\ stage = "loop"
  /\ batch # << >>
  /\ ProcessTrade(Head(batch))
  /\ batch' = Tail(batch)
  /\ UNCHANGED <<vars, session, owner, subscribers, feed, used, stage, caller, closing>>

\* The call returns without the broadcast.
Submitted_Silent ==
  /\ stage = "loop"
  /\ batch = << >>
  /\ stage' = "free"
  /\ caller' = Nobody
  /\ UNCHANGED <<vars, session, owner, market, clients, batch, closing>>

Submitted ==
  /\ stage = "loop"
  /\ batch = << >>
  /\ Broadcast(levels, last_trade)
  /\ stage' = "free"
  /\ caller' = Nobody
  /\ UNCHANGED <<vars, session, owner, subscribers, last_trade, clients, batch, closing>>

\* Actor::cancel_order of an active order: the book's callback broadcasts if it
\* knows the id, the exchange notifies the actor if the order was removed, and the
\* actor forgets the order in any case.
CancelOrder(a, id) ==
  /\ Free
  /\ id \in active_orders[a]
  /\ active_orders' = [active_orders EXCEPT ![a] = @ \ {id}]
  /\ \/ /\ Cancel(id) \/ RemoveDangling(id)
        /\ Broadcast(levels', last_trade)
        /\ IF Found(id) THEN DummyTrade(a, TRUE, 0) ELSE UNCHANGED accounts
     \/ /\ orders[id] = NoOrder
        /\ UNCHANGED <<vars, feed, accounts>>
  /\ UNCHANGED <<session, owner, subscribers, last_trade, used, call>>

ExNext ==
  \/ OpenTradingSession \/ CloseTradingSession \/ CloseOne \/ CloseDone \/ AddInstrument
  \/ Match \/ TradeCallbacks \/ OrderProcessed \/ ProcessResult \/ Submitted
  \/ \E a \in Watchers : Subscribe(a) \/ Unsubscribe(a)
  \/ \E a \in Actors :
       \E id \in OrderIds :
            \/ CancelOrder(a, id)
            \/ \E s \in Side :
                 \/ \E p \in RejectedAt : Reject(a, id, s, p)
                 \/ \E q \in Quantities, p \in Prices : SubmitLimitOrder(a, id, s, q, p)
                 \/ \E q \in Quantities : SubmitMarketOrder(a, id, s, q)

ExSpec == ExInit /\ [][ExNext]_exVars

(***************************************************************************)
(* Properties.                                                             *)
(***************************************************************************)

\* Every variable keeps its type.
ExTypeOK ==
  /\ TypeOK
  /\ is_trading_open \in BOOLEAN
  /\ listings \in 0..MaxListings
  /\ owner \in [1..Len(order) -> Actors \cup {Nobody}]
  /\ subscribers \subseteq Actors
  /\ last_trade \in Prices \cup {NoPrice, InitialPrice}
  /\ feed \in [Actors -> [best_bid : Prices \cup {NoPrice}, best_ask : Prices \cup {NoPrice},
                          last_trade : Prices \cup {NoPrice, InitialPrice}]]
  /\ active_orders \in [Actors -> SUBSET used] /\ used \subseteq OrderIds
  /\ \A a \in Actors : accounts[a].avg_price.den > 0 /\ accounts[a].realized_pnl.den > 0
  /\ stage \in {"free", "book", "loop", "close"}
  /\ caller \in Actors \cup {Nobody}
  /\ batch \in Seq(Trade)
  /\ closing \subseteq OrderIds

\* Every subscriber's last snapshot shows the book as it is between calls, and
\* the last trade with it, although it is sent from inside the book's callbacks,
\* before matching and before the trade is recorded (exchange.cpp:484-535).
SnapshotIsCurrent ==
  Free /\ listings > 0 => \A a \in subscribers : feed[a] = View(levels, last_trade)

\* An actor can always withdraw what it has in the market: every resting order
\* of an actor is in its active_orders_ (actor.cpp:75-86 refuses any other),
\* through executions in part, rejections and cancellations.
RestingIsActive ==
  pc # "undefined" =>
    \A h \in Resting : owner[h] \in Actors => order[h].id \in active_orders[owner[h]]

\* With the session closed nothing of an actor is left in the book: the only
\* orders are the liquidity of an instrument added since (exchange.cpp:468-482).
ClosedMeansEmpty ==
  Free /\ ~is_trading_open => \A h \in Resting : owner[h] = Nobody

\* actor.cpp:30 "Update position based on the trade": the position of an actor is
\* what its orders in the book have executed.
NetExecuted(a, s) ==
  MapThenSumSet(LAMBDA h : order[h].quantity - order[h].remaining,
                {h \in Handle : owner[h] = a /\ order[h].side = s})

PositionsAreExecutions ==
  Free => \A a \in Actors : accounts[a].quantity = NetExecuted(a, "BUY") - NetExecuted(a, "SELL")
==============================================================================
