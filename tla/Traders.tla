------------------------------- MODULE Traders -------------------------------
(***************************************************************************)
(* The two trading actors of engine/src/actor.cpp, each on one instrument:  *)
(* MarketMaker with its quotes, and TrendFollower with its price history.   *)
(*                                                                         *)
(* The exchange is what Exchange shows of it, seen from one actor: an order *)
(* that comes in, its own or another's, is matched with the actor's resting *)
(* orders and with others' at once, and what remains of a limit order rests.*)
(* Then the actor is told of the executions, twice (once per pass of        *)
(* process_trade) and only if the order carries its id, which quotes and    *)
(* market orders do not, and orders that ExecuteOrder sends in its name do. *)
(* The code holds a null pointer in place of the exchange ("assume we have a*)
(* reference to the right exchange"): the model assumes the reference.      *)
(***************************************************************************)
EXTENDS Integers, Sequences, SequencesExt, FiniteSets, Accounting

CONSTANTS
  Kinds,            (* of "maker" and "follower": which actors there are      *)
  ClientIds,        (* ids of the orders clients send in the actor's name     *)
  Lots,             (* the sizes each of those orders may have                *)
  OtherLots,        (* what an order of others may bring to own orders        *)
  Prices,           (* limit prices of all orders; 0 is a market order's      *)
  BidPrice, AskPrice, (* the quotes' prices                                   *)
  Capital,          (* initial capital                                        *)
  max_position,     (* the market maker's limit                               *)
  short_window, long_window,  (* the follower's moving averages               *)
  MidPrices         (* mid prices a follower may observe                      *)

ASSUME TradersAssumption ==
  /\ Kinds \subseteq {"maker", "follower"}
  /\ ClientIds \cap {"", "bid", "ask", "market", "others"} = {}
  /\ \A id \in ClientIds : Lots[id] \subseteq Nat \ {0}
  /\ OtherLots \cup Prices \cup MidPrices \subseteq Nat \ {0}
  /\ {BidPrice, AskPrice} \subseteq Prices
  /\ max_position \in Nat /\ Capital \in Int
  /\ short_window \in 1..long_window /\ long_window \in Nat

VARIABLES
  kind,
  is_open,        (* the exchange's session                                    *)
  known,          (* the exchange's orders_, for orders of this actor          *)
  orphans,        (* history: sides with an order no id leads to any more      *)
  incoming,       (* the order being matched, if any                           *)
  trades,         (* its executions that the actor is told of                  *)
  account,        (* positions_ and capital_                                   *)
  active,         (* active_orders_, of limit orders: a market order stays     *)
                  (* in it for good, and nothing looks for it                  *)
  used,           (* history: ids of clients' orders; none is used again       *)
  observation,    (* latest_observations_: none yet, a thin market, a valid one*)
  quotes,         (* active_quotes_, "" for none                               *)
  pc,             (* where the actor's decision, or a cancellation, is         *)
  job,            (* its locals: side and id cancelled, sides still to quote   *)
  calls,          (* notifications not yet delivered, the innermost first      *)
  price_history, signal,
  seen,           (* history: the mid prices observed last                     *)
  sent            (* orders of the decision just made, in half lots            *)

venue == <<is_open, known, orphans>>
matching == <<incoming, trades>>
maker == <<observation, quotes>>
follower == <<price_history, signal, seen>>
vars == <<kind, venue, matching, account, active, used, maker, pc, job, calls, follower, sent>>

Side == {"BUY", "SELL"}
QuoteId(s) == IF s = "BUY" THEN "bid" ELSE "ask"
Ids == {"bid", "ask"} \cup ClientIds
NoOrder == [side |-> "BUY", left |-> 0, price |-> 0, named |-> FALSE, known |-> FALSE]
NoIncoming == [id |-> "", side |-> "BUY", left |-> 0, price |-> 0, named |-> FALSE]
Rests(id) == known[id].left > 0
NoQuotes == [s \in Side |-> ""]
NoJob == [side |-> "BUY", id |-> "", sides |-> << >>]
Price(s) == IF s = "BUY" THEN BidPrice ELSE AskPrice
AbsVal(n) == IF n < 0 THEN -n ELSE n

Init ==
  /\ kind \in Kinds
  /\ is_open = FALSE
  /\ known = [id \in Ids |-> NoOrder]
  /\ orphans = {}
  /\ incoming = NoIncoming /\ trades = << >>
  /\ account = [Account EXCEPT !.capital = Capital]
  /\ active = {} /\ used = {}
  /\ observation = "none"
  /\ quotes = NoQuotes
  /\ pc = "idle"
  /\ job = NoJob
  /\ calls = << >>
  /\ price_history = << >> /\ signal = Whole(0) /\ seen = << >> /\ sent = << >>

Matching == incoming.id # ""
Returned == calls = << >> /\ ~Matching
Quiet == pc = "idle" /\ Returned

(***************************************************************************)
(* The exchange.                                                           *)
(***************************************************************************)

\* A rejection or a cancellation, told to the actor as a trade of nothing.
Dummy(id, is_buyer, price) == [id |-> id, is_buyer |-> is_buyer, lots |-> 0, price |-> price]

\* process_order_submission of a limit order: it is matched, unless it is rejected.
Submit(id, s, q, price, named) ==
  /\ active' = active \cup {id}
  /\ UNCHANGED trades
  /\ IF is_open
     THEN /\ incoming' = [id |-> id, side |-> s, left |-> q, price |-> price, named |-> named]
          /\ known' = [known EXCEPT ![id] =
                         [side |-> s, left |-> 0, price |-> price, named |-> named, known |-> TRUE]]
          /\ orphans' = IF Rests(id) THEN orphans \cup {known[id].side} ELSE orphans
          /\ UNCHANGED calls
     ELSE /\ calls' = <<Dummy(id, s = "BUY", price)>>
          /\ UNCHANGED <<known, orphans, incoming>>

\* Whether the incoming order meets resting ones at this price, and which of two
\* prices it meets first.
Meets(price) ==
  \/ incoming.price = 0
  \/ IF incoming.side = "BUY" THEN price <= incoming.price ELSE price >= incoming.price
Better(p, q) == IF incoming.side = "BUY" THEN p < q ELSE p > q

\* The own orders it meets.
Faces(id) == Rests(id) /\ known[id].side # incoming.side /\ Meets(known[id].price)

\* The notice of an execution of the incoming order against another: to a buyer who
\* is the actor; else to a seller who is. A trade of the actor with itself is told of
\* the purchase only. The price is the ask's.
Told(other, lots, price) ==
  LET buyer == IF incoming.side = "BUY" THEN incoming ELSE other
      seller == IF incoming.side = "BUY" THEN other ELSE incoming
      notice == [id |-> IF buyer.named THEN buyer.id ELSE seller.id, is_buyer |-> buyer.named,
                 lots |-> lots,
                 price |-> IF incoming.side = "SELL" /\ incoming.price # 0
                           THEN incoming.price ELSE price]
  IN  IF buyer.named \/ seller.named THEN <<notice>> ELSE << >>

\* The best-priced own order is executed. Which of several at that price comes
\* first is left open.
MeetOwn ==
  /\ incoming.left > 0
  /\ \E id \in Ids :
       LET own == known[id]
           lots == Smaller(incoming.left, own.left)
       IN  /\ Faces(id)
           /\ \A j \in Ids : Faces(j) => ~Better(known[j].price, own.price)
           /\ incoming' = [incoming EXCEPT !.left = @ - lots]
           /\ known' = [known EXCEPT ![id].left = @ - lots]
           /\ trades' = trades \o Told([id |-> id, named |-> own.named], lots, own.price)
  /\ UNCHANGED <<kind, used, is_open, orphans, account, active, maker, pc, job, calls, follower>>

\* An own order meets another's, at a price that no own order resting on the
\* same side would have met before, no own one on the other side betters, and no
\* earlier execution of a purchase exceeds.
MeetOther ==
  /\ incoming.left > 0 /\ incoming.id # "others"
  /\ \E price \in Prices, lots \in 1..incoming.left :
       /\ Meets(price)
       /\ \A id \in Ids : Faces(id) => ~Better(known[id].price, price)
       /\ \A id \in Ids :
            Rests(id) /\ known[id].side = incoming.side => Better(known[id].price, price)
       /\ incoming.side = "BUY" => \A i \in DOMAIN trades : trades[i].price <= price
       /\ incoming' = [incoming EXCEPT !.left = @ - lots]
       /\ trades' = trades \o Told(NoIncoming, lots, price)
  /\ UNCHANGED <<kind, used, venue, account, active, maker, pc, job, calls, follower>>

\* What remains of a limit order rests, of a market order is dropped; the executions
\* are told in two passes, before whatever the call interrupted goes on.
Settle ==
  /\ Matching
  /\ incoming.left = 0 \/ \A id \in Ids : ~Faces(id)
  /\ known' = IF incoming.id \in Ids
              THEN [known EXCEPT ![incoming.id].left = incoming.left] ELSE known
  /\ calls' = trades \o trades \o calls
  /\ incoming' = NoIncoming /\ trades' = << >>
  /\ UNCHANGED <<kind, used, is_open, orphans, account, active, maker, pc, job, follower>>

\* Others' order, limit or market, comes to own orders.
OthersOrder ==
  /\ Quiet
  /\ is_open
  /\ \E s \in Side, q \in OtherLots, price \in Prices \cup {0} :
       incoming' = [id |-> "others", side |-> s, left |-> q, price |-> price, named |-> FALSE]
  /\ UNCHANGED <<kind, used, venue, trades, account, active, maker, pc, job, calls, follower>>
  /\ \E id \in Ids : Faces(id)'

OpenSession ==
  /\ Quiet
  /\ ~is_open
  /\ is_open' = TRUE
  /\ UNCHANGED <<kind, used, known, orphans, matching, account, active, maker, pc, job, calls, follower>>

\* Every order is removed, none is told; a filled one may be erased through a
\* dangling iterator (OrderBook's RemoveDangling).
CloseSession ==
  /\ Quiet
  /\ is_open
  /\ is_open' = FALSE
  /\ known' = [id \in Ids |-> NoOrder]
  /\ orphans' = {}
  /\ \/ UNCHANGED pc
     \/ (\E id \in Ids : known[id].known /\ ~Rests(id)) /\ pc' = "undefined"
  /\ UNCHANGED <<kind, used, matching, account, active, maker, job, calls, follower>>

(***************************************************************************)
(* Actor: orders, cancellations, notifications.                            *)
(***************************************************************************)

\* ExecuteOrder of a limit order in the actor's name.
ClientOrder(id, s, q, price) ==
  /\ Quiet
  /\ id \notin used
  /\ used' = used \cup {id}
  /\ Submit(id, s, q, price, TRUE)
  /\ UNCHANGED <<kind, is_open, account, maker, pc, job, follower>>

\* Actor::cancel_order of an active order, up to the exchange's answer: the order
\* is gone, with a notification; it was not found; or the erasure is undefined.
Cancel(id, then) ==
  /\ id \in active
  /\ known' = [known EXCEPT ![id] = NoOrder]
  /\ \/ Rests(id) /\ calls' = <<Dummy(id, TRUE, 0)>> /\ pc' = then
     \/ ~Rests(id) /\ UNCHANGED calls /\ pc' = then
     \/ known[id].known /\ ~Rests(id) /\ UNCHANGED calls /\ pc' = "undefined"

ClientCancel(id) ==
  /\ Quiet
  /\ Cancel(id, "client")
  /\ job' = [NoJob EXCEPT !.id = id]
  /\ UNCHANGED <<kind, used, is_open, orphans, matching, account, active, maker, follower>>

ClientCancelled ==
  /\ pc = "client" /\ Returned
  /\ active' = active \ {job.id}
  /\ pc' = "idle"
  /\ job' = NoJob
  /\ UNCHANGED <<kind, used, venue, matching, account, maker, calls, follower>>

\* Any notification clears the quotes.
Cleared_All(id) == NoQuotes
\* "Remove executed quote from active quotes."
Cleared(id) == [s \in Side |-> IF quotes[s] = id THEN "" ELSE quotes[s]]

\* The excess over the limit, but at most a fifth of the position, in whole lots.
RebalanceSize(quantity) ==
  Smaller(AbsVal(quantity) - max_position, (AbsVal(quantity) + 4) \div 5)

\* The market order is rejected in an open session too.
Rebalance_Rejected(quantity, rest) ==
  /\ calls' = <<Dummy("market", quantity < 0, 0)>> \o rest
  /\ UNCHANGED incoming

\* manage_inventory: a market order against a position above the limit, inside
\* the callback. It is matched, or rejected.
Rebalance(quantity, rest) ==
  IF is_open
  THEN /\ incoming' = [id |-> "market", side |-> IF quantity > 0 THEN "SELL" ELSE "BUY",
                       left |-> RebalanceSize(quantity), price |-> 0, named |-> FALSE]
       /\ calls' = rest
  ELSE /\ calls' = <<Dummy("market", quantity < 0, 0)>> \o rest
       /\ UNCHANGED incoming

\* on_order_executed of Actor and, for a market maker, of MarketMaker.
Deliver ==
  /\ calls # << >> /\ ~Matching
  /\ pc # "undefined"
  /\ LET n == Head(calls)
         filled == n.lots > 0 /\ ~Rests(n.id)
     IN  /\ account' = UpdatePosition(account, n.is_buyer, n.lots, n.price)
         /\ active' = IF filled THEN active \ {n.id} ELSE active
         /\ quotes' = IF kind = "maker" THEN Cleared(n.id) ELSE quotes
         /\ IF /\ kind = "maker" /\ observation = "valid"
               /\ AbsVal(account'.quantity) > max_position
            THEN Rebalance(account'.quantity, Tail(calls))
            ELSE calls' = Tail(calls) /\ UNCHANGED incoming
  /\ UNCHANGED <<kind, used, venue, trades, observation, pc, job, follower>>

(***************************************************************************)
(* MarketMaker: make_trading_decisions and adjust_quotes.                  *)
(***************************************************************************)

Observe(view) ==
  /\ Quiet
  /\ kind = "maker"
  /\ observation' = view
  /\ UNCHANGED <<kind, used, venue, matching, account, active, quotes, pc, job, calls, follower>>

\* Without a bid and an ask in the latest observation nothing is touched.
Decide ==
  /\ Quiet
  /\ kind = "maker" /\ observation = "valid"
  /\ pc' = "cancel"
  /\ job' = NoJob
  /\ UNCHANGED <<kind, used, venue, matching, account, active, maker, calls, follower>>

\* The ask quote is not cancelled.
CancelQuote_BidOnly ==
  /\ pc = "cancel" /\ Returned
  /\ IF quotes[job.side] # "" /\ quotes[job.side] \in active /\ job.side = "BUY"
     THEN Cancel(quotes[job.side], "cancelled")
     ELSE pc' = "cancelled" /\ UNCHANGED <<known, calls>>
  /\ UNCHANGED <<kind, used, is_open, orphans, matching, account, active, maker, job, follower>>

\* First the bid quote, then the ask quote, if there is one and it is active.
CancelQuote ==
  /\ pc = "cancel" /\ Returned
  /\ IF quotes[job.side] # "" /\ quotes[job.side] \in active
     THEN Cancel(quotes[job.side], "cancelled")
     ELSE pc' = "cancelled" /\ UNCHANGED <<known, calls>>
  /\ UNCHANGED <<kind, used, is_open, orphans, matching, account, active, maker, job, follower>>

\* cancel_order erases the id it holds by reference, and the reference is to the
\* string in active_quotes_: what on_order_executed cleared meanwhile is erased
\* as "", and the order stays active.
QuoteCancelled ==
  /\ pc = "cancelled" /\ Returned
  /\ active' = active \ {quotes[job.side]}
  /\ quotes' = [quotes EXCEPT ![job.side] = ""]
  /\ IF job.side = "BUY" THEN pc' = "cancel" /\ job' = [job EXCEPT !.side = "SELL"]
                         ELSE pc' = "place" /\ UNCHANGED job
  /\ UNCHANGED <<kind, used, venue, matching, account, observation, calls, follower>>

\* Quote both sides, or only the one that reduces a position above half the limit.
PlaceQuotes ==
  /\ pc = "place" /\ Returned
  /\ LET position == account.quantity
         skew == 2 * AbsVal(position) > max_position
     IN  IF account.capital <= 0
         THEN pc' = "idle" /\ job' = NoJob
         ELSE /\ pc' = "submit"
              /\ job' = [job EXCEPT !.sides =
                           IF ~skew THEN <<"BUY", "SELL">>
                           ELSE IF position > 0 THEN <<"SELL">> ELSE <<"BUY">>]
  /\ UNCHANGED <<kind, used, venue, matching, account, active, maker, calls, follower>>

\* The orders carry no actor id, and the second is sent when the first has been
\* matched and the callbacks of that have returned. active_quotes_ is assigned when all are sent.
SubmitQuote ==
  /\ pc = "submit" /\ Returned
  /\ job.sides # << >>
  /\ LET s == Head(job.sides) IN Submit(QuoteId(s), s, 1, Price(s), FALSE)
  /\ job' = [job EXCEPT !.sides = Tail(@), !.id = IF @ = "" THEN Head(job.sides) ELSE "both"]
  /\ UNCHANGED <<kind, used, is_open, account, maker, pc, follower>>

QuotesPlaced ==
  /\ pc = "submit" /\ Returned
  /\ job.sides = << >>
  /\ quotes' = [s \in Side |-> IF job.id \in {s, "both"} THEN QuoteId(s) ELSE quotes[s]]
  /\ pc' = "idle"
  /\ job' = NoJob
  /\ UNCHANGED <<kind, used, venue, matching, account, active, observation, calls, follower>>

(***************************************************************************)
(* TrendFollower.                                                          *)
(***************************************************************************)

\* The newest prices go instead of the oldest.
Truncated_Front(h) == IF Len(h) > 2 * long_window THEN SubSeq(h, 1, 2 * long_window) ELSE h
\* "Keep history within limits": the oldest prices beyond twice the window go.
Truncated(h) ==
  IF Len(h) > 2 * long_window THEN SubSeq(h, Len(h) - 2 * long_window + 1, Len(h)) ELSE h

ObservePrice(mid) ==
  /\ Quiet
  /\ kind = "follower"
  /\ price_history' = Truncated(Append(price_history, mid))
  /\ seen' = IF Len(seen) < long_window THEN Append(seen, mid) ELSE Append(Tail(seen), mid)
  /\ UNCHANGED <<kind, used, venue, matching, account, active, maker, pc, job, calls, signal>>

Latest(h, n) == SubSeq(h, Len(h) - n + 1, Len(h))
Total(h) == FoldLeft(LAMBDA x, y : x + y, 0, h)

\* 20 * (short average - long average) / last price, within [-1, 1].
TrendSignal(h) ==
  LET diff == 20 * (Total(Latest(h, short_window)) * long_window
                      - Total(Latest(h, long_window)) * short_window)
      scale == h[Len(h)] * short_window * long_window
  IN  IF AbsVal(diff) > scale THEN Whole(IF diff > 0 THEN 1 ELSE -1) ELSE Frac(diff, scale)

Up(sig) == 5 * sig.num > sig.den
Down(sig) == -5 * sig.num > sig.den

\* The target in lots grows with the signal, and has the sign of the capital.
TargetSize(sig) ==
  LET strength == IF AbsVal(sig.num) = sig.den THEN 2 ELSE 1
  IN  IF account.capital > 0 THEN strength ELSE IF account.capital < 0 THEN -strength ELSE 0

Market(s, half_lots) == [side |-> s, half_lots |-> half_lots]

\* A position against the trend is not closed first.
Orders_NoClose(sig) ==
  LET position == account.quantity
      target == TargetSize(sig)
      s == IF Up(sig) THEN "BUY" ELSE "SELL"
      along == IF Up(sig) THEN position ELSE -position
  IN  IF Up(sig) \/ Down(sig)
      THEN IF along < target THEN <<Market(s, 2 * target)>> ELSE << >>
      ELSE IF position # 0 THEN <<Market(IF position > 0 THEN "SELL" ELSE "BUY", AbsVal(position))>>
      ELSE << >>

\* With a trend: close what is held against it, then take the target; or add what
\* is missing. Without one: give up half of what is held.
Orders(sig) ==
  LET position == account.quantity
      target == TargetSize(sig)
      s == IF Up(sig) THEN "BUY" ELSE "SELL"
      along == IF Up(sig) THEN position ELSE -position
  IN  IF Up(sig) \/ Down(sig)
      THEN IF along <= 0
           THEN (IF along < 0 THEN <<Market(s, -2 * along)>> ELSE << >>)
                  \o <<Market(s, 2 * target)>>
           ELSE IF along < target THEN <<Market(s, 2 * (target - along))>> ELSE << >>
      ELSE IF position # 0 THEN <<Market(IF position > 0 THEN "SELL" ELSE "BUY", AbsVal(position))>>
      ELSE << >>

\* make_trading_decisions: a signal once there are enough prices, then orders
\* without an actor id, of whose executions it is never told, only of rejections. One
\* that meets an order of its own is an OthersOrder.
DecideTrend ==
  /\ Quiet
  /\ kind = "follower"
  /\ Len(price_history) > long_window
  /\ signal' = TrendSignal(price_history)
  /\ sent' = Orders(signal')
  /\ calls' = IF is_open THEN << >>
              ELSE [i \in DOMAIN sent' |-> Dummy("market", sent'[i].side = "BUY", 0)]
  /\ UNCHANGED <<kind, used, venue, matching, account, active, maker, pc, job, price_history, seen>>

(***************************************************************************)
(* The system.                                                             *)
(***************************************************************************)

Outside ==
  \/ OthersOrder \/ OpenSession \/ CloseSession
  \/ \E id \in ClientIds, s \in Side, price \in Prices : \E q \in Lots[id] : ClientOrder(id, s, q, price)
  \/ \E id \in Ids : ClientCancel(id)
  \/ \E view \in {"thin", "valid"} : Observe(view)
  \/ \E mid \in MidPrices : ObservePrice(mid)
  \/ Decide

Proceed ==
  \/ MeetOwn \/ MeetOther \/ Settle
  \/ Deliver \/ ClientCancelled
  \/ CancelQuote \/ QuoteCancelled \/ PlaceQuotes \/ SubmitQuote \/ QuotesPlaced

Going == Proceed /\ sent' = << >>

Next ==
  \/ DecideTrend
  \/ Outside /\ sent' = << >>
  \/ Going

\* A handler, once called, goes on, and a matching ends.
Spec == Init /\ [][Next]_vars /\ WF_vars(Going)

(***************************************************************************)
(* Properties.                                                             *)
(***************************************************************************)

\* Every variable keeps its type.
TypeOK ==
  /\ kind \in Kinds
  /\ is_open \in BOOLEAN
  /\ known \in [Ids -> [side : Side, left : Nat, price : Nat, named : BOOLEAN, known : BOOLEAN]]
  /\ incoming \in [id : Ids \cup {"", "market", "others"}, side : Side, left : Nat, price : Nat,
                   named : BOOLEAN]
  /\ account.quantity \in Int /\ account.capital \in Int
  /\ account.avg_price.den > 0 /\ account.realized_pnl.den > 0
  /\ active \subseteq Ids
  /\ observation \in {"none", "thin", "valid"}
  /\ \A s \in Side : quotes[s] \in {"", QuoteId(s)}
  /\ pc \in {"idle", "client", "cancel", "cancelled", "place", "submit", "undefined"}
  /\ job.side \in Side /\ job.sides \in Seq(Side)
  /\ Len(price_history) <= 2 * long_window

\* The accounts balance: capital and position at its average price are worth the
\* initial capital and the realized profit, through every crossing of zero
\* (actor.cpp:88-168).
BooksBalance == Balanced([account EXCEPT !.capital = @ - Capital])

\* The market maker never has two quotes on one side: it withdraws the old one
\* under the id it uses again for the new one (actor.cpp:308-461), so one that
\* it lost sight of would be out of everyone's reach.
OneQuotePerSide == orphans = {}

\* Between calls a quote that rests is one the market maker knows of, and may
\* cancel, in spite of the clearing and erasing done by callbacks in the midst
\* of its decisions (actor.cpp:75-86, 287-306).
QuoteIsKnown ==
  Quiet => \A s \in Side : Rests(QuoteId(s)) =>
                             quotes[s] = QuoteId(s) /\ QuoteId(s) \in active

\* While the session is open every call returns: the market orders sent from
\* inside callbacks run out of own orders to meet.
ReturnsWhileOpen == ~Quiet ~> Quiet \/ pc = "undefined" \/ ~is_open

\* The signal is that of the prices observed last, whatever has been cut off the
\* front of the history (actor.cpp:581-598, 752-794).
SignalIsOfLatest ==
  [][DecideTrend => signal' = TrendSignal(seen)]_vars

\* What the i-th order of a decision adds to the position, in half lots: nothing if
\* its size is not positive, for no match is made of it (order_book.cpp:205, 249).
Ordered(i) ==
  IF i > Len(sent') \/ sent'[i].half_lots <= 0 THEN 0
  ELSE IF sent'[i].side = "BUY" THEN sent'[i].half_lots ELSE -sent'[i].half_lots

\* The position to have, in half lots: the target along the trend if it is one, or
\* more; half of what is held without a trend.
PositionToHave ==
  LET held == 2 * account.quantity
      target == IF TargetSize(signal') > 0 THEN 2 * TargetSize(signal') ELSE 0
  IN  IF Up(signal') THEN (IF held > target THEN held ELSE target)
      ELSE IF Down(signal') THEN (IF held < -target THEN held ELSE -target)
      ELSE account.quantity

\* The orders of a decision, if executed, bring the position to the target along
\* the trend, leave it if it is beyond, and halve it without a trend (actor.cpp:609-744).
OrdersReachTarget ==
  [][DecideTrend =>
       /\ Len(sent') <= 2
       /\ 2 * account.quantity + Ordered(1) + Ordered(2) = PositionToHave]_vars
==============================================================================
