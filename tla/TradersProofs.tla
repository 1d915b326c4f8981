----------------------------- MODULE TradersProofs -----------------------------
(***************************************************************************)
(* Theorems about Traders: the market maker never has two quotes on a side  *)
(* and knows of every quote that rests; the trend follower's signal is of   *)
(* the latest prices and its orders reach their target; and the accounts    *)
(* balance, as an equation of fractions.                                    *)
(***************************************************************************)
EXTENDS Traders, SequenceTheorems, FiniteSetTheorems, WellFoundedInduction, TLAPS

(***************************************************************************)
(* The market maker's quotes.                                              *)
(***************************************************************************)

QuoteIds == {"bid", "ask"}
OwnOrder == [side : Side, left : Nat, price : Nat, named : BOOLEAN, known : BOOLEAN]
OwnOrders == [Ids -> OwnOrder]
Incoming == [id : Ids \cup {"", "market", "others"}, side : Side, left : Nat, price : Nat,
             named : BOOLEAN]
Notice == [id : Ids \cup {"market"}, is_buyer : BOOLEAN, lots : Nat, price : Nat]
Execution == [id : ClientIds, is_buyer : BOOLEAN, lots : Nat, price : Nat]
Job == [side : Side, id : {"", "BUY", "SELL", "both"} \cup Ids, sides : Seq(Side)]

\* The types that the argument takes.
Shape ==
  /\ known \in OwnOrders
  /\ incoming \in Incoming /\ trades \in Seq(Execution)
  /\ calls \in Seq(Notice)
  /\ account.quantity \in Int
  /\ \A s \in Side : quotes[s] \in {"", QuoteId(s)}
  /\ quotes \in [Side -> {""} \cup QuoteIds]
  /\ job \in Job

\* What rests at the exchange, and under which ids.
Resting ==
  /\ orphans = {}
  /\ \A id \in ClientIds : Rests(id) => id \in used
  /\ ~is_open => \A id \in Ids : ~Rests(id)
  /\ \A s \in Side : ~known[QuoteId(s)].named

\* The actor is told of a quote only when it does not rest any more.
Gone(own, list) ==
  \A i \in DOMAIN list : list[i].id \in QuoteIds => own[list[i].id].left <= 0

\* The quote of a side is placed, in the decision in progress.
Placed(s) == job.id \in {s, "both"}

\* Where a quote may rest, and what the market maker knows of it there.
Tracked ==
  pc # "undefined" =>
    \A s \in Side : Rests(QuoteId(s)) =>
      /\ QuoteId(s) \in active
      /\ IF pc = "submit" THEN Placed(s) ELSE quotes[s] = QuoteId(s)
      /\ pc # "place"
      /\ pc = "client" => job.id # QuoteId(s)
      /\ pc \in {"cancel", "cancelled"} => ~(job.side = "SELL" /\ s = "BUY")
      /\ pc = "cancelled" => job.side # s

\* The sides quoted already and those still to quote; none is quoted while the old
\* quotes are taken back.
Agenda ==
  /\ pc = "submit" =>
       \/ job.id = "" /\ job.sides \in {<<"BUY", "SELL">>, <<"BUY">>, <<"SELL">>}
       \/ job.id = "BUY" /\ job.sides \in {<<"SELL">>, << >>}
       \/ job.id = "SELL" /\ job.sides = << >>
       \/ job.id = "both" /\ job.sides = << >>
  /\ pc \in {"cancel", "cancelled", "place"} => job.id = ""

\* The order being matched does not rest yet, and a quote is one being placed.
InHand ==
  /\ incoming.named => incoming.id \in ClientIds
  /\ Matching => is_open
  /\ incoming.id \in Ids => ~Rests(incoming.id) /\ calls = << >>
  /\ incoming.id \in ClientIds => incoming.id \in used
  /\ \A s \in Side : incoming.id = QuoteId(s) =>
                        pc = "submit" /\ Placed(s) /\ QuoteId(s) \in active

QuoteInv == Shape /\ Resting /\ Gone(known, calls) /\ Tracked /\ Agenda /\ InHand

\* The ids of quotes and of clients' orders are apart.
LEMMA IdFacts ==
  /\ \A s \in Side : QuoteId(s) \in Ids /\ QuoteId(s) \in QuoteIds /\ QuoteId(s) \notin ClientIds
  /\ \A s, t \in Side : QuoteId(s) = QuoteId(t) => s = t
  /\ \A id \in Ids : id \in ClientIds \/ \E s \in Side : id = QuoteId(s)
  /\ \A id \in ClientIds : id \in Ids /\ id \notin QuoteIds
  /\ \A id \in QuoteIds : \E s \in Side : id = QuoteId(s)
  /\ "" \notin Ids /\ "market" \notin Ids /\ "others" \notin Ids /\ "market" \notin QuoteIds
  /\ \A id \in QuoteIds : id \in Ids
BY TradersAssumption DEF QuoteId, Ids, QuoteIds, Side

\* Sizes and prices are natural numbers.
LEMMA Numbers ==
  /\ \A q \in OtherLots : q \in Nat
  /\ \A id \in ClientIds : \A q \in Lots[id] : q \in Nat
  /\ \A p \in Prices : p \in Nat
  /\ \A s \in Side : Price(s) \in Nat
<1>1. /\ \A q \in OtherLots \cup Prices \cup MidPrices : q \in Nat \ {0}
      /\ \A id \in ClientIds : \A q \in Lots[id] : q \in Nat \ {0}
  BY TradersAssumption
<1>2. BidPrice \in Prices /\ AskPrice \in Prices
  BY TradersAssumption
<1>3. \A q : q \in Nat \ {0} => q \in Nat
  OBVIOUS
<1>. QED  BY <1>1, <1>2, <1>3 DEF Price

\* Nothing to do.
LEMMA NoJobType == NoJob \in Job /\ NoJob.side = "BUY" /\ NoJob.id = "" /\ NoJob.sides = << >>
<1>1. << >> \in Seq(Side)
  BY EmptySeq
<1>. QED  BY <1>1 DEF NoJob, Job, Side

\* The sides to quote, one by one.
LEMMA SideLists ==
  /\ <<"BUY", "SELL">> \in Seq(Side) /\ <<"BUY">> \in Seq(Side) /\ <<"SELL">> \in Seq(Side)
  /\ Head(<<"BUY", "SELL">>) = "BUY" /\ Tail(<<"BUY", "SELL">>) = <<"SELL">>
  /\ \A s \in Side : Head(<<s>>) = s /\ Tail(<<s>>) = << >>
<1>1. "BUY" \in Side /\ "SELL" \in Side
  BY DEF Side
<1>2. \A s \in Side : <<s>> \in Seq(Side)
  OBVIOUS
<1>3. \A s, t \in Side : <<s, t>> \in Seq(Side)
  OBVIOUS
<1>4. \A s, t \in Side : Head(<<s, t>>) = s /\ Tail(<<s, t>>) = <<t>>
  OBVIOUS
<1>5. \A s \in Side : Head(<<s>>) = s /\ Tail(<<s>>) = << >>
  OBVIOUS
<1>. QED  BY <1>1, <1>2, <1>3, <1>4, <1>5

\* The new actor has no order and no quote.
LEMMA InitQuotes == Init => QuoteInv
<1> SUFFICES ASSUME Init PROVE QuoteInv
  OBVIOUS
<1>1. known \in OwnOrders /\ \A id \in Ids : ~Rests(id)
  BY DEF Init, OwnOrders, OwnOrder, NoOrder, Side, Rests
<1>2. calls \in Seq(Notice) /\ Gone(known, calls)
  BY EmptySeq DEF Init, Gone
<1>3. Shape
  <2>1. account.quantity = 0
    BY DEF Init, Account
  <2>2. \A s \in Side : quotes[s] = ""
    BY DEF Init, NoQuotes
  <2>3. quotes \in [Side -> {""} \cup QuoteIds]
    BY <2>2 DEF Init, NoQuotes
  <2>4. job \in Job
    BY NoJobType DEF Init
  <2>5. \A s \in Side : quotes[s] \in {"", QuoteId(s)}
    BY <2>2
  <2>6. account.quantity \in Int
    BY <2>1
  <2>7. incoming \in Incoming /\ trades \in Seq(Execution)
    BY EmptySeq DEF Init, NoIncoming, Incoming, Side
  <2>. QED  BY <1>1, <1>2, <2>3, <2>4, <2>5, <2>6, <2>7 DEF Shape
<1>4. Resting
  BY <1>1, IdFacts DEF Init, Resting, NoOrder
<1>5. Tracked /\ Agenda
  BY <1>1, IdFacts DEF Init, Tracked, Agenda
<1>6. InHand
  <2>1. incoming.id = "" /\ ~incoming.named
    BY DEF Init, NoIncoming
  <2>2. "" \notin Ids /\ "" \notin ClientIds /\ \A s \in Side : QuoteId(s) # ""
    BY IdFacts
  <2>. QED  BY <2>1, <2>2 DEF InHand, Matching
<1>. QED  BY <1>2, <1>3, <1>4, <1>5, <1>6 DEF QuoteInv

\* Orders that lose quantity keep what is said of them.
Falls ==
  /\ known' \in OwnOrders
  /\ \A id \in Ids : (Rests(id)' => Rests(id)) /\ (known'[id].named => known[id].named)

\* The notices left, and new ones about other orders than quotes.
LEMMA NoticesLeft ==
  ASSUME Shape, NEW rest \in Seq(Notice), Gone(known, rest), Falls
  PROVE  Gone(known', rest)
<1>1. \A id \in QuoteIds : id \in Ids
  BY DEF QuoteIds, Ids
<1>2. \A id \in QuoteIds : known[id].left \in Nat /\ known'[id].left \in Nat
  BY <1>1 DEF Shape, OwnOrders, OwnOrder, Falls
<1>3. \A id \in QuoteIds : known[id].left <= 0 => known'[id].left <= 0
  <2> TAKE id \in QuoteIds
  <2>1. known'[id].left > 0 => known[id].left > 0
    BY <1>1 DEF Falls, Rests
  <2>. QED  BY <1>2, <2>1
<1>. QED  BY <1>3 DEF Gone

\* Notices before others.
LEMMA NoticesJoined ==
  ASSUME NEW own, NEW s \in Seq(Notice), NEW rest \in Seq(Notice), Gone(own, s), Gone(own, rest)
  PROVE  s \o rest \in Seq(Notice) /\ Gone(own, s \o rest)
<1> DEFINE both == s \o rest
<1>1. /\ both \in Seq(Notice) /\ Len(both) = Len(s) + Len(rest)
      /\ \A i \in 1..(Len(s) + Len(rest)) :
           both[i] = IF i <= Len(s) THEN s[i] ELSE rest[i - Len(s)]
  BY ConcatProperties
<1>. HIDE DEF both
<1>2. /\ Len(s) \in Nat /\ Len(rest) \in Nat /\ DOMAIN both = 1..(Len(s) + Len(rest))
      /\ DOMAIN s = 1..Len(s) /\ DOMAIN rest = 1..Len(rest)
  BY <1>1, LenProperties
<1>3. ASSUME NEW i \in 1..(Len(s) + Len(rest))
      PROVE  both[i].id \in QuoteIds => own[both[i].id].left <= 0
  <2>1. CASE i <= Len(s)
    <3>1. i \in DOMAIN s /\ both[i] = s[i]
      BY <1>1, <1>2, <2>1
    <3>. QED  BY <3>1 DEF Gone
  <2>2. CASE ~(i <= Len(s))
    <3>1. i - Len(s) \in DOMAIN rest /\ both[i] = rest[i - Len(s)]
      BY <1>1, <1>2, <2>2
    <3>. QED  BY <3>1 DEF Gone
  <2>. QED  BY <2>1, <2>2
<1>4. Gone(own, both)
  BY <1>2, <1>3 DEF Gone
<1>. QED  BY <1>1, <1>4 DEF both

\* One notice before others.
LEMMA NoticesBefore ==
  ASSUME NEW own, NEW n \in Notice, NEW rest \in Seq(Notice), Gone(own, rest),
         n.id \in QuoteIds => own[n.id].left <= 0
  PROVE  <<n>> \o rest \in Seq(Notice) /\ Gone(own, <<n>> \o rest)
<1>1. <<n>> \in Seq(Notice) /\ Len(<<n>>) = 1 /\ <<n>>[1] = n
  OBVIOUS
<1>2. Gone(own, <<n>>)
  BY <1>1 DEF Gone
<1>. QED  BY <1>1, <1>2, NoticesJoined

\* An execution is told under the id of a client, and of no quote.
LEMMA ExecutionsNameNoQuote ==
  ASSUME NEW own, NEW list \in Seq(Execution)
  PROVE  list \in Seq(Notice) /\ Gone(own, list)
<1>1. DOMAIN list = 1..Len(list) /\ Len(list) \in Nat
  BY LenProperties
<1>2. \A i \in 1..Len(list) : list[i] \in Execution
  BY ElementOfSeq
<1>3. \A n \in Execution : n \in Notice /\ n.id \notin QuoteIds
  BY IdFacts DEF Execution, Notice
<1>4. list \in Seq(Notice)
  <2>1. \A i \in 1..Len(list) : list[i] \in Notice
    BY <1>2, <1>3
  <2>. QED  BY <1>1, <2>1
<1>5. Gone(own, list)
  BY <1>1, <1>2, <1>3 DEF Gone
<1>. QED  BY <1>4, <1>5

\* Only a client's order carries the actor's id.
Carries(order) == order.named \in BOOLEAN /\ (order.named => order.id \in ClientIds)

\* Executions are told under ids that the orders carry, and quotes carry none.
LEMMA ToldNotices ==
  ASSUME incoming \in Incoming, Carries(incoming), NEW other, Carries(other),
         NEW lots \in Nat, NEW price \in Nat
  PROVE  Told(other, lots, price) \in Seq(Execution)
<1> DEFINE buyer == IF incoming.side = "BUY" THEN incoming ELSE other
           seller == IF incoming.side = "BUY" THEN other ELSE incoming
           id == IF buyer.named THEN buyer.id ELSE seller.id
           ask == IF incoming.side = "SELL" /\ incoming.price # 0 THEN incoming.price ELSE price
           notice == [id |-> id, is_buyer |-> buyer.named, lots |-> lots, price |-> ask]
           told == Told(other, lots, price)
<1>1. told = IF buyer.named \/ seller.named THEN <<notice>> ELSE << >>
  BY DEF Told
<1>2. CASE buyer.named \/ seller.named
  <2>1. id \in ClientIds
    BY <1>2 DEF Carries
  <2>3. ask \in Nat
    BY DEF Incoming
  <2>4. buyer.named \in BOOLEAN
    BY DEF Carries
  <2>. HIDE DEF id, ask, buyer
  <2>5. notice \in Execution
    BY <2>1, <2>3, <2>4 DEF Execution
  <2>. HIDE DEF notice
  <2>6. <<notice>> \in Seq(Execution)
    BY <2>5
  <2>. QED  BY <1>1, <1>2, <2>6
<1>3. CASE ~(buyer.named \/ seller.named)
  <2>1. told = << >>
    BY <1>1, <1>3
  <2>. QED  BY <2>1, EmptySeq
<1>. QED  BY <1>2, <1>3

\* Steps in which orders lose quantity or nothing happens, and in which the actor
\* keeps sight of what rests.
LEMMA FallKeepsQuotes ==
  ASSUME QuoteInv, Falls, calls' \in Seq(Notice), Gone(known', calls'),
         incoming' \in Incoming, trades' \in Seq(Execution), InHand',
         UNCHANGED <<orphans, used, pc, job>>, is_open => is_open', account'.quantity \in Int,
         quotes' \in [Side -> {""} \cup QuoteIds],
         \A s \in Side : quotes'[s] \in {"", QuoteId(s)},
         \A s \in Side : Rests(QuoteId(s))' =>
           /\ QuoteId(s) \in active => QuoteId(s) \in active'
           /\ quotes'[s] = quotes[s]
  PROVE  QuoteInv'
<1>1. Shape'
  BY DEF QuoteInv, Shape, Falls
<1>2. Resting'
  BY IdFacts DEF QuoteInv, Resting, Falls
<1>3. Tracked'
  <2> SUFFICES ASSUME pc' # "undefined", NEW s \in Side, Rests(QuoteId(s))'
               PROVE  /\ QuoteId(s) \in active'
                      /\ IF pc' = "submit" THEN Placed(s)' ELSE quotes'[s] = QuoteId(s)
                      /\ pc' # "place"
                      /\ pc' = "client" => job'.id # QuoteId(s)
                      /\ pc' \in {"cancel", "cancelled"} => ~(job'.side = "SELL" /\ s = "BUY")
                      /\ pc' = "cancelled" => job'.side # s
    BY DEF Tracked
  <2>1. Rests(QuoteId(s)) /\ pc # "undefined"
    BY IdFacts DEF Falls
  <2>. QED  BY <2>1 DEF QuoteInv, Tracked, Placed
<1>4. Agenda'
  BY DEF QuoteInv, Agenda
<1>. QED  BY <1>1, <1>2, <1>3, <1>4 DEF QuoteInv

\* No order is being matched, before and after.
LEMMA NothingInHand ==
  ASSUME InHand, ~Matching, UNCHANGED matching
  PROVE  InHand'
<1>1. incoming' = incoming /\ incoming.id = ""
  BY DEF matching, Matching
<1>2. "" \notin Ids /\ "" \notin ClientIds /\ \A s \in Side : QuoteId(s) # ""
  BY IdFacts
<1>. QED  BY <1>1, <1>2 DEF InHand, Matching

\* Nothing happens to the orders.
LEMMA StillFalls ==
  ASSUME QuoteInv, UNCHANGED known
  PROVE  Falls
BY DEF QuoteInv, Shape, Falls, Rests

\* Others' orders, observations, the opening of the session.
LEMMA QuietKeepsQuotes ==
  ASSUME QuoteInv,
         \/ OthersOrder \/ OpenSession \/ UNCHANGED vars
         \/ \E view \in {"thin", "valid"} : Observe(view)
         \/ \E mid \in MidPrices : ObservePrice(mid)
  PROVE  QuoteInv'
<1>1. /\ UNCHANGED <<known, orphans, used, pc, job, account, quotes, active, calls, trades>>
      /\ is_open => is_open'
  BY DEF OthersOrder, OpenSession, Observe, ObservePrice, vars, venue, maker, follower, matching
<1>2. Falls
  BY <1>1, StillFalls
<1>3. incoming' \in Incoming /\ InHand'
  <2>1. CASE OthersOrder
    <3>1. PICK s \in Side, q \in OtherLots, price \in Prices \cup {0} :
            incoming' = [id |-> "others", side |-> s, left |-> q, price |-> price, named |-> FALSE]
      BY <2>1 DEF OthersOrder
    <3>2. q \in Nat /\ price \in Nat
      BY Numbers
    <3>3. incoming' \in Incoming /\ incoming'.id = "others" /\ ~incoming'.named
      BY <3>1, <3>2 DEF Incoming
    <3>4. is_open'
      BY <2>1 DEF OthersOrder, venue
    <3>5. "others" \notin Ids /\ "others" \notin ClientIds /\ \A t \in Side : QuoteId(t) # "others"
      BY IdFacts
    <3>. QED  BY <3>3, <3>4, <3>5 DEF InHand
  <2>2. CASE UNCHANGED vars
    <3>1. UNCHANGED <<incoming, is_open>>
      BY <2>2 DEF vars, venue, matching
    <3>. QED  BY <1>1, <3>1 DEF QuoteInv, Shape, InHand, Matching, Rests, Placed
  <2>3. CASE ~OthersOrder /\ ~UNCHANGED vars
    <3>1. ~Matching /\ UNCHANGED matching
      BY <2>3 DEF OpenSession, Observe, ObservePrice, Quiet, Returned
    <3>2. InHand'
      BY <3>1, NothingInHand DEF QuoteInv
    <3>. QED  BY <3>1, <3>2 DEF matching, QuoteInv, Shape
  <2>. QED  BY <2>1, <2>2, <2>3
<1>. QED  BY <1>1, <1>2, <1>3, FallKeepsQuotes DEF QuoteInv, Shape

\* The incoming order meets own orders and others': they lose quantity.
LEMMA MeetKeepsQuotes ==
  ASSUME QuoteInv, MeetOwn \/ MeetOther
  PROVE  QuoteInv'
<1>0. Carries(incoming)
  BY DEF QuoteInv, InHand, Shape, Incoming, Carries
<1>1. known \in OwnOrders /\ incoming \in Incoming /\ trades \in Seq(Execution)
  BY DEF QuoteInv, Shape
<1>2. UNCHANGED <<orphans, used, pc, job, is_open, account, quotes, active, calls>>
  BY DEF MeetOwn, MeetOther, maker, venue
<1>3. /\ Falls /\ incoming' \in Incoming /\ UNCHANGED <<incoming.id, incoming.named>>
      /\ trades' \in Seq(Execution)
  <2>1. CASE MeetOwn
    <3>1. PICK id \in Ids :
            LET own == known[id]
                lots == Smaller(incoming.left, own.left)
            IN  /\ Faces(id)
                /\ incoming' = [incoming EXCEPT !.left = @ - lots]
                /\ known' = [known EXCEPT ![id].left = @ - lots]
                /\ trades' = trades \o Told([id |-> id, named |-> own.named], lots, own.price)
      BY <2>1 DEF MeetOwn
    <3>2. PICK own, lots, other :
            /\ own = known[id] /\ lots = Smaller(incoming.left, own.left)
            /\ other = [id |-> id, named |-> own.named]
      OBVIOUS
    <3>3. own \in OwnOrder /\ incoming.left \in Nat
      BY <1>1, <3>2 DEF OwnOrders, Incoming
    <3>4. lots \in Nat /\ lots <= own.left /\ lots <= incoming.left
      BY <3>2, <3>3 DEF Smaller, OwnOrder
    <3>5. /\ incoming' = [incoming EXCEPT !.left = incoming.left - lots]
          /\ known' = [known EXCEPT ![id] = [own EXCEPT !.left = own.left - lots]]
          /\ trades' = trades \o Told(other, lots, own.price)
      BY <3>1, <3>2
    <3>6. incoming' \in Incoming /\ UNCHANGED <<incoming.id, incoming.named>>
      <4>1. incoming.left - lots \in Nat
        BY <3>3, <3>4
      <4>. QED  BY <1>1, <3>5, <4>1 DEF Incoming
    <3>7. Falls
      <4>1. own.left - lots \in Nat /\ own.left - lots <= own.left
        BY <3>3, <3>4 DEF OwnOrder
      <4>2. PICK o : o = [own EXCEPT !.left = own.left - lots]
        OBVIOUS
      <4>3. o \in OwnOrder /\ o.left <= own.left /\ o.named = own.named
        BY <3>3, <4>1, <4>2 DEF OwnOrder
      <4>4. /\ known' \in OwnOrders /\ known'[id] = o
            /\ \A j \in Ids : j # id => known'[j] = known[j]
        BY <1>1, <3>5, <4>2, <4>3 DEF OwnOrders
      <4>5. own.left \in Nat /\ o.left \in Nat
        BY <3>3, <4>3 DEF OwnOrder
      <4>. QED  BY <3>2, <4>3, <4>4, <4>5 DEF Falls, Rests
    <3>8. Told(other, lots, own.price) \in Seq(Execution)
      <4>1. own.named \in BOOLEAN /\ own.price \in Nat
        BY <3>3 DEF OwnOrder
      <4>2. own.named => id \in ClientIds
        BY <3>2, IdFacts DEF QuoteInv, Resting
      <4>3. Carries(other)
        BY <3>2, <4>1, <4>2 DEF Carries
      <4>. QED  BY <1>0, <1>1, <3>4, <4>1, <4>3, ToldNotices
    <3>9. trades' \in Seq(Execution)
      BY <1>1, <3>5, <3>8, ConcatProperties
    <3>. QED  BY <3>6, <3>7, <3>9
  <2>2. CASE MeetOther
    <3>1. PICK price \in Prices, lots \in 1..incoming.left :
            /\ incoming' = [incoming EXCEPT !.left = @ - lots]
            /\ trades' = trades \o Told(NoIncoming, lots, price)
      BY <2>2 DEF MeetOther
    <3>2. incoming.left \in Nat
      BY <1>1 DEF Incoming
    <3>7. price \in Nat
      BY Numbers
    <3>8. lots \in Nat /\ incoming.left - lots \in Nat
      BY <3>2
    <3>3. incoming' \in Incoming /\ UNCHANGED <<incoming.id, incoming.named>>
      BY <1>1, <3>1, <3>8 DEF Incoming
    <3>4. Told(NoIncoming, lots, price) \in Seq(Execution)
      <4>1. Carries(NoIncoming)
        BY DEF NoIncoming, Carries
      <4>. QED  BY <1>0, <1>1, <3>7, <3>8, <4>1, ToldNotices
    <3>5. trades' \in Seq(Execution)
      BY <1>1, <3>1, <3>4, ConcatProperties
    <3>6. Falls
      BY <2>2, StillFalls DEF MeetOther, venue
    <3>. QED  BY <3>3, <3>5, <3>6
  <2>. QED  BY <2>1, <2>2
<1>4. Gone(known', calls') /\ calls' \in Seq(Notice)
  BY <1>2, <1>3, NoticesLeft DEF QuoteInv, Shape
<1>5. InHand'
  BY <1>2, <1>3 DEF QuoteInv, InHand, Matching, Falls, Placed
<1>. QED  BY <1>2, <1>3, <1>4, <1>5, FallKeepsQuotes DEF QuoteInv, Shape

\* What remains of the order rests, and the actor is told.
LEMMA SettleKeepsQuotes ==
  ASSUME QuoteInv, Settle
  PROVE  QuoteInv'
<1>1. /\ known \in OwnOrders /\ incoming \in Incoming /\ trades \in Seq(Execution)
      /\ calls \in Seq(Notice) /\ Gone(known, calls)
  BY DEF QuoteInv, Shape
<1>2. PICK id, left : id = incoming.id /\ left = incoming.left
  OBVIOUS
<1>3. /\ Matching /\ incoming' = NoIncoming /\ trades' = << >>
      /\ known' = IF id \in Ids THEN [known EXCEPT ![id].left = left] ELSE known
      /\ calls' = trades \o trades \o calls
      /\ UNCHANGED <<used, is_open, orphans, account, active, quotes, pc, job>>
  BY <1>2 DEF Settle, maker
<1>4. /\ known' \in OwnOrders
      /\ \A j \in Ids : j # id => known'[j] = known[j]
      /\ \A j \in Ids : known'[j].named = known[j].named
  <2>1. CASE id \in Ids
    <3>1. known[id] \in OwnOrder /\ left \in Nat
      BY <1>1, <1>2, <2>1 DEF OwnOrders, Incoming
    <3>2. PICK o : o = [known[id] EXCEPT !.left = left]
      OBVIOUS
    <3>3. o \in OwnOrder /\ o.named = known[id].named
      BY <3>1, <3>2 DEF OwnOrder
    <3>4. known' = [known EXCEPT ![id] = o]
      BY <1>3, <2>1, <3>2
    <3>. QED  BY <1>1, <2>1, <3>3, <3>4 DEF OwnOrders
  <2>2. CASE id \notin Ids
    BY <1>1, <1>3, <2>2
  <2>. QED  BY <2>1, <2>2
<1>5. calls' \in Seq(Notice) /\ Gone(known', calls')
  <2>1. trades \o trades \in Seq(Execution)
    BY <1>1, ConcatProperties
  <2>2. trades \o trades \in Seq(Notice) /\ Gone(known', trades \o trades)
    BY <2>1, ExecutionsNameNoQuote
  <2>3. Gone(known', calls)
    <3>1. CASE id \in Ids
      <4>1. calls = << >>
        BY <1>2, <3>1 DEF QuoteInv, InHand
      <4>. QED  BY <4>1 DEF Gone
    <3>2. CASE id \notin Ids
      BY <1>1, <1>3, <3>2
    <3>. QED  BY <3>1, <3>2
  <2>. QED  BY <1>1, <1>3, <2>2, <2>3, NoticesJoined
<1>6. Shape'
  <2>1. NoIncoming \in Incoming
    BY DEF NoIncoming, Incoming, Side
  <2>2. << >> \in Seq(Execution)
    BY EmptySeq
  <2>. QED  BY <1>3, <1>4, <1>5, <2>1, <2>2 DEF QuoteInv, Shape
<1>7. \A j \in Ids : j # id => (Rests(j)' <=> Rests(j))
  BY <1>4 DEF Rests
<1>8. Resting'
  <2>1. orphans' = {} /\ \A s \in Side : ~known'[QuoteId(s)].named
    BY <1>3, <1>4, IdFacts DEF QuoteInv, Resting
  <2>2. \A j \in ClientIds : Rests(j)' => j \in used'
    BY <1>2, <1>3, <1>7, IdFacts DEF QuoteInv, Resting, InHand
  <2>3. is_open'
    BY <1>3 DEF QuoteInv, InHand
  <2>. QED  BY <2>1, <2>2, <2>3 DEF Resting
<1>9. Tracked'
  <2> SUFFICES ASSUME pc # "undefined", NEW s \in Side, Rests(QuoteId(s))'
               PROVE  /\ QuoteId(s) \in active
                      /\ IF pc = "submit" THEN Placed(s) ELSE quotes[s] = QuoteId(s)
                      /\ pc # "place"
                      /\ pc = "client" => job.id # QuoteId(s)
                      /\ pc \in {"cancel", "cancelled"} => ~(job.side = "SELL" /\ s = "BUY")
                      /\ pc = "cancelled" => job.side # s
    BY <1>3 DEF Tracked, Placed
  <2>1. CASE QuoteId(s) = id
    BY <1>2, <2>1 DEF QuoteInv, InHand
  <2>2. CASE QuoteId(s) # id
    <3>1. Rests(QuoteId(s))
      BY <1>7, <2>2, IdFacts
    <3>. QED  BY <3>1 DEF QuoteInv, Tracked
  <2>. QED  BY <2>1, <2>2
<1>10. Agenda'
  BY <1>3 DEF QuoteInv, Agenda
<1>11. InHand'
  <2>1. incoming'.id = "" /\ ~incoming'.named
    BY <1>3 DEF NoIncoming
  <2>2. "" \notin Ids /\ "" \notin ClientIds /\ \A s \in Side : QuoteId(s) # ""
    BY IdFacts
  <2>. QED  BY <2>1, <2>2 DEF InHand, Matching
<1>. QED  BY <1>5, <1>6, <1>8, <1>9, <1>10, <1>11 DEF QuoteInv

\* The session closes over the actor's head.
LEMMA CloseSessionKeepsQuotes ==
  ASSUME QuoteInv, CloseSession
  PROVE  QuoteInv'
<1>1. /\ calls = << >> /\ pc = "idle" /\ ~Matching /\ UNCHANGED matching /\ ~is_open' /\ orphans' = {}
      /\ pc' \in {"idle", "undefined"}
      /\ known' = [id \in Ids |-> NoOrder]
      /\ UNCHANGED <<used, account, active, quotes, job, calls>>
  BY DEF CloseSession, Quiet, Returned, maker
<1>2. known' \in OwnOrders /\ \A id \in Ids : ~Rests(id)' /\ ~known'[id].named
  BY <1>1 DEF OwnOrders, OwnOrder, NoOrder, Side, Rests
<1>3. Shape'
  BY <1>1, <1>2 DEF QuoteInv, Shape, matching
<1>4. Resting' /\ Tracked'
  BY <1>1, <1>2, IdFacts DEF Resting, Tracked
<1>5. Gone(known', calls')
  <2>1. calls' = << >>
    BY <1>1
  <2>. QED  BY <2>1 DEF Gone
<1>6. Agenda'
  BY <1>1 DEF Agenda
<1>7. InHand'
  BY <1>1, NothingInHand DEF QuoteInv
<1>. QED  BY <1>3, <1>4, <1>5, <1>6, <1>7 DEF QuoteInv

\* An order sent to the exchange is matched, or rejected.
LEMMA SubmitEffect ==
  ASSUME QuoteInv, Returned, NEW id \in Ids, NEW s \in Side, NEW q \in Nat, NEW price \in Nat,
         NEW named \in BOOLEAN, named => id \in ClientIds,
         Submit(id, s, q, price, named), ~Rests(id)
  PROVE  /\ known' \in OwnOrders /\ \A j \in Ids : j # id => known'[j] = known[j]
         /\ active' = active \cup {id} /\ orphans' = {}
         /\ calls' \in Seq(Notice) /\ Gone(known', calls')
         /\ known'[id].named => named \/ known[id].named
         /\ ~Rests(id)'
         /\ incoming' \in Incoming /\ trades' \in Seq(Execution)
         /\ incoming'.named => incoming'.id \in ClientIds
         /\ \/ incoming'.id = "" /\ ~Matching'
            \/ incoming'.id = id /\ is_open /\ calls' = << >>
<1>1. /\ known \in OwnOrders /\ orphans = {} /\ trades' = trades /\ trades \in Seq(Execution)
      /\ incoming \in Incoming /\ incoming.id = "" /\ calls = << >>
  BY DEF QuoteInv, Shape, Resting, Submit, Returned, Matching
<1>4. incoming.named => incoming.id \in ClientIds
  BY DEF QuoteInv, InHand
<1>2. CASE is_open
  <2>1. known' = [known EXCEPT ![id] =
                    [side |-> s, left |-> 0, price |-> price, named |-> named, known |-> TRUE]]
    BY <1>2 DEF Submit
  <2>2. PICK o : o = [side |-> s, left |-> 0, price |-> price, named |-> named, known |-> TRUE]
    OBVIOUS
  <2>3. o \in OwnOrder /\ o.named = named /\ ~(o.left > 0)
    BY <2>2 DEF OwnOrder
  <2>4. known' \in OwnOrders /\ known'[id] = o /\ \A j \in Ids : j # id => known'[j] = known[j]
    BY <1>1, <2>1, <2>2, <2>3 DEF OwnOrders
  <2>5. orphans' = {} /\ calls' = << >> /\ active' = active \cup {id}
    BY <1>1, <1>2 DEF Submit
  <2>6. calls' \in Seq(Notice) /\ Gone(known', calls')
    BY <2>5, EmptySeq DEF Gone
  <2>7. incoming' = [id |-> id, side |-> s, left |-> q, price |-> price, named |-> named]
    BY <1>2 DEF Submit
  <2>8. incoming' \in Incoming /\ incoming'.id = id /\ incoming'.named = named
    BY <2>7 DEF Incoming
  <2>9. ~Rests(id)'
    BY <2>3, <2>4 DEF Rests
  <2>. QED  BY <1>1, <1>2, <2>3, <2>4, <2>5, <2>6, <2>8, <2>9
<1>3. CASE ~is_open
  <2> DEFINE n == Dummy(id, s = "BUY", price)
  <2>1. /\ known' = known /\ orphans' = {} /\ active' = active \cup {id} /\ calls' = <<n>>
        /\ incoming' = incoming
    BY <1>1, <1>3 DEF Submit
  <2>2. n \in Notice /\ n.id = id
    <3>1. (s = "BUY") \in BOOLEAN
      OBVIOUS
    <3>. QED  BY <3>1 DEF Dummy, Notice
  <2>3. known[id].left <= 0
    <3>1. known[id] \in OwnOrder
      BY <1>1 DEF OwnOrders
    <3>2. known[id].left \in Nat
      BY <3>1 DEF OwnOrder
    <3>3. ~(known[id].left > 0)
      BY DEF Rests
    <3>. QED  BY <3>2, <3>3
  <2>. HIDE DEF n
  <2>4. <<n>> \in Seq(Notice) /\ Len(<<n>>) = 1 /\ <<n>>[1] = n
    BY <2>2
  <2>5. Gone(known', calls')
    BY <2>1, <2>2, <2>3, <2>4 DEF Gone
  <2>. QED  BY <1>1, <1>3, <1>4, <2>1, <2>4, <2>5 DEF Rests, Matching
<1>. QED  BY <1>2, <1>3

\* A client's order has an id of its own.
LEMMA ClientOrderKeepsQuotes ==
  ASSUME QuoteInv, NEW id \in ClientIds, NEW s \in Side, NEW q \in Lots[id], NEW price \in Prices,
         ClientOrder(id, s, q, price)
  PROVE  QuoteInv'
<1>1. /\ Returned /\ pc = "idle" /\ id \notin used /\ used' = used \cup {id}
      /\ Submit(id, s, q, price, TRUE)
      /\ UNCHANGED <<is_open, account, quotes, pc, job>>
  BY DEF ClientOrder, Quiet, maker
<1>2. id \in Ids /\ q \in Nat /\ price \in Nat /\ ~Rests(id)
  BY <1>1, IdFacts, Numbers DEF QuoteInv, Resting
<1>3. \A t \in Side : QuoteId(t) # id /\ QuoteId(t) \in Ids /\ QuoteId(t) # ""
  BY IdFacts
<1>4. /\ known' \in OwnOrders /\ \A j \in Ids : j # id => known'[j] = known[j]
      /\ active' = active \cup {id} /\ orphans' = {}
      /\ calls' \in Seq(Notice) /\ Gone(known', calls')
      /\ ~Rests(id)'
      /\ incoming' \in Incoming /\ trades' \in Seq(Execution)
      /\ incoming'.named => incoming'.id \in ClientIds
      /\ \/ incoming'.id = "" /\ ~Matching'
         \/ incoming'.id = id /\ is_open /\ calls' = << >>
  BY <1>1, <1>2, SubmitEffect
<1>5. Shape'
  BY <1>1, <1>4 DEF QuoteInv, Shape
<1>6. \A j \in Ids : Rests(j)' => Rests(j)
  BY <1>4 DEF Rests
<1>7. Resting'
  BY <1>1, <1>3, <1>4, <1>6, IdFacts DEF QuoteInv, Resting
<1>8. Tracked'
  BY <1>1, <1>3, <1>4, <1>6 DEF QuoteInv, Tracked
<1>9. Agenda'
  BY <1>1 DEF Agenda
<1>10. InHand'
  BY <1>1, <1>2, <1>3, <1>4, IdFacts DEF InHand
<1>. QED  BY <1>4, <1>5, <1>7, <1>8, <1>9, <1>10 DEF QuoteInv

\* A cancellation takes an order out, or the actor's handling of it is undefined.
LEMMA CancelEffect ==
  ASSUME QuoteInv, calls = << >>, NEW id \in Ids, NEW then, Cancel(id, then)
  PROVE  /\ Falls /\ ~Rests(id)' /\ pc' \in {then, "undefined"}
         /\ \A j \in Ids : j # id => known'[j] = known[j]
         /\ calls' \in Seq(Notice) /\ Gone(known', calls')
<1>1. known' = [known EXCEPT ![id] = NoOrder] /\ known \in OwnOrders
  BY DEF Cancel, QuoteInv, Shape
<1>2. /\ known' \in OwnOrders /\ known'[id] = NoOrder
      /\ \A j \in Ids : j # id => known'[j] = known[j]
  BY <1>1 DEF OwnOrders, OwnOrder, NoOrder, Side
<1>3. Falls /\ ~Rests(id)'
  BY <1>2 DEF Falls, Rests, NoOrder
<1>4. calls' = << >> \/ calls' = <<Dummy(id, TRUE, 0)>>
  BY DEF Cancel
<1>5. pc' \in {then, "undefined"}
  BY DEF Cancel
<1> DEFINE n == Dummy(id, TRUE, 0)
<1>6. n \in Notice /\ n.id = id
  BY DEF Dummy, Notice
<1>. HIDE DEF n
<1>7. /\ << >> \in Seq(Notice) /\ Gone(known', << >>)
      /\ <<n>> \in Seq(Notice) /\ Len(<<n>>) = 1 /\ <<n>>[1] = n
  BY <1>6, EmptySeq DEF Gone
<1>8. Gone(known', <<n>>)
  <2>1. known'[n.id].left <= 0
    BY <1>2, <1>6 DEF NoOrder
  <2>. QED  BY <1>7, <2>1 DEF Gone
<1>. QED  BY <1>2, <1>3, <1>4, <1>5, <1>7, <1>8 DEF n

\* A client cancels an order in the actor's name, be it a quote.
LEMMA ClientCancelKeepsQuotes ==
  ASSUME QuoteInv, NEW id \in Ids, ClientCancel(id) \/ ClientCancelled
  PROVE  QuoteInv'
<1>1. CASE ClientCancel(id)
  <2>1. /\ calls = << >> /\ pc = "idle" /\ Cancel(id, "client")
        /\ job' = [NoJob EXCEPT !.id = id]
        /\ UNCHANGED <<used, is_open, orphans, account, active, quotes, incoming, trades>>
        /\ ~Matching
    BY <1>1 DEF ClientCancel, Quiet, Returned, maker, matching
  <2>2. /\ Falls /\ ~Rests(id)' /\ pc' \in {"client", "undefined"}
        /\ \A j \in Ids : j # id => known'[j] = known[j]
        /\ calls' \in Seq(Notice) /\ Gone(known', calls')
    BY <2>1, CancelEffect
  <2>3. job' \in Job /\ job'.id = id
    BY <2>1, NoJobType DEF Job
  <2>4. Shape'
    BY <2>1, <2>2, <2>3 DEF QuoteInv, Shape, Falls
  <2>5. Resting'
    BY <2>1, <2>2, IdFacts DEF QuoteInv, Resting, Falls
  <2>9. \A s \in Side : Rests(QuoteId(s))' => Rests(QuoteId(s)) /\ QuoteId(s) # id
    BY <2>2, IdFacts DEF Falls
  <2>6. Tracked'
    BY <2>1, <2>2, <2>3, <2>9 DEF QuoteInv, Tracked
  <2>7. Agenda'
    BY <2>2 DEF Agenda
  <2>8. InHand'
    BY <2>1, NothingInHand DEF QuoteInv, matching
  <2>. QED  BY <2>2, <2>4, <2>5, <2>6, <2>7, <2>8 DEF QuoteInv
<1>2. CASE ClientCancelled
  <2>1. /\ pc = "client" /\ calls = << >> /\ pc' = "idle" /\ active' = active \ {job.id}
        /\ job' = NoJob /\ NoJob \in Job
        /\ UNCHANGED <<used, is_open, orphans, known, account, quotes, calls, incoming, trades>>
        /\ ~Matching
    BY <1>2, NoJobType DEF ClientCancelled, Returned, venue, maker, matching
  <2>2. Shape' /\ Resting' /\ Gone(known', calls')
    BY <2>1 DEF QuoteInv, Shape, Resting, Rests
  <2>3. Tracked'
    BY <2>1 DEF QuoteInv, Tracked, Rests
  <2>4. Agenda'
    BY <2>1 DEF Agenda
  <2>5. InHand'
    BY <2>1, NothingInHand DEF QuoteInv, matching
  <2>. QED  BY <2>2, <2>3, <2>4, <2>5 DEF QuoteInv
<1>. QED  BY <1>1, <1>2

\* The market maker takes back the quote of a side, if it knows of one.
LEMMA CancelQuoteKeepsQuotes ==
  ASSUME QuoteInv, CancelQuote
  PROVE  QuoteInv'
<1> PICK s \in Side : s = job.side
  BY DEF QuoteInv, Shape, Job
<1>1. /\ pc = "cancel" /\ calls = << >> /\ quotes[s] \in {"", QuoteId(s)}
      /\ UNCHANGED <<used, is_open, orphans, account, active, quotes, job, incoming, trades>>
      /\ ~Matching
  BY DEF CancelQuote, Returned, maker, matching, QuoteInv, Shape
<1>2. Falls /\ ~Rests(QuoteId(s))' /\ pc' \in {"cancelled", "undefined"}
      /\ calls' \in Seq(Notice) /\ Gone(known', calls')
  <2>1. CASE quotes[s] # "" /\ quotes[s] \in active
    <3>1. Cancel(QuoteId(s), "cancelled") /\ QuoteId(s) \in Ids
      BY <1>1, <2>1, IdFacts DEF CancelQuote
    <3>. QED  BY <1>1, <3>1, CancelEffect
  <2>2. CASE ~(quotes[s] # "" /\ quotes[s] \in active)
    <3>1. pc' = "cancelled" /\ UNCHANGED <<known, calls>>
      BY <2>2 DEF CancelQuote
    <3>2. ~Rests(QuoteId(s))
      <4>1. QuoteId(s) # ""
        BY DEF QuoteId
      <4>. QED  BY <1>1, <2>2, <4>1 DEF QuoteInv, Tracked
    <3>3. Falls
      BY <3>1, StillFalls
    <3>4. ~Rests(QuoteId(s))'
      BY <3>1, <3>2 DEF Rests
    <3>. QED  BY <3>1, <3>3, <3>4 DEF QuoteInv, Shape
  <2>. QED  BY <2>1, <2>2
<1>3. Shape'
  BY <1>1, <1>2 DEF QuoteInv, Shape, Falls
<1>4. Resting'
  BY <1>1, <1>2, IdFacts DEF QuoteInv, Resting, Falls
<1>5. Tracked'
  <2> SUFFICES ASSUME pc' # "undefined", NEW t \in Side, Rests(QuoteId(t))'
               PROVE  /\ QuoteId(t) \in active /\ quotes[t] = QuoteId(t)
                      /\ ~(s = "SELL" /\ t = "BUY") /\ s # t
    BY <1>1, <1>2 DEF Tracked
  <2>1. Rests(QuoteId(t))
    BY <1>2, IdFacts DEF Falls
  <2>. QED  BY <1>1, <1>2, <2>1 DEF QuoteInv, Tracked
<1>6. Agenda'
  BY <1>1, <1>2 DEF QuoteInv, Agenda
<1>7. InHand'
  BY <1>1, NothingInHand DEF QuoteInv, matching
<1>. QED  BY <1>2, <1>3, <1>4, <1>5, <1>6, <1>7 DEF QuoteInv

\* It forgets it, and goes on to the other side or to the new quotes.
LEMMA QuoteCancelledKeepsQuotes ==
  ASSUME QuoteInv, QuoteCancelled
  PROVE  QuoteInv'
<1> PICK s \in Side : s = job.side
  BY DEF QuoteInv, Shape, Job
<1>1. /\ pc = "cancelled" /\ calls = << >>
      /\ active' = active \ {quotes[s]} /\ quotes' = [quotes EXCEPT ![s] = ""]
      /\ IF s = "BUY" THEN pc' = "cancel" /\ job' = [job EXCEPT !.side = "SELL"]
                      ELSE pc' = "place" /\ UNCHANGED job
      /\ UNCHANGED <<used, is_open, orphans, known, account, calls, incoming, trades>>
      /\ ~Matching
  BY DEF QuoteCancelled, Returned, venue, matching
<1>2. /\ quotes[s] \in {"", QuoteId(s)} /\ quotes \in [Side -> {""} \cup QuoteIds]
      /\ \A t \in Side : quotes[t] \in {"", QuoteId(t)}
      /\ job \in Job
  BY DEF QuoteInv, Shape
<1>3. /\ quotes' \in [Side -> {""} \cup QuoteIds] /\ quotes'[s] = ""
      /\ \A t \in Side : t # s => quotes'[t] = quotes[t]
  BY <1>1, <1>2
<1>4. job' \in Job /\ job'.id = job.id /\ (s = "BUY" => job'.side = "SELL")
  BY <1>1, <1>2 DEF Job, Side
<1>5. Shape'
  BY <1>1, <1>2, <1>3, <1>4 DEF QuoteInv, Shape
<1>6. Resting' /\ Gone(known', calls') /\ Agenda'
  BY <1>1, <1>4 DEF QuoteInv, Resting, Rests, Agenda
<1>7. Tracked'
  <2> SUFFICES ASSUME NEW t \in Side, Rests(QuoteId(t))
               PROVE  /\ QuoteId(t) \in active' /\ quotes'[t] = QuoteId(t)
                      /\ pc' # "place"
                      /\ ~(job'.side = "SELL" /\ t = "BUY")
    BY <1>1 DEF Tracked, Rests
  <2>1. /\ QuoteId(t) \in active /\ quotes[t] = QuoteId(t)
        /\ ~(s = "SELL" /\ t = "BUY") /\ s # t
    BY <1>1 DEF QuoteInv, Tracked
  <2>2. s = "BUY" /\ t = "SELL"
    BY <2>1 DEF Side
  <2>3. QuoteId(t) # quotes[s]
    BY <1>2, <2>2 DEF QuoteId
  <2>. QED  BY <1>1, <1>3, <2>1, <2>2, <2>3
<1>8. InHand'
  BY <1>1, NothingInHand DEF QuoteInv, matching
<1>. QED  BY <1>5, <1>6, <1>7, <1>8 DEF QuoteInv

\* A decision begins with what the market maker knows, and comes to nothing when the
\* capital is gone; otherwise it says which sides to quote.
LEMMA DecideKeepsQuotes ==
  ASSUME QuoteInv, Decide \/ PlaceQuotes
  PROVE  QuoteInv'
<1>1. /\ UNCHANGED <<used, is_open, orphans, known, account, active, quotes, calls, incoming, trades>>
      /\ ~Matching
  BY DEF Decide, PlaceQuotes, Quiet, Returned, venue, maker, matching
<1>2. Resting' /\ Gone(known', calls') /\ InHand'
  BY <1>1, NothingInHand DEF QuoteInv, Resting, Rests, matching
<1>3. CASE Decide
  <2>1. pc = "idle" /\ pc' = "cancel" /\ job' = NoJob
    BY <1>3 DEF Decide, Quiet
  <2>2. Shape'
    BY <1>1, <2>1, NoJobType DEF QuoteInv, Shape
  <2>3. Tracked'
    BY <1>1, <2>1, NoJobType DEF QuoteInv, Tracked, Rests
  <2>4. Agenda'
    BY <2>1, NoJobType DEF Agenda
  <2>. QED  BY <1>2, <2>2, <2>3, <2>4 DEF QuoteInv
<1>4. CASE PlaceQuotes
  <2>1. /\ pc = "place" /\ pc' \in {"idle", "submit"}
        /\ pc' = "idle" => job' = NoJob
        /\ pc' = "submit" =>
             \E todo \in {<<"BUY", "SELL">>, <<"BUY">>, <<"SELL">>} :
               job' = [job EXCEPT !.sides = todo]
    BY <1>4 DEF PlaceQuotes
  <2>2. \A s \in Side : ~Rests(QuoteId(s))
    BY <2>1 DEF QuoteInv, Tracked
  <2>3. \A todo \in {<<"BUY", "SELL">>, <<"BUY">>, <<"SELL">>} : todo \in Seq(Side)
    BY SideLists
  <2>4. job' \in Job
    <3>1. job \in Job
      BY DEF QuoteInv, Shape
    <3>2. CASE pc' = "idle"
      BY <2>1, <3>2, NoJobType
    <3>3. CASE pc' = "submit"
      <4>1. PICK todo \in {<<"BUY", "SELL">>, <<"BUY">>, <<"SELL">>} : job' = [job EXCEPT !.sides = todo]
        BY <2>1, <3>3
      <4>2. todo \in Seq(Side)
        BY <2>3
      <4>. QED  BY <3>1, <4>1, <4>2 DEF Job
    <3>. QED  BY <2>1, <3>2, <3>3
  <2>5. Shape'
    BY <1>1, <2>4 DEF QuoteInv, Shape
  <2>6. Tracked'
    BY <1>1, <2>2 DEF Tracked, Rests
  <2>7. Agenda'
    <3> SUFFICES ASSUME pc' = "submit"
                 PROVE  job'.id = "" /\ job'.sides \in {<<"BUY", "SELL">>, <<"BUY">>, <<"SELL">>}
      BY <2>1 DEF Agenda
    <3>1. PICK todo \in {<<"BUY", "SELL">>, <<"BUY">>, <<"SELL">>} :
            job' = [job EXCEPT !.sides = todo]
      BY <2>1
    <3>2. job \in Job
      BY DEF QuoteInv, Shape
    <3>3. job.id = ""
      BY <2>1 DEF QuoteInv, Agenda
    <3>. QED  BY <3>1, <3>2, <3>3 DEF Job
  <2>. QED  BY <1>2, <2>5, <2>6, <2>7 DEF QuoteInv
<1>. QED  BY <1>3, <1>4

\* A quote is sent: no other rests on its side.
LEMMA SubmitQuoteKeepsQuotes ==
  ASSUME QuoteInv, SubmitQuote
  PROVE  QuoteInv'
<1> PICK s, rest, id :
      /\ s \in Side /\ s = Head(job.sides) /\ rest = Tail(job.sides)
      /\ id = (IF job.id = "" THEN s ELSE "both")
  <2>1. job.sides \in Seq(Side) /\ job.sides # << >>
    BY DEF SubmitQuote, QuoteInv, Shape, Job
  <2>. QED  BY <2>1, HeadTailProperties
<1>1. /\ pc = "submit" /\ Returned /\ pc' = pc
      /\ Submit(QuoteId(s), s, 1, Price(s), FALSE)
      /\ job' = [job EXCEPT !.sides = rest, !.id = id]
      /\ UNCHANGED <<used, is_open, account, quotes>>
  BY DEF SubmitQuote, maker
<1>2. /\ job \in Job /\ job.sides \in Seq(Side) /\ job.sides # << >>
  BY DEF SubmitQuote, QuoteInv, Shape, Job
<1>3. /\ \/ job.id = "" /\ job.sides \in {<<"BUY", "SELL">>, <<"BUY">>, <<"SELL">>}
         \/ job.id = "BUY" /\ job.sides = <<"SELL">>
  BY <1>1, <1>2 DEF QuoteInv, Agenda
<1>4. \/ job.id = "" /\ s = "BUY" /\ rest = <<"SELL">> /\ id = "BUY"
      \/ job.id = "" /\ s = "BUY" /\ rest = << >> /\ id = "BUY"
      \/ job.id = "" /\ s = "SELL" /\ rest = << >> /\ id = "SELL"
      \/ job.id = "BUY" /\ s = "SELL" /\ rest = << >> /\ id = "both"
  <2>1. CASE job.id = "" /\ job.sides = <<"BUY", "SELL">>
    BY <2>1, SideLists
  <2>2. CASE job.id = "" /\ job.sides = <<"BUY">>
    BY <2>2, SideLists DEF Side
  <2>3. CASE job.id = "" /\ job.sides = <<"SELL">>
    BY <2>3, SideLists DEF Side
  <2>4. CASE job.id = "BUY" /\ job.sides = <<"SELL">>
    BY <2>4
  <2>. QED  BY <1>3, <2>1, <2>2, <2>3, <2>4
<1>5. ~Rests(QuoteId(s))
  BY <1>1, <1>4 DEF QuoteInv, Tracked, Placed
<1>6. QuoteId(s) \in Ids /\ \A t \in Side : QuoteId(t) \in Ids /\ (t # s => QuoteId(t) # QuoteId(s))
  BY IdFacts
<1>7. /\ known' \in OwnOrders /\ \A j \in Ids : j # QuoteId(s) => known'[j] = known[j]
      /\ active' = active \cup {QuoteId(s)} /\ orphans' = {}
      /\ calls' \in Seq(Notice) /\ Gone(known', calls')
      /\ ~known'[QuoteId(s)].named
      /\ ~Rests(QuoteId(s))'
      /\ incoming' \in Incoming /\ trades' \in Seq(Execution)
      /\ incoming'.named => incoming'.id \in ClientIds
      /\ \/ incoming'.id = "" /\ ~Matching'
         \/ incoming'.id = QuoteId(s) /\ is_open /\ calls' = << >>
  <2>1. ~known[QuoteId(s)].named
    BY DEF QuoteInv, Resting
  <2>2. Price(s) \in Nat
    BY Numbers
  <2>. QED  BY <1>1, <1>5, <1>6, <2>1, <2>2, SubmitEffect
<1>8. \A j \in Ids : j # QuoteId(s) => (Rests(j)' <=> Rests(j))
  BY <1>7 DEF Rests
<1>9. job' \in Job /\ job'.sides = rest /\ job'.id = id
  <2>1. rest \in Seq(Side)
    BY <1>2, HeadTailProperties
  <2>2. id \in {"", "BUY", "SELL", "both"}
    BY <1>4
  <2>. QED  BY <1>1, <1>2, <2>1, <2>2 DEF Job
<1>10. Shape'
  BY <1>1, <1>7, <1>9 DEF QuoteInv, Shape
<1>11. Resting'
  BY <1>1, <1>6, <1>7, <1>8, IdFacts DEF QuoteInv, Resting
<1>12. Tracked'
  <2> SUFFICES ASSUME NEW t \in Side, Rests(QuoteId(t))'
               PROVE  QuoteId(t) \in active' /\ Placed(t)'
    BY <1>1 DEF Tracked
  <2>1. CASE t = s
    BY <1>4, <1>7, <1>9, <2>1 DEF Placed
  <2>2. CASE t # s
    <3>1. QuoteId(t) \in active /\ Placed(t)
      BY <1>1, <1>6, <1>8, <2>2 DEF QuoteInv, Tracked
    <3>. QED  BY <1>4, <1>7, <1>9, <2>2, <3>1 DEF Placed, Side
  <2>. QED  BY <2>1, <2>2
<1>13. Agenda'
  BY <1>1, <1>4, <1>9 DEF Agenda
<1>14. InHand'
  <2>1. CASE incoming'.id = "" /\ ~Matching'
    <3>1. "" \notin Ids /\ "" \notin ClientIds /\ \A t \in Side : QuoteId(t) # ""
      BY IdFacts
    <3>. QED  BY <1>7, <2>1, <3>1 DEF InHand
  <2>2. CASE incoming'.id = QuoteId(s) /\ is_open /\ calls' = << >>
    <3>1. Placed(s)'
      BY <1>4, <1>9 DEF Placed
    <3>2. QuoteId(s) \notin ClientIds
      BY IdFacts
    <3>3. \A t \in Side : incoming'.id = QuoteId(t) =>
                           pc' = "submit" /\ Placed(t)' /\ QuoteId(t) \in active'
      BY <1>1, <1>6, <1>7, <2>2, <3>1
    <3>. QED  BY <1>1, <1>7, <2>2, <3>2, <3>3 DEF InHand
  <2>. QED  BY <1>7, <2>1, <2>2
<1>. QED  BY <1>7, <1>10, <1>11, <1>12, <1>13, <1>14 DEF QuoteInv

\* When all are sent, the market maker knows the ones it placed.
LEMMA QuotesPlacedKeepsQuotes ==
  ASSUME QuoteInv, QuotesPlaced
  PROVE  QuoteInv'
<1>1. /\ pc = "submit" /\ calls = << >> /\ pc' = "idle" /\ job' = NoJob
      /\ quotes' = [s \in Side |-> IF job.id \in {s, "both"} THEN QuoteId(s) ELSE quotes[s]]
      /\ UNCHANGED <<used, is_open, orphans, known, account, active, calls, incoming, trades>>
      /\ ~Matching
  BY DEF QuotesPlaced, Returned, venue, matching
<1>2. /\ quotes' \in [Side -> {""} \cup QuoteIds]
      /\ \A s \in Side : quotes'[s] \in {"", QuoteId(s)}
      /\ \A s \in Side : Placed(s) => quotes'[s] = QuoteId(s)
  BY <1>1, IdFacts DEF QuoteInv, Shape, Placed
<1>3. Shape'
  BY <1>1, <1>2, NoJobType DEF QuoteInv, Shape
<1>4. Resting' /\ Gone(known', calls') /\ InHand'
  BY <1>1, NothingInHand DEF QuoteInv, Resting, Rests, matching
<1>5. Tracked'
  BY <1>1, <1>2 DEF QuoteInv, Tracked, Rests
<1>6. Agenda'
  BY <1>1 DEF Agenda
<1>. QED  BY <1>3, <1>4, <1>5, <1>6 DEF QuoteInv

\* A trade changes the position by its size.
LEMMA PositionChanges ==
  ASSUME account.quantity \in Int, NEW is_buyer, NEW q \in Nat, NEW p
  PROVE  UpdatePosition(account, is_buyer, q, p).quantity \in Int
<1>1. Bought(account, q, p).quantity = account.quantity + q
  BY DEF Bought
<1>2. Sold(account, q, p).quantity = account.quantity - q
  BY DEF Sold
<1>. QED  BY <1>1, <1>2 DEF UpdatePosition

\* The market order against a position is matched, or rejected with a notice about no
\* quote.
LEMMA RebalanceEffect ==
  ASSUME QuoteInv, ~Matching, NEW quantity \in Int, NEW rest \in Seq(Notice), Gone(known, rest),
         Rebalance(quantity, rest), RebalanceSize(quantity) \in Nat, UNCHANGED is_open
  PROVE  /\ calls' \in Seq(Notice) /\ Gone(known, calls')
         /\ incoming' \in Incoming /\ InHand'
<1>1. CASE is_open
  <2>1. /\ incoming' = [id |-> "market", side |-> IF quantity > 0 THEN "SELL" ELSE "BUY",
                        left |-> RebalanceSize(quantity), price |-> 0, named |-> FALSE]
        /\ calls' = rest
    BY <1>1 DEF Rebalance
  <2>2. incoming' \in Incoming /\ incoming'.id = "market" /\ ~incoming'.named
    BY <2>1 DEF Incoming, Side
  <2>3. "market" \notin Ids /\ "market" \notin ClientIds /\ \A s \in Side : QuoteId(s) # "market"
    BY IdFacts
  <2>4. InHand'
    BY <1>1, <2>2, <2>3 DEF InHand
  <2>. QED  BY <2>1, <2>2, <2>4
<1>2. CASE ~is_open
  <2> DEFINE n == Dummy("market", quantity < 0, 0)
  <2>1. calls' = <<n>> \o rest /\ incoming' = incoming
    BY <1>2 DEF Rebalance
  <2>2. n \in Notice /\ n.id = "market"
    BY DEF Dummy, Notice
  <2>6. n.id \notin QuoteIds
    BY <2>2, IdFacts
  <2>. HIDE DEF n
  <2>3. <<n>> \o rest \in Seq(Notice) /\ Gone(known, <<n>> \o rest)
    BY <2>2, <2>6, NoticesBefore
  <2>4. incoming' \in Incoming
    BY <2>1 DEF QuoteInv, Shape
  <2>5. InHand'
    <3>1. incoming.id = "" /\ ~Matching'
      BY <2>1 DEF Matching
    <3>2. "" \notin Ids /\ "" \notin ClientIds /\ \A s \in Side : QuoteId(s) # ""
      BY IdFacts
    <3>. QED  BY <2>1, <3>1, <3>2 DEF QuoteInv, InHand
  <2>. QED  BY <2>1, <2>3, <2>4, <2>5
<1>. QED  BY <1>1, <1>2

\* The size of the market order, of a position above the limit.
LEMMA RebalanceSizeType ==
  ASSUME NEW quantity \in Int, AbsVal(quantity) > max_position
  PROVE  RebalanceSize(quantity) \in Nat
<1>1. AbsVal(quantity) \in Int /\ max_position \in Nat
  <2>1. max_position \in Nat
    BY TradersAssumption
  <2>. QED  BY <2>1 DEF AbsVal
<1>2. PICK a : a = AbsVal(quantity)
  OBVIOUS
<1>3. a \in Nat /\ a - max_position \in Nat /\ (a + 4) \div 5 \in Nat
  BY <1>1, <1>2
<1>. QED  BY <1>2, <1>3 DEF RebalanceSize, Smaller

\* A callback clears the quotes and the orders that it is told are gone, and no other.
LEMMA DeliverKeepsQuotes ==
  ASSUME QuoteInv, Deliver
  PROVE  QuoteInv'
<1> PICK n, rest : n = Head(calls) /\ rest = Tail(calls)
  OBVIOUS
<1>1. /\ calls \in Seq(Notice) /\ calls # << >> /\ Gone(known, calls)
      /\ known \in OwnOrders /\ account.quantity \in Int /\ Shape /\ Resting
  BY DEF Deliver, QuoteInv, Shape
<1>2. /\ n \in Notice /\ rest \in Seq(Notice) /\ n = calls[1] /\ Len(rest) = Len(calls) - 1
      /\ \A i \in 1..Len(rest) : rest[i] = calls[i + 1]
      /\ Len(calls) \in Nat /\ Len(calls) > 0
  BY <1>1, HeadTailProperties, LenProperties, EmptySeq
<1>3. n.id \in QuoteIds => known[n.id].left <= 0
  BY <1>1, <1>2, LenProperties DEF Gone
<1>4. Gone(known, rest)
  <2>1. ASSUME NEW i \in DOMAIN rest
        PROVE  rest[i].id \in QuoteIds => known[rest[i].id].left <= 0
    <3>1. i \in 1..Len(rest) /\ i + 1 \in DOMAIN calls
      BY <1>1, <1>2, LenProperties
    <3>. QED  BY <1>1, <1>2, <3>1 DEF Gone
  <2>. QED  BY <2>1 DEF Gone
<1>5. account'.quantity \in Int
  <2>1. account' = UpdatePosition(account, n.is_buyer, n.lots, n.price)
    BY DEF Deliver
  <2>2. n.lots \in Nat
    BY <1>2 DEF Notice
  <2>. QED  BY <1>1, <2>1, <2>2, PositionChanges
<1>6. /\ \/ Rebalance(account'.quantity, rest) /\ AbsVal(account'.quantity) > max_position
         \/ calls' = rest /\ UNCHANGED incoming
      /\ active' = active \/ active' = active \ {n.id}
      /\ quotes' = quotes \/ quotes' = [s \in Side |-> IF quotes[s] = n.id THEN "" ELSE quotes[s]]
      /\ UNCHANGED <<used, known, is_open, orphans, pc, job, trades>>
      /\ ~Matching
  BY DEF Deliver, Cleared, venue
<1>7. /\ Falls /\ calls' \in Seq(Notice) /\ Gone(known', calls')
      /\ incoming' \in Incoming /\ InHand'
  <2>1. Falls
    BY <1>6, StillFalls
  <2>2. CASE Rebalance(account'.quantity, rest) /\ AbsVal(account'.quantity) > max_position
    <3>1. PICK quantity : quantity = account'.quantity
      OBVIOUS
    <3>2. quantity \in Int /\ RebalanceSize(quantity) \in Nat /\ Rebalance(quantity, rest)
      BY <1>5, <2>2, <3>1, RebalanceSizeType
    <3>3. /\ calls' \in Seq(Notice) /\ Gone(known, calls')
          /\ incoming' \in Incoming /\ InHand'
      BY <1>2, <1>4, <1>6, <3>2, RebalanceEffect
    <3>. QED  BY <1>6, <2>1, <3>3
  <2>3. CASE calls' = rest /\ UNCHANGED incoming
    <3>1. InHand'
      BY <1>6, <2>3, NothingInHand DEF QuoteInv, matching
    <3>. QED  BY <1>2, <1>4, <1>6, <2>1, <2>3, <3>1 DEF QuoteInv, Shape
  <2>. QED  BY <1>6, <2>2, <2>3
<1>8. /\ \A s \in Side : quotes[s] \in {"", QuoteId(s)}
      /\ quotes \in [Side -> {""} \cup QuoteIds]
      /\ n.id # ""
  BY <1>2, TradersAssumption DEF QuoteInv, Shape, Notice, Ids
<1>9. quotes' \in [Side -> {""} \cup QuoteIds] /\ \A s \in Side : quotes'[s] \in {"", QuoteId(s)}
  BY <1>6, <1>8
<1>10. ASSUME NEW s \in Side, Rests(QuoteId(s))'
       PROVE  (QuoteId(s) \in active => QuoteId(s) \in active') /\ quotes'[s] = quotes[s]
  <2>1. Rests(QuoteId(s)) /\ QuoteId(s) \in QuoteIds /\ QuoteId(s) \in Ids
    BY <1>7, <1>10, IdFacts DEF Falls
  <2>2. known[QuoteId(s)].left \in Nat
    BY <1>1, <2>1 DEF OwnOrders, OwnOrder
  <2>3. QuoteId(s) # n.id
    BY <1>3, <2>1, <2>2 DEF Rests
  <2>4. quotes[s] # n.id
    BY <1>8, <2>3
  <2>. QED  BY <1>6, <2>3, <2>4
<1>11. trades' \in Seq(Execution)
  BY <1>1, <1>6 DEF Shape
<1>. QED  BY <1>5, <1>6, <1>7, <1>9, <1>10, <1>11, FallKeepsQuotes

\* What the orders of a decision are, one or two of them.
LEMMA OrderCount ==
  \A a, b : /\ Len(<< >>) = 0 /\ << >> \o <<b>> = <<b>>
            /\ Len(<<a>>) = 1 /\ <<a>>[1] = a
            /\ <<a>> \o <<b>> = <<a, b>> /\ Len(<<a, b>>) = 2
            /\ <<a, b>>[1] = a /\ <<a, b>>[2] = b
<1> TAKE a, b
<1>1. Len(<< >>) = 0 /\ Len(<<a>>) = 1 /\ <<a>>[1] = a
  OBVIOUS
<1>2. Len(<<a, b>>) = 2 /\ <<a, b>>[1] = a /\ <<a, b>>[2] = b
  OBVIOUS
<1>3. << >> \o <<b>> = <<b>>
  BY SMT
<1>4. <<a>> \o <<b>> = <<a, b>>
  <2> DEFINE S == {a, b}
  <2>1. <<a>> \in Seq(S) /\ <<b>> \in Seq(S) /\ <<a, b>> \in Seq(S)
    OBVIOUS
  <2>2. PICK x, y, z : x = <<a>> /\ y = <<b>> /\ z = <<a, b>>
    OBVIOUS
  <2>3. /\ x \in Seq(S) /\ y \in Seq(S) /\ z \in Seq(S)
        /\ Len(x) = 1 /\ Len(y) = 1 /\ Len(z) = 2
        /\ x[1] = a /\ y[1] = b /\ z[1] = a /\ z[2] = b
    BY <2>1, <2>2
  <2>. HIDE DEF S
  <2>4. /\ x \o y \in Seq(S) /\ Len(x \o y) = Len(x) + Len(y)
        /\ \A i \in 1..Len(x) + Len(y) :
             (x \o y)[i] = IF i <= Len(x) THEN x[i] ELSE y[i - Len(x)]
    BY <2>3, ConcatProperties
  <2>5. PICK c : c = x \o y
    OBVIOUS
  <2>6. c \in Seq(S) /\ Len(c) = 2 /\ c[1] = a /\ c[2] = b
    BY <2>3, <2>4, <2>5
  <2>7. \A i \in 1..2 : c[i] = z[i]
    BY <2>3, <2>6
  <2>8. c = z
    BY <2>3, <2>6, <2>7, SeqEqual
  <2>. QED  BY <2>2, <2>5, <2>8
<1>. QED  BY <1>1, <1>2, <1>3, <1>4

\* A decision's orders are two at most.
LEMMA FewOrders ==
  ASSUME NEW sig, account.quantity \in Int
  PROVE  \/ Orders(sig) = << >>
         \/ \E a \in {"BUY", "SELL"}, h \in Int : Orders(sig) = <<Market(a, h)>>
         \/ \E a \in {"BUY", "SELL"}, h, g \in Int : Orders(sig) = <<Market(a, h), Market(a, g)>>
<1>1. PICK position, target, s, along :
        /\ position = account.quantity /\ target = TargetSize(sig)
        /\ s = (IF Up(sig) THEN "BUY" ELSE "SELL")
        /\ along = (IF Up(sig) THEN position ELSE -position)
  OBVIOUS
<1>2. target \in {-2, -1, 0, 1, 2}
  BY <1>1 DEF TargetSize
<1>3. /\ position \in Int /\ along \in Int /\ s \in {"BUY", "SELL"}
      /\ -2 * along \in Int /\ 2 * target \in Int /\ 2 * (target - along) \in Int
      /\ AbsVal(position) \in Int
  BY <1>1, <1>2 DEF AbsVal
<1>4. PICK a, b, c : /\ a = Market(s, -2 * along) /\ b = Market(s, 2 * target)
                     /\ c = Market(s, 2 * (target - along))
  OBVIOUS
<1>5. PICK d : d = Market(IF position > 0 THEN "SELL" ELSE "BUY", AbsVal(position))
  OBVIOUS
<1>6. Orders(sig) \in {<<a>> \o <<b>>, << >> \o <<b>>, <<c>>, <<d>>, << >>}
  BY <1>1, <1>4, <1>5 DEF Orders
<1>7. <<a>> \o <<b>> = <<a, b>> /\ << >> \o <<b>> = <<b>>
  BY OrderCount
<1>8. CASE Orders(sig) = <<a, b>>
  BY <1>3, <1>4, <1>8
<1>9. CASE Orders(sig) \in {<<b>>, <<c>>, <<d>>}
  BY <1>3, <1>4, <1>5, <1>9
<1>. QED  BY <1>6, <1>7, <1>8, <1>9

\* The follower is told of no quote, only of market orders that are rejected.
LEMMA DecideTrendKeepsQuotes ==
  ASSUME QuoteInv, DecideTrend
  PROVE  QuoteInv'
<1>1. /\ ~Matching /\ UNCHANGED matching
      /\ UNCHANGED <<known, orphans, used, pc, job, account, quotes, active, is_open>>
      /\ sent' = Orders(signal')
      /\ calls' = IF is_open THEN << >>
                  ELSE [i \in DOMAIN sent' |-> Dummy("market", sent'[i].side = "BUY", 0)]
  BY DEF DecideTrend, Quiet, Returned, venue, maker
<1>2. PICK n \in Nat : DOMAIN sent' = 1..n
  <2>1. account.quantity \in Int
    BY DEF QuoteInv, Shape
  <2>2. PICK list, sig : list = sent' /\ sig = signal'
    OBVIOUS
  <2>3. \/ list = << >> \/ (\E a : list = <<a>>) \/ (\E a, b : list = <<a, b>>)
    BY <1>1, <2>1, <2>2, FewOrders
  <2>4. DOMAIN list = 1..0 \/ DOMAIN list = 1..1 \/ DOMAIN list = 1..2
    BY <2>3
  <2>. QED  BY <2>2, <2>4
<1>3. calls' \in Seq(Notice) /\ Gone(known', calls')
  <2>1. CASE is_open
    <3>1. calls' = << >>
      BY <1>1, <2>1
    <3>. QED  BY <3>1, EmptySeq DEF Gone
  <2>2. CASE ~is_open
    <3>1. PICK list : list = sent'
      OBVIOUS
    <3>2. calls' = [i \in 1..n |-> Dummy("market", list[i].side = "BUY", 0)]
      BY <1>1, <1>2, <2>2, <3>1
    <3>3. \A b \in BOOLEAN : Dummy("market", b, 0) \in Notice /\ Dummy("market", b, 0).id \notin QuoteIds
      BY IdFacts DEF Dummy, Notice
    <3>4. \A i \in 1..n : calls'[i] \in Notice /\ calls'[i].id \notin QuoteIds
      BY <3>2, <3>3
    <3>5. DOMAIN calls' = 1..n /\ calls' \in [1..n -> Notice]
      BY <3>2, <3>4
    <3>6. calls' \in Seq(Notice)
      BY <3>5, SeqDef
    <3>. QED  BY <3>4, <3>5, <3>6 DEF Gone
  <2>. QED  BY <2>1, <2>2
<1>4. Falls
  BY <1>1, StillFalls
<1>5. InHand'
  BY <1>1, NothingInHand DEF QuoteInv
<1>. QED  BY <1>1, <1>3, <1>4, <1>5, FallKeepsQuotes DEF QuoteInv, Shape, matching

\* Every step keeps the invariant.
LEMMA NextKeepsQuotes ==
  ASSUME QuoteInv, [Next]_vars
  PROVE  QuoteInv'
<1>1. CASE DecideTrend \/ UNCHANGED vars
  BY <1>1, QuietKeepsQuotes, DecideTrendKeepsQuotes
<1>2. CASE Outside
  BY <1>2, QuietKeepsQuotes, CloseSessionKeepsQuotes, ClientOrderKeepsQuotes,
     ClientCancelKeepsQuotes, DecideKeepsQuotes DEF Outside
<1>3. CASE ClientCancelled
  <2>1. "bid" \in Ids
    BY DEF Ids
  <2>. QED  BY <1>3, <2>1, ClientCancelKeepsQuotes
<1>4. CASE Proceed /\ ~ClientCancelled
  BY <1>4, MeetKeepsQuotes, SettleKeepsQuotes, DeliverKeepsQuotes, CancelQuoteKeepsQuotes, QuoteCancelledKeepsQuotes,
     DecideKeepsQuotes, SubmitQuoteKeepsQuotes, QuotesPlacedKeepsQuotes DEF Proceed
<1>. QED  BY <1>1, <1>2, <1>3, <1>4 DEF Next, Going

\* The market maker never has two quotes on a side, whatever is executed, rejected
\* or cancelled in the midst of its decisions (actor.cpp:308-461): when it sends a
\* quote, the one it sent before under the same id is gone.
THEOREM OneQuote == Spec => []OneQuotePerSide
<1>1. QuoteInv => OneQuotePerSide
  BY DEF QuoteInv, Resting, OneQuotePerSide
<1>2. QuoteInv /\ [Next]_vars => QuoteInv'
  BY NextKeepsQuotes
<1>. QED  BY <1>1, <1>2, InitQuotes, PTL DEF Spec

\* Between calls the market maker knows every quote that rests, in spite of the
\* callbacks' clearing (actor.cpp:75-86, 287-306) and of the reference through which
\* the cancellation erases.
THEOREM QuotesKnown == Spec => []QuoteIsKnown
<1>1. QuoteInv => QuoteIsKnown
  BY DEF QuoteInv, Tracked, QuoteIsKnown, Quiet
<1>2. QuoteInv /\ [Next]_vars => QuoteInv'
  BY NextKeepsQuotes
<1>. QED  BY <1>1, <1>2, InitQuotes, PTL DEF Spec

(***************************************************************************)
(* The trend follower's signal.                                            *)
(***************************************************************************)

\* What was observed last is the end of the history.
Remembered ==
  /\ price_history \in Seq(MidPrices) /\ seen \in Seq(MidPrices)
  /\ Len(seen) = IF Len(price_history) < long_window THEN Len(price_history) ELSE long_window
  /\ \A i \in 0..(Len(seen) - 1) :
       seen[Len(seen) - i] = price_history[Len(price_history) - i]

\* The two windows are not empty, and the short one is within the long one.
LEMMA Windows ==
  /\ long_window \in Nat /\ short_window \in Nat
  /\ 1 <= short_window /\ short_window <= long_window
<1>1. long_window \in Nat /\ short_window \in 1..long_window
  BY TradersAssumption
<1>. QED  BY <1>1

\* Cutting the front off a history that is long enough keeps its end.
LEMMA TruncatedProperties ==
  ASSUME NEW h \in Seq(MidPrices)
  PROVE  /\ Truncated(h) \in Seq(MidPrices)
         /\ Len(Truncated(h)) = IF Len(h) > 2 * long_window THEN 2 * long_window ELSE Len(h)
         /\ \A i \in 0..(Len(Truncated(h)) - 1) : Truncated(h)[Len(Truncated(h)) - i] = h[Len(h) - i]
<1>1. PICK n, w, cut : n = Len(h) /\ w = 2 * long_window /\ cut = n - w + 1
  OBVIOUS
<1>2. n \in Nat /\ w \in Nat /\ w >= 1
  BY <1>1, Windows, LenProperties
<1>3. CASE ~(n > w)
  BY <1>1, <1>3 DEF Truncated
<1>4. CASE n > w
  <2> DEFINE t == SubSeq(h, cut, n)
  <2>1. cut \in 1..(n + 1) /\ n \in (cut - 1)..n /\ n - cut + 1 = w
    BY <1>1, <1>2, <1>4
  <2>2. \A i \in cut..n : h[i] \in MidPrices
    <3>1. \A i \in cut..n : i \in 1..Len(h)
      BY <1>1, <1>2, <2>1
    <3>. QED  BY <3>1, ElementOfSeq
  <2>3. cut \in Int /\ n \in Int /\ cut <= n
    BY <1>2, <2>1
  <2>4. /\ t \in Seq(MidPrices) /\ Len(t) = n - cut + 1
        /\ \A j \in 1..(n - cut + 1) : t[j] = h[cut + j - 1]
    <3>1. /\ SubSeq(h, cut, n) \in Seq(MidPrices)
          /\ Len(SubSeq(h, cut, n)) = IF cut <= n THEN n - cut + 1 ELSE 0
          /\ \A j \in 1..(n - cut + 1) : SubSeq(h, cut, n)[j] = h[cut + j - 1]
      BY <2>2, <2>3, SubSeqProperties
    <3>. QED  BY <2>3, <3>1
  <2>5. Truncated(h) = t
    BY <1>1, <1>4 DEF Truncated
  <2>. HIDE DEF t
  <2>6. Len(t) = w /\ \A j \in 1..w : t[j] = h[cut + j - 1]
    BY <2>1, <2>4
  <2>7. ASSUME NEW i \in 0..(w - 1)
        PROVE  t[w - i] = h[n - i]
    <3>1. cut = n - w + 1 /\ n \in Int /\ w \in Int /\ i \in Int /\ 0 <= i /\ i <= w - 1
      BY <1>1, <1>2
    <3>2. w - i \in 1..w /\ cut + (w - i) - 1 = n - i
      BY <3>1
    <3>. QED  BY <2>6, <3>2
  <2>. QED  BY <1>1, <1>4, <2>4, <2>5, <2>6, <2>7
<1>. QED  BY <1>3, <1>4

\* An observation is the last of both.
LEMMA ObservePriceRemembers ==
  ASSUME Remembered, NEW mid \in MidPrices, ObservePrice(mid)
  PROVE  Remembered'
<1> DEFINE h == Append(price_history, mid)
           n == Len(price_history)
           w == long_window
           k == Len(seen)
<1>1. /\ price_history \in Seq(MidPrices) /\ seen \in Seq(MidPrices)
      /\ n \in Nat /\ k \in Nat /\ k = IF n < w THEN n ELSE w
      /\ \A i \in 0..(k - 1) : seen[k - i] = price_history[n - i]
  BY LenProperties DEF Remembered
<1>2. w \in Nat /\ w >= 1
  BY Windows
<1>3. /\ h \in Seq(MidPrices) /\ Len(h) = n + 1 /\ h[n + 1] = mid
      /\ \A i \in 1..n : h[i] = price_history[i]
  BY <1>1, AppendProperties
<1>4. /\ price_history' \in Seq(MidPrices)
      /\ Len(price_history') = IF n + 1 > 2 * w THEN 2 * w ELSE n + 1
      /\ \A i \in 0..(Len(price_history') - 1) :
           price_history'[Len(price_history') - i] = h[n + 1 - i]
  <2>1. PICK g, a : g = Append(price_history, mid) /\ a = Len(price_history')
    OBVIOUS
  <2>2. price_history' = Truncated(g)
    BY <2>1 DEF ObservePrice
  <2>3. g \in Seq(MidPrices) /\ Len(g) = n + 1
    BY <1>3, <2>1
  <2>4. /\ Truncated(g) \in Seq(MidPrices)
        /\ Len(Truncated(g)) = IF Len(g) > 2 * long_window THEN 2 * long_window ELSE Len(g)
        /\ \A i \in 0..(Len(Truncated(g)) - 1) :
             Truncated(g)[Len(Truncated(g)) - i] = g[Len(g) - i]
    BY <2>3, TruncatedProperties
  <2>. QED  BY <2>1, <2>2, <2>3, <2>4
<1>5. /\ seen' \in Seq(MidPrices)
      /\ Len(seen') = IF n + 1 < w THEN n + 1 ELSE w
      /\ \A i \in 0..(Len(seen') - 1) : seen'[Len(seen') - i] = h[n + 1 - i]
  <2> DEFINE base == IF k < w THEN seen ELSE Tail(seen)
             m == Len(base)
  <2>1. /\ base \in Seq(MidPrices) /\ m \in Nat /\ m = (IF k < w THEN k ELSE w - 1)
        /\ \A i \in 0..(m - 1) : base[m - i] = seen[k - i]
    <3>1. CASE k < w
      BY <1>1, <3>1
    <3>2. CASE ~(k < w)
      <4>1. k = w /\ seen # << >>
        BY <1>1, <1>2, <3>2, EmptySeq
      <4>2. PICK t, c : t = Tail(seen) /\ c = k
        OBVIOUS
      <4>3. /\ t \in Seq(MidPrices) /\ Len(t) = c - 1 /\ c \in Nat /\ c >= 1
            /\ \A i \in 1..(c - 1) : t[i] = seen[i + 1]
        BY <1>1, <1>2, <4>1, <4>2, HeadTailProperties
      <4>4. ASSUME NEW i \in 0..(c - 2)
            PROVE  t[c - 1 - i] = seen[c - i]
        <5>1. c - 1 - i \in 1..(c - 1) /\ (c - 1 - i) + 1 = c - i
          BY <4>3
        <5>. QED  BY <4>3, <5>1
      <4>. QED  BY <3>2, <4>1, <4>2, <4>3, <4>4
    <3>. QED  BY <3>1, <3>2
  <2>2. seen' = Append(base, mid)
    BY DEF ObservePrice
  <2>. HIDE DEF base, m, h, n, w, k
  <2>3. /\ seen' \in Seq(MidPrices) /\ Len(seen') = m + 1 /\ seen'[m + 1] = mid
        /\ \A i \in 1..m : seen'[i] = base[i]
    BY <2>1, <2>2, AppendProperties DEF m
  <2>4. m + 1 = IF n + 1 < w THEN n + 1 ELSE w
    BY <1>1, <1>2, <2>1
  <2>5. ASSUME NEW i \in 0..m
        PROVE  seen'[m + 1 - i] = h[n + 1 - i]
    <3>1. CASE i = 0
      BY <1>1, <1>3, <2>1, <2>3, <3>1
    <3>2. CASE i # 0
      <4>1. PICK j : j = i - 1
        OBVIOUS
      <4>2. /\ j \in 0..(m - 1) /\ m + 1 - i = m - j /\ n + 1 - i = n - j /\ m - j \in 1..m
            /\ j \in 0..(k - 1) /\ n - j \in 1..n
        BY <1>1, <1>2, <2>1, <3>2, <4>1
      <4>3. seen'[m - j] = base[m - j] /\ base[m - j] = seen[k - j]
        BY <2>1, <2>3, <4>2
      <4>4. seen[k - j] = price_history[n - j] /\ h[n - j] = price_history[n - j]
        BY <1>1, <1>3, <4>2
      <4>. QED  BY <4>2, <4>3, <4>4
    <3>. QED  BY <3>1, <3>2
  <2>6. PICK b : b = Len(seen')
    OBVIOUS
  <2>7. b = m + 1 /\ b - 1 = m
    BY <2>1, <2>3, <2>6
  <2>8. \A i \in 0..(b - 1) : seen'[b - i] = h[n + 1 - i]
    BY <2>5, <2>7
  <2>. QED  BY <2>3, <2>4, <2>6, <2>7, <2>8
<1>. HIDE DEF h
<1>6. PICK a, b : a = Len(price_history') /\ b = Len(seen')
  OBVIOUS
<1>7. /\ a = (IF n + 1 > 2 * w THEN 2 * w ELSE n + 1) /\ b = IF n + 1 < w THEN n + 1 ELSE w
      /\ a \in Nat /\ b \in Nat
  BY <1>1, <1>2, <1>4, <1>5, <1>6
<1>8. b = IF a < w THEN a ELSE w
  BY <1>1, <1>2, <1>7
<1>9. ASSUME NEW i \in 0..(b - 1)
      PROVE  seen'[b - i] = price_history'[a - i]
  <2>1. i \in 0..(a - 1)
    BY <1>2, <1>7, <1>8
  <2>. QED  BY <1>4, <1>5, <1>6, <2>1
<1>. QED  BY <1>4, <1>5, <1>6, <1>8, <1>9 DEF Remembered

\* Nothing else touches the history.
LEMMA OthersRemember ==
  ASSUME Remembered, UNCHANGED <<price_history, seen>>
  PROVE  Remembered'
BY DEF Remembered

\* Every step keeps what is remembered.
LEMMA NextRemembers ==
  ASSUME Remembered, [Next]_vars
  PROVE  Remembered'
<1>1. CASE \E mid \in MidPrices : ObservePrice(mid)
  BY <1>1, ObservePriceRemembers
<1>2. CASE OthersOrder \/ OpenSession \/ CloseSession \/ Decide \/ DecideTrend
  BY <1>2, OthersRemember DEF OthersOrder, OpenSession, CloseSession, Decide, DecideTrend, follower
<1>3. CASE \E id \in ClientIds, s \in Side, price \in Prices :
         \E q \in Lots[id] : ClientOrder(id, s, q, price)
  BY <1>3, OthersRemember DEF ClientOrder, follower
<1>4. CASE \E id \in Ids : ClientCancel(id)
  BY <1>4, OthersRemember DEF ClientCancel, follower
<1>5. CASE \E view \in {"thin", "valid"} : Observe(view)
  BY <1>5, OthersRemember DEF Observe, follower
<1>6. CASE Proceed
  BY <1>6, OthersRemember DEF Proceed, MeetOwn, MeetOther, Settle, Deliver, ClientCancelled, CancelQuote, QuoteCancelled,
     PlaceQuotes, SubmitQuote, QuotesPlaced, follower
<1>7. CASE UNCHANGED vars
  BY <1>7, OthersRemember DEF vars, follower
<1>. QED  BY <1>1, <1>2, <1>3, <1>4, <1>5, <1>6, <1>7 DEF Next, Outside, Going

\* The latest n prices of the history and of what was observed last are the same.
LEMMA LatestTheSame ==
  ASSUME NEW h \in Seq(MidPrices), NEW g \in Seq(MidPrices), NEW n \in Nat,
         n <= Len(h), n <= Len(g),
         \A i \in 0..(n - 1) : g[Len(g) - i] = h[Len(h) - i]
  PROVE  Latest(g, n) = Latest(h, n)
<1>1. \A s \in Seq(MidPrices) : n <= Len(s) =>
        /\ Latest(s, n) \in Seq(MidPrices) /\ Len(Latest(s, n)) = n
        /\ \A j \in 1..n : Latest(s, n)[j] = s[Len(s) - (n - j)]
  <2> SUFFICES ASSUME NEW s \in Seq(MidPrices), n <= Len(s)
               PROVE  /\ Latest(s, n) \in Seq(MidPrices) /\ Len(Latest(s, n)) = n
                      /\ \A j \in 1..n : Latest(s, n)[j] = s[Len(s) - (n - j)]
    OBVIOUS
  <2>1. PICK k, cut : k = Len(s) /\ cut = k - n + 1
    OBVIOUS
  <2>2. k \in Nat
    BY <2>1, LenProperties
  <2>3. k \in Int /\ cut \in Int /\ k - cut + 1 = n /\ (cut <= k \/ n = 0) /\ cut >= 1
    BY <2>1, <2>2
  <2>4. \A i \in cut..k : s[i] \in MidPrices
    <3>1. \A i \in cut..k : i \in 1..Len(s)
      BY <2>1, <2>2, <2>3
    <3>. QED  BY <3>1, ElementOfSeq
  <2>5. /\ SubSeq(s, cut, k) \in Seq(MidPrices)
        /\ Len(SubSeq(s, cut, k)) = IF cut <= k THEN k - cut + 1 ELSE 0
        /\ \A j \in 1..(k - cut + 1) : SubSeq(s, cut, k)[j] = s[cut + j - 1]
    BY <2>3, <2>4, SubSeqProperties
  <2>6. PICK t : t = SubSeq(s, cut, k)
    OBVIOUS
  <2>7. Latest(s, n) = t
    BY <2>1, <2>6 DEF Latest
  <2>8. t \in Seq(MidPrices) /\ Len(t) = n /\ \A j \in 1..n : t[j] = s[cut + j - 1]
    <3>1. Len(t) = IF cut <= k THEN n ELSE 0
      BY <2>3, <2>5, <2>6
    <3>2. cut > k => n = 0
      BY <2>2, <2>3
    <3>3. Len(t) = n
      BY <2>3, <3>1, <3>2
    <3>. QED  BY <2>3, <2>5, <2>6, <3>3
  <2>9. \A j \in 1..n : cut + j - 1 = k - (n - j)
    BY <2>1, <2>2
  <2>. QED  BY <2>1, <2>7, <2>8, <2>9
<1>2. PICK a, b : a = Latest(g, n) /\ b = Latest(h, n)
  OBVIOUS
<1>3. /\ a \in Seq(MidPrices) /\ Len(a) = n /\ \A j \in 1..n : a[j] = g[Len(g) - (n - j)]
      /\ b \in Seq(MidPrices) /\ Len(b) = n /\ \A j \in 1..n : b[j] = h[Len(h) - (n - j)]
  BY <1>1, <1>2
<1>4. \A j \in 1..n : n - j \in 0..(n - 1)
  OBVIOUS
<1>5. \A j \in 1..n : a[j] = b[j]
  BY <1>3, <1>4
<1>6. a = b
  BY <1>3, <1>5, SeqEqual
<1>. QED  BY <1>2, <1>6

\* The follower's signal is that of the prices observed last: both windows and the
\* last price are the same in the history, whatever was cut off its front
\* (actor.cpp:581-598, 752-794).
THEOREM SignalOfLatest == Spec => SignalIsOfLatest
<1>1. Init => Remembered
  <2> SUFFICES ASSUME Init PROVE Remembered
    OBVIOUS
  <2>1. /\ price_history = << >> /\ seen = << >> /\ << >> \in Seq(MidPrices) /\ Len(<< >>) = 0
    BY EmptySeq DEF Init
  <2>2. long_window \in Nat /\ long_window >= 1
    BY Windows
  <2>3. \A i \in 0..(0 - 1) : FALSE
    OBVIOUS
  <2>. QED  BY <2>1, <2>2, <2>3 DEF Remembered
<1>2. Remembered /\ [Next]_vars => Remembered'
  BY NextRemembers
<1>3. Remembered /\ [Next]_vars => [DecideTrend => signal' = TrendSignal(seen)]_vars
  <2> SUFFICES ASSUME Remembered, DecideTrend
               PROVE  TrendSignal(price_history) = TrendSignal(seen)
    BY DEF DecideTrend
  <2>1. PICK h, g : h = price_history /\ g = seen
    OBVIOUS
  <2>2. /\ h \in Seq(MidPrices) /\ g \in Seq(MidPrices) /\ Len(h) \in Nat
        /\ Len(h) > long_window
        /\ Len(g) = IF Len(h) < long_window THEN Len(h) ELSE long_window
        /\ \A i \in 0..(Len(g) - 1) : g[Len(g) - i] = h[Len(h) - i]
    BY <2>1, LenProperties DEF Remembered, DecideTrend
  <2>3. /\ long_window \in Nat /\ short_window \in Nat
        /\ 1 <= short_window /\ short_window <= long_window
    BY Windows
  <2>4. Len(g) = long_window
    BY <2>2, <2>3
  <2>5. Latest(g, long_window) = Latest(h, long_window)
    <3>1. long_window <= Len(h) /\ long_window <= Len(g)
      BY <2>2, <2>3, <2>4
    <3>2. \A i \in 0..(long_window - 1) : g[Len(g) - i] = h[Len(h) - i]
      BY <2>2, <2>4
    <3>. QED  BY <2>2, <2>3, <3>1, <3>2, LatestTheSame
  <2>6. Latest(g, short_window) = Latest(h, short_window)
    <3>1. short_window <= Len(h) /\ short_window <= Len(g)
      BY <2>2, <2>3, <2>4
    <3>2. \A i \in 0..(short_window - 1) : i \in 0..(Len(g) - 1)
      BY <2>3, <2>4
    <3>3. \A i \in 0..(short_window - 1) : g[Len(g) - i] = h[Len(h) - i]
      BY <2>2, <3>2
    <3>. QED  BY <2>2, <2>3, <3>1, <3>3, LatestTheSame
  <2>7. g[Len(g)] = h[Len(h)]
    <3>1. 0 \in 0..(Len(g) - 1) /\ Len(g) - 0 = Len(g) /\ Len(h) - 0 = Len(h)
      BY <2>2, <2>3, <2>4
    <3>2. g[Len(g) - 0] = h[Len(h) - 0]
      BY <2>2, <3>1
    <3>. QED  BY <3>1, <3>2
  <2>8. TrendSignal(g) = TrendSignal(h)
    BY <2>5, <2>6, <2>7 DEF TrendSignal
  <2>. QED  BY <2>1, <2>8
<1>. QED  BY <1>1, <1>2, <1>3, PTL DEF Spec, SignalIsOfLatest

(***************************************************************************)
(* The trend follower's orders.                                            *)
(***************************************************************************)

\* With a trend, the orders bring the position to the target, or leave it beyond;
\* without one they halve it (actor.cpp:609-744).
THEOREM TargetReached == Spec => OrdersReachTarget
<1>1. QuoteInv /\ [Next]_vars => QuoteInv'
  BY NextKeepsQuotes
<1>2. ASSUME QuoteInv, DecideTrend
      PROVE  Len(sent') <= 2 /\ 2 * account.quantity + Ordered(1) + Ordered(2) = PositionToHave
  <2>1. PICK sig, position, target, up, down :
          /\ sig = signal' /\ position = account.quantity /\ target = TargetSize(sig)
          /\ up = (IF Up(sig) THEN TRUE ELSE FALSE) /\ down = IF Down(sig) THEN TRUE ELSE FALSE
    OBVIOUS
  <2>2. position \in Int /\ target \in {-2, -1, 0, 1, 2} /\ up \in BOOLEAN /\ down \in BOOLEAN
    BY <1>2, <2>1 DEF QuoteInv, Shape, TargetSize
  <2>3. sent' = Orders(sig)
    BY <1>2, <2>1 DEF DecideTrend
  <2>4. PICK along : along = IF up THEN position ELSE -position
    OBVIOUS
  <2>5. PICK s : s = IF up THEN "BUY" ELSE "SELL"
    OBVIOUS
  <2>0. PICK goal : goal = IF target > 0 THEN 2 * target ELSE 0
    OBVIOUS
  <2>6. PositionToHave =
             IF up THEN (IF 2 * position > goal THEN 2 * position ELSE goal)
               ELSE IF down THEN (IF 2 * position < -goal THEN 2 * position ELSE -goal)
               ELSE position
    BY <2>1, <2>2, <2>0 DEF PositionToHave
  <2>7. CASE up \/ down
    <3>1. Orders(sig) = IF along <= 0
                        THEN (IF along < 0 THEN <<Market(s, -2 * along)>> ELSE << >>)
                               \o <<Market(s, 2 * target)>>
                        ELSE IF along < target THEN <<Market(s, 2 * (target - along))>> ELSE << >>
      BY <2>1, <2>4, <2>5, <2>7 DEF Orders
    <3>2. \A n : Market(s, n).side = s /\ Market(s, n).half_lots = n
      BY DEF Market
    <3>3. CASE along < 0
      <4>1. PICK a, b : a = Market(s, -2 * along) /\ b = Market(s, 2 * target)
        OBVIOUS
      <4>2. sent' = <<a, b>>
        BY <2>2, <2>3, <2>4, <3>1, <3>3, <4>1, OrderCount
      <4>3. Len(sent') = 2 /\ sent'[1] = a /\ sent'[2] = b
        BY <4>2, OrderCount
      <4>4. /\ Ordered(1) = IF up THEN -2 * along ELSE -(-2 * along)
            /\ Ordered(2) = IF up THEN goal ELSE -goal
        BY <2>2, <2>4, <2>5, <2>0, <3>2, <3>3, <4>1, <4>3 DEF Ordered
      <4>. QED  BY <2>1, <2>2, <2>4, <2>6, <2>7, <2>0, <3>3, <4>3, <4>4
    <3>4. CASE along = 0
      <4>1. PICK b : b = Market(s, 2 * target)
        OBVIOUS
      <4>2. sent' = <<b>>
        BY <2>3, <3>1, <3>4, <4>1, OrderCount
      <4>3. Len(sent') = 1 /\ sent'[1] = b
        BY <4>2, OrderCount
      <4>4. Ordered(1) = (IF up THEN goal ELSE -goal) /\ Ordered(2) = 0
        BY <2>2, <2>5, <2>0, <3>2, <4>1, <4>3 DEF Ordered
      <4>. QED  BY <2>1, <2>2, <2>4, <2>6, <2>7, <2>0, <3>4, <4>3, <4>4
    <3>5. CASE along > 0 /\ along < target
      <4>1. PICK b : b = Market(s, 2 * (target - along))
        OBVIOUS
      <4>2. sent' = <<b>>
        BY <2>2, <2>3, <2>4, <3>1, <3>5, <4>1
      <4>3. Len(sent') = 1 /\ sent'[1] = b
        BY <4>2, OrderCount
      <4>4. /\ Ordered(1) = IF up THEN 2 * (target - along) ELSE -(2 * (target - along))
            /\ Ordered(2) = 0
        BY <2>2, <2>4, <2>5, <3>2, <3>5, <4>1, <4>3 DEF Ordered
      <4>. QED  BY <2>1, <2>2, <2>4, <2>6, <2>7, <2>0, <3>5, <4>3, <4>4
    <3>6. CASE along > 0 /\ ~(along < target)
      <4>1. sent' = << >>
        BY <2>2, <2>3, <2>4, <3>1, <3>6
      <4>2. Len(sent') = 0
        BY <4>1, OrderCount
      <4>3. Ordered(1) = 0 /\ Ordered(2) = 0
        BY <4>2 DEF Ordered
      <4>. QED  BY <2>1, <2>2, <2>4, <2>6, <2>7, <2>0, <3>6, <4>2, <4>3
    <3>. QED  BY <2>2, <2>4, <3>3, <3>4, <3>5, <3>6
  <2>8. CASE ~up /\ ~down /\ position # 0
    <3>1. PICK t, b : t = (IF position > 0 THEN "SELL" ELSE "BUY") /\ b = Market(t, AbsVal(position))
      OBVIOUS
    <3>2. sent' = <<b>>
      BY <2>1, <2>3, <2>8, <3>1 DEF Orders
    <3>3. Len(sent') = 1 /\ sent'[1] = b /\ b.side = t /\ b.half_lots = AbsVal(position)
      BY <3>1, <3>2, OrderCount DEF Market
    <3>4. Ordered(1) = -position /\ Ordered(2) = 0
      BY <2>2, <2>8, <3>1, <3>3 DEF AbsVal, Ordered
    <3>. QED  BY <2>1, <2>2, <2>6, <2>8, <3>3, <3>4
  <2>9. CASE ~up /\ ~down /\ position = 0
    <3>1. sent' = << >> /\ Len(sent') = 0
      BY <2>1, <2>3, <2>9, OrderCount DEF Orders
    <3>2. Ordered(1) = 0 /\ Ordered(2) = 0
      BY <3>1 DEF Ordered
    <3>. QED  BY <2>1, <2>2, <2>6, <2>9, <3>1, <3>2
  <2>. QED  BY <2>2, <2>7, <2>8, <2>9
<1>3. QuoteInv /\ [Next]_vars =>
        [DecideTrend =>
           /\ Len(sent') <= 2
           /\ 2 * account.quantity + Ordered(1) + Ordered(2) = PositionToHave]_vars
  BY <1>2
<1>. QED  BY <1>1, <1>3, InitQuotes, PTL DEF Spec, OrdersReachTarget

(***************************************************************************)
(* The accounts.                                                           *)
(***************************************************************************)

\* A set of numbers up to d has a greatest one.
LEMMA GreatestNumber ==
  ASSUME NEW d \in Nat, NEW B \in SUBSET (1..d), B # {}
  PROVE  \E m \in B : \A k \in B : k <= m
<1> DEFINE F == FiniteSubsetsOf(Nat)
           R == StrictSubsetOrdering(Nat)
           T == {n..d : n \in B}
<1>1. IsWellFoundedOn(R, F)
  BY FS_StrictSubsetOrderingWellFounded
<1>2. T \subseteq F /\ T # {}
  <2>1. \A n \in B : n..d \in SUBSET Nat /\ IsFiniteSet(n..d)
    BY FS_Interval
  <2>. QED  BY <2>1 DEF FiniteSubsetsOf
<1>3. \E x \in T : \A y \in T : ~(<<y, x>> \in R)
  <2>. HIDE DEF F, R, T
  <2>. QED  BY <1>1, <1>2, WFMin
<1>4. PICK m \in B : \A k \in B : ~(<<k..d, m..d>> \in R)
  BY <1>3
<1>5. ASSUME NEW k \in B, ~(k <= m)
      PROVE  FALSE
  <2>1. k \in Nat /\ m \in Nat /\ m < k /\ k <= d
    BY <1>5
  <2>2. k..d \subseteq m..d /\ m \in m..d /\ m \notin k..d
    BY <2>1
  <2>3. <<k..d, m..d>> \in R
    BY <2>1, <2>2 DEF StrictSubsetOrdering
  <2>. QED  BY <1>4, <2>3
<1>. QED  BY <1>5

\* A number that divides another one.
LEMMA ExactDivision ==
  ASSUME NEW n \in Nat, NEW k \in Nat \ {0}, n % k = 0
  PROVE  n \div k \in Nat /\ (n \div k) * k = n
OBVIOUS

\* What a fraction in lowest terms has in common with the one it is made of.
LEMMA FracValue ==
  ASSUME NEW n \in Int, NEW d \in Nat \ {0}
  PROVE  \E g \in Nat \ {0} :
           /\ Frac(n, d).num \in Int /\ Frac(n, d).den \in Nat \ {0}
           /\ Frac(n, d).num * g = n /\ Frac(n, d).den * g = d
<1> DEFINE abs == IF n < 0 THEN -n ELSE n
           B == {k \in 1..d : d % k = 0 /\ abs % k = 0}
           Lowest(k) == /\ d % k = 0 /\ abs % k = 0
                        /\ \A j \in (k + 1)..d : d % j # 0 \/ abs % j # 0
           g == CHOOSE k \in 1..d : Lowest(k)
<1>1. abs \in Nat
  OBVIOUS
<1>2. 1 \in B
  <2>1. d % 1 = 0 /\ abs % 1 = 0
    BY <1>1
  <2>. QED  BY <2>1
<1>3. PICK m \in B : \A k \in B : k <= m
  <2>1. B \in SUBSET (1..d) /\ B # {}
    BY <1>2
  <2>. HIDE DEF B
  <2>. QED  BY <2>1, GreatestNumber
<1>4. m \in 1..d /\ Lowest(m)
  <2>1. ASSUME NEW j \in (m + 1)..d
        PROVE  d % j # 0 \/ abs % j # 0
    <3>1. j \in 1..d /\ ~(j <= m)
      OBVIOUS
    <3>. QED  BY <1>3, <3>1
  <2>. QED  BY <2>1
<1>5. g \in 1..d /\ Lowest(g)
  <2>. HIDE DEF Lowest
  <2>. QED  BY <1>4
<1>6. Frac(n, d) = [num |-> IF n < 0 THEN -(abs \div g) ELSE abs \div g, den |-> d \div g]
  BY DEF Frac
<1>. HIDE DEF g
<1>7. g \in Nat \ {0} /\ d % g = 0 /\ abs % g = 0
  BY <1>5
<1>8. /\ abs \div g \in Nat /\ (abs \div g) * g = abs
      /\ d \div g \in Nat /\ (d \div g) * g = d
  <2>. HIDE DEF abs
  <2>. QED  BY <1>1, <1>7, ExactDivision
<1>9. PICK x, y : x = abs \div g /\ y = d \div g
  OBVIOUS
<1>10. Frac(n, d).num = (IF n < 0 THEN -x ELSE x) /\ Frac(n, d).den = y
  BY <1>6, <1>9
<1>11. y # 0
  BY <1>7, <1>8, <1>9
<1>12. (IF n < 0 THEN -x ELSE x) * g = n
  <2>1. x \in Nat /\ x * g = abs
    BY <1>8, <1>9
  <2>2. (-x) * g = -(x * g)
    BY <1>7, <2>1
  <2>. QED  BY <2>1, <2>2
<1>13. /\ Frac(n, d).num \in Int /\ Frac(n, d).den \in Nat \ {0}
       /\ Frac(n, d).num * g = n /\ Frac(n, d).den * g = d
  <2>1. x \in Nat /\ y \in Nat /\ y * g = d
    BY <1>8, <1>9
  <2>. QED  BY <1>10, <1>11, <1>12, <2>1
<1>. HIDE DEF abs, B, Lowest
<1>. QED  BY <1>7, <1>13

\* A whole number.
LEMMA WholeValue ==
  ASSUME NEW n \in Int
  PROVE  Whole(n).num = n /\ Whole(n).den = 1
<1>1. PICK g \in Nat \ {0} :
           /\ Whole(n).num \in Int /\ Whole(n).den \in Nat \ {0}
           /\ Whole(n).num * g = n /\ Whole(n).den * g = 1
  BY FracValue DEF Whole
<1>2. PICK x, y : x = Whole(n).num /\ y = Whole(n).den
  OBVIOUS
<1>3. g = 1 /\ y = 1
  BY <1>1, <1>2
<1>. QED  BY <1>1, <1>2, <1>3

\* Capital c and a position q at the average price a/b, against the profit p/r.
Even(c, q, a, b, p, r) == c * b * r + q * a * r = p * b

\* A common factor.
LEMMA CancelFactor ==
  ASSUME NEW x \in Int, NEW y \in Int, NEW k \in Int \ {0}, x * k = y * k
  PROVE  x = y
<1>1. (x - y) * k = 0
  OBVIOUS
<1>2. PICK z \in Int : z = x - y
  OBVIOUS
<1>3. z * k = 0
  BY <1>1, <1>2
<1>4. z = 0
  BY <1>3
<1>. QED  BY <1>2, <1>4

\* The new average price is that of everything held.
LEMMA EvenAveraged ==
  ASSUME NEW c \in Int, NEW q \in Int, NEW a \in Int, NEW b \in Int, NEW p \in Int, NEW r \in Int,
         NEW m \in Int, NEW P \in Int, NEW a1 \in Int, NEW b1 \in Int, NEW p1 \in Int, NEW r1 \in Int,
         NEW g \in Int \ {0}, NEW h \in Int \ {0},
         Even(c, q, a, b, p, r),
         a1 * h = q * a + m * P * b, b1 * h = (q + m) * b, p1 * g = p * b, r1 * g = r * b
  PROVE  Even(c - m * P, q + m, a1, b1, p1, r1)
<1> DEFINE c1 == c - m * P
           n == q + m
<1>1. c * b * r + q * a * r = p * b
  BY DEF Even
<1>2. (c1 * b1 * r1 + n * a1 * r1) * (g * h) = c1 * (b1 * h) * (r1 * g) + n * (a1 * h) * (r1 * g)
  OBVIOUS
<1>3. (p1 * b1) * (g * h) = (p1 * g) * (b1 * h)
  OBVIOUS
<1>4. c1 * (n * b) * (r * b) + n * (q * a + m * P * b) * (r * b) = (p * b) * (n * b)
  <2>1. c1 * b * r + (q * a + m * P * b) * r = p * b
    BY <1>1
  <2>2. c1 * (n * b) * (r * b) + n * (q * a + m * P * b) * (r * b)
          = (c1 * b * r + (q * a + m * P * b) * r) * (n * b)
    OBVIOUS
  <2>. QED  BY <2>1, <2>2
<1>5. (c1 * b1 * r1 + n * a1 * r1) * (g * h) = (p1 * b1) * (g * h)
  BY <1>2, <1>3, <1>4
<1>6. g * h \in Int \ {0}
  OBVIOUS
<1>7. c1 * b1 * r1 + n * a1 * r1 = p1 * b1
  <2>1. PICK x \in Int, y \in Int, k \in Int \ {0} :
             x = c1 * b1 * r1 + n * a1 * r1 /\ y = p1 * b1 /\ k = g * h
    BY <1>6
  <2>2. x * k = y * k
    BY <1>5, <2>1
  <2>. QED  BY <2>1, <2>2, CancelFactor
<1>. QED  BY <1>7 DEF Even

\* Everything held is closed, and a new position opened at the trade's price.
LEMMA EvenReopened ==
  ASSUME NEW c \in Int, NEW q \in Int, NEW a \in Int, NEW b \in Int, NEW p \in Int, NEW r \in Int,
         NEW m \in Int, NEW P \in Int, NEW p1 \in Int, NEW r1 \in Int, NEW g \in Int \ {0},
         Even(c, q, a, b, p, r),
         p1 * g = p * b + q * (P * b - a) * r, r1 * g = r * b
  PROVE  Even(c - m * P, q + m, P, 1, p1, r1)
<1>1. c * b * r + q * a * r = p * b
  BY DEF Even
<1>2. ((c - m * P) * r1 + (q + m) * P * r1) * g = (c - m * P) * (r1 * g) + (q + m) * P * (r1 * g)
  OBVIOUS
<1>3. (c - m * P) * (r * b) + (q + m) * P * (r * b) = p * b + q * (P * b - a) * r
  BY <1>1
<1>4. ((c - m * P) * r1 + (q + m) * P * r1) * g = p1 * g
  BY <1>2, <1>3
<1>5. (c - m * P) * r1 + (q + m) * P * r1 = p1
  <2>1. PICK x \in Int : x = (c - m * P) * r1 + (q + m) * P * r1
    OBVIOUS
  <2>2. x * g = p1 * g
    BY <1>4, <2>1
  <2>. QED  BY <2>1, <2>2, CancelFactor
<1>. QED  BY <1>5 DEF Even

\* A part of what is held is closed.
LEMMA EvenClosed ==
  ASSUME NEW c \in Int, NEW q \in Int, NEW a \in Int, NEW b \in Int, NEW p \in Int, NEW r \in Int,
         NEW m \in Int, NEW P \in Int, NEW p1 \in Int, NEW r1 \in Int, NEW g \in Int \ {0},
         Even(c, q, a, b, p, r),
         p1 * g = p * b - m * (P * b - a) * r, r1 * g = r * b
  PROVE  Even(c - m * P, q + m, a, b, p1, r1)
<1>1. c * b * r + q * a * r = p * b
  BY DEF Even
<1>2. ((c - m * P) * b * r1 + (q + m) * a * r1) * g
        = (c - m * P) * b * (r1 * g) + (q + m) * a * (r1 * g)
  OBVIOUS
<1>3. (c - m * P) * b * (r * b) + (q + m) * a * (r * b) = (p * b - m * (P * b - a) * r) * b
  <2>1. (c - m * P) * b * r + (q + m) * a * r = p * b - m * (P * b - a) * r
    BY <1>1
  <2>2. (c - m * P) * b * (r * b) + (q + m) * a * (r * b)
          = ((c - m * P) * b * r + (q + m) * a * r) * b
    OBVIOUS
  <2>. QED  BY <2>1, <2>2
<1>4. (p1 * b) * g = (p1 * g) * b
  OBVIOUS
<1>5. ((c - m * P) * b * r1 + (q + m) * a * r1) * g = (p1 * b) * g
  BY <1>2, <1>3, <1>4
<1>6. (c - m * P) * b * r1 + (q + m) * a * r1 = p1 * b
  <2>1. PICK x \in Int, y \in Int : x = (c - m * P) * b * r1 + (q + m) * a * r1 /\ y = p1 * b
    OBVIOUS
  <2>2. x * g = y * g
    BY <1>5, <2>1
  <2>. QED  BY <2>1, <2>2, CancelFactor
<1>. QED  BY <1>6 DEF Even

\* An account whose fractions are fractions.
Proper(acc) ==
  /\ acc.capital \in Int /\ acc.quantity \in Int
  /\ acc.avg_price.num \in Int /\ acc.avg_price.den \in Nat \ {0}
  /\ acc.realized_pnl.num \in Int /\ acc.realized_pnl.den \in Nat \ {0}

\* It balances against an initial capital.
EvenFrom(acc, initial) ==
  Even(acc.capital - initial, acc.quantity, acc.avg_price.num, acc.avg_price.den,
       acc.realized_pnl.num, acc.realized_pnl.den)

\* A ratio, with a denominator of either sign.
LEMMA RatioValue ==
  ASSUME NEW n \in Int, NEW d \in Int \ {0}
  PROVE  \E g \in Int \ {0} :
           /\ Ratio(n, d).num \in Int /\ Ratio(n, d).den \in Nat \ {0}
           /\ Ratio(n, d).num * g = n /\ Ratio(n, d).den * g = d
<1>1. CASE d > 0
  <2>1. d \in Nat \ {0} /\ Ratio(n, d) = Frac(n, d)
    BY <1>1 DEF Ratio
  <2>2. PICK g \in Nat \ {0} :
           /\ Frac(n, d).num \in Int /\ Frac(n, d).den \in Nat \ {0}
           /\ Frac(n, d).num * g = n /\ Frac(n, d).den * g = d
    BY <2>1, FracValue
  <2>. QED  BY <2>1, <2>2
<1>2. CASE d < 0
  <2>1. -d \in Nat \ {0} /\ -n \in Int /\ Ratio(n, d) = Frac(-n, -d)
    BY <1>2 DEF Ratio
  <2>2. PICK g \in Nat \ {0} :
           /\ Frac(-n, -d).num \in Int /\ Frac(-n, -d).den \in Nat \ {0}
           /\ Frac(-n, -d).num * g = -n /\ Frac(-n, -d).den * g = -d
    BY <2>1, FracValue
  <2>3. PICK x, y : x = Frac(-n, -d).num /\ y = Frac(-n, -d).den
    OBVIOUS
  <2>4. x * (-g) = n /\ y * (-g) = d /\ -g \in Int \ {0}
    <3>1. x \in Int /\ y \in Int /\ x * g = -n /\ y * g = -d
      BY <2>2, <2>3
    <3>. QED  BY <3>1
  <2>5. PICK k \in Int \ {0} : k = -g
    OBVIOUS
  <2>6. /\ Ratio(n, d).num \in Int /\ Ratio(n, d).den \in Nat \ {0}
        /\ Ratio(n, d).num * k = n /\ Ratio(n, d).den * k = d
    BY <2>1, <2>2, <2>3, <2>4, <2>5
  <2>. QED  BY <2>6
<1>. QED  BY <1>1, <1>2

\* The profit realized on z lots, of either sign.
LEMMA RealizedValue ==
  ASSUME NEW acc, Proper(acc), NEW z \in Int, NEW P \in Int
  PROVE  \E g \in Int \ {0} :
           /\ Realized(acc, z, P).num \in Int /\ Realized(acc, z, P).den \in Nat \ {0}
           /\ Realized(acc, z, P).num * g
                = acc.realized_pnl.num * acc.avg_price.den
                    + z * (P * acc.avg_price.den - acc.avg_price.num) * acc.realized_pnl.den
           /\ Realized(acc, z, P).den * g = acc.realized_pnl.den * acc.avg_price.den
<1>1. PICK a, b, p, r : /\ a = acc.avg_price.num /\ b = acc.avg_price.den
                        /\ p = acc.realized_pnl.num /\ r = acc.realized_pnl.den
  OBVIOUS
<1>2. a \in Int /\ b \in Nat \ {0} /\ p \in Int /\ r \in Nat \ {0}
  BY <1>1 DEF Proper
<1>3. PICK n, d : n = p * b + z * (P * b - a) * r /\ d = r * b
  OBVIOUS
<1>4. n \in Int /\ d \in Int \ {0}
  BY <1>2, <1>3
<1>5. Realized(acc, z, P) = Ratio(n, d)
  BY <1>1, <1>3 DEF Realized
<1>6. PICK g \in Int \ {0} :
           /\ Ratio(n, d).num \in Int /\ Ratio(n, d).den \in Nat \ {0}
           /\ Ratio(n, d).num * g = n /\ Ratio(n, d).den * g = d
  BY <1>4, RatioValue
<1>. QED  BY <1>1, <1>3, <1>5, <1>6

\* The average price of what was held and m lots more, of either sign.
LEMMA AveragedValue ==
  ASSUME NEW acc, Proper(acc), NEW m \in Int, NEW P \in Int, acc.quantity + m # 0
  PROVE  \E h \in Int \ {0} :
           /\ Averaged(acc, m, P).num \in Int /\ Averaged(acc, m, P).den \in Nat \ {0}
           /\ Averaged(acc, m, P).num * h
                = acc.quantity * acc.avg_price.num + m * P * acc.avg_price.den
           /\ Averaged(acc, m, P).den * h = (acc.quantity + m) * acc.avg_price.den
<1>1. PICK q, a, b : q = acc.quantity /\ a = acc.avg_price.num /\ b = acc.avg_price.den
  OBVIOUS
<1>2. q \in Int /\ a \in Int /\ b \in Nat \ {0} /\ q + m # 0
  BY <1>1 DEF Proper
<1>3. PICK n, d : n = q * a + m * P * b /\ d = (q + m) * b
  OBVIOUS
<1>4. n \in Int /\ d \in Int \ {0}
  BY <1>2, <1>3
<1>5. Averaged(acc, m, P) = Ratio(n, d)
  BY <1>1, <1>3 DEF Averaged
<1>6. PICK g \in Int \ {0} :
           /\ Ratio(n, d).num \in Int /\ Ratio(n, d).den \in Nat \ {0}
           /\ Ratio(n, d).num * g = n /\ Ratio(n, d).den * g = d
  BY <1>4, RatioValue
<1>. QED  BY <1>1, <1>3, <1>5, <1>6

\* A trade of m lots, of either sign, keeps the balance: it adds to the position, or
\* closes a part of it, or closes it and opens a new one.
LEMMA TradeBalances ==
  ASSUME NEW acc, NEW new, NEW initial \in Int, Proper(acc), EvenFrom(acc, initial),
         NEW m \in Int, NEW P \in Int, NEW z \in Int,
         new.capital = acc.capital - m * P, new.quantity = acc.quantity + m,
         new.realized_pnl = Realized(acc, z, P),
         \/ z = 0 /\ acc.quantity + m # 0 /\ new.avg_price = Averaged(acc, m, P)
         \/ z = acc.quantity /\ new.avg_price = Whole(P)
         \/ z = -m /\ new.avg_price = acc.avg_price
  PROVE  Proper(new) /\ EvenFrom(new, initial)
<1>1. PICK c, q, a, b, p, r, a1, b1, p1, r1 :
        /\ c = acc.capital - initial /\ q = acc.quantity
        /\ a = acc.avg_price.num /\ b = acc.avg_price.den
        /\ p = acc.realized_pnl.num /\ r = acc.realized_pnl.den
        /\ a1 = new.avg_price.num /\ b1 = new.avg_price.den
        /\ p1 = new.realized_pnl.num /\ r1 = new.realized_pnl.den
  OBVIOUS
<1>2. /\ c \in Int /\ q \in Int /\ a \in Int /\ b \in Nat \ {0} /\ p \in Int /\ r \in Nat \ {0}
      /\ acc.capital \in Int
  BY <1>1 DEF Proper
<1>3. Even(c, q, a, b, p, r)
  BY <1>1 DEF EvenFrom
<1>4. PICK g \in Int \ {0} :
        /\ p1 \in Int /\ r1 \in Nat \ {0}
        /\ p1 * g = p * b + z * (P * b - a) * r /\ r1 * g = r * b
  BY <1>1, RealizedValue
<1>5. new.capital - initial = c - m * P /\ new.capital \in Int /\ new.quantity = q + m
  BY <1>1, <1>2
<1>6. SUFFICES a1 \in Int /\ b1 \in Nat \ {0} /\ Even(c - m * P, q + m, a1, b1, p1, r1)
  <2>1. ASSUME a1 \in Int /\ b1 \in Nat \ {0} /\ Even(c - m * P, q + m, a1, b1, p1, r1)
        PROVE  Proper(new) /\ EvenFrom(new, initial)
    <3>1. Proper(new)
      <4>1. new.quantity \in Int
        BY <1>2, <1>5
      <4>. QED  BY <1>1, <1>4, <1>5, <2>1, <4>1 DEF Proper
    <3>2. EvenFrom(new, initial)
      BY <1>1, <1>5, <2>1 DEF EvenFrom
    <3>. QED  BY <3>1, <3>2
  <2>. QED  BY <2>1
<1>7. CASE z = 0 /\ q + m # 0 /\ new.avg_price = Averaged(acc, m, P)
  <2>1. PICK h \in Int \ {0} :
          /\ a1 \in Int /\ b1 \in Nat \ {0}
          /\ a1 * h = q * a + m * P * b /\ b1 * h = (q + m) * b
    BY <1>1, <1>7, AveragedValue
  <2>2. p1 * g = p * b
    BY <1>2, <1>4, <1>7
  <2>3. /\ c \in Int /\ q \in Int /\ a \in Int /\ b \in Int /\ p \in Int /\ r \in Int
        /\ a1 \in Int /\ b1 \in Int /\ p1 \in Int /\ r1 \in Int
    BY <1>2, <1>4, <2>1
  <2>4. a1 * h = q * a + m * P * b /\ b1 * h = (q + m) * b /\ r1 * g = r * b
    BY <1>4, <2>1
  <2>5. Even(c - m * P, q + m, a1, b1, p1, r1)
    BY <1>3, <2>2, <2>3, <2>4, EvenAveraged
  <2>. QED  BY <2>1, <2>5
<1>8. CASE z = q /\ new.avg_price = Whole(P)
  <2>1. a1 = P /\ b1 = 1
    BY <1>1, <1>8, WholeValue
  <2>2. p1 * g = p * b + q * (P * b - a) * r
    BY <1>4, <1>8
  <2>3. b \in Int /\ r \in Int /\ r1 \in Int
    BY <1>2, <1>4
  <2>4. Even(c - m * P, q + m, P, 1, p1, r1)
    BY <1>2, <1>3, <1>4, <2>2, <2>3, EvenReopened
  <2>. QED  BY <2>1, <2>4
<1>9. CASE z = -m /\ new.avg_price = acc.avg_price
  <2>1. a1 = a /\ b1 = b
    BY <1>1, <1>9
  <2>2. p1 * g = p * b - m * (P * b - a) * r
    <3>1. p1 * g = p * b + (-m) * (P * b - a) * r
      BY <1>4, <1>9
    <3>2. (-m) * (P * b - a) * r = -(m * (P * b - a) * r)
      BY <1>2
    <3>. QED  BY <1>2, <3>1, <3>2
  <2>3. b \in Int /\ r \in Int /\ r1 \in Int
    BY <1>2, <1>4
  <2>4. Even(c - m * P, q + m, a, b, p1, r1)
    BY <1>2, <1>3, <1>4, <2>2, <2>3, EvenClosed
  <2>. QED  BY <1>2, <2>1, <2>4
<1>. QED  BY <1>1, <1>7, <1>8, <1>9

\* update_position keeps the balance, for a purchase and for a sale.
LEMMA UpdateBalances ==
  ASSUME NEW acc, NEW initial \in Int, Proper(acc), EvenFrom(acc, initial),
         NEW is_buyer, NEW lots \in Nat, NEW P \in Int
  PROVE  LET new == UpdatePosition(acc, is_buyer, lots, P)
         IN  Proper(new) /\ EvenFrom(new, initial)
<1>1. PICK new, q : new = UpdatePosition(acc, is_buyer, lots, P) /\ q = acc.quantity
  OBVIOUS
<1>2. q \in Int /\ acc.capital \in Int
  BY <1>1 DEF Proper
<1>3. CASE is_buyer
  <2>1. PICK short : short = IF q > 0 THEN 0 ELSE Smaller(lots, -q)
    OBVIOUS
  <2>2. /\ new.capital = acc.capital - lots * P /\ new.quantity = q + lots
        /\ new.realized_pnl = Realized(acc, -short, P)
        /\ new.avg_price = IF q > 0 THEN Averaged(acc, lots, P)
                           ELSE IF q + lots > 0 THEN Whole(P) ELSE acc.avg_price
    BY <1>1, <1>3, <2>1 DEF UpdatePosition, Bought
  <2>3. PICK z, m : z = -short /\ m = lots
    OBVIOUS
  <2>4. z \in Int
    BY <1>2, <2>1, <2>3 DEF Smaller
  <2>5. \/ z = 0 /\ q + m # 0 /\ new.avg_price = Averaged(acc, m, P)
        \/ z = q /\ new.avg_price = Whole(P)
        \/ z = -m /\ new.avg_price = acc.avg_price
    <3>1. CASE q > 0
      <4>1. z = 0
        <5>1. short = 0
          BY <2>1, <3>1
        <5>2. \A k \in Int : -k = 0 - k
          OBVIOUS
        <5>3. short \in Int
          BY <5>1
        <5>4. z = 0 - short
          BY <2>3, <5>2, <5>3
        <5>. QED  BY <5>1, <5>4
      <4>. QED  BY <1>2, <2>2, <2>3, <3>1, <4>1
    <3>2. CASE q <= 0 /\ q + lots > 0
      <4>1. z = q
        BY <1>2, <2>1, <2>3, <3>2 DEF Smaller
      <4>. QED  BY <1>2, <2>2, <3>2, <4>1
    <3>3. CASE q <= 0 /\ ~(q + lots > 0)
      <4>1. z = -m
        BY <1>2, <2>1, <2>3, <3>3 DEF Smaller
      <4>. QED  BY <1>2, <2>2, <3>3, <4>1
    <3>. QED  BY <1>2, <3>1, <3>2, <3>3
  <2>6. m \in Int /\ new.capital = acc.capital - m * P /\ new.quantity = q + m
    BY <2>2, <2>3
  <2>. QED  BY <1>1, <2>2, <2>3, <2>4, <2>5, <2>6, TradeBalances
<1>4. CASE ~is_buyer
  <2>1. PICK z, m : z = (IF q > 0 THEN Smaller(lots, q) ELSE 0) /\ m = -lots
    OBVIOUS
  <2>2. /\ new.capital = acc.capital + lots * P /\ new.quantity = q - lots
        /\ new.realized_pnl = Realized(acc, z, P)
        /\ new.avg_price = IF q > 0 THEN (IF q - lots < 0 THEN Whole(P) ELSE acc.avg_price)
                           ELSE IF q < 0 THEN Averaged(acc, m, P) ELSE Whole(P)
    BY <1>1, <1>4, <2>1 DEF UpdatePosition, Sold
  <2>3. z \in Int /\ m \in Int
    BY <1>2, <2>1 DEF Smaller
  <2>4. new.capital = acc.capital - m * P /\ new.quantity = q + m
    BY <1>2, <2>1, <2>2
  <2>5. \/ z = 0 /\ q + m # 0 /\ new.avg_price = Averaged(acc, m, P)
        \/ z = q /\ new.avg_price = Whole(P)
        \/ z = -m /\ new.avg_price = acc.avg_price
    BY <1>2, <2>1, <2>2 DEF Smaller
  <2>. QED  BY <1>1, <2>2, <2>3, <2>4, <2>5, TradeBalances
<1>. QED  BY <1>3, <1>4

\* An account is a record of the four amounts.
Complete(acc) ==
  acc = [capital |-> acc.capital, quantity |-> acc.quantity,
         avg_price |-> acc.avg_price, realized_pnl |-> acc.realized_pnl]

\* The account and what is to be booked in it.
BalanceInv ==
  Complete(account) /\ Proper(account) /\ EvenFrom(account, Capital)

\* The new actor's account.
LEMMA InitBalance == Init => BalanceInv
<1> SUFFICES ASSUME Init PROVE BalanceInv
  OBVIOUS
<1>1. account = [capital |-> Capital, quantity |-> 0, avg_price |-> Whole(0), realized_pnl |-> Whole(0)]
  BY DEF Init, Account
<1>2. Whole(0).num = 0 /\ Whole(0).den = 1
  BY WholeValue
<1>3. Capital \in Int
  BY TradersAssumption
<1>4. Proper(account)
  BY <1>1, <1>2, <1>3 DEF Proper
<1>5. Complete(account)
  BY <1>1 DEF Complete
<1>6. EvenFrom(account, Capital)
  <2>1. account.capital - Capital = 0
    BY <1>1, <1>3
  <2>. QED  BY <1>1, <1>2, <2>1 DEF EvenFrom, Even
<1>. QED  BY <1>4, <1>5, <1>6 DEF BalanceInv

\* Booking a notification.
LEMMA DeliverKeepsBalance ==
  ASSUME QuoteInv, BalanceInv, Deliver
  PROVE  BalanceInv'
<1>1. PICK n, acc : n = Head(calls) /\ acc = UpdatePosition(account, n.is_buyer, n.lots, n.price)
  OBVIOUS
<1>2. account' = acc
  BY <1>1 DEF Deliver
<1>3. n.lots \in Nat /\ n.price \in Int
  <2>1. n \in Notice
    BY <1>1, HeadTailProperties DEF Deliver, QuoteInv, Shape
  <2>. QED  BY <2>1 DEF Notice
<1>4. Capital \in Int
  BY TradersAssumption
<1>5. Proper(acc) /\ EvenFrom(acc, Capital)
  BY <1>1, <1>3, <1>4, UpdateBalances DEF BalanceInv
<1>6. Complete(acc)
  BY <1>1 DEF Complete, UpdatePosition, Bought, Sold
<1>. QED  BY <1>2, <1>5, <1>6 DEF BalanceInv

\* Nothing else is booked.
LEMMA NextKeepsBalance ==
  ASSUME QuoteInv, BalanceInv, [Next]_vars
  PROVE  BalanceInv'
<1>1. CASE Deliver
  BY <1>1, DeliverKeepsBalance
<1>2. SUFFICES ASSUME ~Deliver PROVE account' = account
  BY <1>1 DEF BalanceInv
<1>3. CASE OthersOrder \/ OpenSession \/ CloseSession \/ Decide \/ DecideTrend
  BY <1>3 DEF OthersOrder, OpenSession, CloseSession, Decide, DecideTrend
<1>4. CASE \E id \in ClientIds, s \in Side, price \in Prices :
         \E q \in Lots[id] : ClientOrder(id, s, q, price)
  BY <1>4 DEF ClientOrder
<1>5. CASE \E id \in Ids : ClientCancel(id)
  BY <1>5 DEF ClientCancel
<1>6. CASE \E view \in {"thin", "valid"} : Observe(view)
  BY <1>6 DEF Observe
<1>7. CASE \E mid \in MidPrices : ObservePrice(mid)
  BY <1>7 DEF ObservePrice
<1>8. CASE Proceed
  BY <1>2, <1>8 DEF Proceed, MeetOwn, MeetOther, Settle, ClientCancelled, CancelQuote, QuoteCancelled,
     PlaceQuotes, SubmitQuote, QuotesPlaced
<1>9. CASE UNCHANGED vars
  BY <1>9 DEF vars
<1>. QED  BY <1>3, <1>4, <1>5, <1>6, <1>7, <1>8, <1>9 DEF Next, Outside, Going

\* The accounts balance through every trade, closing and crossing of zero, whatever
\* the average prices (actor.cpp:88-168): capital and the position at its average
\* price are worth the initial capital and the realized profit.
THEOREM AccountsBalance == Spec => []BooksBalance
<1>1. BalanceInv => BooksBalance
  <2> SUFFICES ASSUME BalanceInv PROVE BooksBalance
    OBVIOUS
  <2>1. PICK c, q, a, p : account = [capital |-> c, quantity |-> q, avg_price |-> a, realized_pnl |-> p]
    BY DEF BalanceInv, Complete
  <2>2. [account EXCEPT !.capital = @ - Capital]
          = [capital |-> c - Capital, quantity |-> q, avg_price |-> a, realized_pnl |-> p]
    BY <2>1
  <2>3. Even(c - Capital, q, a.num, a.den, p.num, p.den)
    BY <2>1 DEF BalanceInv, EvenFrom
  <2>4. (c - Capital) * a.den * p.den + q * a.num * p.den = p.num * a.den
    BY <2>3 DEF Even
  <2>. QED  BY <2>2, <2>4 DEF BooksBalance, Balanced
<1>2. QuoteInv /\ BalanceInv /\ [Next]_vars => QuoteInv' /\ BalanceInv'
  BY NextKeepsQuotes, NextKeepsBalance
<1>. QED  BY <1>1, <1>2, InitQuotes, InitBalance, PTL DEF Spec
==============================================================================
