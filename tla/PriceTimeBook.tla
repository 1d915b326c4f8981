---------------------------- MODULE PriceTimeBook ----------------------------
(***************************************************************************)
(* What an order book with price-time priority promises (README.md:31,      *)
(* engine/src/order_book.hpp:171), without levels, lookup maps, iterators   *)
(* or loops: a set of resting orders, of which only the first of each side  *)
(* ever executes, and which takes a new order only when no two of the       *)
(* resting ones can still be matched. OrderBook is shown to implement it.   *)
(***************************************************************************)
EXTENDS Integers, Sequences

CONSTANTS Prices, Quantities

VARIABLES
  accepted,  (* every order taken so far, in arrival order                   *)
  resting    (* the orders still in the book, by arrival                     *)

book == <<accepted, resting>>

Sides == {"BUY", "SELL"}
Entry(s, p, q) == [side |-> s, price |-> p, remaining |-> q]

\* g comes before h: a better price, or the same price and an earlier arrival.
Before(g, h) ==
  /\ accepted[g].side = accepted[h].side
  /\ \/ accepted[g].price = accepted[h].price /\ g < h
     \/ accepted[g].side = "BUY" /\ accepted[g].price > accepted[h].price
     \/ accepted[g].side = "SELL" /\ accepted[g].price < accepted[h].price

First(h) == h \in resting /\ \A g \in resting : ~Before(g, h)

Matchable(b, a) ==
  /\ accepted[b].side = "BUY" /\ accepted[a].side = "SELL"
  /\ accepted[b].price >= accepted[a].price

Settled == \A b, a \in resting : ~Matchable(b, a)

Init == accepted = << >> /\ resting = {}

Accept(s, p, q) ==
  /\ Settled
  /\ accepted' = Append(accepted, Entry(s, p, q))
  /\ resting' = resting \cup {Len(accepted) + 1}

\* The quantity left of h falls by q, and it leaves the book when none is.
Reduced(h, q) == [accepted[h] EXCEPT !.remaining = @ - q]
Exhausted(h, q) == accepted[h].remaining = q

\* The first buy meets the first sell for all that both have.
Match ==
  \E b, a \in resting :
    /\ First(b) /\ First(a) /\ Matchable(b, a)
    /\ LET q == IF accepted[b].remaining <= accepted[a].remaining
                THEN accepted[b].remaining ELSE accepted[a].remaining
       IN  /\ q > 0
           /\ accepted' = [accepted EXCEPT ![b] = Reduced(b, q), ![a] = Reduced(a, q)]
           /\ resting' = resting \ {h \in {b, a} : Exhausted(h, q)}

\* A market order takes from the first order of a side.
Take ==
  /\ Settled
  /\ \E h \in resting : \E q \in 1..accepted[h].remaining :
       /\ First(h)
       /\ accepted' = [accepted EXCEPT ![h] = Reduced(h, q)]
       /\ resting' = resting \ {g \in {h} : Exhausted(g, q)}

\* Orders leave the book at their clients' request, or are replaced by a later
\* order on the same side.
Withdraw ==
  /\ Settled
  /\ \E out \in (SUBSET resting) \ {{}} : resting' = resting \ out
  /\ UNCHANGED accepted

Replace ==
  /\ Settled
  /\ \E h \in resting, q \in Quantities, p \in Prices :
       /\ accepted' = Append(accepted, Entry(accepted[h].side, p, q))
       /\ resting' = (resting \ {h}) \cup {Len(accepted) + 1}

Next ==
  \/ \E s \in Sides, p \in Prices, q \in Quantities : Accept(s, p, q)
  \/ Match
  \/ Take
  \/ Withdraw
  \/ Replace

Spec == Init /\ [][Next]_book
==============================================================================
