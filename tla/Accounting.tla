----------------------------- MODULE Accounting -----------------------------
(***************************************************************************)
(* Actor::update_position (engine/src/actor.cpp): what one trade does to an *)
(* actor's position in an instrument and to its capital. Prices and         *)
(* quantities are integers here, so that averages are exact fractions; the  *)
(* rounding of floating point is not modelled.                             *)
(***************************************************************************)
LOCAL INSTANCE Integers

\* The fraction n/d in lowest terms, for d > 0.
Frac(n, d) ==
  LET abs == IF n < 0 THEN -n ELSE n
      g == CHOOSE k \in 1..d :
             /\ d % k = 0 /\ abs % k = 0
             /\ \A j \in (k + 1)..d : d % j # 0 \/ abs % j # 0
  IN  [num |-> IF n < 0 THEN -(abs \div g) ELSE abs \div g, den |-> d \div g]

\* n/d with a denominator of either sign.
Ratio(n, d) == IF d < 0 THEN Frac(-n, -d) ELSE Frac(n, d)

Whole(n) == Frac(n, 1)
Smaller(x, y) == IF x <= y THEN x ELSE y

\* A new actor; its capital is counted from what it started with.
Account == [capital |-> 0, quantity |-> 0, avg_price |-> Whole(0), realized_pnl |-> Whole(0)]

\* (quantity * avg_price + change * price) / (quantity + change)
Averaged(account, change, price) ==
  LET avg == account.avg_price
  IN  Ratio(account.quantity * avg.num + change * price * avg.den,
            (account.quantity + change) * avg.den)

\* realized_pnl plus quantity * (price - avg_price).
Realized(account, quantity, price) ==
  LET avg == account.avg_price
      pnl == account.realized_pnl
  IN  Ratio(pnl.num * avg.den + quantity * (price * avg.den - avg.num) * pnl.den,
            pnl.den * avg.den)

\* A purchase closes a short position before it opens a long one.
Bought(account, quantity, price) ==
  LET old == account.quantity
      new == old + quantity
      short_qty == IF old > 0 THEN 0 ELSE Smaller(quantity, -old)
  IN  [capital |-> account.capital - quantity * price,
       quantity |-> new,
       avg_price |-> IF old > 0 THEN Averaged(account, quantity, price)
                     ELSE IF new > 0 THEN Whole(price) ELSE account.avg_price,
       realized_pnl |-> Realized(account, -short_qty, price)]

\* A sale that crosses zero keeps the average price of the long position.
Sold_KeepsAverage(account, quantity, price) ==
  LET old == account.quantity
      long_qty == IF old > 0 THEN Smaller(quantity, old) ELSE 0
  IN  [capital |-> account.capital + quantity * price,
       quantity |-> old - quantity,
       avg_price |-> IF old > 0 THEN account.avg_price
                     ELSE IF old < 0 THEN Averaged(account, -quantity, price) ELSE Whole(price),
       realized_pnl |-> Realized(account, long_qty, price)]

\* A sale closes a long position before it opens a short one.
Sold(account, quantity, price) ==
  LET old == account.quantity
      new == old - quantity
      long_qty == IF old > 0 THEN Smaller(quantity, old) ELSE 0
  IN  [capital |-> account.capital + quantity * price,
       quantity |-> new,
       avg_price |-> IF old > 0 THEN (IF new < 0 THEN Whole(price) ELSE account.avg_price)
                     ELSE IF old < 0 THEN Averaged(account, -quantity, price) ELSE Whole(price),
       realized_pnl |-> Realized(account, long_qty, price)]

UpdatePosition(account, is_buyer, quantity, price) ==
  IF is_buyer THEN Bought(account, quantity, price) ELSE Sold(account, quantity, price)

\* capital + quantity * avg_price = realized_pnl, over the common denominator.
Balanced(account) ==
  LET avg == account.avg_price
      pnl == account.realized_pnl
  IN  account.capital * avg.den * pnl.den + account.quantity * avg.num * pnl.den
        = pnl.num * avg.den
==============================================================================
