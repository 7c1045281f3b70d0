----------------------------- MODULE PriceTime -----------------------------
(***************************************************************************)
(* Orderbooks as sequences of orders: sorted by price, the oldest first at *)
(* the same price.  An order is a record with at least an id and a price.  *)
(* LinkedBook shows that the linked lists of the code are such sequences.  *)
(***************************************************************************)
EXTENDS Naturals, Sequences, FiniteSetsExt, SequencesExt

OrderTypes == {"LIMIT_ORDER", "MARKET_ORDER"}

\* Price p is better than price q in a book of the given direction.
Before(descending, p, q) == IF descending THEN p > q ELSE p < q

\* The book s with order o where a walk from its start stops: before the first order
\* that it goes before.
Place(descending, s, o) ==
    LET behind == {n \in DOMAIN s : Before(descending, o.price, s[n].price)}
    IN  InsertAt(s, IF behind = {} THEN Len(s) + 1 ELSE Min(behind), o)

\* The book s without the orders of S.
Without(s, S) ==
    LET kept[n \in 0 .. Len(s)] ==
            IF n = 0 THEN <<>>
            ELSE IF s[n] \in S THEN kept[n - 1]
            ELSE Append(kept[n - 1], s[n])
    IN  kept[Len(s)]

\* The orders of the book s.
In(s) == {s[n] : n \in DOMAIN s}
=============================================================================
