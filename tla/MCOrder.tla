------------------------------- MODULE MCOrder -------------------------------
(***************************************************************************)
(* Instances of OrderFlow for TLC: one estate, sellers and buyers.         *)
(***************************************************************************)
EXTENDS OrderFlow, TLC

CONSTANTS Seller, Buyer

PagesOf(users) == [user : users, estate : Estate]
SellerPages == PagesOf(Seller)
BuyerPages == PagesOf(Buyer)
AllPages == PagesOf(Seller \cup Buyer)

\* One page of the sellers at a time has a sale under way, and there is no
\* more than one.  What follows a broadcast that failed, or an outcome that was
\* reported, is left out.
OneSale ==
    /\ told = {}
    /\ \A p, q \in OwnedPage : sale[p].pc = "idle" \/ sale[q].pc = "idle" \/ p = q
    /\ \A p \in OwnedPage : sale[p].pc # "stuck"
    /\ Len(initiated) <= 1

Blank(p) == owned[p] = NoView
AllBlank(users) == \A p \in OwnedPage : p.user \in users => Blank(p)

NoAnswers == \A p \in MarketPage : answer[p] = <<>>
NoOffers == \A p \in MarketPage, a \in Attempt : Buying(p, a, "idle")

\* Bound, of what buyers do with the offers of two sellers: one sale, and after
\* its broadcast one owned page that shows something, while nothing is under
\* way on a market page; no offer is cancelled.
BuyersPart ==
    /\ OneSale
    /\ AllBlank(Buyer)
    /\ \A r \in RequestId : request[r].status # "CANCELED"
    /\ initiated # <<>> =>
        /\ \A p, q \in OwnedPage : p = q \/ Blank(p) \/ Blank(q)
        /\ AllBlank(User) \/ (NoAnswers /\ NoOffers)

\* Bound, of what sellers do with the offers for their trades: one of them.  No
\* answer is on its way to a market page while an owned page of a buyer shows
\* something, or one of a seller is stuck.
SellersPart ==
    \E s \in Seller :
        /\ \A t \in TradeId : t = 1 /\ trade[t].seller # s
        /\ AllBlank({s})
        /\ NoAnswers \/ (AllBlank(Buyer) /\ \A p \in OwnedPage : sale[p].pc # "stuck")

Parts == BuyersPart \/ SellersPart

TxSymmetry == Permutations(Tx)
TxSellerSymmetry == Permutations(Tx) \cup Permutations(Seller)
=============================================================================
