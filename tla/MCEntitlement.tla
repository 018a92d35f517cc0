------------------------------- MODULE MCEntitlement ------------------------
(***************************************************************************)
(* Instances of EstateEntitlement for TLC.  The contract treats all        *)
(* addresses alike, so issuers are interchangeable, and so are the others. *)
(***************************************************************************)
EXTENDS EstateEntitlement, TLC

AddrSymmetry == Permutations(Issuers) \cup Permutations(Addr \ Issuers)

\* Bound: a total supply never falls, and from HalfWord on some of the dividend
\* properties say nothing.
SmallSupply == \A t \in Token : totalSupply[t] < HalfWord

\* Bound: once the last dividend is paid nothing is due any more, and none of
\* the properties says anything.
StillDue == \A t \in Token : MaxIndex \notin paid[t]

NoDividend == \A t \in Token : dividendIndex[t] = 0

\* One of two issuers has no part in it, and has nobody whitelisted; the other
\* has whitelisted all the rest.
OneIssuer ==
    \E s \in Issuers :
        /\ \A t \in Token : creator[t] # s /\ amount[t][s] = 0
        /\ whitelist = (Addr \ {s}) \X (Issuers \ {s})

\* No estate is created without shares, and no call moves none of them.
NoZeros ==
    \A t \in Token : /\ ownerCount[t] = Cardinality(Holders(t))
                     /\ \A a \in moved[t] : delta[t][a][dividendIndex[t]] # 0

\* Bound: during the last dividend one address at most moves shares again; it
\* may overwrite a delta, and during the others any address may.
FewOverwritten ==
    \A t \in Token : dividendIndex[t] = MaxIndex => Cardinality(movedAgain[t]) <= 1

\* Bound: with half a word of shares or more, what is looked at is the first
\* dividend, and nobody moves shares twice during it.
FewOfHalfWord ==
    \A t \in Token : \/ totalSupply[t] < HalfWord
                     \/ dividendIndex[t] = 1 /\ movedAgain[t] = {} /\ movedToSelf[t] = {}

\* Bound: nothing about holders depends on a dividend.  Of all that holders
\* can do with any number of shares, what follows a dividend is looked at
\* with few calls, one issuer, and no shares of zero.
FewWithDividend ==
    NoDividend \/ (FewOfHalfWord /\ StillDue /\ NoZeros /\ OneIssuer /\ FewOverwritten)
=============================================================================
