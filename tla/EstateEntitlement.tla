-------------------------- MODULE EstateEntitlement --------------------------
(***************************************************************************)
(* EstateToken with the history a dividend is about: what every address    *)
(* held when the pending dividend was registered, and which addresses have *)
(* had their stored delta written since, once and more than once.          *)
(***************************************************************************)
EXTENDS EstateToken

VARIABLES
    entitled,    \* holdings at the last registerDividend of each token
    moved,       \* addresses that took part in a call since
    movedAgain,  \* addresses that took part in more than one call since
    movedToSelf  \* addresses that made a transfer to themselves since

history == <<entitled, moved, movedAgain, movedToSelf>>
hvars == <<vars, history>>

HInit ==
    /\ Init
    /\ entitled = [t \in Token |-> [a \in Addr |-> 0]]
    /\ moved = [t \in Token |-> {}]
    /\ movedAgain = [t \in Token |-> {}]
    /\ movedToSelf = [t \in Token |-> {}]

Note(t, from, to) ==
    LET who == {from, to} \cap Addr
    IN  /\ moved' = [moved EXCEPT ![t] = @ \cup who]
        /\ movedAgain' = [movedAgain EXCEPT ![t] = @ \cup (who \cap moved[t])]
        /\ movedToSelf' = [movedToSelf EXCEPT ![t] = @ \cup ({from} \cap {to})]
        /\ UNCHANGED entitled

HMint(s, t, a, v) ==
    /\ Mint(s, t, a, v)
    /\ IF Unpaid(t) THEN Note(t, NoAddr, a) ELSE UNCHANGED history

HTransfer(s, t, a, v) ==
    /\ Transfer(s, t, a, v)
    /\ IF Unpaid(t) THEN Note(t, s, a) ELSE UNCHANGED history

HRegisterDividend(s, t, p) ==
    /\ RegisterDividend(s, t, p)
    /\ entitled' = [entitled EXCEPT ![t] = amount[t]]
    /\ moved' = [moved EXCEPT ![t] = {}]
    /\ movedAgain' = [movedAgain EXCEPT ![t] = {}]
    /\ movedToSelf' = [movedToSelf EXCEPT ![t] = {}]

HNext ==
    \/ \E s \in Issuers, v \in Shares : Create(s, v) /\ UNCHANGED history
    \/ \E s \in Addr, t \in Token, a \in Addr, v \in Shares : HMint(s, t, a, v)
    \/ \E s \in Addr, t \in Token, a \in Addr, v \in Shares : HTransfer(s, t, a, v)
    \/ \E s \in Issuers, a \in Addr : AddToWhitelist(s, a) /\ UNCHANGED history
    \/ \E s \in Addr, t \in Token, p \in PerShare : HRegisterDividend(s, t, p)
    \/ \E s \in Addr, t \in Token, i \in Index :
            PayDividend(s, t, i) /\ UNCHANGED history

HSpec == HInit /\ [][HNext]_hvars
-----------------------------------------------------------------------------
PaidForHeld(t, a) == ShareOf(t, a) = [val |-> entitled[t][a], ok |-> TRUE]

\* Until the dividend is paid, an address that took part in at most one
\* transfer or mint since the registration is paid for exactly the shares it
\* held at the registration, or dividendOf returns an error: never for another
\* number of shares.  With less than half a word of shares there is no error;
\* with more the conversion of a share count to int64 changes its sign, and the
\* checked operations must notice (estate.go:194-197 and 255-259,
\* dividend.go:90-102).
EntitlementKept ==
    \A t \in Token : Unpaid(t) =>
        \A a \in Addr \ (movedAgain[t] \cup movedToSelf[t]) :
            /\ ShareOf(t, a).ok => ShareOf(t, a).val = entitled[t][a]
            /\ totalSupply[t] < HalfWord => ShareOf(t, a).ok

\* What dividend_test.go:78 and :97 say of the calls made while a dividend
\* waits for payment, for any number of calls: they do not affect what it pays
\* to the addresses they move shares between.
DividendUnaffected ==
    \A t \in Token : Unpaid(t) /\ totalSupply[t] < HalfWord =>
        \A a \in Addr \ movedToSelf[t] : PaidForHeld(t, a)
=============================================================================
