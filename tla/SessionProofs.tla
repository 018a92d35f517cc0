---------------------------- MODULE SessionProofs ----------------------------
(***************************************************************************)
(* Theorems about Session, for any users, any bound on the balances, and   *)
(* any number of requests under way at a time.                             *)
(***************************************************************************)
EXTENDS Session, TLAPS

\* An account with a balance that it has had, or none.
Genuine(acct) ==
    \/ acct = Default
    \/ acct.who \in User /\ acct.balance \in had[acct.who]

\* What is under way asks for somebody, and says of him only what has been so.
OwnInv ==
    /\ \A u \in User : 0 \in had[u] /\ balance[u] \in had[u]
    /\ Genuine(shown) /\ Genuine(seller)
    /\ \A s \in Slot : IF flight[s].kind = "none" THEN flight[s] = NoRequest
                       ELSE flight[s].user.who \in User /\ Genuine(flight[s].user)

\* All requests are for the account that was selected last or for strays, and as
\* long as there is none that sets it, one of these is shown.
Expected == {stored} \cup strays

StrayInv ==
    /\ \A s \in Slot : flight[s].kind # "none" => flight[s].user.who \in Expected
    /\ (\A s \in Slot : flight[s].kind # "set") => shown.who \in Expected

IInv == TypeOK /\ OwnInv /\ PollAlive /\ StrayInv
-----------------------------------------------------------------------------
LEMMA DefaultTypes ==
    /\ 0 \in Balance /\ Default \in Account /\ NoRequest \in Request
    /\ Default.who = NoUser /\ NoRequest.kind = "none" /\ ~NoRequest.answered
    /\ \A u \in User : Restored(u) \in Account /\ u # NoUser
  BY SessionAssumption DEF Balance, Default, Account, NoRequest, Request, Restored

LEMMA AskedTypes ==
    ASSUME NEW kind \in {"poll", "set"}, NEW user \in Account
    PROVE  /\ Asked(kind, user) \in Request
           /\ Asked(kind, user).kind = kind /\ Asked(kind, user).user = user
           /\ ~Asked(kind, user).answered
  BY DEF Asked, Request

\* A page that is loaded has one request under way, for the stored account.
LEMMA MountedHolds ==
    ASSUME TypeOK, NEW f \in Mounted(stored)
    PROVE  /\ f \in [Slot -> Request]
           /\ \A s \in Slot :
                \/ f[s] = NoRequest
                \/ stored \in User /\ f[s] = Asked("set", Restored(stored))
           /\ stored # NoUser => \E s \in Slot : f[s] = Asked("set", Restored(stored))
<1>1. CASE stored = NoUser
  BY <1>1, DefaultTypes DEF Mounted
<1>2. CASE stored # NoUser
  <2>1. stored \in User /\ Asked("set", Restored(stored)) \in Request
    BY <1>2, DefaultTypes, AskedTypes DEF TypeOK
  <2> QED  BY <1>2, <2>1, DefaultTypes DEF Mounted
<1> QED  BY <1>1, <1>2

LEMMA InitHolds == Init => IInv
<1> SUFFICES ASSUME Init PROVE IInv
  OBVIOUS
<1>1. TypeOK
  <2>1. Mounted(stored) \subseteq [Slot -> Request]
    BY DefaultTypes, AskedTypes DEF Init, Mounted
  <2>2. had \in [User -> SUBSET Balance]
    BY DefaultTypes DEF Init
  <2> QED  BY <2>1, <2>2, DefaultTypes DEF Init, TypeOK
<1>2. \A s \in Slot : \/ flight[s] = NoRequest
                      \/ stored \in User /\ flight[s] = Asked("set", Restored(stored))
  BY <1>1, MountedHolds DEF Init
<1>3. OwnInv
  <2>1. \A u \in User : 0 \in had[u] /\ balance[u] \in had[u]
    BY DEF Init
  <2>2. \A u \in User : Genuine(Restored(u)) /\ Restored(u).who = u
    BY <2>1 DEF Genuine, Restored
  <2>3. Genuine(shown) /\ Genuine(seller)
    BY DEF Init, Genuine
  <2> QED  BY <1>2, <2>1, <2>2, <2>3, DefaultTypes, AskedTypes DEF OwnInv
<1>4. PollAlive
  BY DefaultTypes DEF Init, PollAlive
<1>5. StrayInv
  <2>1. \A u \in User : Restored(u).who = u
    BY DEF Restored
  <2>2. stored # NoUser => \E s \in Slot : flight[s] = Asked("set", Restored(stored))
    BY <1>1, MountedHolds DEF Init
  <2>3. stored = NoUser => shown.who = stored
    BY DefaultTypes DEF Init
  <2> QED  BY <1>1, <1>2, <2>1, <2>2, <2>3, DefaultTypes, AskedTypes DEF StrayInv, Expected, TypeOK
<1> QED  BY <1>1, <1>3, <1>4, <1>5 DEF IInv
-----------------------------------------------------------------------------
(* A request that begins, and one that ends. *)

LEMMA RequestPut ==
    ASSUME TypeOK, NEW s \in Slot, NEW r \in Request, flight' = [flight EXCEPT ![s] = r]
    PROVE  /\ flight' \in [Slot -> Request]
           /\ \A t \in Slot : flight'[t] = IF t = s THEN r ELSE flight[t]
  BY DEF TypeOK

\* setUser, called with an account of which the page has been told.
LEMMA SetUserKeeps ==
    ASSUME IInv, NEW s \in Slot, NEW user \in Account,
           Genuine(user), user.who \in User, SetUser(s, user),
           stored' \in User \cup {NoUser}, seller' \in Account, Genuine(seller'),
           strays' \subseteq User, user.who \in Expected',
           \A t \in Slot \ Free : flight[t].user.who \in Expected',
           UNCHANGED <<shown, armed, balance, had>>
    PROVE  IInv'
<1> DEFINE r == Asked("set", user)
<1>1. /\ r \in Request /\ r.kind = "set" /\ r.user = user
      /\ r # NoRequest
  BY AskedTypes, DefaultTypes
<1>2. /\ s \in Free /\ flight' = [flight EXCEPT ![s] = r]
  BY DEF SetUser
<1> HIDE DEF r
<1>3. /\ flight' \in [Slot -> Request]
      /\ \A t \in Slot : flight'[t] = IF t = s THEN r ELSE flight[t]
  BY <1>1, <1>2, RequestPut DEF IInv
<1>4. TypeOK'
  BY <1>2, <1>3 DEF IInv, TypeOK, Account, Balance
<1>5. OwnInv'
  BY <1>1, <1>3 DEF IInv, OwnInv, Genuine
<1>6. PollAlive'
  BY <1>1, <1>2, <1>3 DEF IInv, PollAlive, Pending, Free
<1>7. StrayInv'
  BY <1>1, <1>2, <1>3 DEF StrayInv, Expected, Free, Pending
<1> QED  BY <1>4, <1>5, <1>6, <1>7 DEF IInv

\* The page goes on with an account that it has been told of.
LEMMA TypesOfSlot ==
    ASSUME IInv, NEW s \in Slot, flight[s].kind # "none"
    PROVE  /\ flight[s] \in Request /\ flight[s].user \in Account
           /\ flight[s].user.who \in User /\ flight[s].user # Default
           /\ flight[s].user.balance \in had[flight[s].user.who]
           /\ flight[s].user.balance \in Balance
           /\ flight[s].kind \in {"poll", "set"}
<1>1. flight[s] \in Request
  BY DEF IInv, TypeOK
<1>2. flight[s].user.who \in User /\ Genuine(flight[s].user)
  BY DEF IInv, OwnInv
<1> QED  BY <1>1, <1>2, DefaultTypes DEF Request, Account, Genuine

\* An answer, or a failure, changes the balance of the account at most.
LEMMA AnsweredKeeps ==
    ASSUME IInv, NEW s \in Slot, NEW r \in Request, flight[s].kind # "none",
           r.kind = flight[s].kind, r.user.who = flight[s].user.who,
           r.user.balance \in had[r.user.who],
           flight' = [flight EXCEPT ![s] = r],
           UNCHANGED <<stored, shown, armed, seller, balance, had, strays>>
    PROVE  IInv'
<1>1. /\ flight' \in [Slot -> Request]
      /\ \A t \in Slot : flight'[t] = IF t = s THEN r ELSE flight[t]
  BY RequestPut DEF IInv
<1>2. flight[s].user.who \in User
  BY TypesOfSlot
<1>3. TypeOK'
  BY <1>1 DEF IInv, TypeOK, Account, Balance
<1>4. OwnInv'
  BY <1>1, <1>2 DEF IInv, OwnInv, Genuine
<1>5. PollAlive'
  BY <1>1 DEF IInv, PollAlive, Pending
<1>6. StrayInv'
  BY <1>1 DEF IInv, StrayInv, Expected
<1> QED  BY <1>3, <1>4, <1>5, <1>6 DEF IInv
-----------------------------------------------------------------------------
LEMMA NextHolds == IInv /\ [Next]_vars => IInv'
<1> SUFFICES ASSUME IInv, [Next]_vars PROVE IInv'
  OBVIOUS
<1>1. ASSUME NEW s \in Slot, SaleEnds(s) PROVE IInv'
  <2>1. PICK user \in Account : SetUser(s, user) /\ AskedFor(user) /\ user # Default
                               /\ user \in {shown, seller}
    BY <1>1, DefaultTypes DEF SaleEnds, IInv, TypeOK
  <2>2. user.who \in User /\ Genuine(user)
    BY <2>1 DEF IInv, OwnInv, Genuine
  <2>3. stored' = stored /\ seller' = Default /\ UNCHANGED <<shown, armed, balance, had>>
    BY <1>1 DEF SaleEnds
  <2>4. /\ strays' \subseteq User /\ user.who \in Expected'
        /\ \A t \in Slot \ Free : flight[t].user.who \in Expected'
    BY <2>1, <2>2, <2>3 DEF AskedFor, Expected, IInv, TypeOK, StrayInv, Free, Pending
  <2>5. stored' \in User \cup {NoUser} /\ seller' \in Account /\ Genuine(seller')
    BY <2>3, DefaultTypes DEF IInv, TypeOK, Genuine
  <2> QED  BY <2>1, <2>2, <2>3, <2>4, <2>5, SetUserKeeps
<1>2. ASSUME NEW s \in Slot, NEW u \in User, Select(s, u) PROVE IInv'
  <2>1. PICK b \in had[u] : SetUser(s, [who |-> u, balance |-> b])
    BY <1>2 DEF Select
  <2>2. [who |-> u, balance |-> b] \in Account
    BY DEF IInv, TypeOK, Account, Balance
  <2>3. Genuine([who |-> u, balance |-> b])
    BY DEF Genuine
  <2>4. stored' = u /\ strays' = InFlight \ {u}
        /\ UNCHANGED <<shown, armed, seller, balance, had>>
    BY <1>2 DEF Select
  <2>5. seller' \in Account /\ Genuine(seller')
    BY <2>4 DEF IInv, TypeOK, OwnInv, Genuine
  <2>6. /\ strays' \subseteq User /\ u \in Expected'
        /\ \A t \in Slot \ Free : flight[t].user.who \in Expected'
    BY <2>4 DEF InFlight, Expected, IInv, OwnInv, Free, Pending
  <2> QED  BY <2>1, <2>2, <2>3, <2>4, <2>5, <2>6, SetUserKeeps
<1>3. ASSUME Logout PROVE IInv'
  <2>0. InFlight \subseteq User
    BY DEF InFlight, IInv, OwnInv, Free, Pending
  <2>1. TypeOK'
    BY <1>3, <2>0, DefaultTypes DEF Logout, Show, IInv, TypeOK, Account, Balance, Request
  <2>2. OwnInv'
    BY <1>3 DEF Logout, Show, IInv, OwnInv, Genuine
  <2>3. PollAlive'
    BY <1>3, DefaultTypes DEF Logout, Show, PollAlive
  <2>4. StrayInv'
    BY <1>3, DefaultTypes DEF Logout, Show, StrayInv, Expected, InFlight, Free, Pending
  <2> QED  BY <2>1, <2>2, <2>3, <2>4 DEF IInv
<1>4. ASSUME LeaveSale PROVE IInv'
  <2>1. TypeOK'
    BY <1>4 DEF LeaveSale, IInv, TypeOK, Account, Balance, Request
  <2>2. OwnInv'
    BY <1>4 DEF LeaveSale, IInv, OwnInv, Genuine
  <2>3. PollAlive' /\ StrayInv'
    BY <1>4 DEF LeaveSale, IInv, PollAlive, StrayInv, Expected, Pending
  <2> QED  BY <2>1, <2>2, <2>3 DEF IInv
<1>5. ASSUME Rerender PROVE IInv'
  <2>1. TypeOK'
    BY <1>5 DEF Rerender, Show, IInv, TypeOK, Account, Balance, Request
  <2>2. OwnInv'
    BY <1>5 DEF Rerender, Show, IInv, OwnInv, Genuine
  <2>3. PollAlive' /\ StrayInv'
    BY <1>5 DEF Rerender, Show, IInv, PollAlive, StrayInv, Expected
  <2> QED  BY <2>1, <2>2, <2>3 DEF IInv
<1>6. ASSUME Reload PROVE IInv'
  <2>1. /\ shown' = Default /\ armed' = Default /\ seller' = Default /\ strays' = {}
        /\ UNCHANGED <<stored, balance, had>> /\ flight' \in Mounted(stored)
    BY <1>6 DEF Reload
  <2>2. /\ flight' \in [Slot -> Request]
        /\ \A s \in Slot : \/ flight'[s] = NoRequest
                           \/ stored \in User /\ flight'[s] = Asked("set", Restored(stored))
        /\ stored # NoUser => \E s \in Slot : flight'[s] = Asked("set", Restored(stored))
    BY <2>1, MountedHolds DEF IInv
  <2>3. \A u \in User : /\ Asked("set", Restored(u)).kind = "set"
                        /\ Asked("set", Restored(u)).user.who = u
                        /\ Asked("set", Restored(u)).user.balance = 0
    BY DEF Asked, Restored
  <2>4. TypeOK'
    BY <1>6, <2>1, <2>2, DefaultTypes DEF Reload, IInv, TypeOK, Account, Balance, Request
  <2>5. OwnInv'
    <3>1. \A u \in User : 0 \in had'[u] /\ balance'[u] \in had'[u]
      BY <2>1 DEF IInv, OwnInv
    <3>2. Genuine(shown)' /\ Genuine(seller)'
      BY <2>1 DEF Genuine
    <3>3. ASSUME NEW s \in Slot
          PROVE  IF flight'[s].kind = "none" THEN flight'[s] = NoRequest
                 ELSE flight'[s].user.who \in User /\ Genuine(flight[s].user)'
      <4>1. CASE flight'[s] = NoRequest
        BY <4>1, DefaultTypes
      <4>2. CASE stored \in User /\ flight'[s] = Asked("set", Restored(stored))
        <5>1. /\ flight'[s].kind # "none" /\ flight'[s].user.who = stored
              /\ flight'[s].user.balance = 0
          BY <2>3, <4>2
        <5> QED  BY <3>1, <4>2, <5>1 DEF Genuine
      <4> QED  BY <2>2, <4>1, <4>2
    <3> QED  BY <3>1, <3>2, <3>3 DEF OwnInv
  <2>6. PollAlive'
    BY <2>1, DefaultTypes DEF PollAlive
  <2>7. StrayInv'
    <3>1. \A s \in Slot : flight'[s].kind # "none" => flight'[s].user.who = stored
      BY <2>2, <2>3, DefaultTypes
    <3>2. ASSUME stored # NoUser
          PROVE  \E s \in Slot : flight'[s].kind = "set"
      <4>1. PICK s \in Slot : flight'[s] = Asked("set", Restored(stored))
        BY <2>2, <3>2
      <4>2. stored \in User
        BY <3>2 DEF IInv, TypeOK
      <4>3. flight'[s].kind = "set"
        BY <2>3, <4>1, <4>2
      <4> QED  BY <4>3
    <3>3. shown'.who = NoUser
      BY <2>1, DefaultTypes
    <3> QED  BY <2>1, <3>1, <3>2, <3>3 DEF StrayInv, Expected
  <2> QED  BY <2>4, <2>5, <2>6, <2>7 DEF IInv
<1>7. ASSUME NEW s \in Slot, Fire(s) PROVE IInv'
  <2> DEFINE r == Asked("poll", armed)
  <2>1. armed = shown /\ armed # Default /\ armed \in Account /\ armed.who \in User
        /\ Genuine(armed)
    BY <1>7 DEF Fire, IInv, TypeOK, OwnInv, Genuine
  <2>2. r \in Request /\ r.kind = "poll" /\ r.user = armed
    BY <2>1, AskedTypes
  <2>3. /\ s \in Free /\ armed' = Default /\ flight' = [flight EXCEPT ![s] = r]
        /\ strays' = strays \cup ({armed.who} \ {stored})
        /\ UNCHANGED <<stored, shown, seller, balance, had>>
    BY <1>7 DEF Fire, AskedFor
  <2> HIDE DEF r
  <2>4. /\ flight' \in [Slot -> Request]
        /\ \A t \in Slot : flight'[t] = IF t = s THEN r ELSE flight[t]
    BY <2>2, <2>3, RequestPut DEF IInv
  <2>5. TypeOK'
    BY <2>1, <2>3, <2>4 DEF IInv, TypeOK, Account, Balance
  <2>6. OwnInv'
    BY <2>1, <2>2, <2>3, <2>4 DEF IInv, OwnInv, Genuine
  <2>7. PollAlive'
    BY <2>2, <2>4 DEF PollAlive, Pending
  <2>8. StrayInv'
    BY <2>1, <2>2, <2>3, <2>4 DEF IInv, StrayInv, Expected, Free, Pending
  <2> QED  BY <2>5, <2>6, <2>7, <2>8 DEF IInv
<1>8. ASSUME NEW s \in Slot, Answer(s) PROVE IInv'
  <2> DEFINE u == flight[s].user
             r == [flight[s] EXCEPT !.answered = TRUE, !.user.balance = balance[u.who]]
  <2>1. /\ flight[s].kind # "none" /\ flight' = [flight EXCEPT ![s] = r]
        /\ UNCHANGED <<stored, shown, armed, seller, balance, had, strays>>
    BY <1>8 DEF Answer
  <2>2. flight[s] \in Request /\ u \in Account /\ u.who \in User
    BY <2>1, TypesOfSlot
  <2>3. balance[u.who] \in had[u.who] /\ balance[u.who] \in Balance
    BY <2>2 DEF IInv, OwnInv, TypeOK
  <2>4. /\ r \in Request /\ r.kind = flight[s].kind /\ r.user.who = u.who
        /\ r.user.balance = balance[u.who]
    BY <2>2, <2>3 DEF Request, Account
  <2> HIDE DEF r
  <2> QED  BY <2>1, <2>3, <2>4, AnsweredKeeps
<1>9. ASSUME NEW s \in Slot, Fail(s) PROVE IInv'
  <2> DEFINE r == [flight[s] EXCEPT !.answered = TRUE]
  <2>1. /\ flight[s].kind # "none" /\ flight' = [flight EXCEPT ![s] = r]
        /\ UNCHANGED <<stored, shown, armed, seller, balance, had, strays>>
    BY <1>9 DEF Fail
  <2>2. flight[s] \in Request /\ flight[s].user.balance \in had[flight[s].user.who]
    BY <2>1, TypesOfSlot
  <2>3. r \in Request /\ r.kind = flight[s].kind /\ r.user = flight[s].user
    BY <2>2 DEF Request
  <2> HIDE DEF r
  <2> QED  BY <2>1, <2>2, <2>3, AnsweredKeeps
<1>10. ASSUME NEW s \in Slot, Deliver(s) PROVE IInv'
  <2>1. /\ shown' = flight[s].user /\ armed' = flight[s].user
        /\ flight' = [flight EXCEPT ![s] = NoRequest]
        /\ UNCHANGED <<stored, seller, balance, had, strays>>
    BY <1>10 DEF Deliver, Show
  <2>2. flight[s].kind # "none"
    BY <1>10, DefaultTypes DEF Deliver, IInv, OwnInv
  <2>3. /\ flight' \in [Slot -> Request]
        /\ \A t \in Slot : flight'[t] = IF t = s THEN NoRequest ELSE flight[t]
    BY <2>1, DefaultTypes, RequestPut DEF IInv
  <2>4. TypeOK'
    BY <2>1, <2>2, <2>3, TypesOfSlot DEF IInv, TypeOK, Account, Balance
  <2>5. OwnInv'
    BY <2>1, <2>2, <2>3, TypesOfSlot, DefaultTypes DEF IInv, OwnInv, Genuine
  <2>6. PollAlive'
    BY <2>1 DEF PollAlive
  <2>7. StrayInv'
    BY <2>1, <2>2, <2>3, DefaultTypes DEF IInv, StrayInv, Expected
  <2> QED  BY <2>4, <2>5, <2>6, <2>7 DEF IInv
<1>11. ASSUME NEW u \in User, Move(u) PROVE IInv'
  <2>1. PICK b \in Balance : /\ balance' = [balance EXCEPT ![u] = b]
                             /\ had' = [had EXCEPT ![u] = @ \cup {b}]
    BY <1>11 DEF Move
  <2>2. UNCHANGED <<stored, shown, armed, flight, seller, strays>>
    BY <1>11 DEF Move, browser
  <2>3. TypeOK'
    BY <2>1, <2>2 DEF IInv, TypeOK, Account, Balance, Request
  <2>4. \A v \in User : had[v] \subseteq had'[v]
    BY <2>1 DEF IInv, TypeOK
  <2>5. \A v \in User : 0 \in had'[v] /\ balance'[v] \in had'[v]
    BY <2>1 DEF IInv, TypeOK, OwnInv
  <2>6. OwnInv'
    BY <2>2, <2>4, <2>5 DEF IInv, OwnInv, Genuine
  <2>7. PollAlive' /\ StrayInv'
    BY <2>2 DEF IInv, PollAlive, StrayInv, Expected, Pending
  <2> QED  BY <2>3, <2>6, <2>7 DEF IInv
<1>12. CASE UNCHANGED vars
  <2>1. TypeOK'
    BY <1>12 DEF vars, browser, IInv, TypeOK, Account, Balance, Request
  <2>2. OwnInv' /\ PollAlive' /\ StrayInv'
    BY <1>12 DEF vars, browser, IInv, OwnInv, Genuine, PollAlive, StrayInv, Expected, Pending
  <2> QED  BY <2>1, <2>2 DEF IInv
<1> QED
  BY <1>1, <1>2, <1>3, <1>4, <1>5, <1>6, <1>7, <1>8, <1>9, <1>10, <1>11, <1>12
     DEF Next, Page
-----------------------------------------------------------------------------
LEMMA Inductive == Spec => []IInv
  BY InitHolds, NextHolds, PTL DEF Spec

\* The types of the root component's state, and that a timer that is set is
\* about the account that is shown (root.tsx:74-99).
THEOREM TypeCorrect == Spec => []TypeOK
  BY Inductive, PTL DEF IInv

\* Whatever overtakes what: a balance is shown with the account that it was
\* read for (root.tsx:69, 91).
THEOREM BalancesAreOwn == Spec => []BalanceIsOwn
<1>1. IInv => BalanceIsOwn
  BY DefaultTypes DEF IInv, OwnInv, Genuine, BalanceIsOwn
<1> QED  BY <1>1, Inductive, PTL

\* While an account is shown its balance is being polled (root.tsx:74-99).
THEOREM PollingSurvives == Spec => []PollAlive
  BY Inductive, PTL DEF IInv

\* When all requests are answered, the account shown is the one selected last, or
\* one of those that had a request of their own under way then or since
\* (root.tsx:55-72, sign-up.tsx:65-71, header.tsx:52-58).
THEOREM SessionsSettle == Spec => []SettledAgrees
<1>1. IInv => SettledAgrees
  BY DEF IInv, StrayInv, Expected, SettledAgrees, Free, Pending
<1> QED  BY <1>1, Inductive, PTL
=============================================================================
