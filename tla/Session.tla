------------------------------- MODULE Session -------------------------------
(***************************************************************************)
(* Who a page of the frontend takes its user to be: the root component     *)
(* (frontend/src/pages/root.tsx) with the accounts that are selected and   *)
(* logged out, and the timer by which it polls the balance it shows.       *)
(*                                                                         *)
(* Each request is answered some time after it is made and its answer is   *)
(* used some time later; a request carries the account that was current    *)
(* when it was made.  What is left out of an account is what it is shown   *)
(* with besides: its name, and whether it is whitelisted.                  *)
(***************************************************************************)
EXTENDS Naturals, FiniteSets

CONSTANTS
    User,
    NoUser,       \* the address of User.default()
    Slot,         \* bound: the requests that can be under way at a time
    MaxBalance    \* bound: balances are 0 .. MaxBalance

ASSUME SessionAssumption == NoUser \notin User /\ MaxBalance \in Nat

VARIABLES
    stored,    \* localStorage: who has been selected
    shown,     \* the state of the root component: the account it shows
    armed,     \* the account that the timer that is set will ask about
    flight,    \* requests under way, and the account each is made for
    seller,    \* the account an owned page had when it was left in a sale
    balance,   \* coin chain: the balance of each user
    had,       \* history: the balances that each user has had
    strays     \* history: accounts other than the one selected last, for which
               \* a request was under way then, or has been made since

browser == <<stored, shown, armed, flight, seller>>
vars == <<browser, balance, had, strays>>

Balance == 0 .. MaxBalance
Account == [who : User \cup {NoUser}, balance : Balance]
Default == [who |-> NoUser, balance |-> 0]

\* Default stands for no timer, too: none is ever set for it.
NoRequest == [kind |-> "none", user |-> Default, answered |-> FALSE]
Request == [kind : {"none", "poll", "set"}, user : Account, answered : BOOLEAN]

Pending(kind) == {s \in Slot : flight[s].kind = kind}
Free == Pending("none")
InFlight == {flight[s].user.who : s \in Slot \ Free}
-----------------------------------------------------------------------------
\* User.create leaves the balance to be asked for.
Restored(u) == [who |-> u, balance |-> 0]

\* History: a request that is made between two selections.
AskedFor(user) == strays' = strays \cup ({user.who} \ {stored})

Asked(kind, user) == [kind |-> kind, user |-> user, answered |-> FALSE]

\* componentDidMount, of a page that is opened with u in localStorage.
Mounted(u) ==
    IF u = NoUser THEN {[s \in Slot |-> NoRequest]}
    ELSE {[s \in Slot |-> IF s = first THEN Asked("set", Restored(u)) ELSE NoRequest] :
             first \in Slot}

Init ==
    /\ stored \in User \cup {NoUser}
    /\ shown = Default
    /\ armed = Default
    /\ flight \in Mounted(stored)
    /\ seller = Default
    /\ balance \in [User -> Balance]
    /\ had = [u \in User |-> {0, balance[u]}]
    /\ strays = {}
-----------------------------------------------------------------------------
(* Faults: variants of definitions below, each of which breaks a property. *)

\* The answer to a poll is put into whatever account is shown by now.
DeliverMerged(s) ==
    /\ flight[s].answered
    /\ shown' = IF flight[s].kind = "poll"
                THEN [shown EXCEPT !.balance = flight[s].user.balance]
                ELSE flight[s].user
    /\ armed' = shown'
    /\ flight' = [flight EXCEPT ![s] = NoRequest]
    /\ UNCHANGED <<stored, seller, balance, had, strays>>

\* The timer is set again only when there is news.
ShowNews(user) ==
    /\ shown' = user
    /\ armed' = IF user = shown THEN armed ELSE user

\* The balance is not asked for again once it is known.
AnswerCached(s) ==
    /\ flight[s].kind # "none" /\ ~flight[s].answered
    /\ flight' = [flight EXCEPT ![s].answered = TRUE]
    /\ UNCHANGED <<stored, shown, armed, seller, balance, had, strays>>

\* The button forgets the account and leaves it stored.
LogoutShown ==
    /\ shown' = Default
    /\ armed' = Default
    /\ strays' = InFlight
    /\ UNCHANGED <<stored, flight, seller, balance, had>>

\* The timer of the account that is logged out stays set.
LogoutKeepsTimer ==
    /\ stored' = NoUser
    /\ shown' = Default
    /\ strays' = InFlight
    /\ UNCHANGED <<armed, flight, seller, balance, had>>
-----------------------------------------------------------------------------
\* setState with an account, and balanceOfCoinTimer after it: the timer that
\* is set is cleared, and set for the account that is shown now, if any.
Show(user) ==
    /\ shown' = user
    /\ armed' = user

\* setUser begins with a request for the balance.
SetUser(s, user) ==
    /\ s \in Free
    /\ flight' = [flight EXCEPT ![s] = Asked("set", user)]

\* SELECT on the sign-up page, whose list was read some time ago.
Select(s, u) ==
    /\ stored' = u
    /\ \E b \in had[u] : SetUser(s, [who |-> u, balance |-> b])
    /\ strays' = InFlight \ {u}
    /\ UNCHANGED <<shown, armed, seller, balance, had>>

\* LOGOUT: for the default user setUser has nothing to wait for.
Logout ==
    /\ stored' = NoUser
    /\ Show(Default)
    /\ strays' = InFlight
    /\ UNCHANGED <<flight, seller, balance, had>>

\* An owned page is left while the answer about its sale is under way: it
\* keeps the properties that it had last.
LeaveSale ==
    /\ stored # NoUser /\ shown.who # NoUser /\ seller = Default
    /\ seller' = shown
    /\ UNCHANGED <<stored, shown, armed, flight, balance, had, strays>>

\* The sale of an owned page ends: it sets the user that it has as property,
\* to have the balance read.
SaleEnds(s) ==
    /\ UNCHANGED <<stored, shown, armed, balance, had>>
    /\ \/ /\ seller = Default /\ stored # NoUser /\ shown.who # NoUser
          /\ SetUser(s, shown) /\ AskedFor(shown)
       \/ seller # Default /\ SetUser(s, seller) /\ AskedFor(seller)
    /\ seller' = Default

\* Ten seconds after the timer was set.
Fire(s) ==
    /\ armed # Default /\ s \in Free
    /\ armed' = Default
    /\ flight' = [flight EXCEPT ![s] = Asked("poll", armed)]
    /\ AskedFor(armed)
    /\ UNCHANGED <<stored, shown, seller, balance, had>>

\* The component is updated for another reason, such as a new title.
Rerender ==
    /\ Show(shown)
    /\ UNCHANGED <<stored, flight, seller, balance, had, strays>>

\* The coin chain answers a request, or the request fails and the balance
\* that it was made with stands for the answer.
Answer(s) ==
    /\ flight[s].kind # "none" /\ ~flight[s].answered
    /\ flight' = [flight EXCEPT ![s].answered = TRUE,
                                ![s].user.balance = balance[flight[s].user.who]]
    /\ UNCHANGED <<stored, shown, armed, seller, balance, had, strays>>

Fail(s) ==
    /\ flight[s].kind # "none" /\ ~flight[s].answered
    /\ flight' = [flight EXCEPT ![s].answered = TRUE]
    /\ UNCHANGED <<stored, shown, armed, seller, balance, had, strays>>

\* The page goes on with the answer.  (setUser has another request to wait
\* for, whether the user is whitelisted, which counts as a no if it fails; its
\* time is part of the delay.)
Deliver(s) ==
    /\ flight[s].answered
    /\ Show(flight[s].user)
    /\ flight' = [flight EXCEPT ![s] = NoRequest]
    /\ UNCHANGED <<stored, seller, balance, had, strays>>

\* The browser loads the page again.
Reload ==
    /\ shown' = Default /\ armed' = Default /\ seller' = Default
    /\ flight' \in Mounted(stored)
    /\ strays' = {}
    /\ UNCHANGED <<stored, balance, had>>

\* Coins are moved, by other pages too.
Move(u) ==
    /\ \E b \in Balance \ {balance[u]} : /\ balance' = [balance EXCEPT ![u] = b]
                                         /\ had' = [had EXCEPT ![u] = @ \cup {b}]
    /\ UNCHANGED <<browser, strays>>

Page == \E s \in Slot : Fire(s) \/ Answer(s) \/ Fail(s) \/ Deliver(s)

Next ==
    \/ \E s \in Slot : SaleEnds(s) \/ \E u \in User : Select(s, u)
    \/ Logout \/ LeaveSale \/ Rerender \/ Reload
    \/ Page
    \/ \E u \in User : Move(u)

\* A timer that is set again and again is not cleared for ever, a request ends,
\* and a poll that is made again and again does not fail for ever.
Fairness ==
    \A s \in Slot : /\ SF_vars(Fire(s))
                    /\ WF_vars(Answer(s) \/ Fail(s))
                    /\ SF_vars(s \in Pending("poll") /\ Answer(s))
                    /\ WF_vars(Deliver(s))

Spec == Init /\ [][Next]_vars /\ Fairness
-----------------------------------------------------------------------------
\* Types of all variables; a timer that is set is about the account shown.
TypeOK ==
    /\ stored \in User \cup {NoUser}
    /\ shown \in Account
    /\ armed \in {Default, shown}
    /\ flight \in [Slot -> Request]
    /\ seller \in Account
    /\ balance \in [User -> Balance]
    /\ had \in [User -> SUBSET Balance]
    /\ strays \subseteq User

\* However answers overtake each other, a balance is shown with the account
\* it was read for: it is one that this account has had, or the zero it
\* begins with (root.tsx:69, 91).
BalanceIsOwn == shown.who # NoUser => shown.balance \in had[shown.who]

\* The polling of a balance never dies: while an account is shown there is a
\* timer for it, or a poll whose answer sets the next (root.tsx:74-99).
PollAlive == shown.who # NoUser => armed = shown \/ Pending("poll") # {}

\* What is shown catches up: if an account stays on the page and its balance
\* stays what it is, that balance is shown, again and again.
BalanceCatchesUp ==
    \A u \in User, b \in Balance :
        <>[](shown.who = u /\ balance[u] = b) => []<>(shown.balance = b)

\* Once all requests are answered, the page acts for the account that was
\* selected last, and for none after a logout (header.tsx:52-58, sign-up.tsx:65-71).
\* Another account can only have come back by a request of its own: one that was
\* under way at the selection or the logout, whose answer replaces what is shown,
\* or one that the timer or a sale of that account has made since (strays).
SettledAgrees == Free = Slot => shown.who \in {stored} \cup strays
=============================================================================
