--------------------------- MODULE CrossSwapProofs ---------------------------
(***************************************************************************)
(* Theorems about CrossSwap, for any users, trades, transactions, amounts  *)
(* and limit on the holders: which writes are locked, what a transaction   *)
(* that is prepared may rely on, and that sales are the swaps of           *)
(* AtomicSwap.                                                             *)
(*                                                                         *)
(* What carries the proofs is Effective(c), the store of a chain with all  *)
(* that is decided: a call that touches nothing locked is the same on it   *)
(* as on the store itself, a commit by a chain does not change it, and the *)
(* decision to commit changes it by just the calls that were prepared.     *)
(***************************************************************************)
EXTENDS CrossSwap, FiniteSetTheorems, TLAPS

(* Keys, and what the two calls make of a store. *)

\* No key is the name of two things.
LEMMA KeysDiffer ==
    /\ \A u, v : Balance(u) = Balance(v) => u = v
    /\ \A u, v : Share(u) = Share(v) => u = v
    /\ \A u, v : White(u) = White(v) => u = v
    /\ \A u, v : Share(u) # White(v)
    /\ \A u : Share(u) # OwnerCount /\ White(u) # OwnerCount
  BY DEF Balance, Share, White, OwnerCount

LEMMA KeysHere ==
    /\ \A u \in User : Balance(u) \in Key("coin")
    /\ \A u \in User : Share(u) \in Key("security") /\ White(u) \in Key("security")
    /\ OwnerCount \in Key("security")
  BY DEF Key

Stores(c) == [Key(c) -> Nat]

\* The value of an account from which n is taken, and then given, where it is
\* the sender's and where it is the receiver's.
Passed(value, sends, receives, n) ==
    (IF sends THEN value - n ELSE value) + (IF receives THEN n ELSE 0)

\* The number of holders when n shares have passed between two users, from
\* the number before and what the two had, who may be one.
CountAfter(count, hasFrom, hasTo, same, n) ==
    LET left == IF hasFrom = n /\ n # 0 THEN count - 1 ELSE count
    IN  IF Passed(hasTo, same, FALSE, n) = 0 /\ n # 0 THEN left + 1 ELSE left

Counted(s, from, to, n) ==
    CountAfter(s[OwnerCount], s[Share(from)], s[Share(to)], from = to, n)

\* The writes of the two calls.
CoinWrites(s, from, to, n) ==
    [k \in {Balance(from), Balance(to)} |->
        Passed(s[k], k = Balance(from), k = Balance(to), n)]

ShareWrites(s, from, to, n) ==
    [k \in {Share(from), Share(to), OwnerCount} |->
        IF k = OwnerCount THEN Counted(s, from, to, n)
        ELSE Passed(s[k], k = Share(from), k = Share(to), n)]

\* What the two calls are, without the order in which they go about it.
LEMMA CoinTransferIs ==
    ASSUME NEW s \in Stores("coin"), NEW from \in User, NEW to \in User, NEW n \in Nat
    PROVE  CoinTransfer(s, from, to, n) =
             [ok |-> s[Balance(from)] >= n, reads |-> {}, writes |-> CoinWrites(s, from, to, n)]
<1> DEFINE keys == {Balance(from), Balance(to)}
           debited == [s EXCEPT ![Balance(from)] = @ - n]
           credited == [debited EXCEPT ![Balance(to)] = @ + n]
<1>1. /\ Balance(from) \in DOMAIN s /\ Balance(to) \in DOMAIN s
      /\ \A k \in DOMAIN s : s[k] \in Nat
  BY KeysHere DEF Stores
<1>2. /\ DOMAIN debited = DOMAIN s
      /\ \A k \in keys : debited[k] = IF k = Balance(from) THEN s[k] - n ELSE s[k]
  BY <1>1
<1> HIDE DEF debited
<1>3. \A k \in keys : credited[k] = Passed(s[k], k = Balance(from), k = Balance(to), n)
  BY <1>1, <1>2 DEF Passed
<1> HIDE DEF credited
<1>4. Restrict(credited, keys) = CoinWrites(s, from, to, n)
  BY <1>3 DEF Restrict, CoinWrites
<1> QED  BY <1>4 DEF CoinTransfer, credited, debited

LEMMA EstateTransferIs ==
    ASSUME NEW s \in Stores("security"), NEW from \in User, NEW to \in User, NEW n \in Nat
    PROVE  EstateTransfer(s, from, to, n) =
             [ok |-> /\ s[Share(from)] >= n
                     /\ s[White(to)] = 1
                     /\ Counted(s, from, to, n) <= MaxTokenOwner,
              reads |-> {White(to)},
              writes |-> ShareWrites(s, from, to, n)]
<1> DEFINE keys == {Share(from), Share(to), OwnerCount}
           debited == [s EXCEPT ![Share(from)] = @ - n]
           left == IF debited[Share(from)] = 0 /\ n # 0
                   THEN s[OwnerCount] - 1 ELSE s[OwnerCount]
           owners == IF debited[Share(to)] = 0 /\ n # 0 THEN left + 1 ELSE left
           after == [debited EXCEPT ![Share(to)] = @ + n, ![OwnerCount] = owners]
<1>1. /\ Share(from) \in DOMAIN s /\ Share(to) \in DOMAIN s /\ OwnerCount \in DOMAIN s
      /\ \A k \in DOMAIN s : s[k] \in Nat
  BY KeysHere DEF Stores
<1>2. /\ DOMAIN debited = DOMAIN s
      /\ \A k \in keys : debited[k] = IF k = Share(from) THEN s[k] - n ELSE s[k]
  BY <1>1
<1>3. owners = Counted(s, from, to, n)
  <2>1. left = IF s[Share(from)] = n /\ n # 0 THEN s[OwnerCount] - 1 ELSE s[OwnerCount]
    BY <1>1, <1>2
  <2>2. debited[Share(to)] = Passed(s[Share(to)], from = to, FALSE, n)
    BY <1>1, <1>2, KeysDiffer DEF Passed
  <2> HIDE DEF debited, left
  <2> QED  BY <2>1, <2>2 DEF Counted, CountAfter
<1> HIDE DEF debited, owners
<1>4. \A k \in keys : after[k] = IF k = OwnerCount THEN owners
                                 ELSE Passed(s[k], k = Share(from), k = Share(to), n)
  BY <1>1, <1>2, KeysDiffer DEF Passed
<1> HIDE DEF after
<1>5. Restrict(after, keys) = ShareWrites(s, from, to, n)
  BY <1>3, <1>4 DEF Restrict, ShareWrites
<1> QED  BY <1>3, <1>5 DEF EstateTransfer, after, owners, debited

-----------------------------------------------------------------------------
\* The accounts when n has passed from one user to another.
Transferred(f, from, to, n) == [u \in User |-> Passed(f[u], u = from, u = to, n)]

LEMMA MovedIs ==
    ASSUME NEW f \in [User -> Nat], NEW from \in User, NEW to \in User, NEW n \in Nat
    PROVE  Swap!Moved(f, from, to, n) = Transferred(f, from, to, n)
<1> DEFINE taken == [f EXCEPT ![from] = @ - n]
<1>1. /\ DOMAIN taken = User /\ taken = [u \in User |-> taken[u]]
      /\ \A u \in User : taken[u] = IF u = from THEN f[u] - n ELSE f[u]
  OBVIOUS
<1> HIDE DEF taken
<1>2. [taken EXCEPT ![to] = @ + n] = Transferred(f, from, to, n)
  BY <1>1 DEF Passed, Transferred
<1> QED  BY <1>2 DEF Swap!Moved, taken, Transferred

HoldersOf(f) == {u \in User : f[u] # 0}

\* The number of users with shares after a transfer.
LEMMA HoldersMoved ==
    ASSUME NEW f \in [User -> Nat], NEW from \in User, NEW to \in User, NEW n \in Nat,
           f[from] >= n
    PROVE  /\ Cardinality(HoldersOf(Transferred(f, from, to, n)))
                = CountAfter(Cardinality(HoldersOf(f)), f[from], f[to], from = to, n)
           /\ Cardinality(HoldersOf(Transferred(f, from, to, n))) \in Nat
<1> DEFINE g == [u \in User |-> Passed(f[u], u = from, FALSE, n)]
           h == Transferred(f, from, to, n)
           now == Cardinality(HoldersOf(f))
           left == IF f[from] = n /\ n # 0 THEN now - 1 ELSE now
<1>1. \A e : IsFiniteSet(HoldersOf(e)) /\ Cardinality(HoldersOf(e)) \in Nat
  BY CrossAssumption, FS_Subset, FS_CardinalityType DEF HoldersOf
<1>2. Cardinality(HoldersOf(g)) = left
  <2>1. CASE f[from] = n /\ n # 0
    <3>1. HoldersOf(g) = HoldersOf(f) \ {from} /\ from \in HoldersOf(f)
      BY <2>1 DEF HoldersOf, Passed
    <3> QED  BY <1>1, <2>1, <3>1, FS_RemoveElement
  <2>2. CASE ~(f[from] = n /\ n # 0)
    <3>1. \A u \in User : g[u] # 0 <=> f[u] # 0
      <4> TAKE u \in User
      <4>1. f[u] \in Nat /\ f[from] \in Nat
        OBVIOUS
      <4>2. g[u] = IF u = from THEN f[u] - n ELSE f[u]
        BY <4>1 DEF Passed
      <4> HIDE DEF g
      <4>3. CASE u = from
        BY <2>2, <4>1, <4>2, <4>3
      <4>4. CASE u # from
        BY <4>2, <4>4
      <4> QED  BY <4>3, <4>4
    <3>2. HoldersOf(g) = HoldersOf(f)
      BY <3>1 DEF HoldersOf
    <3> QED  BY <2>2, <3>2
  <2> QED  BY <2>1, <2>2
<1>3. \A u \in User : g[u] \in Nat /\ h[u] = g[u] + (IF u = to THEN n ELSE 0)
  BY DEF Passed, Transferred
<1>4. g[to] = Passed(f[to], from = to, FALSE, n)
  OBVIOUS
<1> HIDE DEF g, h, left
<1>5. Cardinality(HoldersOf(h)) = IF g[to] = 0 /\ n # 0 THEN left + 1 ELSE left
  <2>1. CASE g[to] = 0 /\ n # 0
    <3>1. HoldersOf(h) = HoldersOf(g) \cup {to} /\ to \notin HoldersOf(g)
      BY <1>3, <2>1 DEF HoldersOf
    <3> QED  BY <1>1, <1>2, <2>1, <3>1, FS_AddElement
  <2>2. CASE ~(g[to] = 0 /\ n # 0)
    <3>1. HoldersOf(h) = HoldersOf(g)
      BY <1>3, <2>2 DEF HoldersOf
    <3> QED  BY <1>2, <2>2, <3>1
  <2> QED  BY <2>1, <2>2
<1>6. Cardinality(HoldersOf(h)) \in Nat
  BY <1>1
<1> QED  BY <1>4, <1>5, <1>6 DEF h, left, CountAfter
-----------------------------------------------------------------------------
(* The call of a chain. *)

Call(c, s, from, to, n) ==
    IF c = "coin" THEN CoinTransfer(s, from, to, n) ELSE EstateTransfer(s, from, to, n)

Reads(c, to) == IF c = "coin" THEN {} ELSE {White(to)}
Writes(c, from, to) ==
    IF c = "coin" THEN {Balance(from), Balance(to)}
    ELSE {Share(from), Share(to), OwnerCount}

CallWrites(c, s, from, to, n) ==
    IF c = "coin" THEN CoinWrites(s, from, to, n) ELSE ShareWrites(s, from, to, n)

CallFine(c, s, from, to, n) ==
    IF c = "coin" THEN s[Balance(from)] >= n
    ELSE /\ s[Share(from)] >= n
         /\ s[White(to)] = 1
         /\ Counted(s, from, to, n) <= MaxTokenOwner

LEMMA CallIs ==
    ASSUME NEW c \in Chain, NEW s \in Stores(c), NEW from \in User, NEW to \in User, NEW n \in Nat
    PROVE  /\ Call(c, s, from, to, n).reads = Reads(c, to)
           /\ Call(c, s, from, to, n).writes = CallWrites(c, s, from, to, n)
           /\ Call(c, s, from, to, n).ok = CallFine(c, s, from, to, n)
           /\ DOMAIN CallWrites(c, s, from, to, n) = Writes(c, from, to)
           /\ Touched(Call(c, s, from, to, n)) = Reads(c, to) \cup Writes(c, from, to)
<1>1. CASE c = "coin"
  <2>1. Call(c, s, from, to, n) =
             [ok |-> s[Balance(from)] >= n, reads |-> {}, writes |-> CoinWrites(s, from, to, n)]
    BY <1>1, CoinTransferIs DEF Call
  <2>2. DOMAIN CoinWrites(s, from, to, n) = Writes(c, from, to)
    BY <1>1 DEF CoinWrites, Writes
  <2> QED  BY <1>1, <2>1, <2>2 DEF Touched, Reads, CallWrites, CallFine
<1>2. CASE c = "security"
  <2>1. Call(c, s, from, to, n) =
             [ok |-> /\ s[Share(from)] >= n
                     /\ s[White(to)] = 1
                     /\ Counted(s, from, to, n) <= MaxTokenOwner,
              reads |-> {White(to)},
              writes |-> ShareWrites(s, from, to, n)]
    BY <1>2, EstateTransferIs DEF Call
  <2>2. DOMAIN ShareWrites(s, from, to, n) = Writes(c, from, to)
    BY <1>2 DEF ShareWrites, Writes
  <2>3. c # "coin" /\ Reads(c, to) = {White(to)}
    BY <1>2 DEF Reads
  <2> DEFINE call == Call(c, s, from, to, n)
  <2>4. /\ call.reads = {White(to)}
        /\ call.writes = ShareWrites(s, from, to, n)
        /\ call.ok = CallFine(c, s, from, to, n)
    BY <2>1, <2>3 DEF CallFine
  <2> HIDE DEF call
  <2>5. Touched(call) = Reads(c, to) \cup Writes(c, from, to)
    BY <2>2, <2>3, <2>4 DEF Touched
  <2>6. CallWrites(c, s, from, to, n) = ShareWrites(s, from, to, n)
    BY <2>3 DEF CallWrites
  <2> QED  BY <2>2, <2>3, <2>4, <2>5, <2>6 DEF call
<1> QED  BY <1>1, <1>2 DEF Chain

LEMMA CallKeys ==
    ASSUME NEW c \in Chain, NEW from \in User, NEW to \in User
    PROVE  /\ Writes(c, from, to) \subseteq Key(c)
           /\ Reads(c, to) \subseteq Key(c)
           /\ \A u : White(u) \notin Writes(c, from, to)
<1>1. \A u, v : White(u) # Balance(v)
  BY DEF White, Balance
<1> QED  BY <1>1, KeysHere, KeysDiffer DEF Chain, Writes, Reads

\* A call has the same writes on two stores that agree about what it writes,
\* and goes well on the second if it does on the first and nobody is removed
\* from the whitelist.
LEMMA CallAgain ==
    ASSUME NEW c \in Chain, NEW s \in Stores(c), NEW s2 \in Stores(c),
           NEW from \in User, NEW to \in User, NEW n \in Nat,
           \A k \in Writes(c, from, to) : s2[k] = s[k],
           \A k \in Reads(c, to) : s[k] = 1 => s2[k] = 1
    PROVE  /\ Call(c, s2, from, to, n).writes = Call(c, s, from, to, n).writes
           /\ Call(c, s, from, to, n).ok => Call(c, s2, from, to, n).ok
<1> SUFFICES /\ CallWrites(c, s2, from, to, n) = CallWrites(c, s, from, to, n)
             /\ CallFine(c, s, from, to, n) => CallFine(c, s2, from, to, n)
  BY CallIs
<1>1. CASE c = "coin"
  <2>1. /\ s2[Balance(from)] = s[Balance(from)]
        /\ \A k \in {Balance(from), Balance(to)} : s2[k] = s[k]
    BY <1>1 DEF Writes
  <2>2. CoinWrites(s2, from, to, n) = CoinWrites(s, from, to, n)
    BY <2>1 DEF CoinWrites
  <2> QED  BY <1>1, <2>1, <2>2 DEF CallWrites, CallFine
<1>2. CASE c = "security"
  <2>1. /\ s2[Share(from)] = s[Share(from)]
        /\ s2[Share(to)] = s[Share(to)]
        /\ s2[OwnerCount] = s[OwnerCount]
        /\ s[White(to)] = 1 => s2[White(to)] = 1
    BY <1>2 DEF Writes, Reads
  <2>2. Counted(s2, from, to, n) = Counted(s, from, to, n)
    BY <2>1 DEF Counted
  <2>3. ShareWrites(s2, from, to, n) = ShareWrites(s, from, to, n)
    BY <2>1, <2>2 DEF ShareWrites
  <2> QED  BY <1>2, <2>1, <2>2, <2>3 DEF CallWrites, CallFine
<1> QED  BY <1>1, <1>2 DEF Chain

\* What the abstract specification sees of a store.
Balances(s) == [u \in User |-> s[Balance(u)]]
SharesOf(s) == [u \in User |-> s[Share(u)]]
Allowed(s) == {u \in User : s[White(u)] = 1}
Counts(s) == s[OwnerCount] = Cardinality(HoldersOf(SharesOf(s)))

LEMMA WrittenAt ==
    ASSUME NEW c, NEW s \in Stores(c), NEW writes
    PROVE  /\ DOMAIN Written(s, writes) = Key(c)
           /\ \A k \in Key(c) : Written(s, writes)[k] = IF k \in DOMAIN writes THEN writes[k] ELSE s[k]
  BY DEF Written, Stores

\* A call that goes well does to a store of numbers what the abstract
\* specification does to balances and shares.
LEMMA CoinCall ==
    ASSUME NEW s \in Stores("coin"), NEW from \in User, NEW to \in User, NEW n \in Nat,
           Call("coin", s, from, to, n).ok
    PROVE  LET writes == Call("coin", s, from, to, n).writes
               s2 == Written(s, writes)
           IN  /\ s[Balance(from)] >= n
               /\ \A k \in DOMAIN writes : writes[k] \in Nat
               /\ s2 \in Stores("coin")
               /\ Balances(s2) = Swap!Moved(Balances(s), from, to, n)
<1> DEFINE writes == CoinWrites(s, from, to, n)
           s2 == Written(s, writes)
<1>1. /\ s[Balance(from)] >= n /\ writes = Call("coin", s, from, to, n).writes
      /\ DOMAIN writes = {Balance(from), Balance(to)}
  <2>1. "coin" \in Chain
    BY DEF Chain
  <2>2. /\ Call("coin", s, from, to, n).ok = (s[Balance(from)] >= n)
        /\ Call("coin", s, from, to, n).writes = writes
    BY <2>1, CallIs DEF CallFine, CallWrites
  <2> QED  BY <2>2 DEF CoinWrites
<1>2. \A k \in Key("coin") : s[k] \in Nat
  BY DEF Stores
<1>3. \A k \in DOMAIN writes : writes[k] \in Nat
  <2> TAKE k \in DOMAIN writes
  <2>1. k \in Key("coin") /\ s[k] \in Nat
    BY <1>1, <1>2, KeysHere
  <2>2. writes[k] = Passed(s[k], k = Balance(from), k = Balance(to), n)
    BY <1>1 DEF CoinWrites
  <2> QED  BY <1>1, <2>1, <2>2 DEF Passed
<1>4. \A u \in User : s2[Balance(u)] = Passed(s[Balance(u)], u = from, u = to, n)
  <2> TAKE u \in User
  <2>1. Balance(u) \in Key("coin") /\ s[Balance(u)] \in Nat
    BY <1>2, KeysHere
  <2>2. CASE u = from \/ u = to
    <3>1. /\ Balance(u) \in DOMAIN writes
          /\ (Balance(u) = Balance(from)) = (u = from) /\ (Balance(u) = Balance(to)) = (u = to)
      BY <1>1, <2>2, KeysDiffer
    <3>2. writes[Balance(u)] = Passed(s[Balance(u)], u = from, u = to, n)
      BY <1>1, <3>1 DEF CoinWrites
    <3> HIDE DEF writes
    <3> QED  BY <2>1, <3>1, <3>2, WrittenAt
  <2>3. CASE u # from /\ u # to
    <3>1. Balance(u) \notin DOMAIN writes
      BY <1>1, <2>3, KeysDiffer
    <3> HIDE DEF writes
    <3> QED  BY <2>1, <2>3, <3>1, WrittenAt DEF Passed
  <2> QED  BY <2>2, <2>3
<1> HIDE DEF writes
<1>5. s2 \in Stores("coin")
  <2>1. s2 = [k \in Key("coin") |-> s2[k]] /\ DOMAIN s2 = Key("coin")
    BY DEF Written, Stores
  <2>2. \A k \in Key("coin") : s2[k] \in Nat
    BY <1>2, <1>3, WrittenAt
  <2> QED  BY <2>1, <2>2 DEF Stores
<1> HIDE DEF s2
<1>6. Balances(s2) = Swap!Moved(Balances(s), from, to, n)
  <2>1. Balances(s) \in [User -> Nat]
    BY <1>2, KeysHere DEF Balances
  <2>2. Swap!Moved(Balances(s), from, to, n)
          = [u \in User |-> Passed(Balances(s)[u], u = from, u = to, n)]
    BY <2>1, MovedIs DEF Transferred
  <2> QED  BY <1>4, <2>2 DEF Balances
<1> QED  BY <1>1, <1>3, <1>5, <1>6 DEF s2

LEMMA EstateCall ==
    ASSUME NEW s \in Stores("security"), NEW from \in User, NEW to \in User, NEW n \in Nat,
           Counts(s), Call("security", s, from, to, n).ok
    PROVE  LET writes == Call("security", s, from, to, n).writes
               s2 == Written(s, writes)
           IN  /\ s[Share(from)] >= n /\ to \in Allowed(s)
               /\ \A k \in DOMAIN writes : writes[k] \in Nat
               /\ s2 \in Stores("security")
               /\ SharesOf(s2) = Swap!Moved(SharesOf(s), from, to, n)
               /\ Allowed(s2) = Allowed(s)
               /\ Counts(s2) /\ s2[OwnerCount] <= MaxTokenOwner
<1> DEFINE writes == ShareWrites(s, from, to, n)
           s2 == Written(s, writes)
           moved == Transferred(SharesOf(s), from, to, n)
<1>1. /\ s[Share(from)] >= n /\ s[White(to)] = 1
      /\ Counted(s, from, to, n) <= MaxTokenOwner
      /\ writes = Call("security", s, from, to, n).writes
      /\ DOMAIN writes = {Share(from), Share(to), OwnerCount}
  <2>1. "security" \in Chain
    BY DEF Chain
  <2> DEFINE call == Call("security", s, from, to, n)
  <2>2. call.writes = writes
    BY <2>1, CallIs DEF CallWrites
  <2>3. call.ok = /\ s[Share(from)] >= n
                  /\ s[White(to)] = 1
                  /\ Counted(s, from, to, n) <= MaxTokenOwner
    BY <2>1, CallIs DEF CallFine
  <2> QED  BY <2>2, <2>3 DEF ShareWrites
<1>2. \A k \in Key("security") : s[k] \in Nat
  BY DEF Stores
<1>3. SharesOf(s) \in [User -> Nat] /\ \A u \in User : SharesOf(s)[u] = s[Share(u)]
  BY <1>2, KeysHere DEF SharesOf
<1>4. /\ Cardinality(HoldersOf(moved)) = Counted(s, from, to, n)
      /\ Counted(s, from, to, n) \in Nat
  <2> DEFINE f == SharesOf(s)
  <2>1. /\ f \in [User -> Nat] /\ f[from] >= n
        /\ f[from] = s[Share(from)] /\ f[to] = s[Share(to)]
        /\ s[OwnerCount] = Cardinality(HoldersOf(f))
    BY <1>1, <1>3 DEF Counts
  <2> HIDE DEF f
  <2>2. /\ Cardinality(HoldersOf(Transferred(f, from, to, n)))
             = CountAfter(Cardinality(HoldersOf(f)), f[from], f[to], from = to, n)
        /\ Cardinality(HoldersOf(Transferred(f, from, to, n))) \in Nat
    BY <2>1, HoldersMoved
  <2>3. Counted(s, from, to, n)
          = CountAfter(Cardinality(HoldersOf(f)), f[from], f[to], from = to, n)
    BY <2>1 DEF Counted
  <2> QED  BY <2>2, <2>3 DEF f
<1>5. \A k \in DOMAIN writes : writes[k] \in Nat
  <2> TAKE k \in DOMAIN writes
  <2>1. k \in Key("security") /\ s[k] \in Nat
    BY <1>1, <1>2, KeysHere
  <2>2. writes[k] = IF k = OwnerCount THEN Counted(s, from, to, n)
                    ELSE Passed(s[k], k = Share(from), k = Share(to), n)
    BY <1>1 DEF ShareWrites
  <2>3. Passed(s[k], k = Share(from), k = Share(to), n) \in Nat
    BY <1>1, <2>1 DEF Passed
  <2> QED  BY <1>4, <2>2, <2>3
<1>6. \A u \in User : s2[Share(u)] = Passed(s[Share(u)], u = from, u = to, n)
  <2> TAKE u \in User
  <2>1. Share(u) \in Key("security") /\ s[Share(u)] \in Nat /\ Share(u) # OwnerCount
    BY <1>2, KeysHere, KeysDiffer
  <2>2. CASE u = from \/ u = to
    <3>1. /\ Share(u) \in DOMAIN writes
          /\ (Share(u) = Share(from)) = (u = from) /\ (Share(u) = Share(to)) = (u = to)
      BY <1>1, <2>2, KeysDiffer
    <3>2. writes[Share(u)] = Passed(s[Share(u)], u = from, u = to, n)
      BY <1>1, <2>1, <3>1 DEF ShareWrites
    <3> HIDE DEF writes
    <3> QED  BY <2>1, <3>1, <3>2, WrittenAt
  <2>3. CASE u # from /\ u # to
    <3>1. Share(u) \notin DOMAIN writes
      BY <1>1, <2>1, <2>3, KeysDiffer
    <3> HIDE DEF writes
    <3> QED  BY <2>1, <2>3, <3>1, WrittenAt DEF Passed
  <2> QED  BY <2>2, <2>3
<1>7. writes[OwnerCount] = Counted(s, from, to, n)
  BY <1>1 DEF ShareWrites
<1> HIDE DEF writes
<1>8. s2 \in Stores("security")
  <2>1. s2 = [k \in Key("security") |-> s2[k]] /\ DOMAIN s2 = Key("security")
    BY DEF Written, Stores
  <2>2. \A k \in Key("security") : s2[k] \in Nat
    BY <1>2, <1>5, WrittenAt
  <2> QED  BY <2>1, <2>2 DEF Stores
<1>9. s2[OwnerCount] = Counted(s, from, to, n)
  BY <1>1, <1>7, KeysHere, WrittenAt
<1>10. \A u \in User : s2[White(u)] = s[White(u)]
  BY <1>1, KeysHere, KeysDiffer, WrittenAt
<1> HIDE DEF s2
<1>11. SharesOf(s2) = moved
  BY <1>3, <1>6 DEF SharesOf, Transferred
<1>12. SharesOf(s2) = Swap!Moved(SharesOf(s), from, to, n)
  <2> DEFINE f == SharesOf(s)
  <2>1. f \in [User -> Nat]
    BY <1>3
  <2>2. moved = Transferred(f, from, to, n)
    OBVIOUS
  <2> HIDE DEF f, moved
  <2> QED  BY <1>11, <2>1, <2>2, MovedIs DEF f
<1>13. Counts(s2)
  BY <1>4, <1>9, <1>11 DEF Counts
<1>14. Allowed(s2) = Allowed(s) /\ to \in Allowed(s)
  BY <1>1, <1>10 DEF Allowed
<1> HIDE DEF moved
<1> QED  BY <1>1, <1>5, <1>8, <1>9, <1>12, <1>13, <1>14 DEF s2
-----------------------------------------------------------------------------
\* The functions are defined where they should be, and nothing is prepared of
\* a transaction before it was built.
Shape ==
    /\ tx \in [Tx -> {"new", "paid", "built"}]
    /\ ops = [x \in Tx |-> [c \in Chain |-> ops[x][c]]]
    /\ vote \in [Tx -> [Chain -> {"none", "ok", "failed"}]]
    /\ finished \in [Chain -> SUBSET Tx]
    /\ \A x \in Tx, c \in Chain : tx[x] # "built" => vote[x][c] = "none"

\* The transactions whose writes are locked on a chain.
Holding(c) == {x \in Tx \ finished[c] : vote[x][c] = "ok"}

\* What Cross's locks are for: no two transactions that are prepared write one key.
WritesDisjoint ==
    \A c \in Chain : \A x, y \in Holding(c) :
        x # y => DOMAIN ops[x][c] \cap DOMAIN ops[y][c] = {}

DInv == Shape /\ WritesDisjoint

\* What is held needs a look only where something new is held.
LEMMA HeldAsBefore ==
    ASSUME WritesDisjoint,
           \A c \in Chain : \A x \in Holding(c)' : x \in Holding(c) /\ ops'[x][c] = ops[x][c]
    PROVE  WritesDisjoint'
  BY DEF WritesDisjoint

LEMMA DInvInit == Init => DInv
<1> SUFFICES ASSUME Init PROVE DInv
  OBVIOUS
<1>1. Shape
  BY DEF Init, Shape, Chain
<1>2. WritesDisjoint
  BY DEF Init, WritesDisjoint, Holding, Chain
<1> QED  BY <1>1, <1>2 DEF DInv

LEMMA SimulateKeeps ==
    ASSUME DInv, NEW x \in Tx, NEW c \in Chain, NEW writes, NEW state,
           state \in {"paid", "built"}, tx[x] # "built",
           tx' = [tx EXCEPT ![x] = state], ops' = [ops EXCEPT ![x][c] = writes],
           UNCHANGED <<vote, finished>>
    PROVE  DInv'
<1>1. Shape'
  BY DEF DInv, Shape
<1>2. \A k \in Chain : \A y \in Holding(k)' : y \in Holding(k) /\ ops'[y][k] = ops[y][k]
  BY DEF DInv, Shape, Holding
<1> QED  BY <1>1, <1>2, HeldAsBefore DEF DInv

\* A chain that prepares a transaction locks nothing that is locked: the
\* call it makes writes the keys of the transaction.
LEMMA PrepareKeeps ==
    ASSUME DInv, NEW x \in Tx, NEW c \in Chain, Prepare(x, c)
    PROVE  DInv'
<1> DEFINE call == CallOf(x, c)
           good == /\ call.ok
                   /\ call.writes = ops[x][c]
                   /\ Touched(call) \cap Locked(c) = {}
<1>1. /\ tx[x] = "built" /\ vote[x][c] = "none"
      /\ vote' = [vote EXCEPT ![x][c] = IF good THEN "ok" ELSE "failed"]
      /\ ops' = IF good THEN ops ELSE Discarded(x, c)
      /\ UNCHANGED <<tx, finished>>
  BY DEF Prepare
<1>2. good => DOMAIN ops[x][c] \cap Locked(c) = {}
  BY DEF Touched
<1> HIDE DEF good
<1>3. Shape'
  BY <1>1 DEF DInv, Shape, Discarded
<1>4. CASE good
  <2>1. /\ ops' = ops
        /\ \A k \in Chain : Holding(k)' \subseteq Holding(k) \cup IF k = c THEN {x} ELSE {}
    BY <1>1, <1>4 DEF DInv, Shape, Holding
  <2>2. \A y \in Holding(c) : DOMAIN ops[x][c] \cap DOMAIN ops[y][c] = {}
    BY <1>2, <1>4 DEF Locked, Holding
  <2>3. ASSUME NEW k \in Chain, NEW y \in Holding(k)', NEW z \in Holding(k)', y # z
        PROVE  DOMAIN ops'[y][k] \cap DOMAIN ops'[z][k] = {}
    <3>1. CASE y \in Holding(k) /\ z \in Holding(k)
      BY <2>1, <2>3, <3>1 DEF DInv, WritesDisjoint
    <3>2. CASE y \notin Holding(k) \/ z \notin Holding(k)
      <4>1. k = c /\ (y = x \/ z = x) /\ (y \in Holding(c) \/ z \in Holding(c))
        BY <2>1, <2>3, <3>2
      <4> QED  BY <2>1, <2>2, <2>3, <4>1
    <3> QED  BY <3>1, <3>2
  <2> QED  BY <1>3, <2>3 DEF DInv, WritesDisjoint
<1>5. CASE ~good
  <2>1. \A k \in Chain : \A y \in Holding(k)' : y \in Holding(k) /\ ops'[y][k] = ops[y][k]
    BY <1>1, <1>5 DEF DInv, Shape, Holding, Discarded
  <2> QED  BY <1>3, <2>1, HeldAsBefore DEF DInv
<1> QED  BY <1>4, <1>5

LEMMA FinishKeeps ==
    ASSUME DInv, NEW x \in Tx, NEW c \in Chain, Finish(x, c)
    PROVE  DInv'
<1>1. /\ finished' = [finished EXCEPT ![c] = @ \cup {x}]
      /\ ops' = Discarded(x, c) /\ UNCHANGED <<tx, vote>>
  BY DEF Finish
<1>2. Shape'
  BY <1>1 DEF DInv, Shape, Discarded
<1>3. \A k \in Chain : \A y \in Holding(k)' : y \in Holding(k) /\ ops'[y][k] = ops[y][k]
  BY <1>1 DEF DInv, Shape, Holding, Discarded
<1> QED  BY <1>2, <1>3, HeldAsBefore DEF DInv

LEMMA NothingPrepared ==
    ASSUME DInv, UNCHANGED <<tx, ops, vote, finished>>
    PROVE  DInv'
  BY DEF DInv, Shape, WritesDisjoint, Holding

LEMMA DInvStep == DInv /\ [Next]_vars => DInv'
<1> SUFFICES ASSUME DInv, [Next]_vars PROVE DInv'
  OBVIOUS
<1> USE DEF Chain
<1>1. ASSUME NEW x \in Tx, NEW t \in Trade, NEW u \in User, SimulateCoin(x, t, u)
      PROVE  DInv'
  BY <1>1, SimulateKeeps DEF SimulateCoin
<1>2. ASSUME NEW x \in Tx, SimulateSecurity(x) PROVE DInv'
  BY <1>2, SimulateKeeps DEF SimulateSecurity
<1>3. ASSUME NEW x \in Tx, Relay(x) PROVE DInv'
  BY <1>3, PrepareKeeps, FinishKeeps, NothingPrepared DEF Relay, Decide
<1>4. ASSUME NEW c \in Chain, NEW call, Direct(c, call) PROVE DInv'
  BY <1>4, NothingPrepared DEF Direct
<1>5. ASSUME NEW u \in User, AddToWhitelist(u) PROVE DInv'
  BY <1>4, <1>5 DEF AddToWhitelist
<1>6. CASE UNCHANGED vars
  BY <1>6, NothingPrepared DEF vars
<1> QED  BY <1>1, <1>2, <1>3, <1>4, <1>5, <1>6 DEF Next
-----------------------------------------------------------------------------
DealOf(x) == CHOOSE d \in deal[x] : TRUE

From(c, d) == IF c = "coin" THEN d.buyer ELSE d.trade.seller
To(c, d) == IF c = "coin" THEN d.trade.seller ELSE d.buyer
Owed(c, d) == IF c = "coin" THEN Price(d.trade) ELSE d.trade.amount

\* The call that a deal makes on a chain, were the store s.
Asked(c, s, d) == Call(c, s, From(c, d), To(c, d), Owed(c, d))

\* In which order things happen to a transaction.
Phases ==
    /\ store = [c \in Chain |-> store[c]] /\ deal = [x \in Tx |-> deal[x]]
    /\ \A x \in Tx :
        /\ tx[x] = "new" => deal[x] = {}
        /\ decision[x] = "commit" => \A c \in Chain : vote[x][c] = "ok"
        /\ \A c \in Chain : x \in finished[c] => decision[x] # "none"

HeldIsNat ==
    \A c \in Chain : \A x \in Holding(c) : \A k \in DOMAIN ops[x][c] : ops[x][c][k] \in Nat

\* What a chain has prepared and is not decided may still be done, on the store
\* with all that is decided, and with the same writes.
ReadyAt(c, x) ==
    /\ Asked(c, Effective(c), DealOf(x)).ok
    /\ Asked(c, Effective(c), DealOf(x)).writes = ops[x][c]

Ready == \A c \in Chain : \A x \in Holding(c) : decision[x] = "none" => ReadyAt(c, x)

\* What tells of Effective.
Base == TypeOK /\ DInv /\ Phases /\ HeldIsNat

\* The inductive invariant.
SInv == Base /\ Ready /\ OwnerCountExact

LEMMA CommittingHeld == Base => \A c \in Chain : Committing(c) \subseteq Holding(c)
  BY DEF Base, Phases, Committing, Holding

LEMMA Singleton ==
    ASSUME NEW x \in Tx, NEW D, deal[x] \subseteq D, \E d \in deal[x] : deal[x] = {d}
    PROVE  DealOf(x) \in D /\ deal[x] = {DealOf(x)}
  BY DEF DealOf

LEMMA DealIs ==
    ASSUME TypeOK, NEW x \in Tx, tx[x] # "new"
    PROVE  /\ DealOf(x) \in [trade : Trade, buyer : User] /\ deal[x] = {DealOf(x)}
           /\ \A c \in Chain : /\ From(c, DealOf(x)) \in User /\ To(c, DealOf(x)) \in User
                               /\ Owed(c, DealOf(x)) \in Nat
<1>1. DealOf(x) \in [trade : Trade, buyer : User] /\ deal[x] = {DealOf(x)}
  BY Singleton DEF TypeOK
<1> DEFINE d == DealOf(x)
<1> HIDE DEF d
<1>2. d \in [trade : Trade, buyer : User]
  BY <1>1 DEF d
<1>3. /\ d.buyer \in User /\ d.trade \in Trade
      /\ d.trade.seller \in User /\ d.trade.amount \in Nat /\ d.trade.unitPrice \in Nat
  BY <1>2, CrossAssumption
<1>4. Price(d.trade) \in Nat
  BY <1>3 DEF Price
<1>5. \A c \in Chain : From(c, d) \in User /\ To(c, d) \in User /\ Owed(c, d) \in Nat
  BY <1>3, <1>4 DEF From, To, Owed
<1> QED  BY <1>1, <1>5 DEF d

LEMMA HeldDeal ==
    ASSUME Base, NEW c \in Chain, NEW x \in Holding(c)
    PROVE  /\ x \in Tx /\ tx[x] = "built"
           /\ From(c, DealOf(x)) \in User /\ To(c, DealOf(x)) \in User
           /\ Owed(c, DealOf(x)) \in Nat
<1>1. x \in Tx /\ tx[x] = "built"
  BY DEF Base, DInv, Shape, Holding
<1> QED  BY <1>1, DealIs DEF Base

LEMMA CallOfIs ==
    ASSUME NEW x \in Tx, NEW c \in Chain
    PROVE  CallOf(x, c) = Asked(c, store[c], DealOf(x))
  BY DEF CallOf, Asked, Call, DealOf, From, To, Owed, Chain

\* Effective(c), key by key: there is one writer of a key at most, as the
\* writes of what is held are disjoint.
EffectiveRight ==
    \A c \in Chain :
        /\ Effective(c) \in Stores(c)
        /\ \A k \in Key(c) :
            /\ (\A x \in Committing(c) : k \notin DOMAIN ops[x][c])
                 => Effective(c)[k] = store[c][k]
            /\ \A x \in Committing(c) :
                 k \in DOMAIN ops[x][c] => Effective(c)[k] = ops[x][c][k]

LEMMA EffectiveIsRight == Base => EffectiveRight
<1> SUFFICES ASSUME Base, NEW c \in Chain
             PROVE  /\ Effective(c) \in Stores(c)
                    /\ \A k \in Key(c) :
                        /\ (\A x \in Committing(c) : k \notin DOMAIN ops[x][c])
                             => Effective(c)[k] = store[c][k]
                        /\ \A x \in Committing(c) :
                             k \in DOMAIN ops[x][c] => Effective(c)[k] = ops[x][c][k]
  BY DEF EffectiveRight
<1>1. store[c] \in Stores(c)
  BY DEF Base, TypeOK, Stores
<1>2. CASE Committing(c) = {}
  BY <1>1, <1>2 DEF Effective
<1>3. CASE Committing(c) # {}
  <2> DEFINE Writers(k) == {x \in Committing(c) : k \in DOMAIN ops[x][c]}
             At(k) == IF Writers(k) = {} THEN store[c][k]
                      ELSE ops[CHOOSE x \in Writers(k) : TRUE][c][k]
  <2>1. Effective(c) = [k \in Key(c) |-> At(k)]
    BY <1>3 DEF Effective
  <2>2. ASSUME NEW k \in Key(c), NEW x \in Committing(c), k \in DOMAIN ops[x][c]
        PROVE  At(k) = ops[x][c][k] /\ At(k) \in Nat
    <3>1. Writers(k) = {x}
      <4>1. ASSUME NEW y \in Committing(c), k \in DOMAIN ops[y][c]
            PROVE  y = x
        BY <2>2, <4>1, CommittingHeld DEF Base, DInv, WritesDisjoint
      <4> QED  BY <2>2, <4>1
    <3>2. (CHOOSE y \in Writers(k) : TRUE) = x /\ Writers(k) # {}
      BY <3>1
    <3> HIDE DEF Writers
    <3>3. At(k) = ops[x][c][k]
      BY <3>2
    <3> QED  BY <2>2, <3>3, CommittingHeld DEF Base, HeldIsNat
  <2>3. ASSUME NEW k \in Key(c), \A x \in Committing(c) : k \notin DOMAIN ops[x][c]
        PROVE  At(k) = store[c][k] /\ At(k) \in Nat
    <3>1. Writers(k) = {}
      BY <2>3
    <3> QED  BY <1>1, <3>1 DEF Stores
  <2> HIDE DEF At
  <2>4. \A k \in Key(c) : At(k) \in Nat
    BY <2>2, <2>3
  <2>5. Effective(c) \in Stores(c)
    BY <2>1, <2>4 DEF Stores
  <2>6. \A k \in Key(c) : Effective(c)[k] = At(k)
    BY <2>1
  <2> QED  BY <2>2, <2>3, <2>5, <2>6
<1> QED  BY <1>2, <1>3

LEMMA EffectiveIsRightNext == Base' => EffectiveRight'
<1>1. (Base => EffectiveRight)'
  BY EffectiveIsRight, PTL
<1> QED  BY <1>1
-----------------------------------------------------------------------------
LEMMA SameStore ==
    ASSUME NEW c, NEW s \in Stores(c), NEW s2 \in Stores(c), \A k \in Key(c) : s2[k] = s[k]
    PROVE  s2 = s
  BY DEF Stores

LEMMA EffectiveStays ==
    ASSUME Base, Base', NEW c \in Chain,
           store'[c] = store[c], Committing(c)' = Committing(c),
           \A x \in Committing(c) : ops'[x][c] = ops[x][c]
    PROVE  Effective(c)' = Effective(c)
<1>1. EffectiveRight /\ EffectiveRight'
  BY EffectiveIsRight, EffectiveIsRightNext
<1>2. ASSUME NEW k \in Key(c) PROVE Effective(c)'[k] = Effective(c)[k]
  <2>1. CASE \E x \in Committing(c) : k \in DOMAIN ops[x][c]
    BY <1>1, <2>1 DEF EffectiveRight
  <2>2. CASE \A x \in Committing(c) : k \notin DOMAIN ops[x][c]
    BY <1>1, <2>2 DEF EffectiveRight
  <2> QED  BY <2>1, <2>2
<1>3. Effective(c) \in Stores(c) /\ Effective(c)' \in Stores(c)
  BY <1>1 DEF EffectiveRight, Stores
<1> HIDE DEF Effective
<1> QED  BY <1>2, <1>3, SameStore

\* A chain that commits what is decided changes nothing but what is still to
\* be committed.
LEMMA FinishEffective ==
    ASSUME Base, Base', NEW x \in Tx, NEW c \in Chain, Finish(x, c)
    PROVE  \A e \in Chain : Effective(e)' = Effective(e)
<1>1. /\ decision[x] # "none" /\ vote[x][c] # "none" /\ x \notin finished[c]
      /\ finished' = [finished EXCEPT ![c] = @ \cup {x}]
      /\ store' = IF decision[x] = "commit"
                  THEN [store EXCEPT ![c] = Written(@, ops[x][c])] ELSE store
      /\ ops' = [ops EXCEPT ![x][c] = NoOps]
      /\ UNCHANGED <<tx, deal, vote, decision>>
  BY DEF Finish, Discarded
<1>2. \A y \in Tx, e \in Chain : (y # x \/ e # c) => ops'[y][e] = ops[y][e]
  BY <1>1 DEF Base, DInv, Shape
<1>3. \A e \in Chain : e # c => store'[e] = store[e]
  BY <1>1 DEF Base, Phases
<1>4. /\ \A e \in Chain : e # c => Committing(e)' = Committing(e)
      /\ Committing(c)' = Committing(c) \ {x}
  BY <1>1 DEF Committing, Base, DInv, Shape
<1>5. \A e \in Chain : \A y \in Committing(e)' : ops'[y][e] = ops[y][e]
  BY <1>2, <1>4 DEF Committing
<1>6. ASSUME NEW e \in Chain, e # c PROVE Effective(e)' = Effective(e)
  BY <1>3, <1>4, <1>5, <1>6, EffectiveStays
<1>7. CASE decision[x] # "commit"
  <2>1. store'[c] = store[c] /\ Committing(c)' = Committing(c)
    BY <1>1, <1>4, <1>7 DEF Committing
  <2>2. Effective(c)' = Effective(c)
    BY <1>5, <2>1, EffectiveStays
  <2> QED  BY <1>6, <2>2
<1>8. CASE decision[x] = "commit"
  <2>1. x \in Committing(c) /\ x \in Holding(c)
    BY <1>1, <1>8, CommittingHeld DEF Committing
  <2>2. store'[c] = Written(store[c], ops[x][c])
    BY <1>1, <1>8 DEF Base, Phases
  <2>3. EffectiveRight /\ EffectiveRight' /\ store[c] \in Stores(c)
    BY EffectiveIsRight, EffectiveIsRightNext DEF Base, TypeOK, Stores
  <2>4. ASSUME NEW k \in Key(c) PROVE Effective(c)'[k] = Effective(c)[k]
    <3>1. CASE k \in DOMAIN ops[x][c]
      <4>1. \A y \in Committing(c)' : k \notin DOMAIN ops[y][c]
        BY <1>4, <2>1, <3>1, CommittingHeld DEF Base, DInv, WritesDisjoint
      <4>2. Effective(c)'[k] = store'[c][k]
        BY <1>5, <2>3, <4>1 DEF EffectiveRight
      <4>3. store'[c][k] = ops[x][c][k]
        BY <2>2, <2>3, <3>1, WrittenAt
      <4>4. Effective(c)[k] = ops[x][c][k]
        BY <2>1, <2>3, <3>1 DEF EffectiveRight
      <4> QED  BY <4>2, <4>3, <4>4
    <3>2. CASE k \notin DOMAIN ops[x][c]
      <4>1. store'[c][k] = store[c][k]
        BY <2>2, <2>3, <3>2, WrittenAt
      <4>2. CASE \E y \in Committing(c) : k \in DOMAIN ops[y][c]
        <5>1. PICK y \in Committing(c) : k \in DOMAIN ops[y][c]
          BY <4>2
        <5>2. y \in Committing(c)' /\ ops'[y][c] = ops[y][c]
          BY <1>4, <1>5, <3>2, <5>1
        <5>3. Effective(c)[k] = ops[y][c][k]
          BY <2>3, <5>1 DEF EffectiveRight
        <5>4. Effective(c)'[k] = ops'[y][c][k]
          BY <2>3, <5>1, <5>2 DEF EffectiveRight
        <5> QED  BY <5>2, <5>3, <5>4
      <4>3. CASE \A y \in Committing(c) : k \notin DOMAIN ops[y][c]
        <5>1. \A y \in Committing(c)' : k \notin DOMAIN ops'[y][c]
          BY <1>4, <1>5, <4>3
        <5>2. Effective(c)'[k] = store'[c][k]
          BY <2>3, <5>1 DEF EffectiveRight
        <5>3. Effective(c)[k] = store[c][k]
          BY <2>3, <4>3 DEF EffectiveRight
        <5> QED  BY <4>1, <5>2, <5>3
      <4> QED  BY <4>2, <4>3
    <3> QED  BY <3>1, <3>2
  <2>5. Effective(c) \in Stores(c) /\ Effective(c)' \in Stores(c)
    BY <2>3 DEF EffectiveRight, Stores
  <2>6. Effective(c)' = Effective(c)
    BY <2>4, <2>5, SameStore
  <2> QED  BY <1>6, <2>6
<1> QED  BY <1>7, <1>8

\* The decision to commit is when the writes take effect, on both chains.
LEMMA CommitEffective ==
    ASSUME Base, Base', NEW x \in Tx, NEW c \in Chain,
           decision[x] = "none", x \in Holding(c),
           decision' = [decision EXCEPT ![x] = "commit"],
           UNCHANGED <<store, ops, finished>>
    PROVE  Effective(c)' = Written(Effective(c), ops[x][c])
<1>1. Committing(c)' = Committing(c) \cup {x} /\ x \notin Committing(c)
  BY DEF Committing, Holding, Base, TypeOK
<1>2. EffectiveRight /\ EffectiveRight'
  BY EffectiveIsRight, EffectiveIsRightNext
<1>3. Effective(c) \in Stores(c) /\ Effective(c)' \in Stores(c)
  BY <1>2 DEF EffectiveRight, Stores
<1> DEFINE after == Written(Effective(c), ops[x][c])
<1>4. ASSUME NEW k \in Key(c)
      PROVE  Effective(c)'[k] = IF k \in DOMAIN ops[x][c] THEN ops[x][c][k] ELSE Effective(c)[k]
  <2>1. CASE k \in DOMAIN ops[x][c]
    <3>1. Effective(c)'[k] = ops'[x][c][k]
      BY <1>1, <1>2, <2>1 DEF EffectiveRight
    <3> QED  BY <2>1, <3>1
  <2>2. CASE k \notin DOMAIN ops[x][c]
    <3>1. CASE \E y \in Committing(c) : k \in DOMAIN ops[y][c]
      <4>1. PICK y \in Committing(c) : k \in DOMAIN ops[y][c]
        BY <3>1
      <4>2. Effective(c)[k] = ops[y][c][k]
        BY <1>2, <4>1 DEF EffectiveRight
      <4>3. Effective(c)'[k] = ops'[y][c][k]
        BY <1>1, <1>2, <4>1 DEF EffectiveRight
      <4> QED  BY <2>2, <4>2, <4>3
    <3>2. CASE \A y \in Committing(c) : k \notin DOMAIN ops[y][c]
      <4>1. Effective(c)[k] = store[c][k]
        BY <1>2, <3>2 DEF EffectiveRight
      <4>2. Effective(c)'[k] = store'[c][k]
        BY <1>1, <1>2, <2>2, <3>2 DEF EffectiveRight
      <4> QED  BY <2>2, <4>1, <4>2
    <3> QED  BY <3>1, <3>2
  <2> QED  BY <2>1, <2>2
<1>5. DOMAIN after = Key(c) /\ after = [k \in Key(c) |-> after[k]]
  BY <1>3 DEF Written, Stores
<1>6. \A k \in Key(c) : Effective(c)'[k] = after[k]
  BY <1>3, <1>4, WrittenAt
<1> HIDE DEF after
<1>7. Effective(c)' = after
  BY <1>3, <1>5, <1>6 DEF Stores
<1> QED  BY <1>7 DEF after

LEMMA Unlocked ==
    ASSUME Base, NEW c \in Chain, NEW k \in Key(c), k \notin Locked(c)
    PROVE  Effective(c)[k] = store[c][k] /\ \A x \in Holding(c) : k \notin DOMAIN ops[x][c]
<1>1. \A x \in Holding(c) : k \notin DOMAIN ops[x][c]
  BY DEF Locked, Holding
<1> QED  BY <1>1, CommittingHeld, EffectiveIsRight DEF EffectiveRight

LEMMA DirectEffective ==
    ASSUME Base, Base', NEW c \in Chain, NEW writes, DOMAIN writes \cap Locked(c) = {},
           DOMAIN writes \subseteq Key(c),
           store' = [store EXCEPT ![c] = Written(@, writes)],
           UNCHANGED <<tx, deal, ops, vote, finished, decision>>
    PROVE  /\ Effective(c)' = Written(Effective(c), writes)
           /\ \A e \in Chain : e # c => Effective(e)' = Effective(e)
<1>1. \A e \in Chain : Committing(e)' = Committing(e)
  BY DEF Committing
<1>2. /\ store'[c] = Written(store[c], writes)
      /\ \A e \in Chain : e # c => store'[e] = store[e]
  BY DEF Base, Phases
<1>3. ASSUME NEW e \in Chain, e # c PROVE Effective(e)' = Effective(e)
  BY <1>1, <1>2, <1>3, EffectiveStays
<1>4. EffectiveRight /\ EffectiveRight' /\ store[c] \in Stores(c)
  BY EffectiveIsRight, EffectiveIsRightNext DEF Base, TypeOK, Stores
<1>5. Effective(c) \in Stores(c) /\ Effective(c)' \in Stores(c)
  BY <1>4 DEF EffectiveRight, Stores
<1> DEFINE after == Written(Effective(c), writes)
<1>6. ASSUME NEW k \in Key(c)
      PROVE  Effective(c)'[k] = IF k \in DOMAIN writes THEN writes[k] ELSE Effective(c)[k]
  <2>1. store'[c][k] = IF k \in DOMAIN writes THEN writes[k] ELSE store[c][k]
    BY <1>2, <1>4, WrittenAt
  <2>2. CASE \E y \in Committing(c) : k \in DOMAIN ops[y][c]
    <3>1. PICK y \in Committing(c) : k \in DOMAIN ops[y][c]
      BY <2>2
    <3>2. k \notin DOMAIN writes
      BY <3>1, CommittingHeld, Unlocked
    <3>3. Effective(c)[k] = ops[y][c][k]
      BY <1>4, <3>1 DEF EffectiveRight
    <3>4. Effective(c)'[k] = ops'[y][c][k]
      BY <1>1, <1>4, <3>1 DEF EffectiveRight
    <3> QED  BY <3>2, <3>3, <3>4
  <2>3. CASE \A y \in Committing(c) : k \notin DOMAIN ops[y][c]
    <3>1. Effective(c)[k] = store[c][k]
      BY <1>4, <2>3 DEF EffectiveRight
    <3>2. Effective(c)'[k] = store'[c][k]
      BY <1>1, <1>4, <2>3 DEF EffectiveRight
    <3> QED  BY <2>1, <3>1, <3>2
  <2> QED  BY <2>2, <2>3
<1>7. DOMAIN after = Key(c) /\ after = [k \in Key(c) |-> after[k]]
  BY <1>5 DEF Written, Stores
<1>8. \A k \in Key(c) : Effective(c)'[k] = after[k]
  BY <1>5, <1>6, WrittenAt
<1> HIDE DEF after
<1>9. Effective(c)' = after
  BY <1>5, <1>7, <1>8 DEF Stores
<1> QED  BY <1>3, <1>9 DEF after
-----------------------------------------------------------------------------
OwnerCounts == Counts(Effective("security"))

LEMMA OwnerCountIs == OwnerCountExact <=> OwnerCounts
  BY DEF OwnerCountExact, OwnerCounts, Counts, Column, SharesOf, HoldersOf, Share

LEMMA OwnerCountIsNext == OwnerCountExact' <=> OwnerCounts'
  BY OwnerCountIs, PTL

LEMMA SInvInit == Init => SInv
<1> SUFFICES ASSUME Init PROVE SInv
  OBVIOUS
<1>1. DInv
  BY DInvInit
<1>2. \A c \in Chain : Holding(c) = {} /\ Committing(c) = {}
  BY DEF Init, Holding, Committing
<1>3. /\ \A u \in User : /\ store["coin"][Balance(u)] = Coins[u]
                         /\ store["security"][Share(u)] = Shares[u]
                         /\ store["security"][White(u)] = IF u \in Admitted THEN 1 ELSE 0
      /\ store["security"][OwnerCount] = Cardinality({u \in User : Shares[u] # 0})
      /\ \A c \in Chain : DOMAIN store[c] = Key(c) /\ store[c] = [k \in Key(c) |-> store[c][k]]
  <2> DEFINE At(k) == CASE k[1] = "balance" -> Coins[k[2]]
                        [] k[1] = "share" -> Shares[k[2]]
                        [] k[1] = "white" -> IF k[2] \in Admitted THEN 1 ELSE 0
                        [] k[1] = "owners" -> Cardinality({u \in User : Shares[u] # 0})
  <2>1. \A c \in Chain : store[c] = [k \in Key(c) |-> At(k)]
    BY DEF Init
  <2>2. "coin" \in Chain /\ "security" \in Chain
    BY DEF Chain
  <2>3. \A u \in User : At(Balance(u)) = Coins[u]
    BY DEF Balance
  <2>4. \A u \in User : At(Share(u)) = Shares[u]
    BY DEF Share
  <2>5. \A u \in User : At(White(u)) = IF u \in Admitted THEN 1 ELSE 0
    BY DEF White
  <2>6. At(OwnerCount) = Cardinality({u \in User : Shares[u] # 0})
    BY DEF OwnerCount
  <2> HIDE DEF At
  <2>7. \A c \in Chain : \A k \in Key(c) : store[c][k] = At(k)
    BY <2>1
  <2>8. \A u \in User : store["coin"][Balance(u)] = Coins[u]
    BY <2>2, <2>3, <2>7, KeysHere
  <2>9. \A u \in User : store["security"][Share(u)] = Shares[u]
    BY <2>2, <2>4, <2>7, KeysHere
  <2>10. \A u \in User : store["security"][White(u)] = IF u \in Admitted THEN 1 ELSE 0
    BY <2>2, <2>5, <2>7, KeysHere
  <2>11. store["security"][OwnerCount] = Cardinality({u \in User : Shares[u] # 0})
    BY <2>2, <2>6, <2>7, KeysHere
  <2>12. \A c \in Chain : DOMAIN store[c] = Key(c) /\ store[c] = [k \in Key(c) |-> store[c][k]]
    BY <2>1
  <2> QED  BY <2>8, <2>9, <2>10, <2>11, <2>12
<1>4. Cardinality({u \in User : Shares[u] # 0}) \in Nat
  BY CrossAssumption, FS_Subset, FS_CardinalityType
<1>5. \A c \in Chain : store[c] \in [Key(c) -> Nat]
  <2>1. \A k \in Key("coin") : store["coin"][k] \in Nat
    BY <1>3, CrossAssumption DEF Key
  <2>2. \A k \in Key("security") : store["security"][k] \in Nat
    BY <1>3, <1>4, CrossAssumption DEF Key
  <2> QED  BY <1>3, <2>1, <2>2 DEF Chain
<1>6. TypeOK
  BY <1>5 DEF TypeOK, Init, NoOps, Chain
<1>7. Base
  BY <1>1, <1>2, <1>6 DEF Base, Phases, HeldIsNat, Init
<1>8. Ready
  BY <1>2 DEF Ready
<1>9. OwnerCounts
  <2>1. Effective("security") = store["security"]
    BY <1>2 DEF Effective, Chain
  <2>2. HoldersOf(SharesOf(store["security"])) = {u \in User : Shares[u] # 0}
    BY <1>3 DEF HoldersOf, SharesOf
  <2> QED  BY <1>3, <2>1, <2>2 DEF OwnerCounts, Counts
<1> QED  BY <1>7, <1>8, <1>9, OwnerCountIs DEF SInv

LEMMA HeldNatKept ==
    ASSUME HeldIsNat,
           \A c \in Chain : \A x \in Holding(c)' : x \in Holding(c) /\ ops'[x][c] = ops[x][c]
    PROVE  HeldIsNat'
  BY DEF HeldIsNat

\* Steps that change the store with all that is decided in nothing.
LEMMA QuietKeeps ==
    ASSUME SInv, Base', \A c \in Chain : Effective(c)' = Effective(c),
           \A c \in Chain : \A x \in Holding(c)' : decision'[x] = "none" =>
               /\ x \in Holding(c) /\ decision[x] = "none"
               /\ ops'[x][c] = ops[x][c] /\ deal'[x] = deal[x]
    PROVE  SInv'
<1>1. OwnerCountExact'
  <2>1. "security" \in Chain
    BY DEF Chain
  <2>2. OwnerCounts' <=> OwnerCounts
    BY <2>1 DEF OwnerCounts
  <2> QED  BY <2>2, OwnerCountIs, OwnerCountIsNext DEF SInv
<1>2. Ready'
  <2> SUFFICES ASSUME NEW c \in Chain, NEW x \in Holding(c)', decision'[x] = "none"
               PROVE  ReadyAt(c, x)'
    BY DEF Ready
  <2>1. ReadyAt(c, x)
    BY DEF SInv, Ready
  <2>2. DealOf(x)' = DealOf(x) /\ Effective(c)' = Effective(c)
    BY DEF DealOf
  <2> QED  BY <2>1, <2>2 DEF ReadyAt, Asked, Call
<1> QED  BY <1>1, <1>2 DEF SInv

LEMMA SimulateCoinKeeps ==
    ASSUME SInv, DInv', NEW x \in Tx, NEW t \in Trade, NEW u \in User, SimulateCoin(x, t, u)
    PROVE  SInv' /\ \A c \in Chain : Effective(c)' = Effective(c)
<1> DEFINE call == CoinTransfer(store["coin"], u, t.seller, Price(t))
           d == [trade |-> t, buyer |-> u]
<1>1. /\ tx[x] = "new"
      /\ tx' = [tx EXCEPT ![x] = "paid"]
      /\ deal' = [deal EXCEPT ![x] = {d}]
      /\ ops' = [ops EXCEPT ![x]["coin"] = call.writes]
      /\ UNCHANGED <<store, vote, finished, decision>>
  BY DEF SimulateCoin
<1>2. t.seller \in User /\ Price(t) \in Nat
  BY CrossAssumption DEF Price
<1>3. DOMAIN call.writes \subseteq Key("coin")
  <2>1. call = Call("coin", store["coin"], u, t.seller, Price(t)) /\ "coin" \in Chain
    BY DEF Call, Chain
  <2>2. store["coin"] \in Stores("coin")
    BY DEF SInv, Base, TypeOK, Stores, Chain
  <2> QED  BY <1>2, <2>1, <2>2, CallIs, CallKeys
<1> HIDE DEF call
<1>4. d \in [trade : Trade, buyer : User]
  OBVIOUS
<1> HIDE DEF d
<1>5. TypeOK'
  <2>1. /\ \A c \in Chain : store'[c] \in [Key(c) -> Nat]
        /\ tx' \in [Tx -> {"new", "paid", "built"}]
        /\ vote' \in [Tx -> [Chain -> {"none", "ok", "failed"}]]
        /\ finished' \in [Chain -> SUBSET Tx]
        /\ decision' \in [Tx -> {"none", "commit", "abort"}]
    BY <1>1 DEF SInv, Base, TypeOK
  <2>2. ASSUME NEW y \in Tx, NEW c \in Chain PROVE DOMAIN ops'[y][c] \subseteq Key(c)
    BY <1>1, <1>3 DEF SInv, Base, TypeOK, DInv, Shape
  <2>3. ASSUME NEW y \in Tx
        PROVE  /\ deal'[y] \subseteq [trade : Trade, buyer : User]
               /\ tx'[y] # "new" => \E e \in deal'[y] : deal'[y] = {e}
    <3>1. CASE y = x
      <4>1. deal'[y] = {d}
        BY <1>1, <3>1 DEF SInv, Base, Phases
      <4> QED  BY <1>4, <4>1
    <3>2. CASE y # x
      <4>1. deal'[y] = deal[y] /\ tx'[y] = tx[y]
        BY <1>1, <3>2 DEF SInv, Base, TypeOK, Phases
      <4> QED  BY <4>1 DEF SInv, Base, TypeOK
    <3> QED  BY <3>1, <3>2
  <2> QED  BY <2>1, <2>2, <2>3 DEF TypeOK
<1>6. Phases'
  BY <1>1 DEF SInv, Base, Phases, DInv, Shape
<1>7. /\ \A c \in Chain : Holding(c)' = Holding(c) /\ Committing(c)' = Committing(c)
      /\ \A c \in Chain : \A y \in Holding(c) :
            ops'[y][c] = ops[y][c] /\ deal'[y] = deal[y]
  BY <1>1 DEF Holding, Committing, SInv, Base, DInv, Shape, Phases
<1>8. HeldIsNat'
  BY <1>7, HeldNatKept DEF SInv, Base
<1>9. Base' /\ Base
  BY <1>5, <1>6, <1>8 DEF Base, SInv
<1>10. \A c \in Chain : Effective(c)' = Effective(c)
  BY <1>1, <1>7, <1>9, CommittingHeld, EffectiveStays
<1> QED  BY <1>1, <1>7, <1>9, <1>10, QuietKeeps

LEMMA SimulateSecurityKeeps ==
    ASSUME SInv, DInv', NEW x \in Tx, SimulateSecurity(x)
    PROVE  SInv' /\ \A c \in Chain : Effective(c)' = Effective(c)
<1> DEFINE call == CallOf(x, "security")
<1>1. /\ tx[x] = "paid"
      /\ tx' = [tx EXCEPT ![x] = "built"]
      /\ ops' = [ops EXCEPT ![x]["security"] = call.writes]
      /\ UNCHANGED <<store, deal, vote, finished, decision>>
  BY DEF SimulateSecurity
<1>2. DOMAIN call.writes \subseteq Key("security")
  <2> DEFINE d == DealOf(x)
  <2>1. call = Asked("security", store["security"], d) /\ "security" \in Chain
    BY CallOfIs DEF Chain
  <2>2. store["security"] \in Stores("security")
    BY DEF SInv, Base, TypeOK, Stores, Chain
  <2>3. From("security", d) \in User /\ To("security", d) \in User /\ Owed("security", d) \in Nat
    BY <1>1, <2>1, DealIs DEF SInv, Base
  <2> HIDE DEF call, d
  <2> QED  BY <2>1, <2>2, <2>3, CallIs, CallKeys DEF Asked
<1> HIDE DEF call
<1>3. TypeOK'
  BY <1>1, <1>2 DEF SInv, Base, TypeOK, DInv, Shape, Phases, Chain
<1>4. Phases'
  BY <1>1 DEF SInv, Base, Phases, DInv, Shape
<1>5. /\ \A c \in Chain : Holding(c)' = Holding(c) /\ Committing(c)' = Committing(c)
      /\ \A c \in Chain : \A y \in Holding(c) : ops'[y][c] = ops[y][c]
  BY <1>1 DEF Holding, Committing, SInv, Base, DInv, Shape, Phases
<1>6. HeldIsNat'
  BY <1>5, HeldNatKept DEF SInv, Base
<1>7. Base' /\ Base
  BY <1>3, <1>4, <1>6 DEF Base, SInv
<1>8. \A c \in Chain : Effective(c)' = Effective(c)
  BY <1>1, <1>5, <1>7, CommittingHeld, EffectiveStays
<1> QED  BY <1>1, <1>5, <1>7, <1>8, QuietKeeps

\* A call that touches nothing locked is the same on the store with all that
\* is decided.
LEMMA CallNow ==
    ASSUME SInv, NEW c \in Chain, NEW from \in User, NEW to \in User, NEW n \in Nat,
           Call(c, store[c], from, to, n).ok,
           Touched(Call(c, store[c], from, to, n)) \cap Locked(c) = {}
    PROVE  /\ Call(c, Effective(c), from, to, n).ok
           /\ Call(c, Effective(c), from, to, n).writes = Call(c, store[c], from, to, n).writes
           /\ DOMAIN Call(c, store[c], from, to, n).writes = Writes(c, from, to)
           /\ \A k \in DOMAIN Call(c, store[c], from, to, n).writes :
                Call(c, store[c], from, to, n).writes[k] \in Nat
<1>1. store[c] \in Stores(c) /\ Effective(c) \in Stores(c)
  BY EffectiveIsRight DEF EffectiveRight, SInv, Base, TypeOK, Stores
<1>2. DOMAIN Call(c, store[c], from, to, n).writes = Writes(c, from, to)
  BY <1>1, CallIs
<1>3. \A k \in Writes(c, from, to) \cup Reads(c, to) : Effective(c)[k] = store[c][k]
  <2>1. (Reads(c, to) \cup Writes(c, from, to)) \cap Locked(c) = {}
    BY <1>1, CallIs
  <2> QED  BY <2>1, CallKeys, Unlocked DEF SInv
<1>4. /\ Call(c, Effective(c), from, to, n).ok
      /\ Call(c, Effective(c), from, to, n).writes = Call(c, store[c], from, to, n).writes
  <2> DEFINE s == store[c]
             s2 == Effective(c)
  <2>1. s \in Stores(c) /\ s2 \in Stores(c)
    BY <1>1
  <2>2. /\ \A k \in Writes(c, from, to) : s2[k] = s[k]
        /\ \A k \in Reads(c, to) : s[k] = 1 => s2[k] = 1
    BY <1>3
  <2>3. Call(c, s, from, to, n).ok
    OBVIOUS
  <2> HIDE DEF s, s2
  <2>4. /\ Call(c, s2, from, to, n).ok
        /\ Call(c, s2, from, to, n).writes = Call(c, s, from, to, n).writes
    BY <2>1, <2>2, <2>3, CallAgain
  <2> QED  BY <2>4 DEF s, s2
<1>5. \A k \in DOMAIN Call(c, Effective(c), from, to, n).writes :
         Call(c, Effective(c), from, to, n).writes[k] \in Nat
  <2> DEFINE s == Effective(c)
  <2>1. s \in Stores(c) /\ Call(c, s, from, to, n).ok /\ (c = "security" => Counts(s))
    BY <1>1, <1>4, OwnerCountIs DEF SInv, OwnerCounts
  <2> HIDE DEF s
  <2>2. \A k \in DOMAIN Call(c, s, from, to, n).writes : Call(c, s, from, to, n).writes[k] \in Nat
    <3>1. CASE c = "coin"
      BY <2>1, <3>1, CoinCall
    <3>2. CASE c = "security"
      BY <2>1, <3>2, EstateCall
    <3> QED  BY <3>1, <3>2 DEF Chain
  <2> QED  BY <2>2 DEF s
<1> QED  BY <1>2, <1>4, <1>5

\* A step that leaves alone what a prepared transaction writes, and removes
\* nobody from the whitelist, leaves it ready.
LEMMA ReadyKept ==
    ASSUME SInv, NEW c \in Chain, NEW x \in Holding(c), decision[x] = "none",
           deal'[x] = deal[x], ops'[x][c] = ops[x][c], Effective(c)' \in Stores(c),
           \A k \in DOMAIN ops[x][c] : Effective(c)'[k] = Effective(c)[k],
           \A u \in User : c = "security" /\ Effective(c)[White(u)] = 1
                              => Effective(c)'[White(u)] = 1
    PROVE  ReadyAt(c, x)'
<1> DEFINE d == DealOf(x)
           from == From(c, d)
           to == To(c, d)
           n == Owed(c, d)
           s == Effective(c)
           s2 == Effective(c)'
<1>1. from \in User /\ to \in User /\ n \in Nat /\ s \in Stores(c) /\ s2 \in Stores(c)
  BY HeldDeal, EffectiveIsRight DEF SInv, EffectiveRight
<1>2. Call(c, s, from, to, n).ok /\ Call(c, s, from, to, n).writes = ops[x][c]
  BY DEF SInv, Ready, ReadyAt, Asked
<1>3. d' = d
  BY DEF DealOf
<1>4. ReadyAt(c, x)' <=> /\ Call(c, s2, from, to, n).ok
                         /\ Call(c, s2, from, to, n).writes = ops[x][c]
  BY <1>3 DEF ReadyAt, Asked, Call
<1>5. \A k \in DOMAIN ops[x][c] : s2[k] = s[k]
  OBVIOUS
<1>6. \A u \in User : c = "security" /\ s[White(u)] = 1 => s2[White(u)] = 1
  OBVIOUS
<1> HIDE DEF d, from, to, n, s, s2
<1>7. \A k \in Writes(c, from, to) : s2[k] = s[k]
  <2>1. DOMAIN Call(c, s, from, to, n).writes = Writes(c, from, to)
    BY <1>1, CallIs
  <2> QED  BY <1>2, <1>5, <2>1
<1>8. \A k \in Reads(c, to) : s[k] = 1 => s2[k] = 1
  BY <1>1, <1>6 DEF Reads, Chain
<1>9. /\ Call(c, s2, from, to, n).writes = Call(c, s, from, to, n).writes
      /\ Call(c, s, from, to, n).ok => Call(c, s2, from, to, n).ok
  BY <1>1, <1>7, <1>8, CallAgain
<1> QED  BY <1>2, <1>4, <1>9

LEMMA PrepareKeepsAll ==
    ASSUME SInv, DInv', NEW x \in Tx, NEW c \in Chain, Prepare(x, c)
    PROVE  SInv' /\ \A e \in Chain : Effective(e)' = Effective(e)
<1> DEFINE call == CallOf(x, c)
           good == /\ call.ok
                   /\ call.writes = ops[x][c]
                   /\ Touched(call) \cap Locked(c) = {}
<1>1. /\ tx[x] = "built" /\ vote[x][c] = "none"
      /\ vote' = [vote EXCEPT ![x][c] = IF good THEN "ok" ELSE "failed"]
      /\ ops' = IF good THEN ops ELSE [ops EXCEPT ![x][c] = NoOps]
      /\ UNCHANGED <<store, tx, deal, finished, decision>>
  BY DEF Prepare, Discarded
<1>2. good => /\ Asked(c, Effective(c), DealOf(x)).ok
              /\ Asked(c, Effective(c), DealOf(x)).writes = ops[x][c]
              /\ \A k \in DOMAIN ops[x][c] : ops[x][c][k] \in Nat
  <2> SUFFICES ASSUME good
               PROVE  /\ Asked(c, Effective(c), DealOf(x)).ok
                      /\ Asked(c, Effective(c), DealOf(x)).writes = ops[x][c]
                      /\ \A k \in DOMAIN ops[x][c] : ops[x][c][k] \in Nat
    OBVIOUS
  <2> DEFINE from == From(c, DealOf(x))
             to == To(c, DealOf(x))
             n == Owed(c, DealOf(x))
  <2>1. from \in User /\ to \in User /\ n \in Nat
    BY <1>1, DealIs DEF SInv, Base
  <2>2. call = Call(c, store[c], from, to, n)
    BY CallOfIs DEF Asked
  <2>3. Asked(c, Effective(c), DealOf(x)) = Call(c, Effective(c), from, to, n)
    BY DEF Asked
  <2>4. /\ Call(c, store[c], from, to, n).ok
        /\ Call(c, store[c], from, to, n).writes = ops[x][c]
        /\ Touched(Call(c, store[c], from, to, n)) \cap Locked(c) = {}
    BY <2>2
  <2> HIDE DEF from, to, n, call
  <2> QED  BY <2>1, <2>3, <2>4, CallNow
<1> HIDE DEF good
<1>3. TypeOK'
  <2>1. \A y \in Tx, e \in Chain : DOMAIN ops'[y][e] \subseteq Key(e)
    BY <1>1 DEF SInv, Base, TypeOK, DInv, Shape, NoOps
  <2>2. vote' \in [Tx -> [Chain -> {"none", "ok", "failed"}]]
    BY <1>1 DEF SInv, Base, TypeOK
  <2> QED  BY <1>1, <2>1, <2>2 DEF SInv, Base, TypeOK
<1>4. Phases'
  BY <1>1 DEF SInv, Base, Phases, TypeOK
<1>5. \A e \in Chain : Committing(e)' = Committing(e)
  BY <1>1 DEF Committing
<1>6. \A e \in Chain : \A y \in Committing(e) : ops'[y][e] = ops[y][e]
  <2> TAKE e \in Chain
  <2> TAKE y \in Committing(e)
  <2>1. y \in Tx /\ vote[y][e] = "ok"
    BY CommittingHeld DEF SInv, Holding
  <2>2. ~(y = x /\ e = c)
    BY <1>1, <2>1
  <2> QED  BY <1>1, <2>1, <2>2 DEF SInv, Base, DInv, Shape
<1>7. \A e \in Chain : \A y \in Holding(e)' :
        ops'[y][e] = ops[y][e] /\ (y \in Holding(e) \/ (good /\ y = x /\ e = c))
  BY <1>1 DEF Holding, SInv, Base, DInv, Shape
<1>8. HeldIsNat'
  BY <1>2, <1>7 DEF SInv, Base, HeldIsNat
<1>9. Base' /\ Base
  BY <1>3, <1>4, <1>8 DEF Base, SInv
<1>10. \A e \in Chain : Effective(e)' = Effective(e)
  BY <1>1, <1>5, <1>6, <1>9, EffectiveStays
<1>11. Ready'
  <2> SUFFICES ASSUME NEW e \in Chain, NEW y \in Holding(e)', decision'[y] = "none"
               PROVE  ReadyAt(e, y)'
    BY DEF Ready
  <2>1. ReadyAt(e, y)
    BY <1>1, <1>2, <1>7 DEF SInv, Ready, ReadyAt
  <2>2. DealOf(y)' = DealOf(y)
    BY <1>1 DEF DealOf
  <2> QED  BY <1>7, <1>10, <2>1, <2>2 DEF ReadyAt, Asked, Call
<1>12. OwnerCountExact'
  BY <1>10, OwnerCountIs, OwnerCountIsNext DEF SInv, OwnerCounts, Chain
<1> QED  BY <1>9, <1>10, <1>11, <1>12 DEF SInv

LEMMA FinishKeepsAll ==
    ASSUME SInv, DInv', NEW x \in Tx, NEW c \in Chain, Finish(x, c)
    PROVE  SInv' /\ \A e \in Chain : Effective(e)' = Effective(e)
<1>1. /\ decision[x] # "none" /\ vote[x][c] # "none" /\ x \notin finished[c]
      /\ finished' = [finished EXCEPT ![c] = @ \cup {x}]
      /\ store' = IF decision[x] = "commit"
                  THEN [store EXCEPT ![c] = Written(@, ops[x][c])] ELSE store
      /\ ops' = [ops EXCEPT ![x][c] = NoOps]
      /\ UNCHANGED <<tx, deal, vote, decision>>
  BY DEF Finish, Discarded
<1>2. ASSUME NEW e \in Chain PROVE store'[e] \in [Key(e) -> Nat]
  <2>1. store[e] \in Stores(e)
    BY DEF SInv, Base, TypeOK, Stores
  <2>2. CASE e = c /\ decision[x] = "commit"
    <3>1. store'[e] = Written(store[e], ops[x][e])
      BY <1>1, <2>2 DEF SInv, Base, Phases
    <3>2. x \in Holding(e)
      BY <1>1, <2>2 DEF SInv, Base, Phases, Holding
    <3>3. \A k \in DOMAIN ops[x][e] : ops[x][e][k] \in Nat
      BY <3>2 DEF SInv, Base, HeldIsNat
    <3>4. \A k \in Key(e) : store'[e][k] \in Nat
      BY <2>1, <3>1, <3>3, WrittenAt DEF Stores
    <3> QED  BY <2>1, <3>1, <3>4 DEF Written, Stores
  <2>3. CASE ~(e = c /\ decision[x] = "commit")
    <3>1. store'[e] = store[e]
      BY <1>1, <2>3 DEF SInv, Base, Phases
    <3> QED  BY <2>1, <3>1 DEF Stores
  <2> QED  BY <2>2, <2>3
<1>3. TypeOK'
  <2>1. \A y \in Tx, e \in Chain : DOMAIN ops'[y][e] \subseteq Key(e)
    BY <1>1 DEF SInv, Base, TypeOK, DInv, Shape, NoOps
  <2>2. finished' \in [Chain -> SUBSET Tx]
    BY <1>1 DEF SInv, Base, TypeOK
  <2> QED  BY <1>1, <1>2, <2>1, <2>2 DEF SInv, Base, TypeOK
<1>4. Phases'
  <2>1. store' = [e \in Chain |-> store'[e]]
    BY <1>1 DEF SInv, Base, Phases
  <2>2. \A y \in Tx, e \in Chain : y \in finished'[e] => decision[y] # "none"
    BY <1>1 DEF SInv, Base, Phases, TypeOK
  <2> QED  BY <1>1, <2>1, <2>2 DEF SInv, Base, Phases
<1>5. \A e \in Chain : \A y \in Holding(e)' : y \in Holding(e) /\ ops'[y][e] = ops[y][e]
  BY <1>1 DEF Holding, SInv, Base, DInv, Shape
<1>6. HeldIsNat'
  BY <1>5, HeldNatKept DEF SInv, Base
<1>7. Base' /\ Base
  BY <1>3, <1>4, <1>6 DEF Base, SInv
<1>8. \A e \in Chain : Effective(e)' = Effective(e)
  BY <1>7, FinishEffective
<1> QED  BY <1>1, <1>5, <1>7, <1>8, QuietKeeps

LEMMA DecideBase ==
    ASSUME SInv, DInv', NEW x \in Tx, Decide(x)
    PROVE  Base'
<1>1. /\ decision[x] = "none"
      /\ \/ (\A c \in Chain : vote[x][c] = "ok") /\ decision' = [decision EXCEPT ![x] = "commit"]
         \/ decision' = [decision EXCEPT ![x] = "abort"]
      /\ UNCHANGED <<store, tx, deal, ops, vote, finished>>
  BY DEF Decide
<1>2. TypeOK'
  BY <1>1 DEF SInv, Base, TypeOK
<1>3. Phases'
  BY <1>1 DEF SInv, Base, Phases, TypeOK
<1>4. HeldIsNat'
  BY <1>1, HeldNatKept DEF SInv, Base, Holding
<1> QED  BY <1>2, <1>3, <1>4 DEF Base

LEMMA AbortKeeps ==
    ASSUME SInv, DInv', NEW x \in Tx, Decide(x), decision' = [decision EXCEPT ![x] = "abort"]
    PROVE  SInv' /\ \A c \in Chain : Effective(c)' = Effective(c)
<1>1. decision[x] = "none" /\ UNCHANGED <<store, tx, deal, ops, vote, finished>>
  BY DEF Decide
<1>2. Base' /\ Base
  BY DecideBase DEF SInv
<1>3. \A c \in Chain : Committing(c)' = Committing(c)
  BY <1>1 DEF Committing, SInv, Base, TypeOK
<1>4. \A c \in Chain : Effective(c)' = Effective(c)
  BY <1>1, <1>2, <1>3, EffectiveStays
<1>5. \A c \in Chain : \A y \in Holding(c)' : y \in Holding(c) /\ (decision'[y] = "none" => decision[y] = "none")
  BY <1>1 DEF Holding, SInv, Base, TypeOK
<1> QED  BY <1>1, <1>2, <1>4, <1>5, QuietKeeps

\* What the decision to commit does to the two stores.
LEMMA CommitDoes ==
    ASSUME SInv, DInv', NEW x \in Tx, Decide(x), decision' = [decision EXCEPT ![x] = "commit"],
           \A c \in Chain : vote[x][c] = "ok"
    PROVE  \A c \in Chain :
              /\ x \in Holding(c)
              /\ Effective(c)' = Written(Effective(c), ops[x][c])
              /\ Asked(c, Effective(c), DealOf(x)).ok
              /\ Asked(c, Effective(c), DealOf(x)).writes = ops[x][c]
<1>1. decision[x] = "none" /\ UNCHANGED <<store, tx, deal, ops, vote, finished>>
  BY DEF Decide
<1>2. Base' /\ Base
  BY DecideBase DEF SInv
<1> TAKE c \in Chain
<1>3. x \in Holding(c)
  BY <1>1, <1>2 DEF Base, Phases, Holding
<1>4. Effective(c)' = Written(Effective(c), ops[x][c])
  BY <1>1, <1>2, <1>3, CommitEffective
<1> QED  BY <1>1, <1>3, <1>4 DEF SInv, Ready, ReadyAt

\* A deal that is ready, on one of the chains.
LEMMA DealOnCoin ==
    ASSUME SInv, NEW x \in Holding("coin"), Asked("coin", Effective("coin"), DealOf(x)).ok
    PROVE  LET d == DealOf(x)
               s == Effective("coin")
               s2 == Written(s, Asked("coin", s, d).writes)
           IN  /\ s[Balance(d.buyer)] >= Price(d.trade)
               /\ s2 \in Stores("coin")
               /\ Balances(s2) = Swap!Moved(Balances(s), d.buyer, d.trade.seller, Price(d.trade))
<1> DEFINE d == DealOf(x)
           s == Effective("coin")
<1>1. "coin" \in Chain
  BY DEF Chain
<1>2. /\ From("coin", d) = d.buyer /\ To("coin", d) = d.trade.seller
      /\ Owed("coin", d) = Price(d.trade)
  BY DEF From, To, Owed
<1>3. d.buyer \in User /\ d.trade.seller \in User /\ Price(d.trade) \in Nat /\ s \in Stores("coin")
  BY <1>1, <1>2, HeldDeal, EffectiveIsRight DEF SInv, EffectiveRight
<1>4. Asked("coin", s, d) = Call("coin", s, d.buyer, d.trade.seller, Price(d.trade))
  BY <1>2 DEF Asked
<1>5. Asked("coin", s, d).ok
  OBVIOUS
<1> HIDE DEF d, s
<1> QED  BY <1>3, <1>4, <1>5, CoinCall DEF d, s

LEMMA DealOnSecurity ==
    ASSUME SInv, NEW x \in Holding("security"),
           Asked("security", Effective("security"), DealOf(x)).ok
    PROVE  LET d == DealOf(x)
               s == Effective("security")
               s2 == Written(s, Asked("security", s, d).writes)
           IN  /\ s[Share(d.trade.seller)] >= d.trade.amount /\ d.buyer \in Allowed(s)
               /\ s2 \in Stores("security")
               /\ SharesOf(s2) = Swap!Moved(SharesOf(s), d.trade.seller, d.buyer, d.trade.amount)
               /\ Allowed(s2) = Allowed(s)
               /\ Counts(s2) /\ s2[OwnerCount] <= MaxTokenOwner
<1> DEFINE d == DealOf(x)
           s == Effective("security")
<1>1. "security" \in Chain
  BY DEF Chain
<1>2. /\ From("security", d) = d.trade.seller /\ To("security", d) = d.buyer
      /\ Owed("security", d) = d.trade.amount
  BY DEF From, To, Owed
<1>3. d.buyer \in User /\ d.trade.seller \in User /\ d.trade.amount \in Nat /\ s \in Stores("security")
  BY <1>1, <1>2, HeldDeal, EffectiveIsRight DEF SInv, EffectiveRight
<1>4. Asked("security", s, d) = Call("security", s, d.trade.seller, d.buyer, d.trade.amount)
  BY <1>2 DEF Asked
<1>5. Asked("security", s, d).ok /\ Counts(s)
  BY OwnerCountIs DEF SInv, OwnerCounts
<1> HIDE DEF d, s
<1> QED  BY <1>3, <1>4, <1>5, EstateCall DEF d, s

LEMMA CommitKeeps ==
    ASSUME SInv, DInv', NEW x \in Tx, Decide(x), decision' = [decision EXCEPT ![x] = "commit"],
           \A c \in Chain : vote[x][c] = "ok"
    PROVE  SInv'
<1>1. decision[x] = "none" /\ UNCHANGED <<store, tx, deal, ops, vote, finished>>
  BY DEF Decide
<1>2. Base' /\ Base
  BY DecideBase DEF SInv
<1>3. \A c \in Chain :
        /\ x \in Holding(c)
        /\ Effective(c)' = Written(Effective(c), ops[x][c])
        /\ Asked(c, Effective(c), DealOf(x)).ok
        /\ Asked(c, Effective(c), DealOf(x)).writes = ops[x][c]
  BY CommitDoes
<1>4. "coin" \in Chain /\ "security" \in Chain
  BY DEF Chain
<1>5. /\ Effective("security")' \in Stores("security") /\ Counts(Effective("security")')
      /\ Allowed(Effective("security")') = Allowed(Effective("security"))
  BY <1>3, <1>4, DealOnSecurity
<1>6. Effective("coin")' \in Stores("coin")
  BY <1>3, <1>4, DealOnCoin
<1>7. OwnerCountExact'
  BY <1>5, OwnerCountIsNext DEF OwnerCounts, Counts, SharesOf
<1>8. Ready'
  <2> SUFFICES ASSUME NEW c \in Chain, NEW y \in Holding(c)', decision'[y] = "none"
               PROVE  ReadyAt(c, y)'
    BY DEF Ready
  <2>1. y \in Holding(c) /\ y # x /\ decision[y] = "none"
    BY <1>1 DEF Holding, SInv, Base, TypeOK
  <2>2. \A k \in DOMAIN ops[y][c] : k \notin DOMAIN ops[x][c] /\ k \in Key(c)
    BY <1>3, <2>1 DEF SInv, Base, DInv, WritesDisjoint, TypeOK, Holding
  <2>3. Effective(c) \in Stores(c) /\ Effective(c)' \in Stores(c)
    BY <1>5, <1>6, EffectiveIsRight DEF SInv, EffectiveRight, Chain
  <2>4. \A k \in DOMAIN ops[y][c] : Effective(c)'[k] = Effective(c)[k]
    BY <1>3, <2>2, <2>3, WrittenAt
  <2>5. \A u \in User : c = "security" /\ Effective(c)[White(u)] = 1
                           => Effective(c)'[White(u)] = 1
    BY <1>5 DEF Allowed
  <2> QED  BY <1>1, <2>1, <2>3, <2>4, <2>5, ReadyKept
<1> QED  BY <1>2, <1>7, <1>8 DEF SInv

\* What a call does that is made on one chain, if it writes numbers to keys of
\* the chain and nothing locked.
LEMMA DirectDoes ==
    ASSUME SInv, DInv', NEW c \in Chain, NEW call, Direct(c, call),
           DOMAIN call.writes \subseteq Key(c),
           \A k \in DOMAIN call.writes : call.writes[k] \in Nat
    PROVE  /\ Base'
           /\ Effective(c)' = Written(Effective(c), call.writes)
           /\ \A e \in Chain : e # c => Effective(e)' = Effective(e)
<1> DEFINE writes == call.writes
<1>1. /\ DOMAIN writes \cap Locked(c) = {}
      /\ store' = [store EXCEPT ![c] = Written(@, writes)]
      /\ UNCHANGED <<tx, deal, ops, vote, finished, decision>>
  BY DEF Direct, Touched
<1>2. DOMAIN writes \subseteq Key(c) /\ \A k \in DOMAIN writes : writes[k] \in Nat
  OBVIOUS
<1> HIDE DEF writes
<1>3. ASSUME NEW e \in Chain PROVE store'[e] \in [Key(e) -> Nat]
  <2>1. store[e] \in Stores(e)
    BY DEF SInv, Base, TypeOK, Stores
  <2>2. CASE e = c
    <3>1. store'[e] = Written(store[e], writes)
      BY <1>1, <2>2 DEF SInv, Base, Phases
    <3>2. \A k \in Key(e) : store'[e][k] \in Nat
      BY <1>2, <2>1, <3>1, WrittenAt DEF Stores
    <3> QED  BY <2>1, <3>1, <3>2 DEF Written, Stores
  <2>3. CASE e # c
    <3>1. store'[e] = store[e]
      BY <1>1, <2>3 DEF SInv, Base, Phases
    <3> QED  BY <2>1, <3>1 DEF Stores
  <2> QED  BY <2>2, <2>3
<1>4. TypeOK'
  BY <1>1, <1>3 DEF SInv, Base, TypeOK
<1>5. Phases'
  BY <1>1 DEF SInv, Base, Phases
<1>6. HeldIsNat'
  BY <1>1, HeldNatKept DEF SInv, Base, Holding
<1>7. Base' /\ Base
  BY <1>4, <1>5, <1>6 DEF Base, SInv
<1>8. /\ Effective(c)' = Written(Effective(c), writes)
      /\ \A e \in Chain : e # c => Effective(e)' = Effective(e)
  BY <1>1, <1>2, <1>7, DirectEffective
<1> QED  BY <1>7, <1>8 DEF writes

LEMMA DirectKeeps ==
    ASSUME SInv, DInv', NEW c \in Chain, NEW call, Direct(c, call),
           DOMAIN call.writes \subseteq Key(c),
           \A k \in DOMAIN call.writes : call.writes[k] \in Nat,
           c = "security" => /\ Allowed(Effective(c)) \subseteq Allowed(Effective(c)')
                             /\ Counts(Effective(c)')
    PROVE  SInv'
<1>1. /\ Base'
      /\ Effective(c)' = Written(Effective(c), call.writes)
      /\ \A e \in Chain : e # c => Effective(e)' = Effective(e)
  BY DirectDoes
<1>2. /\ DOMAIN call.writes \cap Locked(c) = {}
      /\ UNCHANGED <<tx, deal, ops, vote, finished, decision>>
  BY DEF Direct, Touched
<1>3. OwnerCountExact'
  <2>1. "security" \in Chain
    BY DEF Chain
  <2>2. Counts(Effective("security")')
    <3>1. CASE c = "security"
      BY <3>1
    <3>2. CASE c # "security"
      BY <1>1, <2>1, <3>2, OwnerCountIs DEF SInv, OwnerCounts
    <3> QED  BY <3>1, <3>2
  <2> QED  BY <2>2, OwnerCountIsNext DEF OwnerCounts, Counts, SharesOf
<1>4. \A e \in Chain : Effective(e) \in Stores(e) /\ Effective(e)' \in Stores(e)
  BY <1>1, EffectiveIsRight, EffectiveIsRightNext DEF SInv, EffectiveRight, Stores
<1>5. Ready'
  <2> SUFFICES ASSUME NEW e \in Chain, NEW y \in Holding(e)', decision'[y] = "none"
               PROVE  ReadyAt(e, y)'
    BY DEF Ready
  <2>1. y \in Holding(e) /\ decision[y] = "none" /\ deal'[y] = deal[y] /\ ops'[y][e] = ops[y][e]
    BY <1>2 DEF Holding
  <2>2. \A k \in DOMAIN ops[y][e] : Effective(e)'[k] = Effective(e)[k]
    <3>1. CASE e = c
      <4>1. \A k \in DOMAIN ops[y][c] : k \notin DOMAIN call.writes /\ k \in Key(c)
        BY <1>2, <2>1, <3>1 DEF Locked, Holding, SInv, Base, TypeOK
      <4> QED  BY <1>1, <1>4, <3>1, <4>1, WrittenAt
    <3>2. CASE e # c
      BY <1>1, <3>2
    <3> QED  BY <3>1, <3>2
  <2>3. \A u \in User : e = "security" /\ Effective(e)[White(u)] = 1
                           => Effective(e)'[White(u)] = 1
    <3>1. CASE e = c
      BY <3>1 DEF Allowed
    <3>2. CASE e # c
      BY <1>1, <3>2
    <3> QED  BY <3>1, <3>2
  <2> QED  BY <1>4, <2>1, <2>2, <2>3, ReadyKept
<1> QED  BY <1>1, <1>3, <1>5 DEF SInv

\* A transfer of coins that is made on the coin chain.
LEMMA PaidDirectly ==
    ASSUME SInv, DInv', NEW u \in User, NEW v \in User, NEW n \in Amount,
           Direct("coin", CoinTransfer(store["coin"], u, v, n))
    PROVE  /\ SInv'
           /\ Effective("coin")[Balance(u)] >= n
           /\ Balances(Effective("coin")') = Swap!Moved(Balances(Effective("coin")), u, v, n)
           /\ Effective("security")' = Effective("security")
<1> DEFINE call == Call("coin", store["coin"], u, v, n)
           s == Effective("coin")
<1>1. n \in Nat /\ "coin" \in Chain /\ "security" \in Chain
  BY CrossAssumption DEF Chain
<1>2. Direct("coin", call)
  BY DEF Call
<1>3. call.ok /\ Touched(call) \cap Locked("coin") = {}
  BY <1>2 DEF Direct
<1>4. /\ Call("coin", s, u, v, n).ok /\ Call("coin", s, u, v, n).writes = call.writes
      /\ DOMAIN call.writes = Writes("coin", u, v)
      /\ \A k \in DOMAIN call.writes : call.writes[k] \in Nat
  <2> DEFINE c == "coin"
  <2>1. /\ c \in Chain /\ Call(c, store[c], u, v, n).ok
        /\ Touched(Call(c, store[c], u, v, n)) \cap Locked(c) = {}
    BY <1>1, <1>3
  <2> HIDE DEF c
  <2>2. /\ Call(c, Effective(c), u, v, n).ok
        /\ Call(c, Effective(c), u, v, n).writes = Call(c, store[c], u, v, n).writes
        /\ DOMAIN Call(c, store[c], u, v, n).writes = Writes(c, u, v)
        /\ \A k \in DOMAIN Call(c, store[c], u, v, n).writes :
              Call(c, store[c], u, v, n).writes[k] \in Nat
    BY <1>1, <2>1, CallNow
  <2> QED  BY <2>2 DEF c
<1>5. DOMAIN call.writes \subseteq Key("coin")
  BY <1>1, <1>4, CallKeys
<1>6. s \in Stores("coin")
  BY <1>1, EffectiveIsRight DEF SInv, EffectiveRight
<1> HIDE DEF call
<1>7. SInv'
  BY <1>1, <1>2, <1>4, <1>5, DirectKeeps
<1>8. /\ Effective("coin")' = Written(s, call.writes)
      /\ Effective("security")' = Effective("security")
  BY <1>1, <1>2, <1>4, <1>5, DirectDoes
<1> HIDE DEF s
<1>9. s[Balance(u)] >= n /\ Balances(Written(s, call.writes)) = Swap!Moved(Balances(s), u, v, n)
  BY <1>1, <1>4, <1>6, CoinCall
<1> QED  BY <1>7, <1>8, <1>9 DEF s

\* A transfer of shares that is made on the security chain.
LEMMA GivenDirectly ==
    ASSUME SInv, DInv', NEW u \in User, NEW v \in User, NEW n \in Amount,
           Direct("security", EstateTransfer(store["security"], u, v, n))
    PROVE  LET s == Effective("security")
               s2 == Effective("security")'
           IN  /\ SInv'
               /\ s[Share(u)] >= n /\ v \in Allowed(s)
               /\ SharesOf(s2) = Swap!Moved(SharesOf(s), u, v, n)
               /\ Allowed(s2) = Allowed(s)
               /\ Counts(s2) /\ s2[OwnerCount] <= MaxTokenOwner
               /\ Effective("coin")' = Effective("coin")
<1> DEFINE call == Call("security", store["security"], u, v, n)
           s == Effective("security")
           s2 == Effective("security")'
<1>1. n \in Nat /\ "coin" \in Chain /\ "security" \in Chain
  BY CrossAssumption DEF Chain
<1>2. Direct("security", call)
  BY DEF Call
<1>3. call.ok /\ Touched(call) \cap Locked("security") = {}
  BY <1>2 DEF Direct
<1>4. /\ Call("security", s, u, v, n).ok /\ Call("security", s, u, v, n).writes = call.writes
      /\ DOMAIN call.writes = Writes("security", u, v)
      /\ \A k \in DOMAIN call.writes : call.writes[k] \in Nat
  BY <1>1, <1>3, CallNow
<1>5. DOMAIN call.writes \subseteq Key("security")
  BY <1>1, <1>4, CallKeys
<1>6. s \in Stores("security") /\ Counts(s)
  BY <1>1, EffectiveIsRight, OwnerCountIs DEF SInv, EffectiveRight, OwnerCounts
<1> HIDE DEF call
<1>7. s2 = Written(s, call.writes) /\ Effective("coin")' = Effective("coin")
  BY <1>1, <1>2, <1>4, <1>5, DirectDoes
<1> HIDE DEF s, s2
<1>8. /\ s[Share(u)] >= n /\ v \in Allowed(s)
      /\ SharesOf(s2) = Swap!Moved(SharesOf(s), u, v, n)
      /\ Allowed(s2) = Allowed(s)
      /\ Counts(s2) /\ s2[OwnerCount] <= MaxTokenOwner
  BY <1>1, <1>4, <1>6, <1>7, EstateCall
<1>9. SInv'
  BY <1>1, <1>2, <1>4, <1>5, <1>8, DirectKeeps DEF s, s2
<1> QED  BY <1>7, <1>8, <1>9 DEF s, s2

LEMMA AdmittedDirectly ==
    ASSUME SInv, DInv', NEW u \in User, AddToWhitelist(u)
    PROVE  LET s == Effective("security")
               s2 == Effective("security")'
           IN  /\ SInv'
               /\ SharesOf(s2) = SharesOf(s)
               /\ Allowed(s2) = Allowed(s) \cup {u}
               /\ Effective("coin")' = Effective("coin")
<1> DEFINE call == [ok |-> store["security"][White(u)] = 0, reads |-> {},
                    writes |-> [k \in {White(u)} |-> 1]]
           s == Effective("security")
           s2 == Effective("security")'
<1>1. "coin" \in Chain /\ "security" \in Chain
  BY DEF Chain
<1>2. Direct("security", call)
  BY DEF AddToWhitelist
<1>3. /\ DOMAIN call.writes = {White(u)} /\ call.writes[White(u)] = 1
      /\ White(u) \in Key("security")
  BY KeysHere
<1> HIDE DEF call
<1>4. DOMAIN call.writes \subseteq Key("security") /\ \A k \in DOMAIN call.writes : call.writes[k] \in Nat
  BY <1>3
<1>5. s \in Stores("security") /\ Counts(s)
  BY <1>1, EffectiveIsRight, OwnerCountIs DEF SInv, EffectiveRight, OwnerCounts
<1>6. s2 = Written(s, call.writes) /\ Effective("coin")' = Effective("coin")
  BY <1>1, <1>2, <1>4, DirectDoes
<1> HIDE DEF s, s2
<1>7. \A k \in Key("security") : s2[k] = IF k = White(u) THEN 1 ELSE s[k]
  BY <1>3, <1>5, <1>6, WrittenAt
<1>8. SharesOf(s2) = SharesOf(s)
  BY <1>7, KeysHere, KeysDiffer DEF SharesOf
<1>9. Allowed(s2) = Allowed(s) \cup {u}
  BY <1>7, KeysHere, KeysDiffer DEF Allowed
<1>10. Counts(s2)
  BY <1>5, <1>7, <1>8, KeysHere, KeysDiffer DEF Counts
<1>11. SInv'
  BY <1>1, <1>2, <1>4, <1>9, <1>10, DirectKeeps DEF s, s2
<1> QED  BY <1>6, <1>8, <1>9, <1>11 DEF s, s2
-----------------------------------------------------------------------------
\* The state of AtomicSwap that a state stands for.
LEMMA MappingIs ==
    /\ Column("coin", "balance") = Balances(Effective("coin"))
    /\ Column("security", "share") = SharesOf(Effective("security"))
    /\ {u \in User : Column("security", "white")[u] = 1} = Allowed(Effective("security"))
  BY DEF Column, Balances, SharesOf, Allowed, Balance, Share, White

LEMMA MappingIsNext ==
    /\ Column("coin", "balance")' = Balances(Effective("coin")')
    /\ Column("security", "share")' = SharesOf(Effective("security")')
    /\ {u \in User : Column("security", "white")[u] = 1}' = Allowed(Effective("security")')
  BY DEF Column, Balances, SharesOf, Allowed, Balance, Share, White

Agreed == [x \in Tx |-> {Terms(d) : d \in deal[x]}]
Settled == {x \in Tx : decision[x] = "commit"}

LEMMA MapsToStutter ==
    ASSUME \A c \in Chain : Effective(c)' = Effective(c), UNCHANGED <<Agreed, Settled>>
    PROVE  UNCHANGED Swap!vars
<1>1. "coin" \in Chain /\ "security" \in Chain
  BY DEF Chain
<1>2. /\ Column("coin", "balance")' = Column("coin", "balance")
      /\ Column("security", "share")' = Column("security", "share")
      /\ {u \in User : Column("security", "white")[u] = 1}'
           = {u \in User : Column("security", "white")[u] = 1}
  BY <1>1, MappingIs, MappingIsNext
<1> QED  BY <1>2 DEF Swap!vars, Agreed, Settled

LEMMA MapsToAgree ==
    ASSUME SInv, NEW x \in Tx, NEW t \in Trade, NEW u \in User, SimulateCoin(x, t, u),
           \A c \in Chain : Effective(c)' = Effective(c)
    PROVE  Swap!Next
<1> DEFINE d == [trade |-> t, buyer |-> u]
<1>1. "coin" \in Chain /\ "security" \in Chain
  BY DEF Chain
<1>2. /\ Column("coin", "balance")' = Column("coin", "balance")
      /\ Column("security", "share")' = Column("security", "share")
      /\ {v \in User : Column("security", "white")[v] = 1}'
           = {v \in User : Column("security", "white")[v] = 1}
  BY <1>1, MappingIs, MappingIsNext
<1>3. deal[x] = {} /\ deal' = [deal EXCEPT ![x] = {d}] /\ decision' = decision
  BY DEF SimulateCoin, SInv, Base, Phases
<1>4. d \in [trade : Trade, buyer : User]
  OBVIOUS
<1> HIDE DEF d
<1>5. Agreed[x] = {} /\ Agreed' = [Agreed EXCEPT ![x] = {Terms(d)}]
  <2>1. \A y \in Tx : deal'[y] = IF y = x THEN {d} ELSE deal[y]
    BY <1>3 DEF SInv, Base, Phases
  <2>2. {Terms(e) : e \in {d}} = {Terms(d)} /\ {Terms(e) : e \in {}} = {}
    OBVIOUS
  <2>3. /\ Agreed = [y \in Tx |-> {Terms(e) : e \in deal[y]}]
        /\ Agreed' = [y \in Tx |-> {Terms(e) : e \in deal'[y]}]
    BY DEF Agreed, Terms
  <2>4. Agreed[x] = {}
    BY <1>3, <2>2, <2>3
  <2>5. \A y \in Tx : {Terms(e) : e \in deal'[y]} = IF y = x THEN {Terms(d)} ELSE Agreed[y]
    BY <2>1, <2>2, <2>3
  <2>6. Agreed' = [y \in Tx |-> IF y = x THEN {Terms(d)} ELSE Agreed[y]]
    BY <2>3, <2>5
  <2> QED  BY <2>3, <2>4, <2>6
<1>6. Swap!Agree(x, Terms(d))
  BY <1>2, <1>3, <1>5 DEF Swap!Agree, Agreed
<1> QED  BY <1>4, <1>6 DEF Swap!Next

LEMMA MapsToPay ==
    ASSUME SInv, DInv', NEW u \in User, NEW v \in User, NEW n \in Amount,
           Direct("coin", CoinTransfer(store["coin"], u, v, n))
    PROVE  Swap!Next
<1>1. /\ Effective("coin")[Balance(u)] >= n
      /\ Balances(Effective("coin")') = Swap!Moved(Balances(Effective("coin")), u, v, n)
      /\ Effective("security")' = Effective("security")
  BY PaidDirectly
<1>2. UNCHANGED <<deal, decision>>
  BY DEF Direct
<1>3. Column("coin", "balance")[u] >= n
  BY <1>1, MappingIs DEF Balances
<1>4. /\ Column("coin", "balance")' = Swap!Moved(Column("coin", "balance"), u, v, n)
      /\ Column("security", "share")' = Column("security", "share")
      /\ {w \in User : Column("security", "white")[w] = 1}'
           = {w \in User : Column("security", "white")[w] = 1}
  BY <1>1, MappingIs, MappingIsNext
<1>5. Swap!Pay(u, v, n)
  BY <1>2, <1>3, <1>4 DEF Swap!Pay, Swap!MayPay
<1> QED  BY <1>5 DEF Swap!Next

LEMMA HoldersFit ==
    ASSUME NEW s, Counts(s), s[OwnerCount] <= MaxTokenOwner
    PROVE  Cardinality(Swap!Holders(SharesOf(s))) <= MaxTokenOwner
  BY DEF Counts, Swap!Holders, HoldersOf

\* AtomicSwap has the cardinality of FiniteSets by its own name.
LEMMA CardinalitySame == \A S : Swap!Cardinality(S) = Cardinality(S)
  BY DEF Swap!Cardinality, Cardinality

LEMMA MapsToGive ==
    ASSUME SInv, DInv', NEW u \in User, NEW v \in User, NEW n \in Amount,
           Direct("security", EstateTransfer(store["security"], u, v, n))
    PROVE  Swap!Next
<1> DEFINE s == Effective("security")
           s2 == Effective("security")'
<1>1. /\ s[Share(u)] >= n /\ v \in Allowed(s)
      /\ SharesOf(s2) = Swap!Moved(SharesOf(s), u, v, n)
      /\ Allowed(s2) = Allowed(s)
      /\ Counts(s2) /\ s2[OwnerCount] <= MaxTokenOwner
      /\ Effective("coin")' = Effective("coin")
  BY GivenDirectly
<1>2. UNCHANGED <<deal, decision>>
  BY DEF Direct
<1>3. /\ SharesOf(s) = Column("security", "share") /\ SharesOf(s2) = Column("security", "share")'
      /\ Allowed(s) = {w \in User : Column("security", "white")[w] = 1}
      /\ Allowed(s2) = {w \in User : Column("security", "white")[w] = 1}'
      /\ Column("coin", "balance")' = Column("coin", "balance")
  BY <1>1, MappingIs, MappingIsNext
<1> HIDE DEF s, s2
<1>4. Cardinality(Swap!Holders(SharesOf(s2))) <= MaxTokenOwner
  BY <1>1, HoldersFit
<1>5. Column("security", "share")[u] >= n
  BY <1>1, <1>3 DEF SharesOf
<1>6. Swap!Give(u, v, n)
  <2>1. Swap!MayGive(u, v, n)
    <3>1. v \in {w \in User : Column("security", "white")[w] = 1}
      BY <1>1, <1>3
    <3>2. Cardinality(Swap!Holders(Swap!Moved(Column("security", "share"), u, v, n)))
            <= MaxTokenOwner
      BY <1>1, <1>3, <1>4
    <3> QED  BY <1>5, <3>1, <3>2, CardinalitySame DEF Swap!MayGive
  <2> QED  BY <1>1, <1>2, <1>3, <2>1 DEF Swap!Give
<1> QED  BY <1>6 DEF Swap!Next

LEMMA MapsToAdmit ==
    ASSUME SInv, DInv', NEW u \in User, AddToWhitelist(u)
    PROVE  Swap!Next
<1>1. /\ SharesOf(Effective("security")') = SharesOf(Effective("security"))
      /\ Allowed(Effective("security")') = Allowed(Effective("security")) \cup {u}
      /\ Effective("coin")' = Effective("coin")
  BY AdmittedDirectly
<1>2. UNCHANGED <<deal, decision>>
  BY DEF AddToWhitelist, Direct
<1>3. Swap!Admit(u)
  BY <1>1, <1>2, MappingIs, MappingIsNext DEF Swap!Admit
<1> QED  BY <1>3 DEF Swap!Next

LEMMA TimesCommutes == \A m, n \in Nat : m * n = n * m
  OBVIOUS

LEMMA MapsToSettle ==
    ASSUME SInv, DInv', NEW x \in Tx, Decide(x), decision' = [decision EXCEPT ![x] = "commit"],
           \A c \in Chain : vote[x][c] = "ok"
    PROVE  Swap!Next
<1>0. PICK d : d = DealOf(x)
  OBVIOUS
<1> DEFINE a == Terms(d)
           coins == Effective("coin")
           coins2 == Effective("coin")'
           s == Effective("security")
           s2 == Effective("security")'
<1>1. "coin" \in Chain /\ "security" \in Chain
  BY DEF Chain
<1>2. \A c \in Chain :
              /\ x \in Holding(c)
              /\ Effective(c)' = Written(Effective(c), ops[x][c])
              /\ Asked(c, Effective(c), DealOf(x)).ok
              /\ Asked(c, Effective(c), DealOf(x)).writes = ops[x][c]
  BY CommitDoes
<1>3. /\ coins[Balance(d.buyer)] >= Price(d.trade)
      /\ Balances(coins2) = Swap!Moved(Balances(coins), d.buyer, d.trade.seller, Price(d.trade))
  BY <1>0, <1>1, <1>2, DealOnCoin
<1>4. /\ s[Share(d.trade.seller)] >= d.trade.amount /\ d.buyer \in Allowed(s)
      /\ SharesOf(s2) = Swap!Moved(SharesOf(s), d.trade.seller, d.buyer, d.trade.amount)
      /\ Allowed(s2) = Allowed(s)
      /\ Counts(s2) /\ s2[OwnerCount] <= MaxTokenOwner
  BY <1>0, <1>1, <1>2, DealOnSecurity
<1>5. /\ d \in [trade : Trade, buyer : User] /\ deal[x] = {d}
      /\ d.buyer \in User /\ d.trade.seller \in User
      /\ d.trade.amount \in Nat /\ d.trade.unitPrice \in Nat
  <2>1. tx[x] # "new" /\ tx[x] = "built"
    BY <1>1, <1>2, HeldDeal DEF SInv
  <2>2. d \in [trade : Trade, buyer : User] /\ deal[x] = {d}
    BY <1>0, <2>1, DealIs DEF SInv, Base
  <2>3. d.trade \in Trade /\ d.buyer \in User
    BY <2>2
  <2> QED  BY <2>2, <2>3, CrossAssumption
<1>6. decision[x] = "none" /\ UNCHANGED deal
  BY DEF Decide
<1> HIDE DEF coins, coins2, s, s2
<1>7. /\ a.seller = d.trade.seller /\ a.buyer = d.buyer /\ a.shares = d.trade.amount
      /\ a.price = Price(d.trade)
  <2>1. Price(d.trade) = d.trade.amount * d.trade.unitPrice
    BY <1>5, TimesCommutes DEF Price
  <2> QED  BY <2>1 DEF Terms
<1> HIDE DEF a
<1>8. /\ Balances(coins) = Column("coin", "balance")
      /\ Balances(coins2) = Column("coin", "balance")'
      /\ SharesOf(s) = Column("security", "share") /\ SharesOf(s2) = Column("security", "share")'
      /\ Allowed(s) = {w \in User : Column("security", "white")[w] = 1}
      /\ Allowed(s2) = {w \in User : Column("security", "white")[w] = 1}'
  BY MappingIs, MappingIsNext DEF coins, coins2, s, s2
<1>9. Cardinality(Swap!Holders(SharesOf(s2))) <= MaxTokenOwner
  BY <1>4, HoldersFit
<1>10. /\ Column("coin", "balance")[d.buyer] >= a.price
       /\ Column("security", "share")[d.trade.seller] >= a.shares
  BY <1>3, <1>4, <1>5, <1>7, <1>8 DEF Balances, SharesOf
<1>11. a \in Agreed[x] /\ Agreed' = Agreed
  BY <1>5, <1>6 DEF Agreed, a
<1>12. x \notin Settled /\ Settled' = Settled \cup {x}
  BY <1>6 DEF Settled, SInv, Base, TypeOK
<1>13. Swap!Settle(x, a)
  <2>1. Swap!MayPay(a.buyer, a.price)
    BY <1>7, <1>10 DEF Swap!MayPay
  <2>2. Swap!MayGive(a.seller, a.buyer, a.shares)
    <3>1. a.buyer \in {w \in User : Column("security", "white")[w] = 1}
      BY <1>4, <1>7, <1>8
    <3>2. SharesOf(s2) = Swap!Moved(Column("security", "share"), a.seller, a.buyer, a.shares)
      BY <1>4, <1>7, <1>8
    <3>3. Cardinality(Swap!Holders(Swap!Moved(Column("security", "share"),
                                               a.seller, a.buyer, a.shares))) <= MaxTokenOwner
      BY <1>9, <3>2
    <3>4. Column("security", "share")[a.seller] >= a.shares
      BY <1>7, <1>10
    <3> QED  BY <3>1, <3>3, <3>4, CardinalitySame DEF Swap!MayGive
  <2>3. /\ Column("coin", "balance")' = Swap!Moved(Column("coin", "balance"), a.buyer, a.seller, a.price)
        /\ Column("security", "share")'
             = Swap!Moved(Column("security", "share"), a.seller, a.buyer, a.shares)
    BY <1>3, <1>4, <1>7, <1>8
  <2> QED  BY <1>4, <1>8, <1>11, <1>12, <2>1, <2>2, <2>3 DEF Swap!Settle, Agreed, Settled
<1>14. Swap!Settle(x, Terms(d))
  BY <1>13 DEF a
<1> QED  BY <1>5, <1>14 DEF Swap!Next
-----------------------------------------------------------------------------
LEMMA SwapStep == SInv /\ [Next]_vars => SInv' /\ [Swap!Next]_Swap!vars
<1> SUFFICES ASSUME SInv, [Next]_vars PROVE SInv' /\ [Swap!Next]_Swap!vars
  OBVIOUS
<1>1. DInv'
  BY DInvStep DEF SInv, Base
<1>2. ASSUME NEW x \in Tx, NEW t \in Trade, NEW u \in User, SimulateCoin(x, t, u)
      PROVE  SInv' /\ [Swap!Next]_Swap!vars
  BY <1>1, <1>2, SimulateCoinKeeps, MapsToAgree
<1>3. ASSUME NEW x \in Tx, SimulateSecurity(x) PROVE SInv' /\ [Swap!Next]_Swap!vars
  <2>1. UNCHANGED <<Agreed, Settled>>
    BY <1>3 DEF SimulateSecurity, Agreed, Settled
  <2> QED  BY <1>1, <1>3, <2>1, SimulateSecurityKeeps, MapsToStutter
<1>4. ASSUME NEW x \in Tx, NEW c \in Chain, Prepare(x, c)
      PROVE  SInv' /\ [Swap!Next]_Swap!vars
  <2>1. UNCHANGED <<Agreed, Settled>>
    BY <1>4 DEF Prepare, Agreed, Settled
  <2> QED  BY <1>1, <1>4, <2>1, PrepareKeepsAll, MapsToStutter
<1>5. ASSUME NEW x \in Tx, NEW c \in Chain, Finish(x, c)
      PROVE  SInv' /\ [Swap!Next]_Swap!vars
  <2>1. UNCHANGED <<Agreed, Settled>>
    BY <1>5 DEF Finish, Agreed, Settled
  <2> QED  BY <1>1, <1>5, <2>1, FinishKeepsAll, MapsToStutter
<1>6. ASSUME NEW x \in Tx, Decide(x) PROVE SInv' /\ [Swap!Next]_Swap!vars
  <2>1. CASE /\ \A c \in Chain : vote[x][c] = "ok"
             /\ decision' = [decision EXCEPT ![x] = "commit"]
    BY <1>1, <1>6, <2>1, CommitKeeps, MapsToSettle
  <2>2. CASE decision' = [decision EXCEPT ![x] = "abort"]
    <3>1. UNCHANGED <<Agreed, Settled>>
      BY <1>6, <2>2 DEF Decide, Agreed, Settled, SInv, Base, TypeOK
    <3> QED  BY <1>1, <1>6, <2>2, <3>1, AbortKeeps, MapsToStutter
  <2> QED  BY <1>6, <2>1, <2>2 DEF Decide
<1>7. ASSUME NEW u \in User, NEW v \in User, NEW n \in Amount,
             Direct("coin", CoinTransfer(store["coin"], u, v, n))
      PROVE  SInv' /\ [Swap!Next]_Swap!vars
  BY <1>1, <1>7, PaidDirectly, MapsToPay
<1>8. ASSUME NEW u \in User, NEW v \in User, NEW n \in Amount,
             Direct("security", EstateTransfer(store["security"], u, v, n))
      PROVE  SInv' /\ [Swap!Next]_Swap!vars
  BY <1>1, <1>8, GivenDirectly, MapsToGive
<1>9. ASSUME NEW u \in User, AddToWhitelist(u) PROVE SInv' /\ [Swap!Next]_Swap!vars
  BY <1>1, <1>9, AdmittedDirectly, MapsToAdmit
<1>10. CASE UNCHANGED vars
  <2>1. SInv'
    <3>1. Base'
      BY <1>1, <1>10 DEF vars, SInv, Base, TypeOK, Phases, HeldIsNat, Holding
    <3>2. /\ \A c \in Chain : Effective(c)' = Effective(c)
          /\ \A c \in Chain : Holding(c)' = Holding(c)
      BY <1>10 DEF vars, Effective, Committing, Holding
    <3>3. UNCHANGED <<decision, ops, deal>>
      BY <1>10 DEF vars
    <3> QED  BY <3>1, <3>2, <3>3, QuietKeeps
  <2>2. UNCHANGED Swap!vars
    BY <1>10 DEF vars, Swap!vars, Column, Effective, Committing
  <2> QED  BY <2>1, <2>2
<1> QED  BY <1>2, <1>3, <1>4, <1>5, <1>6, <1>7, <1>8, <1>9, <1>10 DEF Next, Relay

LEMMA SwapBegins == Init => Swap!Init
<1> SUFFICES ASSUME Init PROVE Swap!Init
  OBVIOUS
<1>1. SInv
  BY SInvInit
<1>2. Effective("coin") \in Stores("coin") /\ Effective("security") \in Stores("security")
  BY <1>1, EffectiveIsRight DEF SInv, EffectiveRight, Chain
<1>3. /\ Column("coin", "balance") \in [User -> Nat]
      /\ Column("security", "share") \in [User -> Nat]
  BY <1>2, MappingIs, KeysHere DEF Balances, SharesOf, Stores
<1>4. Cardinality(Swap!Holders(Column("security", "share"))) <= MaxTokenOwner
  <2>1. Effective("security")[OwnerCount] = Cardinality({u \in User : Shares[u] # 0})
    <3>1. "security" \in Chain /\ Effective("security") = store["security"]
      BY DEF Init, Chain, Effective, Committing
    <3>2. \A k \in Key("security") : store["security"][k] =
                  CASE k[1] = "balance" -> Coins[k[2]]
                    [] k[1] = "share" -> Shares[k[2]]
                    [] k[1] = "white" -> IF k[2] \in Admitted THEN 1 ELSE 0
                    [] k[1] = "owners" -> Cardinality({u \in User : Shares[u] # 0})
      BY <3>1 DEF Init
    <3> QED  BY <3>1, <3>2, KeysHere DEF OwnerCount
  <2>2. Counts(Effective("security"))
    BY <1>1, OwnerCountIs DEF SInv, OwnerCounts
  <2> QED  BY <2>1, <2>2, MappingIs, HoldersFit, CrossAssumption
<1>5. Agreed = [x \in Tx |-> {}] /\ Settled = {}
  BY DEF Init, Agreed, Settled
<1>6. {u \in User : Column("security", "white")[u] = 1} \subseteq User
  OBVIOUS
<1> HIDE DEF Column
<1> QED  BY <1>3, <1>4, <1>5, <1>6, CardinalitySame DEF Swap!Init, Agreed, Settled

\* Types of all variables, whatever users, trades, transactions and amounts.
THEOREM TypeCorrect == Spec => []TypeOK
<1>1. SInv => TypeOK
  BY DEF SInv, Base
<1>2. SInv /\ [Next]_vars => SInv'
  BY SwapStep
<1> QED  BY <1>1, <1>2, SInvInit, PTL DEF Spec

\* The counter of holders that the contract enforces its limit by is exact,
\* with the sales that are decided and still to be committed, however sales and
\* transfers overlap: none of them counts a holder who was there, or forgets
\* one who is not there any more.
THEOREM OwnersCounted == Spec => []OwnerCountExact
<1>1. SInv => OwnerCountExact
  BY DEF SInv
<1>2. SInv /\ [Next]_vars => SInv'
  BY SwapStep
<1> QED  BY <1>1, <1>2, SInvInit, PTL DEF Spec

\* A sale as the API server, the chains and the coordinator carry it out is an
\* atomic swap: coins and shares change hands in one step, when the
\* coordinator decides, to a whitelisted buyer and within the limit of
\* holders, or not at all; all else is seen from outside as nothing.
THEOREM SalesAreSwaps == Spec => SwapSpec
<1>1. SInv /\ [Next]_vars => SInv' /\ [Swap!Next]_Swap!vars
  BY SwapStep
<1>2. Init => SInv /\ Swap!Init
  BY SInvInit, SwapBegins
<1> QED  BY <1>1, <1>2, PTL DEF Spec, SwapSpec, Swap!Spec
=============================================================================
