------------------------- MODULE OrderLedger_proofs -------------------------
(***************************************************************************)
(* Proofs about OrderLedger: whoever moves the balance only as the ledger  *)
(* allows stays solvent.  The balance is a sum over the orders, so the     *)
(* first part proves what is needed of sums.                               *)
(***************************************************************************)
EXTENDS OrderLedger, WellFoundedInduction, NaturalsInduction, TLAPS

-----------------------------------------------------------------------------
(* Sums.                                                                   *)

(* Induction over the natural numbers, stated of a set.                    *)
LEMMA SetInduction ==
  ASSUME NEW S, S \subseteq Nat, 0 \in S, \A n \in S : n + 1 \in S
  PROVE  S = Nat
  <1> DEFINE R == OpToRel(<, Nat)
  <1>1. IsWellFoundedOn(R, Nat)
    BY NatLessThanWellFounded
  <1>2. \A m, n \in Nat : m < n => <<m, n>> \in R
    BY DEF OpToRel
  <1> HIDE DEF R
  <1>3. SUFFICES ASSUME Nat \ S # {} PROVE FALSE
    OBVIOUS
  <1>4. PICK x \in Nat \ S : \A y \in Nat \ S : <<y, x>> \notin R
    BY <1>1, <1>3, WFMin
  <1>5. x # 0 /\ x - 1 \in Nat /\ x = (x - 1) + 1
    BY <1>4
  <1>6. <<x - 1, x>> \in R
    <2>1. x \in Nat /\ x - 1 < x
      BY <1>4, <1>5
    <2> QED
      BY ONLY <2>1, <1>2, <1>5
  <1>7. x - 1 \in S
    BY ONLY <1>4, <1>5, <1>6
  <1> QED
    BY ONLY <1>4, <1>5, <1>7, \A n \in S : n + 1 \in S

(* The sum of an empty prefix is 0; one more order adds its share.         *)
LEMMA SumSteps ==
  ASSUME NEW f
  PROVE  /\ UpTo(f)[0] = 0
         /\ \A n \in 1 .. MaxOrders : UpTo(f)[n] = UpTo(f)[n - 1] + f[n]
  <1> DEFINE Is(s, m) == s = [n \in 0 .. m |-> IF n = 0 THEN 0 ELSE s[n - 1] + f[n]]
             M == {m \in Nat : \E s : Is(s, m)}
  <1>1. 0 \in M
    <2> DEFINE s == [n \in 0 .. 0 |-> 0]
    <2>1. Is(s, 0)
      OBVIOUS
    <2> QED
      BY <2>1
  <1>2. ASSUME NEW m \in M PROVE m + 1 \in M
    <2>1. PICK s : Is(s, m)
      OBVIOUS
    <2> DEFINE t == [n \in 0 .. m + 1 |-> IF n = m + 1 THEN s[m] + f[m + 1] ELSE s[n]]
    <2>2. m \in Nat
      OBVIOUS
    <2>3. \A n \in 0 .. m : s[n] = IF n = 0 THEN 0 ELSE s[n - 1] + f[n]
      BY <2>1
    <2>4. \A n \in 0 .. m + 1 : t[n] = IF n = 0 THEN 0 ELSE t[n - 1] + f[n]
      <3> SUFFICES ASSUME NEW n \in 0 .. m + 1
                   PROVE  t[n] = IF n = 0 THEN 0 ELSE t[n - 1] + f[n]
        OBVIOUS
      <3>1. CASE n = m + 1
        <4>1. n # 0 /\ n - 1 = m /\ m \in 0 .. m + 1 /\ m # m + 1
          BY <2>2, <3>1
        <4>2. t[n] = s[m] + f[m + 1] /\ t[m] = s[m]
          BY ONLY <2>2, <3>1, <4>1, n \in 0 .. m + 1
        <4> QED
          BY ONLY <3>1, <4>1, <4>2
      <3>2. CASE n # m + 1
        <4>1. n \in 0 .. m /\ t[n] = s[n]
          BY <2>2, <3>2
        <4>2. n # 0 => n - 1 \in 0 .. m + 1 /\ n - 1 # m + 1
          BY <2>2, <4>1
        <4>3. n # 0 => t[n - 1] = s[n - 1]
          BY <4>2
        <4> QED
          BY ONLY <2>3, <4>1, <4>3
      <3> QED
        BY <3>1, <3>2
    <2>5. Is(t, m + 1)
      BY ONLY <2>4
    <2>6. \E s2 : Is(s2, m + 1)
      <3> HIDE DEF t, Is
      <3> QED
        BY ONLY <2>5
    <2> QED
      BY <2>2, <2>6
  <1>3. MaxOrders \in M
    <2> HIDE DEF M
    <2>1. M = Nat
      <3>1. M \subseteq Nat
        BY DEF M
      <3> QED
        BY ONLY <1>1, <1>2, <3>1, SetInduction
    <2> QED
      BY <2>1, LedgerAssumption
  <1>4. \E s : s = [n \in 0 .. MaxOrders |-> IF n = 0 THEN 0 ELSE s[n - 1] + f[n]]
    BY <1>3
  <1>5. UpTo(f) = [n \in 0 .. MaxOrders |-> IF n = 0 THEN 0 ELSE UpTo(f)[n - 1] + f[n]]
    BY ONLY <1>4 DEF UpTo
  <1> DEFINE u == UpTo(f)
  <1>6. u = [n \in 0 .. MaxOrders |-> IF n = 0 THEN 0 ELSE u[n - 1] + f[n]]
    BY ONLY <1>5
  <1> HIDE DEF u
  <1>7. u[0] = 0
    BY ONLY <1>6, LedgerAssumption
  <1>8. \A n \in 1 .. MaxOrders : u[n] = u[n - 1] + f[n]
    BY ONLY <1>6, LedgerAssumption
  <1> QED
    BY ONLY <1>7, <1>8 DEF u

(* A sum of integers is an integer, and so is every part of it.            *)
LEMMA SumInt ==
  ASSUME NEW f \in [Orders -> Int]
  PROVE  /\ \A n \in 0 .. MaxOrders : UpTo(f)[n] \in Int
         /\ Sum(f) \in Int
  <1> DEFINE u == UpTo(f)
  <1>1. u[0] = 0 /\ \A n \in 1 .. MaxOrders : u[n] = u[n - 1] + f[n] /\ f[n] \in Int
    BY SumSteps DEF Orders
  <1>2. u[MaxOrders] = Sum(f)
    BY DEF Sum
  <1> HIDE DEF u
  <1> DEFINE S == {n \in Nat : n <= MaxOrders => u[n] \in Int}
  <1>3. S = Nat
    <2>1. S \subseteq Nat /\ 0 \in S
      BY <1>1
    <2>2. ASSUME NEW n \in S PROVE n + 1 \in S
      <3>1. CASE n + 1 <= MaxOrders
        <4>1. n \in Nat /\ n + 1 \in 1 .. MaxOrders /\ (n + 1) - 1 = n /\ n <= MaxOrders
          BY <3>1, LedgerAssumption
        <4>2. u[n + 1] = u[n] + f[n + 1] /\ f[n + 1] \in Int /\ u[n] \in Int
          BY <4>1, <1>1
        <4> QED
          BY <4>1, <4>2
      <3> QED
        BY <3>1
    <2> HIDE DEF S
    <2> QED
      BY ONLY <2>1, <2>2, SetInduction
  <1>4. \A n \in 0 .. MaxOrders : u[n] \in Int
    BY <1>3, LedgerAssumption
  <1> QED
    BY <1>2, <1>4, LedgerAssumption DEF u

(* Changing one share changes the sum by as much.                          *)
LEMMA SumChange ==
  ASSUME NEW f \in [Orders -> Int], NEW g \in [Orders -> Int], NEW o \in Orders,
         \A p \in Orders : p # o => g[p] = f[p]
  PROVE  Sum(g) = Sum(f) + (g[o] - f[o])
  <1> DEFINE u == UpTo(f)
             v == UpTo(g)
  <1>1. /\ u[0] = 0 /\ v[0] = 0
        /\ \A n \in 1 .. MaxOrders : u[n] = u[n - 1] + f[n] /\ v[n] = v[n - 1] + g[n]
    BY SumSteps
  <1>2. u[MaxOrders] = Sum(f) /\ v[MaxOrders] = Sum(g)
    BY DEF Sum
  <1>3. \A n \in 0 .. MaxOrders : u[n] \in Int /\ v[n] \in Int
    BY SumInt
  <1>4. /\ \A n \in 1 .. MaxOrders : f[n] \in Int /\ g[n] \in Int /\ (n # o => g[n] = f[n])
        /\ o \in 1 .. MaxOrders
    BY DEF Orders
  <1> HIDE DEF u, v
  <1> DEFINE Same(n) == v[n] = u[n] + IF o <= n THEN g[o] - f[o] ELSE 0
             S == {n \in Nat : n <= MaxOrders => Same(n)}
  <1>5. S = Nat
    <2>1. S \subseteq Nat /\ 0 \in S
      BY <1>1, <1>4
    <2>2. ASSUME NEW n \in S PROVE n + 1 \in S
      <3>1. CASE n + 1 <= MaxOrders
        <4>1. n \in Nat /\ n + 1 \in 1 .. MaxOrders /\ (n + 1) - 1 = n /\ n <= MaxOrders
              /\ n \in 0 .. MaxOrders
          BY <3>1, LedgerAssumption
        <4>2. /\ u[n + 1] = u[n] + f[n + 1] /\ v[n + 1] = v[n] + g[n + 1]
              /\ u[n] \in Int /\ v[n] \in Int
          BY <4>1, <1>1, <1>3
        <4>3. Same(n)
          BY <4>1
        <4>4. CASE o = n + 1
          BY <4>1, <4>2, <4>3, <4>4, <1>4
        <4>5. CASE o # n + 1
          <5>1. (o <= n + 1) <=> (o <= n)
            BY <4>1, <4>5, <1>4
          <5>2. g[n + 1] = f[n + 1] /\ f[n + 1] \in Int /\ g[o] - f[o] \in Int
            BY <4>1, <4>5, <1>4
          <5>3. Same(n + 1)
            BY <4>2, <4>3, <5>1, <5>2
          <5> QED
            BY <5>3, <4>1
        <4> QED
          BY <4>4, <4>5
      <3> QED
        BY <3>1
    <2> HIDE DEF S
    <2> QED
      BY ONLY <2>1, <2>2, SetInduction
  <1>6. MaxOrders \in S
    BY <1>5, LedgerAssumption
  <1> QED
    BY <1>2, <1>4, <1>6

(* A sum of smaller shares is smaller.                                     *)
LEMMA SumOrder ==
  ASSUME NEW f \in [Orders -> Int], NEW g \in [Orders -> Int],
         \A o \in Orders : f[o] <= g[o]
  PROVE  Sum(f) <= Sum(g)
  <1> DEFINE u == UpTo(f)
             v == UpTo(g)
  <1>1. /\ u[0] = 0 /\ v[0] = 0
        /\ \A n \in 1 .. MaxOrders : u[n] = u[n - 1] + f[n] /\ v[n] = v[n - 1] + g[n]
    BY SumSteps
  <1>2. u[MaxOrders] = Sum(f) /\ v[MaxOrders] = Sum(g)
    BY DEF Sum
  <1>3. \A n \in 0 .. MaxOrders : u[n] \in Int /\ v[n] \in Int
    BY SumInt
  <1>4. \A n \in 1 .. MaxOrders : f[n] \in Int /\ g[n] \in Int /\ f[n] <= g[n]
    BY DEF Orders
  <1> HIDE DEF u, v
  <1> DEFINE S == {n \in Nat : n <= MaxOrders => u[n] <= v[n]}
  <1>5. S = Nat
    <2>1. S \subseteq Nat /\ 0 \in S
      BY <1>1
    <2>2. ASSUME NEW n \in S PROVE n + 1 \in S
      <3>1. CASE n + 1 <= MaxOrders
        <4>1. n \in Nat /\ n + 1 \in 1 .. MaxOrders /\ (n + 1) - 1 = n /\ n <= MaxOrders
              /\ n \in 0 .. MaxOrders
          BY <3>1, LedgerAssumption
        <4>2. /\ u[n + 1] = u[n] + f[n + 1] /\ v[n + 1] = v[n] + g[n + 1]
              /\ u[n] \in Int /\ v[n] \in Int /\ u[n] <= v[n]
          BY <4>1, <1>1, <1>3
        <4> QED
          BY <4>1, <4>2, <1>4
      <3> QED
        BY <3>1
    <2> HIDE DEF S
    <2> QED
      BY ONLY <2>1, <2>2, SetInduction
  <1>6. MaxOrders \in S
    BY <1>5, LedgerAssumption
  <1> QED
    BY <1>2, <1>6

(* What no order gives in one currency more than it takes in the other,    *)
(* all orders together do not either.                                      *)
LEMMA SumBalance ==
  ASSUME NEW f \in [Orders -> Int], NEW g \in [Orders -> Int],
         \A o \in Orders : f[o] + g[o] <= 0
  PROVE  Sum(f) + Sum(g) <= 0
  <1> DEFINE u == UpTo(f)
             v == UpTo(g)
  <1>1. /\ u[0] = 0 /\ v[0] = 0
        /\ \A n \in 1 .. MaxOrders : u[n] = u[n - 1] + f[n] /\ v[n] = v[n - 1] + g[n]
    BY SumSteps
  <1>2. u[MaxOrders] = Sum(f) /\ v[MaxOrders] = Sum(g)
    BY DEF Sum
  <1>3. \A n \in 0 .. MaxOrders : u[n] \in Int /\ v[n] \in Int
    BY SumInt
  <1>4. \A n \in 1 .. MaxOrders : f[n] \in Int /\ g[n] \in Int /\ f[n] + g[n] <= 0
    BY DEF Orders
  <1> HIDE DEF u, v
  <1> DEFINE S == {n \in Nat : n <= MaxOrders => u[n] + v[n] <= 0}
  <1>5. S = Nat
    <2>1. S \subseteq Nat /\ 0 \in S
      BY <1>1
    <2>2. ASSUME NEW n \in S PROVE n + 1 \in S
      <3>1. CASE n + 1 <= MaxOrders
        <4>1. n \in Nat /\ n + 1 \in 1 .. MaxOrders /\ (n + 1) - 1 = n /\ n <= MaxOrders
              /\ n \in 0 .. MaxOrders
          BY <3>1, LedgerAssumption
        <4>2. /\ u[n + 1] = u[n] + f[n + 1] /\ v[n + 1] = v[n] + g[n + 1]
              /\ u[n] \in Int /\ v[n] \in Int /\ u[n] + v[n] <= 0
          BY <4>1, <1>1, <1>3
        <4> QED
          BY <4>1, <4>2, <1>4
      <3> QED
        BY <3>1
    <2> HIDE DEF S
    <2> QED
      BY ONLY <2>1, <2>2, SetInduction
  <1>6. MaxOrders \in S
    BY <1>5, LedgerAssumption
  <1> QED
    BY <1>2, <1>6

(* No shares, nothing to sum.                                              *)
LEMMA SumZero == Sum(Zero) = 0
  <1> DEFINE u == UpTo(Zero)
  <1>0. \A n \in 1 .. MaxOrders : Zero[n] = 0
    BY DEF Zero, Orders
  <1>1. u[0] = 0 /\ \A n \in 1 .. MaxOrders : u[n] = u[n - 1] + 0
    BY <1>0, SumSteps
  <1>2. u[MaxOrders] = Sum(Zero)
    BY DEF Sum
  <1> HIDE DEF u
  <1> DEFINE S == {n \in Nat : n <= MaxOrders => u[n] = 0}
  <1>3. S = Nat
    <2>1. S \subseteq Nat /\ 0 \in S
      BY <1>1
    <2>2. ASSUME NEW n \in S PROVE n + 1 \in S
      <3>1. CASE n + 1 <= MaxOrders
        <4>1. n \in Nat /\ n + 1 \in 1 .. MaxOrders /\ (n + 1) - 1 = n /\ n <= MaxOrders
          BY <3>1, LedgerAssumption
        <4>2. u[n + 1] = u[n] + 0 /\ u[n] = 0
          BY <4>1, <1>1
        <4> QED
          BY <4>1, <4>2
      <3> QED
        BY <3>1
    <2> HIDE DEF S
    <2> QED
      BY ONLY <2>1, <2>2, SetInduction
  <1>4. MaxOrders \in S
    BY <1>3, LedgerAssumption
  <1> QED
    BY <1>2, <1>4

-----------------------------------------------------------------------------
(* The inductive invariant: the balance is the allocation and what each    *)
(* order has moved since.                                                  *)

(* What an order has moved so far, in each currency.                       *)
MovedIDR ==
    [o \in Orders |-> IF o \notin locked THEN 0
                      ELSE IF terms[o].side = "buy" THEN returned[o] - terms[o].amt
                      ELSE credited[o]]
MovedCoin ==
    [o \in Orders |-> IF o \notin locked THEN 0
                      ELSE IF terms[o].side = "buy" THEN credited[o]
                      ELSE returned[o] - terms[o].amt]

LedgerType ==
    /\ terms \in [Orders -> [side : Sides \cup {"none"}, amt : Nat]]
    /\ executed \in [Orders -> Nat]
    /\ credited \in [Orders -> Nat]
    /\ returned \in [Orders -> Nat]
    /\ cancelled \subseteq Placed
    /\ locked \subseteq Placed
    /\ bal \in [idr : Nat, coin : Nat]

(* What is credited was executed, what is returned was cancelled, and both *)
(* only after the funds were locked.                                       *)
OrderInv(o) ==
    /\ o \notin Placed => executed[o] = 0
    /\ credited[o] <= executed[o]
    /\ executed[o] <= terms[o].amt
    /\ o \notin locked => credited[o] = 0 /\ returned[o] = 0
    /\ o \notin cancelled => returned[o] = 0
    /\ returned[o] \in {0, Unfilled(o)}

Balanced ==
    /\ bal.idr = InitialIDR + Sum(MovedIDR)
    /\ bal.coin = Sum(MovedCoin)

LedgerInv == LedgerType /\ (\A o \in Orders : OrderInv(o)) /\ Balanced

(* A step that moves the balance by what one order's shares change keeps   *)
(* it balanced.                                                            *)
LEMMA BalancedNext ==
  ASSUME LedgerType, LedgerType', Balanced, NEW o \in Orders,
         \A p \in Orders : p # o => /\ MovedIDR'[p] = MovedIDR[p]
                                    /\ MovedCoin'[p] = MovedCoin[p],
         bal'.idr = bal.idr + (MovedIDR'[o] - MovedIDR[o]),
         bal'.coin = bal.coin + (MovedCoin'[o] - MovedCoin[o])
  PROVE  Balanced'
  <1>1. /\ MovedIDR \in [Orders -> Int] /\ MovedCoin \in [Orders -> Int]
        /\ MovedIDR' \in [Orders -> Int] /\ MovedCoin' \in [Orders -> Int]
    BY DEF LedgerType, MovedIDR, MovedCoin
  <1>2. Sum(MovedIDR') = Sum(MovedIDR) + (MovedIDR'[o] - MovedIDR[o])
    BY <1>1, SumChange
  <1>3. Sum(MovedCoin') = Sum(MovedCoin) + (MovedCoin'[o] - MovedCoin[o])
    BY <1>1, SumChange
  <1>4. Sum(MovedIDR) \in Int /\ Sum(MovedCoin) \in Int
        /\ MovedIDR'[o] - MovedIDR[o] \in Int
    BY <1>1, SumInt
  <1>5. bal'.idr = InitialIDR + Sum(MovedIDR')
    BY <1>2, <1>4, LedgerAssumption DEF Balanced
  <1>6. bal'.coin = Sum(MovedCoin')
    BY <1>3 DEF Balanced
  <1> QED
    BY <1>5, <1>6 DEF Balanced

LEMMA InitLedger == Init => LedgerInv
  <1> SUFFICES ASSUME Init PROVE LedgerInv
    OBVIOUS
  <1>1. LedgerType
    BY LedgerAssumption DEF Init, LedgerType, Zero, NotPlaced, Placed, Sides
  <1>2. \A o \in Orders : OrderInv(o)
    BY DEF Init, OrderInv, Zero, NotPlaced, Unfilled, Placed
  <1>3. MovedIDR = Zero /\ MovedCoin = Zero
    BY DEF Init, MovedIDR, MovedCoin, Zero
  <1>4. Balanced
    BY <1>3, SumZero, LedgerAssumption DEF Init, Balanced
  <1> QED
    BY <1>1, <1>2, <1>4 DEF LedgerInv

(* An order moves nothing before its funds are locked.                     *)
LEMMA LedgerNext == LedgerInv /\ [Next]_vars => LedgerInv'
  <1> SUFFICES ASSUME LedgerInv, [Next]_vars PROVE LedgerInv'
    OBVIOUS
  <1>0. LedgerType /\ Balanced /\ \A o \in Orders : OrderInv(o)
    BY DEF LedgerInv
  <1>1. ASSUME NEW o \in Orders, Place(o) PROVE LedgerInv'
    <2>1. PICK side \in Sides, amt \in 1 .. MaxAmount :
             terms' = [terms EXCEPT ![o] = [side |-> side, amt |-> amt]]
      BY <1>1 DEF Place
    <2>2. o \notin locked /\ o \notin cancelled /\ amt \in Nat
      BY <1>0, <1>1, LedgerAssumption DEF Place, LedgerType
    <2>3. LedgerType'
      BY <1>0, <1>1, <2>1, <2>2 DEF Place, LedgerType, Placed, Sides
    <2>4. terms[o].side = "none"
      BY <1>1 DEF Place, Placed
    <2>5. \A p \in Orders : OrderInv(p)'
      <3> SUFFICES ASSUME NEW p \in Orders PROVE OrderInv(p)'
        OBVIOUS
      <3>1. OrderInv(p) /\ (p # o => terms'[p] = terms[p] /\ (p \in Placed' <=> p \in Placed))
        BY <1>0, <2>1 DEF LedgerType, Placed
      <3>2. CASE p = o
        <4>1. executed[o] = 0 /\ credited[o] = 0 /\ returned[o] = 0 /\ terms'[o].amt = amt
              /\ o \in Placed'
          BY <1>0, <1>1, <2>1, <2>2 DEF Place, OrderInv, LedgerType, Placed, Sides
        <4> QED
          BY <1>1, <2>2, <3>2, <4>1 DEF Place, OrderInv, Unfilled
      <3>3. CASE p # o
        BY <1>1, <3>1, <3>3 DEF Place, OrderInv, Unfilled
      <3> QED
        BY <3>2, <3>3
    <2>6. MovedIDR' = MovedIDR /\ MovedCoin' = MovedCoin
      BY <1>0, <1>1, <2>1, <2>2 DEF Place, LedgerType, MovedIDR, MovedCoin
    <2> QED
      BY <1>0, <1>1, <2>3, <2>5, <2>6 DEF Place, LedgerInv, Balanced
  <1>2. ASSUME NEW o \in Orders, Execute(o) PROVE LedgerInv'
    <2>1. PICK qty \in 1 .. Unfilled(o) : executed' = [executed EXCEPT ![o] = @ + qty]
      BY <1>2 DEF Execute
    <2>2. /\ executed[o] \in Nat /\ terms[o].amt \in Nat /\ Unfilled(o) \in Int
          /\ qty \in Nat /\ qty <= terms[o].amt - executed[o]
          /\ o \in Placed /\ o \notin cancelled /\ Placed' = Placed
      BY <1>0, <1>2, <2>1 DEF Execute, LedgerType, Unfilled, Placed
    <2>3. LedgerType'
      BY <1>0, <1>2, <2>1, <2>2 DEF Execute, LedgerType
    <2>4. \A p \in Orders : OrderInv(p)'
      BY <1>0, <1>2, <2>1, <2>2 DEF Execute, OrderInv, Unfilled, LedgerType
    <2>5. MovedIDR' = MovedIDR /\ MovedCoin' = MovedCoin
      BY <1>2 DEF Execute, MovedIDR, MovedCoin
    <2> QED
      BY <1>0, <1>2, <2>3, <2>4, <2>5 DEF Execute, LedgerInv, Balanced
  <1>3. ASSUME NEW o \in Orders, Cancel(o) PROVE LedgerInv'
    <2>1. LedgerType'
      BY <1>0, <1>3 DEF Cancel, LedgerType, Placed
    <2>2. \A p \in Orders : OrderInv(p)'
      BY <1>0, <1>3 DEF Cancel, OrderInv, Unfilled, Placed
    <2>3. MovedIDR' = MovedIDR /\ MovedCoin' = MovedCoin
      BY <1>3 DEF Cancel, MovedIDR, MovedCoin
    <2> QED
      BY <1>0, <1>3, <2>1, <2>2, <2>3 DEF Cancel, LedgerInv, Balanced
  <1>4. ASSUME NEW o \in Orders, Lock(o) PROVE LedgerInv'
    <2>1. /\ terms[o].amt \in Nat /\ bal.idr \in Nat /\ bal.coin \in Nat
          /\ credited[o] = 0 /\ returned[o] = 0 /\ o \notin locked
          /\ terms[o].amt <= bal[Pays(o)]
      BY <1>0, <1>4 DEF Lock, LedgerType, OrderInv
    <2>2. LedgerType'
      BY <1>0, <1>4, <2>1 DEF Lock, LedgerType, Placed, Pays
    <2>3. \A p \in Orders : OrderInv(p)'
      BY <1>0, <1>4 DEF Lock, OrderInv, Unfilled, Placed
    <2>4. \A p \in Orders : p # o => /\ MovedIDR'[p] = MovedIDR[p]
                                     /\ MovedCoin'[p] = MovedCoin[p]
      BY <1>4 DEF Lock, MovedIDR, MovedCoin
    <2>5. /\ bal'.idr = bal.idr + (MovedIDR'[o] - MovedIDR[o])
          /\ bal'.coin = bal.coin + (MovedCoin'[o] - MovedCoin[o])
      BY <1>0, <1>4, <2>1 DEF Lock, LedgerType, MovedIDR, MovedCoin, Pays
    <2> QED
      BY <1>0, <2>2, <2>3, <2>4, <2>5, BalancedNext DEF LedgerInv
  <1>5. ASSUME NEW o \in Orders, CreditFill(o) PROVE LedgerInv'
    <2>1. PICK qty \in 1 .. executed[o] - credited[o] :
               /\ credited' = [credited EXCEPT ![o] = @ + qty]
               /\ bal' = [bal EXCEPT ![Gets(o)] = @ + qty]
      BY <1>5 DEF CreditFill
    <2>2. /\ executed[o] \in Nat /\ credited[o] \in Nat /\ qty \in Nat
          /\ qty <= executed[o] - credited[o] /\ o \in locked /\ Placed' = Placed
          /\ bal.idr \in Nat /\ bal.coin \in Nat
      BY <1>0, <1>5, <2>1 DEF CreditFill, LedgerType, Placed
    <2>3. LedgerType'
      BY <1>0, <1>5, <2>1, <2>2 DEF CreditFill, LedgerType, Gets
    <2>4. \A p \in Orders : OrderInv(p)'
      BY <1>0, <1>5, <2>1, <2>2 DEF CreditFill, OrderInv, Unfilled, LedgerType
    <2>5. \A p \in Orders : p # o => /\ MovedIDR'[p] = MovedIDR[p]
                                     /\ MovedCoin'[p] = MovedCoin[p]
      BY <1>5, <2>1 DEF CreditFill, MovedIDR, MovedCoin
    <2>6. /\ bal'.idr = bal.idr + (MovedIDR'[o] - MovedIDR[o])
          /\ bal'.coin = bal.coin + (MovedCoin'[o] - MovedCoin[o])
      BY <1>0, <1>5, <2>1, <2>2 DEF CreditFill, LedgerType, MovedIDR, MovedCoin, Gets
    <2> QED
      BY <1>0, <2>3, <2>4, <2>5, <2>6, BalancedNext DEF LedgerInv
  <1>6. ASSUME NEW o \in Orders, ReturnFunds(o) PROVE LedgerInv'
    <2>1. /\ executed[o] \in Nat /\ terms[o].amt \in Nat /\ Unfilled(o) \in Nat
          /\ o \in locked /\ o \in cancelled /\ returned[o] = 0 /\ Placed' = Placed
          /\ bal.idr \in Nat /\ bal.coin \in Nat
      BY <1>0, <1>6 DEF ReturnFunds, LedgerType, OrderInv, Unfilled, Placed
    <2>2. LedgerType'
      BY <1>0, <1>6, <2>1 DEF ReturnFunds, LedgerType, Pays
    <2>3. \A p \in Orders : OrderInv(p)'
      BY <1>0, <1>6, <2>1 DEF ReturnFunds, OrderInv, Unfilled, LedgerType
    <2>4. \A p \in Orders : p # o => /\ MovedIDR'[p] = MovedIDR[p]
                                     /\ MovedCoin'[p] = MovedCoin[p]
      BY <1>6 DEF ReturnFunds, MovedIDR, MovedCoin
    <2>5. /\ bal'.idr = bal.idr + (MovedIDR'[o] - MovedIDR[o])
          /\ bal'.coin = bal.coin + (MovedCoin'[o] - MovedCoin[o])
      BY <1>0, <1>6, <2>1 DEF ReturnFunds, LedgerType, MovedIDR, MovedCoin, Pays
    <2> QED
      BY <1>0, <2>2, <2>3, <2>4, <2>5, BalancedNext DEF LedgerInv
  <1>7. CASE UNCHANGED vars
    <2>1. LedgerType' /\ \A p \in Orders : OrderInv(p)'
      BY <1>0, <1>7 DEF vars, LedgerType, OrderInv, Unfilled, Placed
    <2>2. MovedIDR' = MovedIDR /\ MovedCoin' = MovedCoin
      BY <1>7 DEF vars, MovedIDR, MovedCoin
    <2> QED
      BY <1>0, <1>7, <2>1, <2>2 DEF vars, LedgerInv, Balanced
  <1> QED
    BY <1>1, <1>2, <1>3, <1>4, <1>5, <1>6, <1>7 DEF Next

(* The balance never claims more of a currency than the exchange holds.    *)
LEMMA LedgerSolvent == LedgerInv => Solvent
  <1> SUFFICES ASSUME LedgerInv, Placed = locked
               PROVE  bal.idr <= HeldIDR /\ bal.coin <= HeldCoin
    BY DEF Solvent
  <1>0. LedgerType /\ Balanced /\ \A o \in Orders : OrderInv(o)
    BY DEF LedgerInv
  <1>1. /\ MovedIDR \in [Orders -> Int] /\ MovedCoin \in [Orders -> Int]
        /\ InIDR \in [Orders -> Int] /\ InCoin \in [Orders -> Int]
    BY <1>0 DEF LedgerType, MovedIDR, MovedCoin, InIDR, InCoin, HeldBack
  <1>2. ASSUME NEW o \in Orders
        PROVE  MovedIDR[o] <= InIDR[o] /\ MovedCoin[o] <= InCoin[o]
    <2>1. /\ terms[o].amt \in Nat /\ executed[o] \in Nat /\ credited[o] \in Nat
          /\ returned[o] \in Nat /\ terms[o].side \in {"none", "buy", "sell"}
          /\ (o \in locked <=> terms[o].side # "none")
      BY <1>0 DEF LedgerType, Sides, Placed
    <2>2. OrderInv(o)
      BY <1>0
    <2> QED
      BY <2>1, <2>2 DEF OrderInv, Unfilled, MovedIDR, MovedCoin, InIDR, InCoin, HeldBack
  <1>3. Sum(MovedIDR) <= Sum(InIDR) /\ Sum(MovedCoin) <= Sum(InCoin)
    BY <1>1, <1>2, SumOrder
  <1>4. Sum(MovedIDR) \in Int /\ Sum(InIDR) \in Int
    BY <1>1, SumInt
  <1> QED
    BY <1>0, <1>3, <1>4, LedgerAssumption DEF Balanced, HeldIDR, HeldCoin

(* Trading at one price gains nothing: the balance never exceeds the       *)
(* allocation, both currencies taken together.                             *)
LEMMA LedgerBound == LedgerInv => bal.idr + bal.coin <= InitialIDR
  <1> SUFFICES ASSUME LedgerInv PROVE bal.idr + bal.coin <= InitialIDR
    OBVIOUS
  <1>0. LedgerType /\ Balanced /\ \A o \in Orders : OrderInv(o)
    BY DEF LedgerInv
  <1>1. MovedIDR \in [Orders -> Int] /\ MovedCoin \in [Orders -> Int]
    BY <1>0 DEF LedgerType, MovedIDR, MovedCoin
  <1>2. \A o \in Orders : MovedIDR[o] + MovedCoin[o] <= 0
    BY <1>0 DEF LedgerType, OrderInv, Unfilled, MovedIDR, MovedCoin
  <1>3. Sum(MovedIDR) + Sum(MovedCoin) <= 0
    BY <1>1, <1>2, SumBalance
  <1>4. Sum(MovedIDR) \in Int /\ Sum(MovedCoin) \in Int
    BY <1>1, SumInt
  <1> QED
    BY <1>0, <1>3, <1>4, LedgerAssumption DEF Balanced

(* Whoever moves the balance only as the ledger allows never claims more   *)
(* than the exchange holds for the bot: Solvent, which the run ledger      *)
(* checks on three orders, for any number of orders and any amounts.       *)
THEOREM LedgerIsSolvent == Spec => []Solvent
  BY InitLedger, LedgerNext, LedgerSolvent, PTL DEF Spec
=============================================================================
