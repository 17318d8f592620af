---------------------------- MODULE OrderLedger ----------------------------
(* What the market-maker bot promises of its virtual balance: the funds of *)
(* an order are locked once, when the exchange accepts it; what the        *)
(* exchange executes is credited once; what it cancels is returned once;   *)
(* and nothing else moves the balance.  It says nothing of messages,       *)
(* records, locks or retries: that MarketMakerOrders keeps the promise is  *)
(* ImplementsLedger in MarketMakerLedger.                                  *)
EXTENDS Integers

CONSTANTS MaxOrders,   \* bound: how many orders the bot may place
          InitialIDR,  \* the bot's allocation
          MaxAmount    \* bound: the largest amount of an order

ASSUME LedgerAssumption ==
    MaxOrders \in Nat /\ InitialIDR \in Nat /\ MaxAmount \in Nat

Orders == 1 .. MaxOrders

VARIABLES terms,       \* side and amount of the orders the exchange accepted
          executed,    \* how much of each order the exchange executed
          cancelled,   \* the orders the exchange cancelled
          locked,      \* the orders whose funds were taken from the balance
          credited,    \* what the balance received for executed quantities
          returned,    \* what the balance received for cancelled quantities
          bal          \* the virtual balance

vars == <<terms, executed, cancelled, locked, credited, returned, bal>>

NotPlaced == [side |-> "none", amt |-> 0]
Sides == {"buy", "sell"}

Zero == [o \in Orders |-> 0]

Init ==
    /\ terms = [o \in Orders |-> NotPlaced]
    /\ executed = Zero
    /\ cancelled = {}
    /\ locked = {}
    /\ credited = Zero
    /\ returned = Zero
    /\ bal = [idr |-> InitialIDR, coin |-> 0]

Placed == {o \in Orders : terms[o].side # "none"}

(* The currency an order pays with, and the one it receives.               *)
Pays(o) == IF terms[o].side = "buy" THEN "idr" ELSE "coin"
Gets(o) == IF terms[o].side = "buy" THEN "coin" ELSE "idr"

Unfilled(o) == terms[o].amt - executed[o]

Place(o) ==
    /\ o \notin Placed
    /\ \E side \in Sides, amt \in 1 .. MaxAmount :
         terms' = [terms EXCEPT ![o] = [side |-> side, amt |-> amt]]
    /\ UNCHANGED <<executed, cancelled, locked, credited, returned, bal>>

Execute(o) ==
    /\ o \in Placed \ cancelled
    /\ \E qty \in 1 .. Unfilled(o) :
         executed' = [executed EXCEPT ![o] = @ + qty]
    /\ UNCHANGED <<terms, cancelled, locked, credited, returned, bal>>

Cancel(o) ==
    /\ o \in Placed \ cancelled
    /\ Unfilled(o) > 0
    /\ cancelled' = cancelled \cup {o}
    /\ UNCHANGED <<terms, executed, locked, credited, returned, bal>>

(* The balance covers the order: nothing is spent that is not there.       *)
Lock(o) ==
    /\ o \in Placed \ locked
    /\ terms[o].amt <= bal[Pays(o)]
    /\ locked' = locked \cup {o}
    /\ bal' = [bal EXCEPT ![Pays(o)] = @ - terms[o].amt]
    /\ UNCHANGED <<terms, executed, cancelled, credited, returned>>

CreditFill(o) ==
    /\ o \in locked
    /\ \E qty \in 1 .. executed[o] - credited[o] :
         /\ credited' = [credited EXCEPT ![o] = @ + qty]
         /\ bal' = [bal EXCEPT ![Gets(o)] = @ + qty]
    /\ UNCHANGED <<terms, executed, cancelled, locked, returned>>

(* Mutant: executed quantities are returned as well.                       *)
ReturnFundsInFull(o) ==
    /\ o \in locked \cap cancelled
    /\ returned[o] = 0
    /\ returned' = [returned EXCEPT ![o] = terms[o].amt]
    /\ bal' = [bal EXCEPT ![Pays(o)] = @ + terms[o].amt]
    /\ UNCHANGED <<terms, executed, cancelled, locked, credited>>

ReturnFunds(o) ==
    /\ o \in locked \cap cancelled
    /\ returned[o] = 0
    /\ returned' = [returned EXCEPT ![o] = Unfilled(o)]
    /\ bal' = [bal EXCEPT ![Pays(o)] = @ + Unfilled(o)]
    /\ UNCHANGED <<terms, executed, cancelled, locked, credited>>

Next == \E o \in Orders :
    \/ Place(o) \/ Execute(o) \/ Cancel(o)
    \/ Lock(o) \/ CreditFill(o) \/ ReturnFunds(o)

Spec == Init /\ [][Next]_vars

-----------------------------------------------------------------------------
(* What keeping the promise is worth.                                      *)

(* The sum of f[1], ..., f[MaxOrders].  A recursive function rather than a *)
(* fold over a set: the proofs go by induction over the orders.            *)
UpTo(f) ==
    LET sum[n \in 0 .. MaxOrders] == IF n = 0 THEN 0 ELSE sum[n - 1] + f[n]
    IN  sum
Sum(f) == UpTo(f)[MaxOrders]

(* What the exchange holds for the bot on account of an order, in each     *)
(* currency: an open order keeps back its whole amount.                    *)
HeldBack(o) == IF o \in cancelled THEN executed[o] ELSE terms[o].amt
InIDR == [o \in Orders |-> IF terms[o].side = "buy" THEN -HeldBack(o)
                           ELSE IF terms[o].side = "sell" THEN executed[o] ELSE 0]
InCoin == [o \in Orders |-> IF terms[o].side = "sell" THEN -HeldBack(o)
                            ELSE IF terms[o].side = "buy" THEN executed[o] ELSE 0]
HeldIDR == InitialIDR + Sum(InIDR)
HeldCoin == Sum(InCoin)

(* Whoever moves the balance only as the ledger allows never claims more   *)
(* of either currency than the exchange holds for the bot, once the funds  *)
(* of every accepted order are locked (what placeNewOrder, the fill        *)
(* handlers and handleCancelledOrder are for).                             *)
Solvent == Placed = locked => bal.idr <= HeldIDR /\ bal.coin <= HeldCoin
=============================================================================
