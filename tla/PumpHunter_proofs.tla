------------------------- MODULE PumpHunter_proofs -------------------------
(***************************************************************************)
(* Proofs about PumpHunter.  Whatever happens, what is open was bought     *)
(* (CoreInv), and unless a fill that StartBot found is reported again, a   *)
(* position is in one map only (OrderlyInv).  For a bot that is not        *)
(* started again: limits, maps and records, the balance, known positions   *)
(* (TidyInv), and sells that never exceed what was bought (OnceInv).       *)
(***************************************************************************)
EXTENDS PumpHunterInv, WellFoundedInduction, NaturalsInduction, FiniteSetTheorems, TLAPS

-----------------------------------------------------------------------------
(* The exchange.                                                           *)

LEMMA KnownOrder ==
  ASSUME Books, Types, NEW o \in Orders, ex[o].side # "none" \/ ex[o].done > 0
  PROVE  ex[o].st # "none"
  BY DEF Books, NoOrder

LEMMA NoneIsNoPosition == None \notin Positions
  BY PumpAssumption DEF None, Positions

(* The next order is one the exchange does not have.                       *)
LEMMA Fresh ==
  ASSUME Types, Books, NewOrder \in Orders
  PROVE  /\ ex[NewOrder].st = "none"
         /\ \A o \in Orders : ex[o].st # "none" <=> o < NewOrder
  <1>1. PICK k \in 0 .. MaxOrders : \A o \in Orders : ex[o].st # "none" <=> o <= k
    BY DEF Books
  <1>2. {o \in Orders : ex[o].st # "none"} = 1 .. k
    BY <1>1, PumpAssumption DEF Orders
  <1>3. Cardinality(1 .. k) = k
    BY FS_Interval
  <1>4. NewOrder = k + 1
    BY <1>2, <1>3 DEF NewOrder, Placed
  <1> QED
    BY <1>1, <1>4, PumpAssumption DEF Orders

(* Fills after a message was appended or taken.                            *)
LEMMA FillsAppend ==
  ASSUME wire \in Seq(Message), NEW o \in Orders, NEW st \in {"fill", "cancel"},
         wire' = Append(wire, [o |-> o, st |-> st])
  PROVE  wire' \in Seq(Message) /\ Fills' = IF st = "fill" THEN Fills \cup {o} ELSE Fills
  <1>1. [o |-> o, st |-> st] \in Message
    BY DEF Message
  <1>2. wire' \in Seq(Message)
    BY <1>1
  <1>3. Len(wire') = Len(wire) + 1 /\ Len(wire) \in Nat
        /\ \A i \in 1 .. Len(wire) : wire'[i] = wire[i]
        /\ wire'[Len(wire) + 1] = [o |-> o, st |-> st]
    OBVIOUS
  <1>4. \A e : e \in Fills' <=> e \in Fills \/ (st = "fill" /\ e = o)
    <2>1. ASSUME NEW e \in Fills'
          PROVE  e \in Fills \/ (st = "fill" /\ e = o)
      <3>1. PICK i \in 1 .. Len(wire') : wire'[i].st = "fill" /\ e = wire'[i].o
        BY <2>1 DEF Fills
      <3>2. CASE i \in 1 .. Len(wire)
        BY <1>3, <3>1, <3>2 DEF Fills
      <3>3. CASE i = Len(wire) + 1
        BY <1>3, <3>1, <3>3
      <3> QED
        BY <1>3, <3>1, <3>2, <3>3
    <2>2. ASSUME NEW e \in Fills
          PROVE  e \in Fills'
      <3>1. PICK i \in 1 .. Len(wire) : wire[i].st = "fill" /\ e = wire[i].o
        BY <2>2 DEF Fills
      <3>2. i \in 1 .. Len(wire') /\ wire'[i] = wire[i]
        BY <1>3, <3>1
      <3> QED
        BY <3>1, <3>2 DEF Fills
    <2>3. st = "fill" => o \in Fills'
      <3>1. Len(wire) + 1 \in 1 .. Len(wire')
        BY <1>3
      <3> QED
        BY <1>3, <3>1 DEF Fills
    <2> QED
      BY <2>1, <2>2, <2>3
  <1> QED
    BY <1>2, <1>4

LEMMA FillsTail ==
  ASSUME wire \in Seq(Message), wire # <<>>, wire' = Tail(wire)
  PROVE  wire' \in Seq(Message) /\ Fills' \subseteq Fills
  <1>1. /\ wire' \in Seq(Message) /\ Len(wire') = Len(wire) - 1 /\ Len(wire) \in Nat
        /\ \A i \in 1 .. Len(wire') : wire'[i] = wire[i + 1]
    OBVIOUS
  <1>2. ASSUME NEW e \in Fills'
        PROVE  e \in Fills
    <2>1. PICK i \in 1 .. Len(wire') : wire'[i].st = "fill" /\ e = wire'[i].o
      BY <1>2 DEF Fills
    <2>2. i + 1 \in 1 .. Len(wire) /\ wire[i + 1] = wire'[i]
      BY <1>1, <2>1
    <2> QED
      BY <2>1, <2>2 DEF Fills
  <1> QED
    BY <1>1, <1>2

LEMMA FillsTwice ==
  ASSUME wire \in Seq(Message), NEW o \in Orders,
         wire' = wire \o <<[o |-> o, st |-> "fill"], [o |-> o, st |-> "fill"]>>
  PROVE  wire' \in Seq(Message) /\ Fills' = Fills \cup {o}
  <1> DEFINE m == [o |-> o, st |-> "fill"]
  <1>1. m \in Message
    BY DEF Message
  <1> HIDE DEF m
  <1>2. wire' = wire \o <<m, m>>
    BY DEF m
  <1>3. /\ wire' \in Seq(Message) /\ Len(wire') = Len(wire) + 2 /\ Len(wire) \in Nat
        /\ \A i \in 1 .. Len(wire) : wire'[i] = wire[i]
        /\ wire'[Len(wire) + 1] = m /\ wire'[Len(wire) + 2] = m
    BY <1>1, <1>2
  <1>4. m.o = o /\ m.st = "fill"
    BY DEF m
  <1>5. \A e : e \in Fills' <=> e \in Fills \/ e = o
    <2>1. ASSUME NEW e \in Fills'
          PROVE  e \in Fills \/ e = o
      <3>1. PICK i \in 1 .. Len(wire') : wire'[i].st = "fill" /\ e = wire'[i].o
        BY <2>1 DEF Fills
      <3>2. CASE i \in 1 .. Len(wire)
        BY <1>3, <3>1, <3>2 DEF Fills
      <3>3. CASE i \notin 1 .. Len(wire)
        <4>1. i = Len(wire) + 1 \/ i = Len(wire) + 2
          BY <1>3, <3>1, <3>3
        <4> QED
          BY <1>3, <1>4, <3>1, <4>1
      <3> QED
        BY <3>2, <3>3
    <2>2. ASSUME NEW e \in Fills
          PROVE  e \in Fills'
      <3>1. PICK i \in 1 .. Len(wire) : wire[i].st = "fill" /\ e = wire[i].o
        BY <2>2 DEF Fills
      <3>2. i \in 1 .. Len(wire') /\ wire'[i] = wire[i]
        BY <1>3, <3>1
      <3> QED
        BY <3>1, <3>2 DEF Fills
    <2>3. o \in Fills'
      <3>1. Len(wire) + 1 \in 1 .. Len(wire')
        BY <1>3
      <3> QED
        BY <1>3, <1>4, <3>1 DEF Fills
    <2> QED
      BY <2>1, <2>2, <2>3
  <1> QED
    BY <1>3, <1>5

(* Sent and Reported.                                                      *)
LEMMA SentFills ==
  ASSUME wire \in Seq(Message), NEW o \in Orders, NEW st \in {"fill", "cancel"},
         wire' = Sent(o, st)
  PROVE  /\ wire' \in Seq(Message)
         /\ Fills' \subseteq IF st = "fill" THEN Fills \cup {o} ELSE Fills
  <1>1. CASE wire' = wire
    BY <1>1 DEF Fills
  <1>2. CASE wire' = Append(wire, [o |-> o, st |-> st])
    BY <1>2, FillsAppend
  <1> QED
    BY <1>1, <1>2 DEF Sent

LEMMA ReportedFills ==
  ASSUME wire \in Seq(Message), NEW o \in Orders, NEW n \in {1, 2}, wire' = Reported(o, n)
  PROVE  wire' \in Seq(Message) /\ Fills' \subseteq Fills \cup {o}
  <1>1. CASE n = 2
    BY <1>1, FillsTwice DEF Reported
  <1>2. CASE n # 2
    <2>1. wire' = Sent(o, "fill")
      BY <1>2 DEF Reported
    <2>2. wire' \in Seq(Message)
          /\ Fills' \subseteq IF "fill" = "fill" THEN Fills \cup {o} ELSE Fills
      BY <2>1, SentFills
    <2> QED
      BY <2>2
  <1> QED
    BY <1>1, <1>2

(* What a step may do to the exchange's books.                             *)
ExMono ==
    /\ \A o \in Orders : ex[o].st # "none" =>
          /\ ex'[o].p = ex[o].p /\ ex'[o].side = ex[o].side
          /\ ex'[o].done >= ex[o].done /\ ex'[o].st # "none"
          /\ ex[o].st = "filled" => ex'[o].st = "filled"
    /\ \A o \in Fills' : o \in Orders /\ (o \in Fills \/ ex[o].st \in {"none", "open"})
BooksMove ==
    /\ ex' \in [Orders -> OrderType] /\ coins' \in [Pairs -> Nat]
    /\ wire' \in Seq(Message)
    /\ Books' /\ FillsAreTrue' /\ ExMono
OldOrders == \A o \in Orders : ex[o].st = "none" => ex'[o] = ex[o]

LEMMA FillsOrders ==
  ASSUME wire \in Seq(Message)
  PROVE  Fills \subseteq Orders
  <1>1. \A i \in 1 .. Len(wire) : wire[i] \in Message
    OBVIOUS
  <1> QED
    BY <1>1 DEF Fills, Message

LEMMA BooksSame ==
  ASSUME CoreInv, UNCHANGED books
  PROVE  BooksMove /\ OldOrders /\ Fills' = Fills
  <1>1. UNCHANGED <<ex, coins, wire>>
    BY DEF books
  <1>2. Fills' = Fills /\ Fills \subseteq Orders
    BY <1>1, FillsOrders DEF Fills, CoreInv, Types
  <1>3. Books' /\ FillsAreTrue'
    BY <1>1, <1>2 DEF Books, FillsAreTrue, CoreInv
  <1>4. ExMono
    BY <1>1, <1>2 DEF ExMono, CoreInv, Types, OrderType
  <1> QED
    BY <1>1, <1>2, <1>3, <1>4 DEF BooksMove, OldOrders, CoreInv, Types

(* One order changes, which the exchange already has.                      *)
LEMMA OneOrder ==
  ASSUME CoreInv, NEW o \in Orders, NEW r \in OrderType,
         ex' = [ex EXCEPT ![o] = r],
         ex[o].st # "none", r.st # "none",
         r.side = ex[o].side, r.p = ex[o].p, r.amt = ex[o].amt,
         r.done >= ex[o].done, r.done <= r.amt,
         r.st = "filled" => r.done = r.amt,
         ex[o].st = "filled" => r.st = "filled",
         coins' \in [Pairs -> Nat], wire' \in Seq(Message),
         Fills' \subseteq Fills \/ (Fills' \subseteq Fills \cup {o} /\ r.done > 0
                                     /\ ex[o].st = "open")
  PROVE  BooksMove /\ OldOrders
  <1>1. ex'[o] = r /\ \A q \in Orders \ {o} : ex'[q] = ex[q]
    BY DEF CoreInv, Types
  <1>2. ex' \in [Orders -> OrderType]
    BY DEF CoreInv, Types
  <1>3. Fills \subseteq Orders
    BY FillsOrders DEF CoreInv, Types
  <1>4. Books'
    <2>1. \A q \in Orders : ex'[q].st # "none" <=> ex[q].st # "none"
      BY <1>1
    <2>2. \E k \in 0 .. MaxOrders : \A q \in Orders : ex'[q].st # "none" <=> q <= k
      BY <2>1 DEF CoreInv, Books
    <2>3. \A q \in Orders :
             /\ ex'[q].st = "none" => ex'[q] = NoOrder
             /\ ex'[q].st # "none" => ex'[q].side # "none" /\ ex'[q].amt > 0
             /\ ex'[q].done <= ex'[q].amt
             /\ ex'[q].st = "filled" => ex'[q].done = ex'[q].amt
      BY <1>1 DEF CoreInv, Books
    <2> QED
      BY <2>2, <2>3 DEF Books
  <1>5. FillsAreTrue'
    <2>1. \A q \in Orders : ex[q].done > 0 => ex'[q].done > 0
      BY <1>1 DEF CoreInv, Types, OrderType
    <2> QED
      BY <1>1, <1>3, <2>1 DEF CoreInv, FillsAreTrue
  <1>6. ExMono
    BY <1>1, <1>3 DEF ExMono, CoreInv, Types, OrderType
  <1>7. OldOrders
    BY <1>1 DEF OldOrders
  <1> QED
    BY <1>2, <1>4, <1>5, <1>6, <1>7 DEF BooksMove

LEMMA MoreCoins ==
  ASSUME CoreInv, NEW pair, NEW q \in Nat,
         coins' = [coins EXCEPT ![pair] = @ + q] \/ coins' = coins
  PROVE  coins' \in [Pairs -> Nat]
  <1>1. coins \in [Pairs -> Nat]
    BY DEF CoreInv, Types
  <1>2. CASE coins' = coins
    BY <1>1, <1>2
  <1>3. CASE coins' = [coins EXCEPT ![pair] = @ + q]
    <2>1. coins' = [c \in Pairs |-> IF c = pair THEN coins[c] + q ELSE coins[c]]
      BY <1>1, <1>3
    <2> QED
      BY <1>1, <2>1
  <1> QED
    BY <1>2, <1>3

LEMMA FillBooks ==
  ASSUME CoreInv, NEW o \in Orders, ExFill(o)
  PROVE  BooksMove /\ OldOrders /\ Fills' \subseteq Fills \cup {o}
  <1>1. ex[o] \in OrderType /\ ex[o].st = "open" /\ ex[o].done <= ex[o].amt /\ ex[o].amt > 0
    BY DEF ExFill, CoreInv, Types, Books
  <1>2. PICK times \in Times :
           /\ ex' = [ex EXCEPT ![o].st = "filled", ![o].done = ex[o].amt]
           /\ wire' = Reported(o, times)
    BY DEF ExFill
  <1>3. times \in {1, 2}
    BY <1>2 DEF Times
  <1> DEFINE r == [ex[o] EXCEPT !.st = "filled", !.done = ex[o].amt]
  <1>4. ex' = [ex EXCEPT ![o] = r]
    BY <1>2 DEF CoreInv, Types, OrderType
  <1>5. /\ r \in OrderType /\ r.st = "filled" /\ r.side = ex[o].side /\ r.p = ex[o].p
        /\ r.amt = ex[o].amt /\ r.done = ex[o].amt
    <2>1. ex[o].amt \in Nat
      BY <1>1, <1>3 DEF OrderType
    <2>2. /\ r.st = "filled" /\ r.side = ex[o].side /\ r.p = ex[o].p
          /\ r.amt = ex[o].amt /\ r.done = ex[o].amt
      BY <1>1 DEF OrderType
    <2>3. r \in OrderType
      BY <1>1, <2>1 DEF OrderType
    <2> QED
      BY <2>2, <2>3
  <1> HIDE DEF r
  <1>6. wire' \in Seq(Message) /\ Fills' \subseteq Fills \cup {o}
    BY <1>2, <1>3, ReportedFills DEF CoreInv, Types
  <1>7. coins' \in [Pairs -> Nat]
    <2>1. ex[o].amt - ex[o].done \in Nat
      BY <1>1 DEF OrderType
    <2> QED
      BY <2>1, MoreCoins DEF ExFill
  <1>8. r.done >= ex[o].done /\ r.done <= r.amt /\ r.done > 0
    BY <1>1, <1>5 DEF OrderType
  <1> QED
    BY <1>1, <1>4, <1>5, <1>6, <1>7, <1>8, OneOrder

LEMMA PartialBooks ==
  ASSUME CoreInv, NEW o \in Orders, ExPartial(o)
  PROVE  BooksMove /\ OldOrders /\ Fills' \subseteq Fills \cup {o}
  <1>1. ex[o] \in OrderType /\ ex[o].st = "open" /\ ex[o].done + 1 < ex[o].amt
    BY DEF ExPartial, CoreInv, Types
  <1> DEFINE r == [ex[o] EXCEPT !.done = ex[o].done + 1]
  <1>2. ex' = [ex EXCEPT ![o] = r]
    BY DEF ExPartial, CoreInv, Types, OrderType
  <1>3. /\ r \in OrderType /\ r.st = ex[o].st /\ r.side = ex[o].side /\ r.p = ex[o].p
        /\ r.amt = ex[o].amt /\ r.done = ex[o].done + 1
    <2>1. ex[o].done + 1 \in Nat
      BY <1>1 DEF OrderType
    <2>2. /\ r.st = ex[o].st /\ r.side = ex[o].side /\ r.p = ex[o].p
          /\ r.amt = ex[o].amt /\ r.done = ex[o].done + 1
      BY <1>1 DEF OrderType
    <2>3. r \in OrderType
      BY <1>1, <2>1 DEF OrderType
    <2> QED
      BY <2>2, <2>3
  <1> HIDE DEF r
  <1>4. wire' \in Seq(Message)
        /\ Fills' \subseteq IF "fill" = "fill" THEN Fills \cup {o} ELSE Fills
    BY SentFills DEF ExPartial, CoreInv, Types
  <1>5. coins' \in [Pairs -> Nat]
    BY MoreCoins DEF ExPartial
  <1>6. r.done >= ex[o].done /\ r.done <= r.amt /\ r.done > 0
    BY <1>1, <1>3 DEF OrderType
  <1> QED
    BY <1>1, <1>2, <1>3, <1>4, <1>5, <1>6, OneOrder

LEMMA CancelledBooks ==
  ASSUME CoreInv, NEW o \in Orders, Cancelled(o)
  PROVE  BooksMove /\ OldOrders /\ Fills' \subseteq Fills
  <1>1. ex[o] \in OrderType /\ ex[o].st = "open" /\ ex[o].done <= ex[o].amt
    BY DEF Cancelled, CoreInv, Types, Books
  <1> DEFINE r == [ex[o] EXCEPT !.st = "cancelled"]
  <1>2. ex' = [ex EXCEPT ![o] = r]
    BY DEF Cancelled, CoreInv, Types, OrderType
  <1>3. /\ r \in OrderType /\ r.st = "cancelled" /\ r.side = ex[o].side /\ r.p = ex[o].p
        /\ r.amt = ex[o].amt /\ r.done = ex[o].done
    BY <1>1 DEF OrderType
  <1> HIDE DEF r
  <1>4. wire' \in Seq(Message)
        /\ Fills' \subseteq IF "cancel" = "fill" THEN Fills \cup {o} ELSE Fills
    BY SentFills DEF Cancelled, CoreInv, Types
  <1>5. coins' \in [Pairs -> Nat]
    <2>1. ex[o].amt - ex[o].done \in Nat
      BY <1>1 DEF OrderType
    <2> QED
      BY <2>1, MoreCoins DEF Cancelled
  <1>6. r.done >= ex[o].done /\ r.done <= r.amt
    BY <1>1, <1>3 DEF OrderType
  <1> QED
    BY <1>1, <1>2, <1>3, <1>4, <1>5, <1>6, OneOrder

LEMMA AnswerBooks ==
  ASSUME CoreInv, NEW o \in Orders, NEW ok \in BOOLEAN, CancelAnswer(o, ok)
  PROVE  BooksMove /\ OldOrders /\ Fills' \subseteq Fills
  BY CancelledBooks, BooksSame DEF CancelAnswer

(* An order the exchange accepts.                                          *)
LEMMA AcceptBooks ==
  ASSUME CoreInv, NEW side \in {"buy", "sell"}, NEW kind \in {"limit", "market"},
         NEW p \in Positions \cup {None}, NEW pair \in Pairs \cup {None},
         NEW amt \in Nat \ {0},
         side = "sell" /\ pair \in Pairs => coins[pair] >= amt,
         Accept(side, kind, p, pair, amt)
  PROVE  /\ BooksMove
         /\ NewOrder \in Orders /\ ex[NewOrder].st = "none"
         /\ \A o \in Orders \ {NewOrder} : ex'[o] = ex[o]
         /\ ex'[NewOrder].st \in {"open", "filled"} /\ ex'[NewOrder].side = side
         /\ ex'[NewOrder].p = p /\ ex'[NewOrder].amt = amt
         /\ Fills' \subseteq Fills \cup {NewOrder}
         /\ kind = "limit" => Fills' \subseteq Fills
  <1> DEFINE n == NewOrder
             now == kind = "market"
  <1>1. PICK times \in Times :
          /\ n \in Orders
          /\ ex' = [ex EXCEPT ![n] =
               [st |-> IF now THEN "filled" ELSE "open", side |-> side, p |-> p,
                pair |-> pair, amt |-> amt, done |-> IF now THEN amt ELSE 0]]
          /\ coins' = [coins EXCEPT ![pair] =
               IF side = "sell" THEN @ - amt ELSE IF now THEN @ + amt ELSE @]
          /\ wire' = IF now THEN Reported(n, times) ELSE wire
    BY DEF Accept
  <1>2. times \in {1, 2}
    BY <1>1 DEF Times
  <1>3. ex[n].st = "none" /\ \A o \in Orders : ex[o].st # "none" <=> o < n
    BY <1>1, Fresh DEF CoreInv
  <1> HIDE DEF n
  <1> DEFINE r == [st |-> IF now THEN "filled" ELSE "open", side |-> side, p |-> p,
                pair |-> pair, amt |-> amt, done |-> IF now THEN amt ELSE 0]
  <1>4. /\ r \in OrderType /\ r.st = IF now THEN "filled" ELSE "open"
        /\ r.side = side /\ r.p = p /\ r.amt = amt /\ r.done = IF now THEN amt ELSE 0
    BY <1>2 DEF OrderType
  <1>5. ex' = [ex EXCEPT ![n] = r]
    BY <1>1
  <1> HIDE DEF r
  <1>6. ex'[n] = r /\ \A o \in Orders \ {n} : ex'[o] = ex[o]
    BY <1>1, <1>5 DEF CoreInv, Types
  <1>7. ex' \in [Orders -> OrderType]
    BY <1>4, <1>5 DEF CoreInv, Types
  <1>8. coins' \in [Pairs -> Nat]
    <2>1. CASE pair \notin Pairs
      BY <1>1, <2>1 DEF CoreInv, Types
    <2>2. CASE pair \in Pairs
      <3>1. coins[pair] \in Nat
        BY <2>2 DEF CoreInv, Types
      <3> DEFINE c == IF side = "sell" THEN coins[pair] - amt
                      ELSE IF now THEN coins[pair] + amt ELSE coins[pair]
      <3>2. c \in Nat
        BY <2>2, <3>1
      <3>3. coins' = [coins EXCEPT ![pair] = c]
        BY <1>1, <2>2 DEF CoreInv, Types
      <3> HIDE DEF c
      <3> QED
        BY <3>2, <3>3 DEF CoreInv, Types
    <2> QED
      BY <2>1, <2>2
  <1>9. /\ wire' \in Seq(Message)
        /\ Fills' \subseteq IF now THEN Fills \cup {n} ELSE Fills
    <2>1. CASE now
      BY <1>1, <1>2, <2>1, ReportedFills DEF CoreInv, Types
    <2>2. CASE ~now
      BY <1>1, <2>2 DEF CoreInv, Types, Fills
    <2> QED
      BY <2>1, <2>2
  <1>10. Fills \subseteq Orders
    BY FillsOrders DEF CoreInv, Types
  <1>11. Books'
    <2>1. \A o \in Orders : ex'[o].st # "none" <=> o <= n
      BY <1>1, <1>3, <1>4, <1>6, PumpAssumption DEF Orders
    <2>2. n \in 0 .. MaxOrders
      BY <1>1 DEF Orders
    <2>3. \A o \in Orders :
             /\ ex'[o].st = "none" => ex'[o] = NoOrder
             /\ ex'[o].st # "none" => ex'[o].side # "none" /\ ex'[o].amt > 0
             /\ ex'[o].done <= ex'[o].amt
             /\ ex'[o].st = "filled" => ex'[o].done = ex'[o].amt
      BY <1>4, <1>6 DEF CoreInv, Books
    <2> QED
      BY <2>1, <2>2, <2>3 DEF Books
  <1>12. FillsAreTrue'
    <2>1. \A o \in Fills : ex[o].done > 0 /\ o # n
      BY <1>1, <1>3 DEF CoreInv, FillsAreTrue, Books, NoOrder
    <2>2. now => r.done > 0
      BY <1>4
    <2> QED
      BY <1>6, <1>9, <1>10, <2>1, <2>2 DEF FillsAreTrue
  <1>13. ExMono
    BY <1>1, <1>3, <1>6, <1>9, <1>10 DEF ExMono, CoreInv, Types, OrderType
  <1> QED
    BY <1>1, <1>3, <1>4, <1>6, <1>7, <1>8, <1>9, <1>11, <1>12, <1>13 DEF BooksMove, n

-----------------------------------------------------------------------------
(* A step that changes one position, p0, or none (then p0 is no position). *)

FullNext(r, p) ==
    /\ r.st # "none" /\ p <= used' /\ r.amt > 0
    /\ r.entry \in Orders /\ ex'[r.entry].p = p /\ ex'[r.entry].side = "buy"
    /\ r.first \in Orders /\ ex'[r.first].p = p /\ ex'[r.first].side = "buy"
    /\ r.exit # None => r.exit \in Orders /\ ex'[r.exit].p = p /\ ex'[r.exit].side = "sell"
    /\ r.st = "selling" => r.exit # None
BoughtNext(p) ==
    \E o \in Orders : ex'[o].p = p /\ ex'[o].side = "buy" /\ ex'[o].done > 0
IndexGrows ==
    /\ \A o \in Orders : Indexed(o) => rec'[o].st # "none"
    /\ \A o \in Orders : ex'[o].st = "none" => rec'[o].st = "none"
    /\ \A o \in Orders : rec'[o].st # "none" => rec'[o].oid \in Orders
    /\ \A o \in Orders : ex[o].st # "none" /\ rec'[o].st # "none" => Indexed(o)
Keeps ==
    /\ BooksMove /\ IndexGrows /\ used' >= used
    /\ \A o \in stopper'.todo : o \in stopper.todo \/ Indexed(o)

LEMMA OrderKept ==
  ASSUME CoreInv, Keeps, NEW o \in Orders, ex[o].side # "none" \/ ex[o].done > 0
  PROVE  /\ ex'[o].p = ex[o].p /\ ex'[o].side = ex[o].side
         /\ ex'[o].done >= ex[o].done
  BY KnownOrder DEF Keeps, BooksMove, ExMono, CoreInv

LEMMA BoughtKept ==
  ASSUME CoreInv, Keeps, NEW p \in Positions, WasBought(p)
  PROVE  BoughtNext(p)
  <1>1. PICK o \in Orders : Buys(o, p) /\ ex[o].done > 0
    BY DEF WasBought
  <1>2. ex'[o].p = ex[o].p /\ ex'[o].side = ex[o].side /\ ex'[o].done >= ex[o].done
    BY <1>1, OrderKept
  <1>3. ex'[o].done \in Nat /\ ex[o].done \in Nat
    BY DEF Keeps, BooksMove, CoreInv, Types, OrderType
  <1> QED
    BY <1>1, <1>2, <1>3 DEF Buys, BoughtNext

LEMMA FullKept ==
  ASSUME CoreInv, Keeps, used' \in Nat, NEW p \in Positions, NEW r, Full(r, p)
  PROVE  FullNext(r, p)
  <1>1. /\ ex'[r.entry].p = p /\ ex'[r.entry].side = "buy"
        /\ ex'[r.first].p = p /\ ex'[r.first].side = "buy"
    BY OrderKept DEF Full, Buys
  <1>2. r.exit # None => r.exit \in Orders /\ ex'[r.exit].p = p /\ ex'[r.exit].side = "sell"
    BY OrderKept DEF Full, Sells
  <1>3. p <= used'
    BY PumpAssumption DEF Full, Keeps, CoreInv, Types, Positions
  <1> QED
    BY <1>1, <1>2, <1>3 DEF Full, FullNext

LEMMA HandlerKept ==
  ASSUME CoreInv, Keeps, used' \in Nat, NEW h \in Handlers,
         hs'[h] = hs[h] \/ hs'[h].pc = "idle"
  PROVE  HandlerOk(h)'
  <1>1. CASE hs'[h].pc = "idle"
    BY <1>1 DEF HandlerOk
  <1>2. CASE hs'[h] = hs[h] /\ hs[h].pc # "idle"
    <2>1. HandlerOk(h)
      BY DEF CoreInv, Handling
    <2>2. /\ hs[h].o \in Orders /\ ex[hs[h].o].done > 0 /\ ex[hs[h].o].p \in Positions
      BY <1>2, <2>1 DEF HandlerOk
    <2>3. /\ ex'[hs[h].o].p = ex[hs[h].o].p /\ ex'[hs[h].o].side = ex[hs[h].o].side
          /\ ex'[hs[h].o].done >= ex[hs[h].o].done
      BY <2>2, OrderKept
    <2>4. ex'[hs[h].o].done \in Nat /\ ex[hs[h].o].done \in Nat
      BY <2>2 DEF Keeps, BooksMove, CoreInv, Types, OrderType
    <2>5. hs[h].pc = "restore" => FullNext(hs[h].copy, hs[h].p)
      BY <1>2, <2>1, <2>2, FullKept DEF HandlerOk
    <2>6. hs[h].pc = "restore" /\ hs[h].copy.st \in Late => BoughtNext(hs[h].p)
      BY <1>2, <2>1, <2>2, BoughtKept DEF HandlerOk
    <2>7. hs[h].pc = "restore" => rec'[hs[h].copy.first].st # "none"
      BY <1>2, <2>1, <2>2 DEF HandlerOk, Keeps, IndexGrows, Full
    <2>8. hs[h].pc = "restore" =>
             /\ Full(hs[h].copy, hs[h].p)'
             /\ hs[h].copy.st \in Late => WasBought(hs[h].p)'
      BY <1>2, <2>5, <2>6 DEF Full, FullNext, WasBought, BoughtNext, Buys, Sells
    <2> QED
      BY <1>2, <2>1, <2>2, <2>3, <2>4, <2>7, <2>8 DEF HandlerOk, Indexed
  <1> QED
    BY <1>1, <1>2

OthersKept(p0) ==
    \A q \in Positions \ {p0} :
       /\ mem'[q] = mem[q] /\ db'[q] = db[q] /\ (Held(q)' => Held(q))
       /\ q \in open' => q \in open
       /\ closer'[q] # "idle" => closer[q] # "idle"
       /\ \A o \in Orders : ex'[o].p = q /\ ex'[o].side = "sell" => Sells(o, q)
Changed(p0) ==
    p0 \in Positions =>
       /\ Held(p0)' => FullNext(mem'[p0], p0)
       /\ db'[p0].st \in {"pending", "open", "selling"} => FullNext(db'[p0], p0)
       /\ mem'[p0].st \in Late \/ db'[p0].st \in Late \/ p0 \in open'
            \/ closer'[p0] # "idle" => BoughtNext(p0)
       /\ \A o \in Orders : ex'[o].p = p0 /\ ex'[o].side = "sell" => BoughtNext(p0)
       /\ mem'[p0].first # None => rec'[mem'[p0].first].st # "none"
       /\ db'[p0].first # None => rec'[db'[p0].first].st # "none"
       /\ mem'[p0].st # "none" \/ db'[p0].st # "none" => p0 <= used'
LEMMA CoreOne ==
  ASSUME CoreInv, Types', Keeps, Handling', NEW p0,
         \A o \in Orders : ex'[o].p <= used',
         loop'.pc # "idle" => loop'.p \in 1 .. used',
         OthersKept(p0), Changed(p0)
  PROVE  CoreInv' /\ Keeps
  <1>0. used' \in Nat /\ used \in Nat /\ used' >= used
    BY PumpAssumption DEF Types, CoreInv, Keeps
  <1>1. Books' /\ FillsAreTrue'
    BY DEF Keeps, BooksMove
  <1>2. \A q \in Positions : Held(q)' => FullNext(mem'[q], q)
    <2> SUFFICES ASSUME NEW q \in Positions, q # p0, Held(q)'
                 PROVE  FullNext(mem'[q], q)
      BY DEF Changed
    <2>1. Held(q) /\ mem'[q] = mem[q]
      BY DEF OthersKept
    <2> HIDE DEF Held
    <2>2. Full(mem[q], q)
      BY <2>1 DEF CoreInv, Known
    <2> QED
      BY <1>0, <2>1, <2>2, FullKept
  <1>3. \A q \in Positions :
           db'[q].st \in {"pending", "open", "selling"} => FullNext(db'[q], q)
    BY <1>0, FullKept DEF CoreInv, Known, OthersKept, Changed
  <1>4. Known'
    BY <1>2, <1>3 DEF Known, Full, FullNext, Buys, Sells
  <1>5. \A q \in Positions :
           /\ mem'[q].st \in Late \/ db'[q].st \in Late \/ q \in open'
                 \/ closer'[q] # "idle" => BoughtNext(q)
           /\ \A o \in Orders : ex'[o].p = q /\ ex'[o].side = "sell" => BoughtNext(q)
    BY BoughtKept DEF CoreInv, LateWasBought, OthersKept, Changed
  <1>6. LateWasBought'
    BY <1>5 DEF LateWasBought, BoughtNext, WasBought, Buys, Sells
  <1>7. Recorded'
    <2>1. \A q \in Positions :
             /\ mem'[q].first # None => rec'[mem'[q].first].st # "none"
             /\ db'[q].first # None => rec'[db'[q].first].st # "none"
      BY DEF CoreInv, Recorded, Types, PositionType, Keeps, IndexGrows, Indexed,
             OthersKept, Changed
    <2>2. \A o \in stopper'.todo : o \in Orders /\ Indexed(o)
      BY DEF CoreInv, Recorded, Types, Keeps
    <2> QED
      BY <2>1, <2>2 DEF Recorded, Indexed, Keeps, IndexGrows
  <1>8. Unused'
    <2>1. \A q \in Positions : mem'[q].st # "none" \/ db'[q].st # "none" => q <= used'
      BY <1>0, PumpAssumption DEF CoreInv, Unused, Positions, OthersKept, Changed
    <2> QED
      BY <2>1 DEF Unused
  <1> QED
    BY <1>1, <1>4, <1>6, <1>7, <1>8 DEF CoreInv

(* A step that changes no position and starts no sale.                     *)
LEMMA CoreFrame ==
  ASSUME CoreInv, Types', Keeps, OldOrders, used' = used,
         mem' = mem, db' = db,
         \A q \in Positions : Held(q)' => Held(q),
         open' \subseteq open,
         \A q \in Positions : closer'[q] # "idle" => closer[q] # "idle",
         loop'.pc # "idle" => loop'.p \in 1 .. used,
         \A h \in Handlers : hs'[h] = hs[h] \/ hs'[h].pc = "idle" \/ HandlerOk(h)'
  PROVE  CoreInv' /\ Keeps
  <1>1. Handling'
    <2>1. used' \in Nat
      BY PumpAssumption DEF Types
    <2> QED
      BY <2>1, HandlerKept DEF Handling
  <1>2. \A o \in Orders : ex'[o].p = ex[o].p /\ ex'[o].side = ex[o].side
    BY DEF OldOrders, Keeps, BooksMove, ExMono
  <1>3. \A o \in Orders : ex'[o].p <= used'
    BY <1>2 DEF CoreInv, Unused
  <1>4. OthersKept(None)
    BY <1>2 DEF Sells, OthersKept
  <1>5. Changed(None)
    BY NoneIsNoPosition DEF Changed
  <1>6. loop'.pc # "idle" => loop'.p \in 1 .. used'
    OBVIOUS
  <1> QED
    BY <1>1, <1>3, <1>4, <1>5, <1>6, CoreOne

-----------------------------------------------------------------------------
(* The actions: the exchange.                                              *)

LEMMA CoreTypes == ASSUME CoreInv PROVE Types /\ used \in Nat /\ None \notin Positions
  BY NoneIsNoPosition DEF CoreInv, Types

LEMMA SameIndex ==
  ASSUME CoreInv, BooksMove, rec' = rec
  PROVE  IndexGrows
  BY DEF CoreInv, Types, Recorded, IndexGrows, BooksMove, ExMono, Indexed

LEMMA BooksOnly ==
  ASSUME CoreInv, BooksMove, OldOrders,
         UNCHANGED <<mem, maps, bal, db, rec, routines, life, history>>
  PROVE  CoreInv' /\ Keeps
  <1>1. UNCHANGED <<mem, pend, open, bal, db, rec, loop, hs, closer, stopper, starter,
                    target, used, abandoned>>
    BY DEF maps, routines, life, history
  <1>2. Types'
    BY <1>1, CoreTypes DEF Types, BooksMove
  <1>3. Keeps
    BY <1>1, SameIndex, CoreTypes DEF Keeps
  <1>4. \A q \in Positions : Held(q)' => Held(q)
    BY <1>1 DEF Held, Handled
  <1>5. loop'.pc # "idle" => loop'.p \in 1 .. used
    BY <1>1 DEF CoreInv, Known
  <1> QED
    BY <1>1, <1>2, <1>3, <1>4, <1>5, CoreFrame

LEMMA CoreExchange ==
  ASSUME CoreInv, Exchange
  PROVE  CoreInv' /\ Keeps
  <1>1. ASSUME NEW o \in Orders, ExFill(o)
        PROVE  CoreInv' /\ Keeps
    BY <1>1, FillBooks, BooksOnly DEF ExFill
  <1>2. ASSUME NEW o \in Orders, ExPartial(o)
        PROVE  CoreInv' /\ Keeps
    BY <1>2, PartialBooks, BooksOnly DEF ExPartial
  <1>3. ASSUME NEW o \in Orders, ExternalCancel(o)
        PROVE  CoreInv' /\ Keeps
    BY <1>3, CancelledBooks, BooksOnly DEF ExternalCancel
  <1>4. CASE LoseMessage
    <2>1. wire' \in Seq(Message) /\ Fills' \subseteq Fills /\ UNCHANGED <<ex, coins>>
      BY <1>4, FillsTail DEF LoseMessage, CoreInv, Types
    <2>2. BooksMove /\ OldOrders
      <3>1. Books' /\ FillsAreTrue' /\ OldOrders
        BY <2>1 DEF CoreInv, Books, FillsAreTrue, OldOrders
      <3>2. Fills \subseteq Orders
        BY FillsOrders DEF CoreInv, Types
      <3>3. ExMono
        BY <2>1, <3>2 DEF ExMono, CoreInv, Types, OrderType
      <3> QED
        BY <2>1, <3>1, <3>3 DEF BooksMove, CoreInv, Types
    <2> QED
      BY <1>4, <2>2, BooksOnly DEF LoseMessage
  <1> QED
    BY <1>1, <1>2, <1>3, <1>4 DEF Exchange

(* An order the bot does not learn of: for no position, a further buy      *)
(* order, or a sell order of what was bought; runBot moves on.             *)
LEMMA Unnoticed ==
  ASSUME CoreInv, NEW side \in {"buy", "sell"}, NEW kind \in {"limit", "market"},
         NEW p \in {None} \cup 1 .. used, NEW pair \in Pairs \cup {None},
         NEW amt \in Nat \ {0},
         side = "sell" /\ pair \in Pairs => coins[pair] >= amt,
         side = "sell" => p \in Positions /\ WasBought(p),
         Accept(side, kind, p, pair, amt),
         UNCHANGED <<mem, maps, db, closer, starter, stopper, life>>, bal' \in Nat,
         IndexGrows, Types',
         loop' = loop \/ (loop'.pc # "idle" /\ loop.pc # "idle" /\ loop'.p = loop.p),
         \A h \in Handlers : hs'[h] = hs[h] \/ hs'[h].pc = "idle"
  PROVE  CoreInv' /\ Keeps
  <1>1. UNCHANGED <<mem, pend, open, db, closer, starter, used>>
    BY DEF maps, life
  <1>2. 1 .. used \subseteq Positions /\ used \in Nat
    BY PumpAssumption DEF CoreInv, Types, Positions
  <1>3. /\ BooksMove
        /\ NewOrder \in Orders /\ ex[NewOrder].st = "none"
        /\ \A o \in Orders \ {NewOrder} : ex'[o] = ex[o]
        /\ ex'[NewOrder].side = side /\ ex'[NewOrder].p = p
    <2>1. p \in Positions \cup {None}
      BY <1>2
    <2> QED
      BY <2>1, AcceptBooks
  <1>4. Keeps
    BY <1>1, <1>2, <1>3 DEF Keeps
  <1>5. Handling'
    BY <1>1, <1>2, <1>4, HandlerKept DEF Handling
  <1>6. \A o \in Orders : ex'[o].p <= used'
    <2>1. p <= used
      BY <1>2 DEF None
    <2> QED
      BY <1>1, <1>3, <2>1 DEF CoreInv, Unused
  <1>7. loop'.pc # "idle" => loop'.p \in 1 .. used'
    BY <1>1 DEF CoreInv, Known
  <1>8. \A q \in Positions : Held(q)' => Held(q)
    BY <1>1 DEF Held, Handled
  <1>9. OthersKept(p)
    BY <1>1, <1>3, <1>8 DEF Sells, OthersKept
  <1>10. Changed(p)
    <2>0. ASSUME p \in Positions
          PROVE  /\ Held(p)' => FullNext(mem'[p], p)
                 /\ db'[p].st \in {"pending", "open", "selling"} => FullNext(db'[p], p)
                 /\ mem'[p].st \in Late \/ db'[p].st \in Late \/ p \in open'
                      \/ closer'[p] # "idle" => BoughtNext(p)
                 /\ \A o \in Orders : ex'[o].p = p /\ ex'[o].side = "sell" => BoughtNext(p)
                 /\ mem'[p].first # None => rec'[mem'[p].first].st # "none"
                 /\ db'[p].first # None => rec'[db'[p].first].st # "none"
                 /\ mem'[p].st # "none" \/ db'[p].st # "none" => p <= used'
      <3>1. Held(p)' => FullNext(mem'[p], p)
        BY <2>0, <1>1, <1>2, <1>4, <1>8, FullKept DEF CoreInv, Known
      <3>2. db'[p].st \in {"pending", "open", "selling"} => FullNext(db'[p], p)
        BY <2>0, <1>1, <1>2, <1>4, FullKept DEF CoreInv, Known
      <3>3. mem'[p].st \in Late \/ db'[p].st \in Late \/ p \in open'
                   \/ closer'[p] # "idle" => BoughtNext(p)
        BY <2>0, <1>1, <1>4, BoughtKept DEF CoreInv, LateWasBought
      <3>4. \A o \in Orders : ex'[o].p = p /\ ex'[o].side = "sell" => BoughtNext(p)
        <4>1. side = "sell" => BoughtNext(p)
          BY <2>0, <1>4, BoughtKept
        <4>2. \A o \in Orders \ {NewOrder} :
                 ex'[o].p = p /\ ex'[o].side = "sell" => BoughtNext(p)
          BY <2>0, <1>3, <1>4, BoughtKept DEF CoreInv, LateWasBought, Sells
        <4> QED
          BY <2>0, <1>3, <4>1, <4>2
      <3>5. /\ mem'[p].first # None => rec'[mem'[p].first].st # "none"
            /\ db'[p].first # None => rec'[db'[p].first].st # "none"
        BY <2>0, <1>1 DEF CoreInv, Recorded, Types, PositionType, IndexGrows, Indexed
      <3>6. mem'[p].st # "none" \/ db'[p].st # "none" => p <= used'
        BY <2>0, <1>1 DEF CoreInv, Unused
      <3> QED
        BY <2>0, <3>1, <3>2, <3>3, <3>4, <3>5, <3>6
    <2> QED
      BY <2>0 DEF Changed
  <1> QED
    BY <1>4, <1>5, <1>6, <1>7, <1>9, <1>10, CoreOne

-----------------------------------------------------------------------------
(* The actions: runBot.                                                    *)

LEMMA UsedPositions == ASSUME CoreInv PROVE 1 .. used \subseteq Positions /\ used \in Nat
  BY PumpAssumption DEF CoreInv, Types, Positions

LEMMA HeldFacts ==
  ASSUME CoreInv, NEW p \in Positions, Held(p)
  PROVE  /\ mem[p] \in PositionType /\ Full(mem[p], p) /\ p \in 1 .. used
         /\ mem[p].entry \in Orders /\ mem[p].first \in Orders
         /\ mem[p].pair \in Pairs \cup {None} /\ mem[p].amt \in Nat \ {0}
         /\ Indexed(mem[p].first)
  <1>1. Full(mem[p], p) /\ mem[p] \in PositionType
    BY DEF CoreInv, Known, Types
  <1>2. mem[p].first # None => Indexed(mem[p].first)
    BY DEF CoreInv, Recorded
  <1>3. None \notin Orders
    BY DEF None, Orders
  <1> HIDE DEF Held
  <1>4. /\ mem[p].entry \in Orders /\ mem[p].first \in Orders
        /\ mem[p].pair \in Pairs \cup {None} /\ mem[p].amt \in Nat \ {0}
    BY <1>1 DEF Full, PositionType
  <1>5. p \in 1 .. used
    BY <1>1, UsedPositions DEF Full, Positions
  <1> QED
    BY <1>1, <1>2, <1>3, <1>4, <1>5

LEMMA LoopFacts ==
  ASSUME CoreInv, loop.pc # "idle"
  PROVE  loop.p \in Positions /\ loop.p \in 1 .. used /\ Held(loop.p)
  BY UsedPositions DEF CoreInv, Known, Held

LEMMA CoreOpen ==
  ASSUME CoreInv, NEW pair \in Pairs, NEW kind \in {"limit", "market"},
         OpenPosition(pair, kind)
  PROVE  CoreInv' /\ Keeps
  <1> DEFINE p == used + 1
             size == SmallerOf(PositionIDR, bal)
             n == NewOrder
             new == [st |-> "pending", pair |-> pair, amt |-> size, kind |-> kind,
                     entry |-> n, first |-> n, exit |-> None]
  <1>1. /\ MayOpen(pair) /\ Accept("buy", kind, p, pair, size)
        /\ used' = p
        /\ mem' = [mem EXCEPT ![p] = new] /\ db' = [db EXCEPT ![p] = new]
        /\ rec' = [rec EXCEPT ![n] = Record(p, n)]
        /\ pend' = pend \cup {p} /\ bal' = bal - size
        /\ UNCHANGED <<open, loop, hs, closer, stopper, starter, up, alive, starts,
                       target, abandoned>>
    BY DEF OpenPosition, Track, routines, history
  <1>2. /\ Types /\ used \in Nat /\ p \in Positions /\ p \in 1 .. used' /\ used \in 0 .. MaxPositions
        /\ used' \in 0 .. MaxPositions
    <2>1. Types /\ used \in 0 .. MaxPositions /\ used < MaxPositions /\ MaxPositions \in Nat
      BY <1>1, CoreTypes, PumpAssumption DEF MayOpen, Types
    <2> QED
      BY <1>1, <2>1 DEF Positions
  <1>3. size \in Nat \ {0} /\ bal - size \in Nat
    BY <1>1, <1>2, PumpAssumption DEF MayOpen, SmallerOf, Types
  <1> HIDE DEF p, size
  <1>4. /\ BooksMove /\ n \in Orders /\ ex[n].st = "none"
        /\ \A o \in Orders \ {n} : ex'[o] = ex[o]
        /\ ex'[n].st \in {"open", "filled"} /\ ex'[n].side = "buy"
        /\ ex'[n].p = p /\ ex'[n].amt = size
    <2>1. p \in Positions \cup {None} /\ pair \in Pairs \cup {None} /\ "buy" \in {"buy", "sell"}
      BY <1>2
    <2> QED
      BY <1>1, <1>3, <2>1, AcceptBooks
  <1> HIDE DEF n
  <1>5. new \in PositionType /\ new.st = "pending" /\ new.amt = size /\ new.entry = n
        /\ new.first = n /\ new.exit = None
    BY <1>3, <1>4 DEF PositionType
  <1> HIDE DEF new
  <1>6. /\ mem'[p] = new /\ db'[p] = new
        /\ \A q \in Positions \ {p} : mem'[q] = mem[q] /\ db'[q] = db[q]
    BY <1>1, <1>2 DEF Types
  <1>7. /\ rec' \in [Orders -> RecordType] /\ rec'[n].st = "open" /\ rec'[n].oid = n
        /\ \A o \in Orders \ {n} : rec'[o] = rec[o]
    <2>1. Record(p, n) \in RecordType /\ Record(p, n).st = "open" /\ Record(p, n).oid = n
      BY <1>2, <1>4 DEF Record, RecordType
    <2> QED
      BY <1>1, <1>2, <1>4, <2>1 DEF Types
  <1>8. Types'
    <2>1. mem' \in [Positions -> PositionType] /\ db' \in [Positions -> PositionType]
      BY <1>1, <1>2, <1>5 DEF Types
    <2>2. /\ pend' \subseteq 1 .. used' /\ open' \subseteq 1 .. used'
          /\ abandoned' \subseteq 1 .. used'
      BY <1>1, <1>2 DEF Types, p
    <2> QED
      BY <1>1, <1>2, <1>3, <1>4, <1>7, <2>1, <2>2 DEF Types, BooksMove
  <1>9. Keeps
    <2>1. IndexGrows
      BY <1>4, <1>7 DEF CoreInv, Recorded, IndexGrows, Indexed
    <2>2. used' >= used
      BY <1>1, <1>2 DEF p
    <2> QED
      BY <1>1, <1>4, <2>1, <2>2 DEF Keeps
  <1>10. Handling'
    BY <1>1, <1>2, <1>9, HandlerKept DEF Handling
  <1>11. \A o \in Orders : ex'[o].p <= used'
    <2>1. \A o \in Orders : ex[o].p <= used /\ (ex[o].p \in Nat)
      BY <1>2, PumpAssumption DEF CoreInv, Unused, Types, OrderType, Positions, None
    <2> QED
      BY <1>1, <1>2, <1>4, <2>1 DEF p
  <1>12. loop'.pc # "idle" => loop'.p \in 1 .. used'
    <2>1. loop.pc # "idle" => loop.p \in 1 .. used
      BY DEF CoreInv, Known
    <2> QED
      BY <1>1, <1>2, <2>1 DEF p
  <1>13. OthersKept(p)
    <2>1. \A q \in Positions \ {p} : Held(q)' => Held(q)
      BY <1>1 DEF Held, Handled
    <2>2. \A q \in Positions \ {p}, o \in Orders :
             ex'[o].p = q /\ ex'[o].side = "sell" => Sells(o, q)
      BY <1>4 DEF Sells
    <2> QED
      BY <1>1, <1>6, <2>1, <2>2 DEF OthersKept
  <1>14. ~WasBought(p) /\ \A o \in Orders : ~Sells(o, p)
    <2>1. \A o \in Orders : ex[o].p <= used /\ ex[o].p \in Nat
      BY <1>2, PumpAssumption DEF CoreInv, Unused, Types, OrderType, Positions, None
    <2> QED
      BY <1>2, <2>1 DEF WasBought, Buys, Sells, p
  <1>15. Changed(p)
    <2>1. FullNext(new, p)
      BY <1>2, <1>3, <1>4, <1>5 DEF FullNext
    <2>2. ~(mem'[p].st \in Late) /\ ~(db'[p].st \in Late)
      BY <1>5, <1>6 DEF Late
    <2>3. p \notin open' /\ closer'[p] = "idle"
      BY <1>1, <1>2, <1>14 DEF CoreInv, LateWasBought
    <2>4. \A o \in Orders : ~(ex'[o].p = p /\ ex'[o].side = "sell")
      BY <1>4, <1>14 DEF Sells
    <2> QED
      BY <1>2, <1>5, <1>6, <1>7, <2>1, <2>2, <2>3, <2>4 DEF Changed
  <1> QED
    BY <1>8, <1>9, <1>10, <1>11, <1>12, <1>13, <1>15, CoreOne

LEMMA CoreOpenUnnoticed ==
  ASSUME CoreInv, NEW pair \in Pairs, NEW kind \in {"limit", "market"},
         OpenPositionUnnoticed(pair, kind)
  PROVE  CoreInv' /\ Keeps
  <1> DEFINE size == SmallerOf(PositionIDR, bal)
  <1>1. /\ Accept("buy", kind, None, pair, size)
        /\ UNCHANGED <<mem, maps, bal, db, rec, routines, life, history>>
    BY DEF OpenPositionUnnoticed
  <1>2. size \in Nat \ {0}
    BY PumpAssumption DEF OpenPositionUnnoticed, MayOpen, SmallerOf, CoreInv, Types
  <1> HIDE DEF size
  <1>3. /\ "buy" \in {"buy", "sell"} /\ None \in {None} \cup 1 .. used
        /\ pair \in Pairs \cup {None} /\ None \in Positions \cup {None}
    OBVIOUS
  <1>4. UNCHANGED <<mem, pend, open, bal, db, rec, loop, hs, closer, stopper, starter,
                    up, alive, starts, target, used, abandoned>>
    BY <1>1 DEF maps, routines, life, history
  <1>5. BooksMove
    BY <1>1, <1>2, <1>3, AcceptBooks
  <1>6. Types' /\ IndexGrows
    BY <1>4, <1>5, SameIndex, CoreTypes DEF Types, BooksMove
  <1>7. /\ UNCHANGED <<mem, maps, db, closer, starter, stopper, life>> /\ bal' \in Nat
        /\ loop' = loop /\ hs' = hs
    BY <1>4, CoreTypes DEF maps, life, Types
  <1> QED
    BY <1>1, <1>2, <1>3, <1>6, <1>7, Unnoticed

(* Records written by a step.                                              *)
Index(r) ==
    /\ r \in [Orders -> RecordType]
    /\ \A o \in Orders : Indexed(o) => r[o].st # "none"
    /\ \A o \in Orders : ex'[o].st = "none" => r[o].st = "none"
    /\ \A o \in Orders : r[o].st # "none" => r[o].oid \in Orders
    /\ \A o \in Orders : ex[o].st # "none" /\ r[o].st # "none" => Indexed(o)

LEMMA IndexNext ==
  ASSUME Index(rec')
  PROVE  IndexGrows /\ rec' \in [Orders -> RecordType]
  BY DEF Index, IndexGrows

LEMMA IndexSame ==
  ASSUME CoreInv, BooksMove
  PROVE  Index(rec)
  BY DEF CoreInv, Types, Recorded, Index, BooksMove, ExMono, Indexed

LEMMA IndexNew ==
  ASSUME CoreInv, BooksMove, NEW n \in Orders, NEW o \in Orders, NEW p \in Positions,
         ex[n].st = "none", ex'[n].st # "none", NEW m \in Orders, m = n \/ Indexed(m)
  PROVE  Index([rec EXCEPT ![m] = Record(p, o)])
  <1>1. Record(p, o) \in RecordType /\ Record(p, o).st = "open" /\ Record(p, o).oid = o
    BY DEF Record, RecordType
  <1>2. /\ rec \in [Orders -> RecordType]
        /\ \A q \in Orders : ex'[q].st = "none" => rec[q].st = "none"
        /\ \A q \in Orders : rec[q].st # "none" => rec[q].oid \in Orders
    BY IndexSame DEF Index, CoreInv, Types
  <1> DEFINE r == [rec EXCEPT ![m] = Record(p, o)]
  <1>3. /\ r \in [Orders -> RecordType] /\ r[m].st = "open" /\ r[m].oid = o
        /\ \A q \in Orders \ {m} : r[q] = rec[q]
    BY <1>1, <1>2
  <1> HIDE DEF r
  <1>4. ex'[m].st # "none"
    <2>1. rec[m].st # "none" => ex'[m].st # "none"
      BY <1>2
    <2> QED
      BY <2>1 DEF Indexed
  <1>5. Index(r)
    <2>1. \A q \in Orders : ex'[q].st = "none" => r[q].st = "none"
      BY <1>2, <1>3, <1>4
    <2>2. \A q \in Orders : r[q].st # "none" => r[q].oid \in Orders
      BY <1>2, <1>3
    <2>3. \A q \in Orders : Indexed(q) => r[q].st # "none"
      BY <1>3 DEF Indexed
    <2>4. \A q \in Orders : ex[q].st # "none" /\ r[q].st # "none" => Indexed(q)
      BY <1>3 DEF Indexed
    <2> QED
      BY <1>3, <2>1, <2>2, <2>3, <2>4 DEF Index
  <1> QED
    BY <1>5 DEF r

LEMMA IndexMarked ==
  ASSUME NEW r, Index(r), NEW o \in Orders \cup {None}, NEW st \in {"filled", "cancelled"},
         o # None => r[o].st # "none"
  PROVE  Index(Marked(r, o, st))
  <1>1. r \in [Orders -> RecordType]
    BY DEF Index
  <1>2. CASE o = None
    BY <1>2 DEF Marked
  <1>3. CASE o # None
    <2> DEFINE m == [r EXCEPT ![o].st = st]
    <2>1. Marked(r, o, st) = m
      BY <1>3 DEF Marked
    <2>2. \A q \in Orders : m[q].st = (IF q = o THEN st ELSE r[q].st) /\ m[q].oid = r[q].oid
      BY <1>1, <1>3 DEF RecordType
    <2>3. m \in [Orders -> RecordType]
      <3>1. [r[o] EXCEPT !.st = st] \in RecordType
        BY <1>1, <1>3 DEF RecordType
      <3> QED
        BY <1>1, <3>1
    <2> HIDE DEF m
    <2>4. Index(m)
      BY <1>3, <2>2, <2>3 DEF Index
    <2> QED
      BY <2>1, <2>4
  <1> QED
    BY <1>2, <1>3

LEMMA AcceptNew ==
  ASSUME CoreInv, NEW side, NEW kind, NEW p, NEW pair, NEW amt, Accept(side, kind, p, pair, amt)
  PROVE  NewOrder \in Orders /\ ex[NewOrder].st = "none" /\ ex'[NewOrder].st # "none"
  <1>1. NewOrder \in Orders
    BY DEF Accept
  <1>2. ex'[NewOrder].st \in {"open", "filled"}
    BY <1>1 DEF Accept, CoreInv, Types
  <1> QED
    BY <1>1, <1>2, Fresh DEF CoreInv

(* A sell order of a position that is placed and booked.                   *)
LEMMA SaleKept ==
  ASSUME CoreInv, NEW p \in Positions, Held(p), WasBought(p),
         NEW kind \in {"limit", "market"}, Sellable(p),
         Accept("sell", kind, p, mem[p].pair, mem[p].amt),
         Track(p, [mem[p] EXCEPT !.st = "selling", !.exit = NewOrder]),
         BooksMove => Index(rec'),
         UNCHANGED <<pend, bal, loop, closer, stopper, life, abandoned>>,
         open' \subseteq open \cup {p},
         starter' \in [pc : {"idle", "restore"}, todo : SUBSET Positions],
         starter'.todo \subseteq starter.todo,
         hs' \in [Handlers -> HandlerType],
         \A h \in Handlers : hs'[h] = hs[h] \/ hs'[h].pc = "idle"
  PROVE  CoreInv' /\ Keeps
  <1> DEFINE n == NewOrder
             new == [mem[p] EXCEPT !.st = "selling", !.exit = n]
  <1>1. UNCHANGED <<pend, bal, loop, closer, stopper, used, target, abandoned>>
    BY DEF life
  <1>2. /\ mem[p] \in PositionType /\ Full(mem[p], p) /\ p \in 1 .. used
        /\ mem[p].entry \in Orders /\ mem[p].first \in Orders
        /\ mem[p].pair \in Pairs \cup {None} /\ mem[p].amt \in Nat \ {0}
        /\ Indexed(mem[p].first)
    BY HeldFacts
  <1>3. /\ BooksMove /\ n \in Orders /\ ex[n].st = "none"
        /\ \A o \in Orders \ {n} : ex'[o] = ex[o]
        /\ ex'[n].side = "sell" /\ ex'[n].p = p
    <2>1. p \in Positions \cup {None} /\ "sell" \in {"buy", "sell"}
      OBVIOUS
    <2>2. coins[mem[p].pair] >= mem[p].amt
      BY DEF Sellable
    <2> QED
      BY <1>2, <2>1, <2>2, AcceptBooks
  <1>4. mem' = [mem EXCEPT ![p] = new] /\ db' = [db EXCEPT ![p] = new]
    BY DEF Track
  <1> HIDE DEF n
  <1>5. /\ new \in PositionType /\ new.st = "selling" /\ new.amt = mem[p].amt
        /\ new.entry = mem[p].entry /\ new.first = mem[p].first /\ new.exit = n
    BY <1>2, <1>3 DEF PositionType
  <1> HIDE DEF new
  <1>6. /\ mem'[p] = new /\ db'[p] = new
        /\ \A q \in Positions \ {p} : mem'[q] = mem[q] /\ db'[q] = db[q]
    BY <1>4 DEF CoreInv, Types
  <1>7. IndexGrows /\ rec' \in [Orders -> RecordType]
    BY <1>3, IndexNext
  <1>8. Types'
    <2>1. mem' \in [Positions -> PositionType] /\ db' \in [Positions -> PositionType]
      BY <1>4, <1>5 DEF CoreInv, Types
    <2>2. pend' \subseteq 1 .. used' /\ open' \subseteq 1 .. used' /\ abandoned' \subseteq 1 .. used'
      BY <1>1, <1>2 DEF CoreInv, Types
    <2> QED
      BY <1>1, <1>3, <1>7, <2>1, <2>2 DEF CoreInv, Types, BooksMove
  <1>9. Keeps
    BY <1>1, <1>3, <1>7, UsedPositions DEF Keeps
  <1>10. Handling'
    BY <1>1, <1>9, UsedPositions, HandlerKept DEF Handling
  <1>11. \A o \in Orders : ex'[o].p <= used'
    BY <1>1, <1>2, <1>3, UsedPositions DEF CoreInv, Unused
  <1>12. loop'.pc # "idle" => loop'.p \in 1 .. used'
    BY <1>1 DEF CoreInv, Known
  <1>13. OthersKept(p)
    <2>1. \A q \in Positions \ {p} : Held(q)' => Held(q)
      BY <1>1 DEF Held, Handled
    <2>2. \A q \in Positions \ {p}, o \in Orders :
             ex'[o].p = q /\ ex'[o].side = "sell" => Sells(o, q)
      BY <1>3 DEF Sells
    <2> QED
      BY <1>1, <1>6, <2>1, <2>2 DEF OthersKept
  <1>14. Changed(p)
    <2>1. FullNext(new, p)
      <3>1. FullNext(mem[p], p)
        BY <1>1, <1>2, <1>9, UsedPositions, FullKept
      <3>2. n # None
        BY <1>3 DEF Orders, None
      <3> QED
        BY <1>3, <1>5, <3>1, <3>2 DEF FullNext
    <2>2. BoughtNext(p)
      BY <1>9, BoughtKept
    <2>3. rec'[new.first].st # "none" /\ p <= used'
      BY <1>1, <1>2, <1>5, <1>7, UsedPositions DEF IndexGrows
    <2> QED
      BY <1>6, <2>1, <2>2, <2>3 DEF Changed
  <1> QED
    BY <1>8, <1>9, <1>10, <1>11, <1>12, <1>13, <1>14, CoreOne

LEMMA OpenIsBought ==
  ASSUME CoreInv, NEW p \in open
  PROVE  p \in Positions /\ Held(p) /\ WasBought(p)
  BY UsedPositions DEF CoreInv, Types, Held, LateWasBought

LEMMA CoreClose ==
  ASSUME CoreInv, NEW p \in Positions, ClosePosition(p)
  PROVE  CoreInv' /\ Keeps
  <1>1. p \in open
    BY DEF ClosePosition, MayClose
  <1>2. Held(p) /\ WasBought(p)
    BY <1>1, OpenIsBought
  <1>3. /\ Sellable(p) /\ Accept("sell", "market", p, mem[p].pair, mem[p].amt)
        /\ Track(p, [mem[p] EXCEPT !.st = "selling", !.exit = NewOrder])
        /\ rec' = [rec EXCEPT ![NewOrder] = Record(p, NewOrder)]
        /\ UNCHANGED <<pend, bal, loop, closer, stopper, life, abandoned>>
        /\ open' = open /\ starter' = starter /\ hs' = hs
    BY DEF ClosePosition, SellAccepted, maps, routines, history
  <1>4. NewOrder \in Orders /\ ex[NewOrder].st = "none" /\ ex'[NewOrder].st # "none"
    BY <1>3, AcceptNew
  <1>5. BooksMove => Index(rec')
    BY <1>3, <1>4, IndexNew
  <1>6. /\ starter' \in [pc : {"idle", "restore"}, todo : SUBSET Positions]
        /\ starter'.todo \subseteq starter.todo /\ hs' \in [Handlers -> HandlerType]
        /\ open' \subseteq open \cup {p}
        /\ \A h \in Handlers : hs'[h] = hs[h] \/ hs'[h].pc = "idle"
    BY <1>3 DEF CoreInv, Types
  <1>7. "market" \in {"limit", "market"}
    OBVIOUS
  <1> HIDE DEF Held
  <1> QED
    BY <1>2, <1>3, <1>5, <1>6, <1>7, SaleKept

LEMMA CoreCloseUnnoticed ==
  ASSUME CoreInv, NEW p \in Positions, ClosePositionUnnoticed(p)
  PROVE  CoreInv' /\ Keeps
  <1>1. p \in open
    BY DEF ClosePositionUnnoticed, MayClose
  <1>2. Held(p) /\ WasBought(p)
    BY <1>1, OpenIsBought
  <1>3. /\ Sellable(p) /\ Accept("sell", "market", p, mem[p].pair, mem[p].amt)
        /\ UNCHANGED <<mem, maps, bal, db, rec, routines, life, history>>
    BY DEF ClosePositionUnnoticed
  <1>4. /\ p \in 1 .. used /\ mem[p].pair \in Pairs \cup {None} /\ mem[p].amt \in Nat \ {0}
    BY <1>2, HeldFacts
  <1>5. coins[mem[p].pair] >= mem[p].amt
    BY <1>3 DEF Sellable
  <1>6. /\ "sell" \in {"buy", "sell"} /\ "market" \in {"limit", "market"}
        /\ p \in {None} \cup 1 .. used /\ p \in Positions \cup {None}
    BY <1>4
  <1>7. BooksMove
    BY <1>3, <1>4, <1>5, <1>6, AcceptBooks
  <1>8. UNCHANGED <<mem, pend, open, bal, db, rec, loop, hs, closer, stopper, starter,
                    target, used, abandoned>>
    BY <1>3 DEF maps, routines, life, history
  <1>9. Types' /\ IndexGrows
    BY <1>7, <1>8, SameIndex, CoreTypes DEF Types, BooksMove
  <1>10. /\ UNCHANGED <<mem, maps, db, closer, starter, stopper, life>> /\ bal' \in Nat
         /\ loop' = loop /\ hs' = hs
    BY <1>3, <1>8, CoreTypes DEF Types
  <1> QED
    BY <1>2, <1>3, <1>4, <1>5, <1>6, <1>9, <1>10, Unnoticed

LEMMA CoreCheck ==
  ASSUME CoreInv, NEW p \in Positions, NEW next \in {"cancel", "move"},
         NEW kind \in {"limit", "market"}, Check(p, next, kind)
  PROVE  CoreInv' /\ Keeps
  <1>1. /\ p \in pend /\ loop' = [pc |-> next, p |-> p, kind |-> kind]
        /\ UNCHANGED <<ex, coins, wire, mem, pend, open, bal, db, rec, hs, closer,
                       stopper, starter, up, alive, starts, target, used, abandoned>>
    BY DEF Check, books, maps, life, history
  <1>2. Types'
    <2>1. loop' \in LoopType
      BY <1>1 DEF LoopType
    <2> QED
      BY <1>1, <2>1, CoreTypes DEF Types
  <1>3. BooksMove /\ OldOrders
    BY <1>1, BooksSame DEF books
  <1>4. Keeps
    BY <1>1, <1>3, SameIndex, CoreTypes DEF Keeps
  <1>5. \A q \in Positions : Held(q)' => Held(q)
    BY <1>1 DEF Held, Handled
  <1>6. loop'.pc # "idle" => loop'.p \in 1 .. used
    BY <1>1 DEF CoreInv, Types
  <1> QED
    BY <1>1, <1>2, <1>3, <1>4, <1>5, <1>6, CoreFrame

LEMMA GoToLoop ==
  ASSUME CoreInv, loop.pc # "idle",
         NEW pc \in {"idle", "cancel", "book", "delete", "move", "trade"}, GoTo(pc)
  PROVE  /\ loop' \in LoopType /\ loop'.pc = pc
         /\ pc # "idle" => loop'.p = loop.p /\ loop'.p \in 1 .. used
  <1>1. loop \in LoopType /\ loop.p \in 1 .. used
    BY DEF CoreInv, Types, Known
  <1>2. CASE pc = "idle"
    BY <1>2 DEF GoTo, IdleLoop, LoopType
  <1>3. CASE pc # "idle"
    <2>1. loop' = [loop EXCEPT !.pc = pc]
      BY <1>3 DEF GoTo
    <2> QED
      BY <1>1, <1>3, <2>1 DEF LoopType
  <1> QED
    BY <1>2, <1>3

(* A step of runBot that neither places an order nor changes a record.     *)
LEMMA LoopFrame ==
  ASSUME CoreInv, loop.pc # "idle", BooksMove, OldOrders, Index(rec'),
         NEW pc \in {"idle", "cancel", "book", "delete", "move", "trade"}, GoTo(pc),
         pend' \subseteq pend, open' \subseteq open, bal' \in Nat,
         abandoned' \subseteq abandoned \cup {loop.p},
         UNCHANGED <<mem, db, hs, closer, stopper, starter, life>>
  PROVE  CoreInv' /\ Keeps
  <1>1. UNCHANGED <<mem, db, hs, closer, stopper, starter, target, used>>
    BY DEF life
  <1>2. /\ loop' \in LoopType /\ loop'.pc = pc
        /\ pc # "idle" => loop'.p = loop.p /\ loop'.p \in 1 .. used
    BY GoToLoop
  <1>3. loop.p \in 1 .. used
    BY DEF CoreInv, Known
  <1>4. IndexGrows /\ rec' \in [Orders -> RecordType]
    BY IndexNext
  <1>5. Types'
    <2>1. pend' \subseteq 1 .. used' /\ open' \subseteq 1 .. used' /\ abandoned' \subseteq 1 .. used'
      BY <1>1, <1>3 DEF CoreInv, Types
    <2> QED
      BY <1>1, <1>2, <1>4, <2>1, CoreTypes DEF Types, BooksMove
  <1>6. Keeps
    BY <1>1, <1>4, CoreTypes DEF Keeps
  <1>7. \A q \in Positions : Held(q)' => Held(q)
    BY <1>1, <1>2 DEF Held, Handled
  <1>8. loop'.pc # "idle" => loop'.p \in 1 .. used
    BY <1>2
  <1> QED
    BY <1>1, <1>5, <1>6, <1>7, <1>8, CoreFrame

LEMMA AbandonOne ==
  ASSUME NEW p, NEW o, Abandon(p, o)
  PROVE  abandoned' \subseteq abandoned \cup {p}
  BY DEF Abandon

LEMMA CoreCancelEntry ==
  ASSUME CoreInv, CancelEntry
  PROVE  CoreInv' /\ Keeps
  <1> DEFINE p == loop.p
  <1>1. /\ loop.pc = "cancel" /\ GoTo("book") /\ Abandon(p, mem[p].entry)
        /\ \E ok \in BOOLEAN : IF mem[p].kind = "limit" THEN CancelAnswer(mem[p].entry, ok)
                                                      ELSE ~ok /\ UNCHANGED books
        /\ rec' = Marked(rec, mem[p].first, "cancelled")
        /\ UNCHANGED <<mem, maps, bal, db, hs, closer, stopper, starter, life>>
    BY DEF CancelEntry, LoopAt
  <1>2. p \in Positions /\ Held(p)
    BY <1>1, LoopFacts
  <1>3. mem[p].entry \in Orders /\ mem[p].first \in Orders /\ Indexed(mem[p].first)
    BY <1>2, HeldFacts
  <1>4. BooksMove /\ OldOrders
    BY <1>1, <1>3, AnswerBooks, BooksSame
  <1>5. Index(rec')
    <2>1. Index(rec)
      BY <1>4, IndexSame
    <2> QED
      BY <1>1, <1>3, <2>1, IndexMarked DEF Indexed
  <1>6. abandoned' \subseteq abandoned \cup {loop.p}
    BY <1>1, AbandonOne
  <1>7. pend' \subseteq pend /\ open' \subseteq open /\ bal' \in Nat
    BY <1>1 DEF maps, CoreInv, Types
  <1> QED
    BY <1>1, <1>4, <1>5, <1>6, <1>7, LoopFrame

LEMMA CoreCancelBook ==
  ASSUME CoreInv, CancelBook
  PROVE  CoreInv' /\ Keeps
  <1>1. /\ loop.pc = "book" /\ GoTo("delete") /\ bal' = bal + mem[loop.p].amt
        /\ pend' \subseteq pend /\ open' \subseteq open /\ rec' = rec
        /\ UNCHANGED books /\ abandoned' = abandoned
        /\ UNCHANGED <<mem, db, hs, closer, stopper, starter, life>>
    BY DEF CancelBook, LoopAt
  <1>2. loop.p \in Positions /\ Held(loop.p)
    BY <1>1, LoopFacts
  <1>3. mem[loop.p].amt \in Nat
    BY <1>2, HeldFacts
  <1>4. BooksMove /\ OldOrders
    BY <1>1, BooksSame
  <1>5. Index(rec')
    BY <1>1, <1>4, IndexSame
  <1>6. bal' \in Nat /\ abandoned' \subseteq abandoned \cup {loop.p}
    BY <1>1, <1>3 DEF CoreInv, Types
  <1> QED
    BY <1>1, <1>4, <1>5, <1>6, LoopFrame

LEMMA CoreMoveCancel ==
  ASSUME CoreInv, MoveCancel
  PROVE  CoreInv' /\ Keeps
  <1> DEFINE p == loop.p
  <1>1. /\ loop.pc = "move" /\ GoTo("trade") /\ Abandon(p, mem[p].entry)
        /\ \/ UNCHANGED <<books, rec>>
           \/ \E ok \in BOOLEAN :
                /\ CancelAnswer(mem[p].entry, ok)
                /\ rec' = IF ok THEN Marked(rec, mem[p].first, "cancelled") ELSE rec
        /\ UNCHANGED <<mem, maps, bal, db, hs, closer, stopper, starter, life>>
    BY DEF MoveCancel, LoopAt
  <1>2. p \in Positions /\ Held(p)
    BY <1>1, LoopFacts
  <1>3. mem[p].entry \in Orders /\ mem[p].first \in Orders /\ Indexed(mem[p].first)
    BY <1>2, HeldFacts
  <1>4. BooksMove /\ OldOrders
    BY <1>1, <1>3, AnswerBooks, BooksSame
  <1>5. Index(rec')
    <2>1. Index(rec)
      BY <1>4, IndexSame
    <2>2. Index(Marked(rec, mem[p].first, "cancelled"))
      BY <1>3, <2>1, IndexMarked DEF Indexed
    <2> QED
      BY <1>1, <2>1, <2>2
  <1>6. abandoned' \subseteq abandoned \cup {loop.p}
    BY <1>1, AbandonOne
  <1>7. pend' \subseteq pend /\ open' \subseteq open /\ bal' \in Nat
    BY <1>1 DEF maps, CoreInv, Types
  <1> QED
    BY <1>1, <1>4, <1>5, <1>6, <1>7, LoopFrame

LEMMA CoreMoveRefused ==
  ASSUME CoreInv, MoveRefused
  PROVE  CoreInv' /\ Keeps
  <1> DEFINE p == loop.p
  <1>1. /\ loop.pc = "trade" /\ GoTo("cancel")
        /\ \/ UNCHANGED <<books, abandoned>>
           \/ /\ Accept("buy", loop.kind, p, mem[p].pair, mem[p].amt)
              /\ Abandon(p, NewOrder)
        /\ UNCHANGED <<mem, maps, bal, db, rec, hs, closer, stopper, starter, life>>
    BY DEF MoveRefused, LoopAt
  <1>2. p \in Positions /\ Held(p) /\ p \in 1 .. used
    BY <1>1, LoopFacts
  <1>3. mem[p].pair \in Pairs \cup {None} /\ mem[p].amt \in Nat \ {0}
    BY <1>2, HeldFacts
  <1>4. CASE UNCHANGED <<books, abandoned>>
    <2>1. BooksMove /\ OldOrders
      BY <1>4, BooksSame
    <2>2. Index(rec')
      BY <1>1, <2>1, IndexSame
    <2>3. pend' \subseteq pend /\ open' \subseteq open /\ bal' \in Nat
          /\ abandoned' \subseteq abandoned \cup {loop.p}
      BY <1>1, <1>4 DEF maps, CoreInv, Types
    <2> QED
      BY <1>1, <2>1, <2>2, <2>3, LoopFrame
  <1>5. CASE Accept("buy", loop.kind, p, mem[p].pair, mem[p].amt) /\ Abandon(p, NewOrder)
    <2>1. /\ "buy" \in {"buy", "sell"} /\ loop.kind \in {"limit", "market"}
          /\ p \in {None} \cup 1 .. used /\ p \in Positions \cup {None}
      BY <1>2 DEF CoreInv, Types, LoopType
    <2>2. BooksMove
      BY <1>3, <1>5, <2>1, AcceptBooks
    <2>3. loop' \in LoopType /\ loop'.pc # "idle" /\ loop'.p = loop.p
      BY <1>1, GoToLoop
    <2>4. UNCHANGED <<mem, pend, open, bal, db, rec, hs, closer, stopper, starter, used, target>>
      BY <1>1 DEF maps, life
    <2>5. Types' /\ IndexGrows
      <3>1. abandoned' \subseteq 1 .. used'
        <4>1. abandoned' \subseteq abandoned \cup {p}
          BY <1>5, AbandonOne
        <4>2. abandoned \subseteq 1 .. used /\ used' = used
          BY <2>4 DEF CoreInv, Types
        <4> QED
          BY <1>2, <4>1, <4>2
      <3>2. IndexGrows
        BY <2>2, <2>4, SameIndex
      <3>3. Types /\ ex' \in [Orders -> OrderType] /\ coins' \in [Pairs -> Nat]
            /\ wire' \in Seq(Message)
        BY <2>2, CoreTypes DEF BooksMove
      <3> QED
        BY <2>3, <2>4, <3>1, <3>2, <3>3 DEF Types
    <2>6. /\ UNCHANGED <<mem, maps, db, closer, starter, stopper, life>> /\ bal' \in Nat
          /\ loop' = loop \/ (loop'.pc # "idle" /\ loop.pc # "idle" /\ loop'.p = loop.p)
          /\ \A h \in Handlers : hs'[h] = hs[h] \/ hs'[h].pc = "idle"
      BY <1>1, <2>3, <2>4, CoreTypes DEF Types
    <2> HIDE DEF p
    <2> QED
      BY <1>3, <1>5, <2>1, <2>5, <2>6, Unnoticed
  <1> QED
    BY <1>1, <1>4, <1>5

(* A step that writes a record of p to memory, to Redis or to both.        *)
OthersHeld(p) ==
    \A q \in Positions \ {p} :
       /\ Held(q)' => Held(q)
       /\ q \in open' => q \in open
       /\ closer'[q] # "idle" => closer[q] # "idle"
       /\ \A o \in Orders : ex'[o].p = q /\ ex'[o].side = "sell" => Sells(o, q)
BoughtIf(p, new) ==
    \/ WasBought(p)
    \/ /\ new.st \notin Late
       /\ p \in open' => p \in open
       /\ closer'[p] # "idle" => closer[p] # "idle"
       /\ \A o \in Orders : ex'[o].p = p /\ ex'[o].side = "sell" => Sells(o, p)
OrdersUsed == \A o \in Orders : ex'[o].p <= used
RestTypes(p) ==
    /\ pend' \subseteq pend \cup {p} /\ open' \subseteq open \cup {p} /\ abandoned' = abandoned
    /\ loop' \in LoopType /\ (loop'.pc # "idle" => loop'.p \in 1 .. used)
    /\ hs' \in [Handlers -> HandlerType]
    /\ closer' \in [Positions -> {"idle", "check", "save", "book"}]
    /\ starter' \in [pc : {"idle", "restore"}, todo : SUBSET Positions]
    /\ stopper' = stopper /\ bal' \in Nat /\ target' = target /\ used' = used

LEMMA Written ==
  ASSUME CoreInv, NEW p \in Positions, p <= used, NEW new \in PositionType,
         FullNext(new, p), rec'[new.first].st # "none",
         BooksMove, Index(rec'), OrdersUsed, RestTypes(p), Handling',
         OthersHeld(p), BoughtIf(p, new),
         mem' = [mem EXCEPT ![p] = new] \/ (mem' = mem /\ Held(p)),
         db' = [db EXCEPT ![p] = new] \/ db' = db
  PROVE  CoreInv' /\ Keeps
  <1>1. /\ mem'[p] = new \/ (mem'[p] = mem[p] /\ Held(p))
        /\ db'[p] = new \/ db'[p] = db[p]
        /\ \A q \in Positions \ {p} : mem'[q] = mem[q] /\ db'[q] = db[q]
    BY DEF CoreInv, Types
  <1>2. mem' \in [Positions -> PositionType] /\ db' \in [Positions -> PositionType]
    BY DEF CoreInv, Types
  <1>3. IndexGrows /\ rec' \in [Orders -> RecordType] /\ used' = used /\ p \in 1 .. used
    BY IndexNext, UsedPositions DEF RestTypes, Positions
  <1>4. Types'
    <2>1. pend' \subseteq 1 .. used' /\ open' \subseteq 1 .. used' /\ abandoned' \subseteq 1 .. used'
      BY <1>3 DEF CoreInv, Types, RestTypes
    <2> QED
      BY <1>2, <1>3, <2>1 DEF CoreInv, Types, RestTypes, BooksMove
  <1>5. Keeps
    BY <1>3, UsedPositions DEF Keeps, RestTypes
  <1>6. OthersKept(p)
    BY <1>1 DEF OthersKept, OthersHeld
  <1>7. Changed(p)
    <2>1. Held(p)' => FullNext(mem'[p], p)
      BY <1>1, <1>3, <1>5, UsedPositions, FullKept DEF CoreInv, Known
    <2>2. db'[p].st \in {"pending", "open", "selling"} => FullNext(db'[p], p)
      BY <1>1, <1>3, <1>5, UsedPositions, FullKept DEF CoreInv, Known
    <2>3. mem'[p].st \in Late \/ db'[p].st \in Late \/ p \in open'
                 \/ closer'[p] # "idle" => BoughtNext(p)
      <3>1. CASE WasBought(p)
        BY <1>5, <3>1, BoughtKept
      <3>2. CASE /\ new.st \notin Late
                 /\ p \in open' => p \in open
                 /\ closer'[p] # "idle" => closer[p] # "idle"
        BY <1>1, <1>5, <3>2, BoughtKept DEF CoreInv, LateWasBought
      <3> QED
        BY <3>1, <3>2 DEF BoughtIf
    <2>4. \A o \in Orders : ex'[o].p = p /\ ex'[o].side = "sell" => BoughtNext(p)
      <3>1. CASE WasBought(p)
        BY <1>5, <3>1, BoughtKept
      <3>2. CASE \A o \in Orders : ex'[o].p = p /\ ex'[o].side = "sell" => Sells(o, p)
        BY <1>5, <3>2, BoughtKept DEF CoreInv, LateWasBought
      <3> QED
        BY <3>1, <3>2 DEF BoughtIf
    <2>5. /\ mem'[p].first # None => rec'[mem'[p].first].st # "none"
          /\ db'[p].first # None => rec'[db'[p].first].st # "none"
      <3>1. /\ mem[p].first # None => rec'[mem[p].first].st # "none"
            /\ db[p].first # None => rec'[db[p].first].st # "none"
        BY <1>3 DEF CoreInv, Recorded, Types, PositionType, IndexGrows, Indexed
      <3> QED
        BY <1>1, <3>1
    <2>6. p <= used'
      BY <1>3
    <2> HIDE DEF Held
    <2> QED
      BY <2>1, <2>2, <2>3, <2>4, <2>5, <2>6 DEF Changed
  <1>8. \A o \in Orders : ex'[o].p <= used'
    BY <1>3 DEF OrdersUsed
  <1>9. loop'.pc # "idle" => loop'.p \in 1 .. used'
    BY <1>3 DEF RestTypes
  <1> QED
    BY <1>4, <1>5, <1>6, <1>7, <1>8, <1>9, CoreOne

LEMMA OrdersUsedSame ==
  ASSUME CoreInv, BooksMove, OldOrders
  PROVE  OrdersUsed /\ \A q \in Positions, o \in Orders :
                          ex'[o].p = q /\ ex'[o].side = "sell" => Sells(o, q)
  <1>1. \A o \in Orders : ex'[o].p = ex[o].p /\ ex'[o].side = ex[o].side
    BY DEF OldOrders, BooksMove, ExMono
  <1> QED
    BY <1>1 DEF OrdersUsed, CoreInv, Unused, Sells

LEMMA KeepsSame ==
  ASSUME CoreInv, BooksMove, Index(rec'), used' = used, stopper' = stopper
  PROVE  Keeps /\ used' \in Nat
  BY IndexNext, UsedPositions DEF Keeps

LEMMA CoreMoveTrade ==
  ASSUME CoreInv, MoveTrade
  PROVE  CoreInv' /\ Keeps
  <1> DEFINE p == loop.p
             n == NewOrder
             new == [mem[p] EXCEPT !.entry = n, !.kind = loop.kind]
  <1>1. /\ loop.pc = "trade" /\ GoTo("idle")
        /\ Accept("buy", loop.kind, p, mem[p].pair, mem[p].amt)
        /\ mem' = [mem EXCEPT ![p] = new] /\ db' = [db EXCEPT ![p] = new]
        /\ rec' = [rec EXCEPT ![mem[p].first] = Record(p, n)]
        /\ UNCHANGED <<maps, bal, hs, closer, stopper, starter, life, history>>
    BY DEF MoveTrade, LoopAt, Track
  <1>2. p \in Positions /\ Held(p) /\ p \in 1 .. used
    BY <1>1, LoopFacts
  <1>3. /\ mem[p] \in PositionType /\ Full(mem[p], p)
        /\ mem[p].entry \in Orders /\ mem[p].first \in Orders
        /\ mem[p].pair \in Pairs \cup {None} /\ mem[p].amt \in Nat \ {0}
        /\ Indexed(mem[p].first)
    BY <1>2, HeldFacts
  <1>4. /\ BooksMove /\ n \in Orders /\ ex[n].st = "none"
        /\ \A o \in Orders \ {n} : ex'[o] = ex[o]
        /\ ex'[n].st \in {"open", "filled"} /\ ex'[n].side = "buy" /\ ex'[n].p = p
    <2>1. /\ "buy" \in {"buy", "sell"} /\ loop.kind \in {"limit", "market"}
          /\ p \in Positions \cup {None}
      BY <1>2 DEF CoreInv, Types, LoopType
    <2>2. Accept("buy", loop.kind, p, mem[p].pair, mem[p].amt)
      BY <1>1
    <2>3. mem[p].pair \in Pairs \cup {None} /\ mem[p].amt \in Nat \ {0}
      BY <1>3
    <2>4. "buy" # "sell"
      OBVIOUS
    <2> HIDE DEF n, p, new
    <2> QED
      BY <2>1, <2>2, <2>3, <2>4, AcceptBooks DEF n
  <1> HIDE DEF n
  <1>5. /\ new \in PositionType /\ new.st = mem[p].st /\ new.amt = mem[p].amt
        /\ new.entry = n /\ new.first = mem[p].first /\ new.exit = mem[p].exit
    <2>1. loop.kind \in {"limit", "market"}
      BY DEF CoreInv, Types, LoopType
    <2> QED
      BY <1>3, <1>4, <2>1 DEF PositionType
  <1> HIDE DEF new
  <1>6. Index(rec') /\ rec'[mem[p].first].st # "none"
    <2>1. Index(rec')
      BY <1>1, <1>2, <1>3, <1>4, IndexNew
    <2> QED
      BY <1>3, <2>1 DEF Index
  <1>7. UNCHANGED <<pend, open, bal, hs, closer, stopper, starter, used, target, abandoned>>
    BY <1>1 DEF maps, life, history
  <1>8. Keeps /\ used' \in Nat
    BY <1>4, <1>6, <1>7, KeepsSame
  <1>9. Handling'
    BY <1>7, <1>8, HandlerKept DEF Handling
  <1>10. loop' \in LoopType /\ loop'.pc = "idle"
    BY <1>1, GoToLoop
  <1>11. FullNext(new, p)
    <2>1. FullNext(mem[p], p)
      BY <1>2, <1>3, <1>8, FullKept
    <2> QED
      BY <1>4, <1>5, <2>1 DEF FullNext
  <1>12. OrdersUsed
    BY <1>2, <1>4, UsedPositions DEF OrdersUsed, CoreInv, Unused
  <1>13. RestTypes(p)
    BY <1>7, <1>10, CoreTypes DEF Types, RestTypes
  <1>14. OthersHeld(p)
    <2>1. \A q \in Positions \ {p} : Held(q)' => Held(q)
      BY <1>7, <1>10 DEF Held, Handled
    <2> QED
      BY <1>4, <1>7, <2>1 DEF OthersHeld, Sells
  <1>15. BoughtIf(p, new)
    <2>1. new.st \in Late => WasBought(p)
      BY <1>2, <1>5 DEF CoreInv, LateWasBought
    <2>2. \A o \in Orders : ex'[o].p = p /\ ex'[o].side = "sell" => Sells(o, p)
      BY <1>4 DEF Sells
    <2> QED
      BY <1>7, <2>1, <2>2 DEF BoughtIf
  <1>16. p <= used /\ rec'[new.first].st # "none"
    BY <1>2, <1>5, <1>6
  <1> HIDE DEF p
  <1> QED
    BY <1>1, <1>2, <1>4, <1>5, <1>6, <1>9, <1>11, <1>12, <1>13, <1>14, <1>15, <1>16, Written

LEMMA NoPositionType == NoPosition \in PositionType /\ NoPosition.st = "none" /\ NoPosition.first = None
                          /\ NoPosition.amt = 0
  BY DEF NoPosition, PositionType

(* A step that takes the record of p out of Redis.                         *)
LEMMA Deleted ==
  ASSUME CoreInv, NEW p \in Positions, BooksMove, OldOrders, Index(rec'),
         Types', used' = used, loop'.pc # "idle" => loop'.p \in 1 .. used,
         mem' = mem, db' = [db EXCEPT ![p] = NoPosition], stopper' = stopper,
         \A q \in Positions : Held(q)' => Held(q),
         open' \subseteq open,
         closer' = closer,
         \A h \in Handlers : hs'[h] = hs[h] \/ hs'[h].pc = "idle"
  PROVE  CoreInv' /\ Keeps
  <1>1. db'[p] = NoPosition /\ \A q \in Positions \ {p} : db'[q] = db[q]
    BY DEF CoreInv, Types
  <1>2. Keeps /\ used' \in Nat
    BY KeepsSame
  <1>3. Handling'
    BY <1>2, HandlerKept DEF Handling
  <1>4. OrdersUsed /\ \A q \in Positions, o \in Orders :
                          ex'[o].p = q /\ ex'[o].side = "sell" => Sells(o, q)
    BY OrdersUsedSame
  <1>5. OthersKept(p)
    BY <1>1, <1>4 DEF OthersKept
  <1>6. Changed(p)
    <2>1. Held(p)' => FullNext(mem'[p], p)
      BY <1>2, FullKept DEF CoreInv, Known
    <2>2. mem'[p].st \in Late \/ p \in open' \/ closer'[p] # "idle" => BoughtNext(p)
      BY <1>2, BoughtKept DEF CoreInv, LateWasBought
    <2>3. \A o \in Orders : ex'[o].p = p /\ ex'[o].side = "sell" => BoughtNext(p)
      BY <1>2, <1>4, BoughtKept DEF CoreInv, LateWasBought
    <2>4. mem'[p].first # None => rec'[mem'[p].first].st # "none"
      <3>1. mem[p].first # None => Indexed(mem[p].first)
        BY DEF CoreInv, Recorded
      <3>2. mem[p].first \in Orders \cup {None}
        BY CoreTypes DEF Types, PositionType
      <3> QED
        BY <1>2, <3>1, <3>2 DEF Keeps, IndexGrows
    <2>5. mem'[p].st # "none" => p <= used'
      BY DEF CoreInv, Unused
    <2>6. db'[p].st \notin Late /\ db'[p].st = "none" /\ db'[p].first = None
      BY <1>1, NoPositionType DEF Late
    <2> HIDE DEF Held
    <2> QED
      BY <2>1, <2>2, <2>3, <2>4, <2>5, <2>6 DEF Changed
  <1>7. (\A o \in Orders : ex'[o].p <= used') /\ (loop'.pc # "idle" => loop'.p \in 1 .. used')
    BY <1>4 DEF OrdersUsed
  <1> QED
    BY <1>2, <1>3, <1>5, <1>6, <1>7, CoreOne

LEMMA CoreCancelDelete ==
  ASSUME CoreInv, CancelDelete
  PROVE  CoreInv' /\ Keeps
  <1>1. /\ loop.pc = "delete" /\ GoTo("idle") /\ db' = [db EXCEPT ![loop.p] = NoPosition]
        /\ UNCHANGED <<ex, coins, wire, mem, pend, open, bal, rec, hs, closer, stopper,
                       starter, used, target, abandoned>>
    BY DEF CancelDelete, LoopAt, books, maps, life, history
  <1>2. loop.p \in Positions
    BY <1>1, LoopFacts
  <1>3. loop' \in LoopType /\ loop'.pc = "idle"
    BY <1>1, GoToLoop
  <1>4. BooksMove /\ OldOrders
    BY <1>1, BooksSame DEF books
  <1>5. Index(rec')
    BY <1>1, <1>4, IndexSame
  <1>6. Types'
    <2>1. db' \in [Positions -> PositionType]
      BY <1>1, <1>2, NoPositionType, CoreTypes DEF Types
    <2> QED
      BY <1>1, <1>3, <2>1, CoreTypes DEF Types
  <1>7. \A q \in Positions : Held(q)' => Held(q)
    BY <1>1, <1>3 DEF Held, Handled
  <1> QED
    BY <1>1, <1>2, <1>3, <1>4, <1>5, <1>6, <1>7, Deleted

-----------------------------------------------------------------------------
(* The actions: fills.                                                     *)

(* A step of handler h that changes no position.                           *)
LEMMA HandlerFrame ==
  ASSUME CoreInv, NEW h \in Handlers, BooksMove, OldOrders, Index(rec'),
         hs' \in [Handlers -> HandlerType],
         \A g \in Handlers \ {h} : hs'[g] = hs[g],
         hs'[h] = hs[h] \/ hs'[h].pc = "idle" \/ HandlerOk(h)',
         \A q \in Positions : Handled(h, q)' => Held(q),
         pend' \subseteq pend, open' \subseteq open, bal' \in Nat,
         closer' \in [Positions -> {"idle", "check", "save", "book"}],
         \A q \in Positions : closer'[q] # "idle" => closer[q] # "idle",
         UNCHANGED <<mem, db, loop, stopper, starter, used, target, abandoned>>
  PROVE  CoreInv' /\ Keeps
  <1>1. IndexGrows /\ rec' \in [Orders -> RecordType]
    BY IndexNext
  <1>2. Types'
    BY <1>1, CoreTypes DEF Types, BooksMove
  <1>3. Keeps
    BY <1>1, CoreTypes DEF Keeps
  <1>4. \A q \in Positions : Held(q)' => Held(q)
    <2> SUFFICES ASSUME NEW q \in Positions, Held(q)'
                 PROVE  Held(q)
      OBVIOUS
    <2>1. CASE \E g \in Handlers : Handled(g, q)'
      <3>1. PICK g \in Handlers : Handled(g, q)'
        BY <2>1
      <3>2. CASE g = h
        BY <3>1, <3>2
      <3>3. CASE g # h
        BY <3>1, <3>3 DEF Handled, Held
      <3> QED
        BY <3>2, <3>3
    <2>2. CASE ~\E g \in Handlers : Handled(g, q)'
      BY <2>2 DEF Held
    <2> QED
      BY <2>1, <2>2
  <1>5. loop'.pc # "idle" => loop'.p \in 1 .. used
    BY DEF CoreInv, Known
  <1>6. \A g \in Handlers : hs'[g] = hs[g] \/ hs'[g].pc = "idle" \/ HandlerOk(g)'
    OBVIOUS
  <1> QED
    BY <1>2, <1>3, <1>4, <1>5, <1>6, CoreFrame

LEMMA IdleHandlerType ==
  IdleHandler \in HandlerType /\ IdleHandler.pc = "idle" /\ IdleHandler.p = None
     /\ IdleHandler.o = None
  BY NoPositionType DEF IdleHandler, HandlerType

LEMMA Finished ==
  ASSUME CoreInv, NEW h \in Handlers, Finish(h)
  PROVE  /\ hs' \in [Handlers -> HandlerType] /\ hs'[h] = IdleHandler /\ hs'[h].pc = "idle"
         /\ \A g \in Handlers \ {h} : hs'[g] = hs[g]
         /\ \A q : ~Handled(h, q)'
  <1>1. /\ hs' \in [Handlers -> HandlerType] /\ hs'[h] = IdleHandler
        /\ \A g \in Handlers \ {h} : hs'[g] = hs[g]
    BY IdleHandlerType DEF Finish, CoreInv, Types
  <1> QED
    BY <1>1, IdleHandlerType DEF Handled

LEMMA Moved ==
  ASSUME CoreInv, NEW h \in Handlers, NEW p \in Positions,
         NEW pc \in {"idle", "find", "lookup", "restore", "apply", "sell", "book"},
         Move(h, pc, p)
  PROVE  /\ hs' \in [Handlers -> HandlerType]
         /\ hs'[h].pc = pc /\ hs'[h].p = p /\ hs'[h].o = hs[h].o /\ hs'[h].copy = hs[h].copy
         /\ \A g \in Handlers \ {h} : hs'[g] = hs[g]
  <1> DEFINE r == [hs[h] EXCEPT !.pc = pc, !.p = p]
  <1>1. hs \in [Handlers -> HandlerType] /\ hs[h] \in HandlerType
    BY DEF CoreInv, Types
  <1>2. hs' = [hs EXCEPT ![h] = r]
    BY <1>1 DEF Move, HandlerType
  <1>3. r \in HandlerType /\ r.pc = pc /\ r.p = p /\ r.o = hs[h].o /\ r.copy = hs[h].copy
    BY <1>1 DEF HandlerType
  <1> HIDE DEF r
  <1> QED
    BY <1>1, <1>2, <1>3

(* The order of a busy handler and its record.                             *)
LEMMA HandlerFacts ==
  ASSUME CoreInv, NEW h \in Handlers, hs[h].pc # "idle"
  PROVE  /\ HandlerOk(h) /\ hs[h].o \in Orders /\ ex[hs[h].o].done > 0
         /\ ex[hs[h].o].p \in Positions /\ ex[hs[h].o].p \in 1 .. used
         /\ RecordOf(hs[h].o) \in Orders \cup {None}
         /\ RecordOf(hs[h].o) # None => Indexed(RecordOf(hs[h].o))
         /\ hs[h] \in HandlerType
         /\ WasBought(ex[hs[h].o].p)
  <1>1. /\ HandlerOk(h) /\ hs[h].o \in Orders /\ ex[hs[h].o].done > 0
        /\ ex[hs[h].o].p \in Positions /\ hs[h] \in HandlerType
    BY DEF CoreInv, Handling, HandlerOk, Types
  <1> DEFINE o == hs[h].o
             p == ex[o].p
  <1>2. p \in 1 .. used
    BY <1>1, UsedPositions DEF CoreInv, Unused, Positions
  <1>3. mem[p].first \in Orders \cup {None} /\ (mem[p].first # None => Indexed(mem[p].first))
    BY <1>1 DEF CoreInv, Types, PositionType, Recorded
  <1>4. /\ RecordOf(o) \in Orders \cup {None}
        /\ RecordOf(o) # None => Indexed(RecordOf(o))
    BY <1>1, <1>3 DEF RecordOf
  <1>5. WasBought(p)
    <2>1. ex[o].st # "none" /\ ex[o].side \in {"buy", "sell"}
      BY <1>1, KnownOrder DEF CoreInv, Books, Types, OrderType
    <2>2. CASE ex[o].side = "buy"
      BY <1>1, <2>2 DEF WasBought, Buys
    <2>3. CASE ex[o].side = "sell"
      BY <1>1, <2>3 DEF CoreInv, LateWasBought, Sells
    <2> QED
      BY <2>1, <2>2, <2>3
  <1> QED
    BY <1>1, <1>2, <1>4, <1>5

(* The record under which the order of h is marked.                        *)
LEMMA MarkedOf ==
  ASSUME CoreInv, NEW h \in Handlers, hs[h].pc # "idle", BooksMove, NEW r, Index(r)
  PROVE  Index(Marked(r, RecordOf(hs[h].o), "filled"))
  <1>1. RecordOf(hs[h].o) \in Orders \cup {None}
        /\ (RecordOf(hs[h].o) # None => Indexed(RecordOf(hs[h].o)))
    BY HandlerFacts
  <1>2. RecordOf(hs[h].o) # None => r[RecordOf(hs[h].o)].st # "none"
    BY <1>1 DEF Index
  <1> QED
    BY <1>1, <1>2, IndexMarked

LEMMA HeadOf ==
  ASSUME CoreInv, wire # <<>>
  PROVE  /\ Head(wire) \in Message /\ Head(wire).o \in Orders
         /\ Head(wire).st = "fill" => Head(wire).o \in Fills
  <1>1. /\ wire \in Seq(Message) /\ Head(wire) = wire[1] /\ wire[1] \in Message
        /\ 1 \in 1 .. Len(wire)
    BY DEF CoreInv, Types
  <1>2. Head(wire).st = "fill" => Head(wire).o \in Fills
    BY <1>1 DEF Fills
  <1> QED
    BY <1>1, <1>2 DEF Message

LEMMA TailBooks ==
  ASSUME CoreInv, wire # <<>>, wire' = Tail(wire), UNCHANGED <<ex, coins>>
  PROVE  BooksMove /\ OldOrders
  <1>1. wire' \in Seq(Message) /\ Fills' \subseteq Fills
    BY FillsTail DEF CoreInv, Types
  <1>2. Books' /\ FillsAreTrue' /\ OldOrders
    BY <1>1 DEF CoreInv, Books, FillsAreTrue, OldOrders
  <1>3. Fills \subseteq Orders
    BY FillsOrders DEF CoreInv, Types
  <1>4. ExMono
    BY <1>1, <1>3 DEF ExMono, CoreInv, Types, OrderType
  <1> QED
    BY <1>1, <1>2, <1>4 DEF BooksMove, CoreInv, Types

(* An order that matches a position in a map is one of that position.      *)
LEMMA Matched ==
  ASSUME CoreInv, NEW p \in pend \cup open, NEW o \in Orders, Match(p, o)
  PROVE  p \in Positions /\ Held(p) /\ ex[o].p = p
  <1>1. p \in Positions /\ Held(p)
    BY UsedPositions DEF CoreInv, Types, Held
  <1>2. Full(mem[p], p)
    BY <1>1, HeldFacts
  <1>3. o # None
    BY DEF Orders, None
  <1> QED
    BY <1>1, <1>2, <1>3 DEF Match, Full, Buys, Sells

LEMMA CoreTakeFill ==
  ASSUME CoreInv, TakeFill
  PROVE  CoreInv' /\ Keeps
  <1> DEFINE o == Head(wire).o
             r == [IdleHandler EXCEPT !.pc = "find", !.o = o]
  <1>1. /\ wire # <<>> /\ Head(wire).st = "fill" /\ wire' = Tail(wire)
        /\ \/ hs' = hs
           \/ /\ \E p \in pend \cup open : Match(p, o)
              /\ hs' = [hs EXCEPT ![Ws] = r]
        /\ UNCHANGED <<ex, coins, mem, pend, open, bal, db, rec, loop, closer, stopper,
                       starter, used, target, abandoned>>
    BY DEF TakeFill, NextIs, maps, life, history
  <1>2. o \in Orders /\ o \in Fills /\ ex[o].done > 0
    BY <1>1, HeadOf DEF CoreInv, FillsAreTrue
  <1> HIDE DEF o
  <1>3. r \in HandlerType /\ r.pc = "find" /\ r.o = o
    BY <1>2, IdleHandlerType DEF IdleHandler, HandlerType
  <1> HIDE DEF r
  <1>4. BooksMove /\ OldOrders
    BY <1>1, TailBooks
  <1>5. Index(rec')
    BY <1>1, <1>4, IndexSame
  <1>6. Ws \in Handlers
    BY DEF Ws, Handlers
  <1>7. /\ hs' \in [Handlers -> HandlerType]
        /\ \A g \in Handlers \ {Ws} : hs'[g] = hs[g]
        /\ hs'[Ws] = hs[Ws] \/ (hs'[Ws] = r /\ \E p \in pend \cup open : Match(p, o))
    <2>1. hs \in [Handlers -> HandlerType]
      BY CoreTypes DEF Types
    <2>2. CASE hs' = hs
      BY <2>1, <2>2
    <2>3. CASE (\E p \in pend \cup open : Match(p, o)) /\ hs' = [hs EXCEPT ![Ws] = r]
      BY <1>3, <1>6, <2>1, <2>3
    <2> QED
      BY <1>1, <2>2, <2>3
  <1>8. hs'[Ws] = hs[Ws] \/ hs'[Ws].pc = "idle" \/ HandlerOk(Ws)'
    <2> SUFFICES ASSUME hs'[Ws] = r, NEW p \in pend \cup open, Match(p, o)
                 PROVE  HandlerOk(Ws)'
      BY <1>7
    <2>1. ex[o].p \in Positions
      BY <1>2, Matched
    <2> QED
      BY <1>1, <1>2, <1>3, <2>1 DEF HandlerOk
  <1>9. \A q \in Positions : Handled(Ws, q)' => Held(q)
    BY <1>3, <1>6, <1>7 DEF Handled, Held
  <1>10. /\ pend' \subseteq pend /\ open' \subseteq open /\ bal' \in Nat
         /\ closer' \in [Positions -> {"idle", "check", "save", "book"}]
         /\ \A q \in Positions : closer'[q] # "idle" => closer[q] # "idle"
         /\ UNCHANGED <<mem, db, loop, stopper, starter, used, target, abandoned>>
    BY <1>1, CoreTypes DEF Types
  <1> QED
    BY <1>4, <1>5, <1>6, <1>7, <1>8, <1>9, <1>10, HandlerFrame

LEMMA CoreTakeCancel ==
  ASSUME CoreInv, TakeCancel
  PROVE  CoreInv' /\ Keeps
  <1> DEFINE o == Head(wire).o
  <1>1. /\ wire # <<>> /\ wire' = Tail(wire)
        /\ rec' = IF rec[o].st = "none" THEN rec ELSE Marked(rec, o, "cancelled")
        /\ UNCHANGED <<ex, coins, mem, pend, open, bal, db, loop, hs, closer, stopper,
                       starter, used, target, abandoned>>
    BY DEF TakeCancel, NextIs, maps, routines, life, history
  <1>2. o \in Orders
    BY <1>1, HeadOf
  <1>3. BooksMove /\ OldOrders
    BY <1>1, TailBooks
  <1>4. Index(rec')
    <2>1. Index(rec)
      BY <1>3, IndexSame
    <2>2. rec[o].st # "none" => Index(Marked(rec, o, "cancelled"))
      BY <1>2, <2>1, IndexMarked
    <2> QED
      BY <1>1, <2>1, <2>2
  <1>5. Ws \in Handlers
    BY DEF Ws, Handlers
  <1>6. \A q \in Positions : Handled(Ws, q)' => Held(q)
    BY <1>1, <1>5 DEF Handled, Held
  <1>7. /\ pend' \subseteq pend /\ open' \subseteq open /\ bal' \in Nat
        /\ closer' \in [Positions -> {"idle", "check", "save", "book"}]
        /\ \A q \in Positions : closer'[q] # "idle" => closer[q] # "idle"
        /\ hs' \in [Handlers -> HandlerType]
        /\ \A g \in Handlers \ {Ws} : hs'[g] = hs[g]
        /\ hs'[Ws] = hs[Ws]
        /\ UNCHANGED <<mem, db, loop, stopper, starter, used, target, abandoned>>
    BY <1>1, CoreTypes DEF Types
  <1> QED
    BY <1>3, <1>4, <1>5, <1>6, <1>7, HandlerFrame

LEMMA CoreFind ==
  ASSUME CoreInv, NEW h \in Handlers, Find(h)
  PROVE  CoreInv' /\ Keeps
  <1> DEFINE o == hs[h].o
  <1>1. /\ hs[h].pc = "find"
        /\ \/ Finish(h)
           \/ Move(h, "lookup", ex[o].p)
           \/ \E p \in pend \cup open : Match(p, o) /\ Move(h, "apply", p)
        /\ UNCHANGED <<ex, coins, wire, mem, pend, open, bal, db, rec, loop, closer,
                       stopper, starter, used, target, abandoned>>
    BY DEF Find, HandlerAt, Match, books, maps, life, history
  <1>2. /\ HandlerOk(h) /\ o \in Orders /\ ex[o].done > 0 /\ ex[o].p \in Positions
    BY <1>1, HandlerFacts
  <1>3. BooksMove /\ OldOrders
    BY <1>1, BooksSame DEF books
  <1>4. Index(rec')
    BY <1>1, <1>3, IndexSame
  <1>5. h # Ws => ex[o].p = h
    BY <1>1, <1>2 DEF HandlerOk
  <1> HIDE DEF o
  <1>6. /\ hs' \in [Handlers -> HandlerType] /\ \A g \in Handlers \ {h} : hs'[g] = hs[g]
        /\ hs'[h] = hs[h] \/ hs'[h].pc = "idle" \/ HandlerOk(h)'
        /\ \A q \in Positions : Handled(h, q)' => Held(q)
    <2>1. CASE Finish(h)
      BY <2>1, Finished
    <2>2. CASE Move(h, "lookup", ex[o].p)
      <3>1. /\ hs' \in [Handlers -> HandlerType]
            /\ hs'[h].pc = "lookup" /\ hs'[h].p = ex[o].p /\ hs'[h].o = o
            /\ \A g \in Handlers \ {h} : hs'[g] = hs[g]
        BY <1>2, <2>2, Moved DEF o
      <3>2. HandlerOk(h)'
        BY <1>1, <1>2, <1>5, <3>1 DEF HandlerOk
      <3>3. \A q \in Positions : ~Handled(h, q)'
        BY <3>1 DEF Handled
      <3> QED
        BY <3>1, <3>2, <3>3
    <2>3. CASE \E p \in pend \cup open : Match(p, o) /\ Move(h, "apply", p)
      <3>1. PICK p \in pend \cup open : Match(p, o) /\ Move(h, "apply", p)
        BY <2>3
      <3>2. p \in Positions /\ Held(p) /\ ex[o].p = p
        BY <1>2, <3>1, Matched
      <3>3. /\ hs' \in [Handlers -> HandlerType]
            /\ hs'[h].pc = "apply" /\ hs'[h].p = p /\ hs'[h].o = o
            /\ \A g \in Handlers \ {h} : hs'[g] = hs[g]
        BY <3>1, <3>2, Moved DEF o
      <3>4. HandlerOk(h)'
        BY <1>1, <1>2, <1>5, <3>2, <3>3 DEF HandlerOk
      <3>5. \A q \in Positions : Handled(h, q)' => Held(q)
        BY <3>2, <3>3 DEF Handled
      <3> QED
        BY <3>3, <3>4, <3>5
    <2> QED
      BY <1>1, <2>1, <2>2, <2>3
  <1>7. /\ pend' \subseteq pend /\ open' \subseteq open /\ bal' \in Nat
        /\ closer' \in [Positions -> {"idle", "check", "save", "book"}]
        /\ \A q \in Positions : closer'[q] # "idle" => closer[q] # "idle"
        /\ UNCHANGED <<mem, db, loop, stopper, starter, used, target, abandoned>>
    BY <1>1, CoreTypes DEF Types
  <1> QED
    BY <1>3, <1>4, <1>6, <1>7, HandlerFrame

LEMMA CoreLookup ==
  ASSUME CoreInv, NEW h \in Handlers, Lookup(h)
  PROVE  CoreInv' /\ Keeps
  <1> DEFINE p == hs[h].p
             o == hs[h].o
             r == [hs[h] EXCEPT !.pc = "restore", !.copy = db[p]]
  <1>1. /\ hs[h].pc = "lookup"
        /\ \/ /\ db[p].st \in {"pending", "open", "selling"}
              /\ hs' = [hs EXCEPT ![h].pc = "restore", ![h].copy = db[p]]
              /\ rec' = rec
           \/ Finish(h) /\ rec' = Marked(rec, RecordOf(o), "filled")
        /\ UNCHANGED <<ex, coins, wire, mem, pend, open, bal, db, loop, closer, stopper,
                       starter, used, target, abandoned>>
    BY DEF Lookup, HandlerAt, books, maps, life, history
  <1>2. /\ HandlerOk(h) /\ o \in Orders /\ ex[o].done > 0 /\ ex[o].p \in Positions
        /\ hs[h] \in HandlerType /\ WasBought(ex[o].p)
    BY <1>1, HandlerFacts
  <1>3. BooksMove /\ OldOrders
    BY <1>1, BooksSame DEF books
  <1>4. Index(rec')
    <2>1. Index(rec)
      BY <1>3, IndexSame
    <2>2. Index(Marked(rec, RecordOf(o), "filled"))
      BY <1>1, <1>3, <2>1, MarkedOf
    <2> QED
      BY <1>1, <2>1, <2>2
  <1>5. (h # Ws => ex[o].p = h) /\ p = ex[o].p
    BY <1>1, <1>2 DEF HandlerOk
  <1> HIDE DEF o, p
  <1>6. /\ hs' \in [Handlers -> HandlerType] /\ \A g \in Handlers \ {h} : hs'[g] = hs[g]
        /\ hs'[h] = hs[h] \/ hs'[h].pc = "idle" \/ HandlerOk(h)'
        /\ \A q \in Positions : Handled(h, q)' => Held(q)
    <2>1. CASE Finish(h)
      BY <2>1, Finished
    <2>2. CASE /\ db[p].st \in {"pending", "open", "selling"}
               /\ hs' = [hs EXCEPT ![h].pc = "restore", ![h].copy = db[p]] /\ rec' = rec
      <3>1. hs' = [hs EXCEPT ![h] = r]
        BY <2>2, CoreTypes DEF Types, HandlerType
      <3>2. db[p] \in PositionType /\ Full(db[p], p) /\ Indexed(db[p].first)
        <4>1. db[p] \in PositionType /\ Full(db[p], p)
          BY <1>2, <1>5, <2>2, CoreTypes DEF CoreInv, Known, Types
        <4>2. db[p].first # None
          BY <4>1 DEF Full, Orders, None
        <4> QED
          BY <1>2, <1>5, <4>1, <4>2 DEF CoreInv, Recorded
      <3>3. /\ r \in HandlerType /\ r.pc = "restore" /\ r.p = p /\ r.o = o /\ r.copy = db[p]
        BY <1>2, <3>2 DEF HandlerType, o, p
      <3> HIDE DEF r
      <3>4. /\ hs' \in [Handlers -> HandlerType] /\ hs'[h] = r
            /\ \A g \in Handlers \ {h} : hs'[g] = hs[g]
        BY <3>1, <3>3, CoreTypes DEF Types
      <3>5. FullNext(db[p], p) /\ BoughtNext(p) /\ rec'[db[p].first].st # "none"
        <4>1. UNCHANGED <<ex, used, rec>>
          BY <1>1, <2>2
        <4> QED
          BY <1>2, <1>5, <3>2, <4>1 DEF Full, FullNext, Indexed, Buys, Sells, WasBought,
                                        BoughtNext
      <3>6. HandlerOk(h)'
        <4>1. /\ hs'[h].pc = "restore" /\ hs'[h].p = p /\ hs'[h].o = o /\ hs'[h].copy = db[p]
              /\ ex' = ex
          BY <1>1, <3>3, <3>4
        <4>2. Full(hs[h].copy, hs[h].p)' /\ WasBought(hs[h].p)' /\ Indexed(hs[h].copy.first)'
          BY <3>5, <4>1 DEF Full, FullNext, Indexed, Buys, Sells, WasBought, BoughtNext
        <4> QED
          BY <1>2, <1>5, <2>2, <4>1, <4>2 DEF HandlerOk
      <3>7. \A q \in Positions : ~Handled(h, q)'
        BY <3>3, <3>4 DEF Handled
      <3> QED
        BY <3>4, <3>6, <3>7
    <2> QED
      BY <1>1, <2>1, <2>2
  <1>7. /\ pend' \subseteq pend /\ open' \subseteq open /\ bal' \in Nat
        /\ closer' \in [Positions -> {"idle", "check", "save", "book"}]
        /\ \A q \in Positions : closer'[q] # "idle" => closer[q] # "idle"
        /\ UNCHANGED <<mem, db, loop, stopper, starter, used, target, abandoned>>
    BY <1>1, CoreTypes DEF Types
  <1> QED
    BY <1>3, <1>4, <1>6, <1>7, HandlerFrame

(* A handler other than h, and h itself once it is idle or on p.           *)
LEMMA HeldOthers ==
  ASSUME CoreInv, NEW h \in Handlers, NEW p \in Positions,
         \A g \in Handlers \ {h} : hs'[g] = hs[g],
         hs'[h].p = p \/ hs'[h].pc = "idle",
         pend' \subseteq pend \cup {p}, open' \subseteq open \cup {p},
         loop' = loop, starter'.todo \subseteq starter.todo, OldOrders, BooksMove,
         \A q \in Positions \ {p} : closer'[q] # "idle" => closer[q] # "idle"
  PROVE  OthersHeld(p)
  <1>1. \A q \in Positions \ {p} : Held(q)' => Held(q)
    <2> SUFFICES ASSUME NEW q \in Positions, q # p, Held(q)'
                 PROVE  Held(q)
      OBVIOUS
    <2>1. CASE \E g \in Handlers : Handled(g, q)'
      <3>1. PICK g \in Handlers : Handled(g, q)'
        BY <2>1
      <3>2. g # h
        BY <3>1 DEF Handled
      <3> QED
        BY <3>1, <3>2 DEF Handled, Held
    <2>2. CASE ~\E g \in Handlers : Handled(g, q)'
      BY <2>2 DEF Held
    <2> QED
      BY <2>1, <2>2
  <1>2. \A q \in Positions, o \in Orders : ex'[o].p = q /\ ex'[o].side = "sell" => Sells(o, q)
    BY OrdersUsedSame
  <1> QED
    BY <1>1, <1>2 DEF OthersHeld

LEMMA CoreRestoreToMemory ==
  ASSUME CoreInv, NEW h \in Handlers, RestoreToMemory(h)
  PROVE  CoreInv' /\ Keeps
  <1> DEFINE p == hs[h].p
             o == hs[h].o
             new == hs[h].copy
             r == [hs[h] EXCEPT !.pc = "apply", !.copy = NoPosition]
  <1>1. /\ hs[h].pc = "restore"
        /\ mem' = [mem EXCEPT ![p] = new]
        /\ pend' \subseteq pend \cup {p} /\ open' \subseteq open \cup {p}
        /\ new.st = "pending" => open' = open
        /\ hs' = [hs EXCEPT ![h].pc = "apply", ![h].copy = NoPosition]
        /\ UNCHANGED <<ex, coins, wire, bal, db, rec, loop, closer, stopper,
                       starter, used, target, abandoned>>
    BY DEF RestoreToMemory, HandlerAt, books, life, history
  <1>2. /\ HandlerOk(h) /\ o \in Orders /\ ex[o].done > 0 /\ ex[o].p \in Positions
        /\ hs[h] \in HandlerType /\ WasBought(ex[o].p) /\ ex[o].p \in 1 .. used
    BY <1>1, HandlerFacts
  <1>3. /\ h # Ws => ex[o].p = h
        /\ p = ex[o].p /\ Full(new, p) /\ Indexed(new.first) /\ new \in PositionType
    BY <1>1, <1>2 DEF HandlerOk, HandlerType
  <1>4. BooksMove /\ OldOrders
    BY <1>1, BooksSame DEF books
  <1>5. Index(rec')
    BY <1>1, <1>4, IndexSame
  <1>6. hs' = [hs EXCEPT ![h] = r]
    BY <1>1, CoreTypes DEF Types, HandlerType
  <1>7. r \in HandlerType /\ r.pc = "apply" /\ r.p = p /\ r.o = o
    BY <1>2, NoPositionType DEF HandlerType
  <1> HIDE DEF r, p, o, new
  <1>8. /\ hs' \in [Handlers -> HandlerType] /\ hs'[h] = r
        /\ \A g \in Handlers \ {h} : hs'[g] = hs[g]
    BY <1>6, <1>7, CoreTypes DEF Types
  <1>9. Keeps /\ used' \in Nat
    BY <1>1, <1>4, <1>5, KeepsSame
  <1>10. Handling'
    <2>1. HandlerOk(h)'
      <3>1. ex' = ex
        BY <1>1
      <3> QED
        BY <1>2, <1>3, <1>7, <1>8, <3>1 DEF HandlerOk
    <2> QED
      BY <1>8, <1>9, <2>1, HandlerKept DEF Handling
  <1>11. FullNext(new, p) /\ rec'[new.first].st # "none"
    BY <1>1, <1>2, <1>3, <1>9, FullKept DEF Indexed
  <1>12. OrdersUsed
    BY <1>4, OrdersUsedSame
  <1>13. RestTypes(p)
    BY <1>1, <1>8, CoreTypes DEF Types, RestTypes, CoreInv, Known
  <1>14. p \in Positions /\ p <= used
    BY <1>2, <1>3, UsedPositions
  <1>15. OthersHeld(p)
    BY <1>1, <1>4, <1>7, <1>8, <1>14, HeldOthers
  <1>16. BoughtIf(p, new)
    BY <1>2, <1>3 DEF BoughtIf
  <1> QED
    BY <1>1, <1>3, <1>4, <1>5, <1>10, <1>11, <1>12, <1>13, <1>14, <1>15, <1>16, Written

(* A handler at work on its position writes a record of it.                *)
LEMMA HandlerWrites ==
  ASSUME CoreInv, NEW h \in Handlers, hs[h].pc \in {"apply", "sell"},
         NEW st \in {"open", "closed"},
         UNCHANGED books, Index(rec'),
         Track(hs[h].p, [mem[hs[h].p] EXCEPT !.st = st]),
         pend' \subseteq pend \cup {hs[h].p}, open' \subseteq open \cup {hs[h].p},
         UNCHANGED <<bal, loop, closer, stopper, starter, used, target, abandoned>>,
         \/ Finish(h)
         \/ st = "open" /\ ex[hs[h].o].side = "buy" /\ Move(h, "sell", hs[h].p)
         \/ st = "closed" /\ ex[hs[h].o].side = "sell" /\ Move(h, "book", hs[h].p)
  PROVE  CoreInv' /\ Keeps
  <1> DEFINE p == hs[h].p
             o == hs[h].o
             new == [mem[p] EXCEPT !.st = st]
  <1>1. /\ HandlerOk(h) /\ o \in Orders /\ ex[o].done > 0 /\ ex[o].p \in Positions
        /\ hs[h] \in HandlerType /\ WasBought(ex[o].p) /\ ex[o].p \in 1 .. used
    BY HandlerFacts
  <1>2. (h # Ws => ex[o].p = h) /\ p = ex[o].p
    BY <1>1 DEF HandlerOk
  <1>3. Held(p) /\ p \in Positions
    BY <1>1, <1>2 DEF Held, Handled
  <1>4. /\ mem[p] \in PositionType /\ Full(mem[p], p) /\ Indexed(mem[p].first)
        /\ mem[p].first \in Orders
    BY <1>3, HeldFacts
  <1>5. mem' = [mem EXCEPT ![p] = new] /\ db' = [db EXCEPT ![p] = new]
    BY DEF Track
  <1>6. /\ new \in PositionType /\ new.st = st /\ new.amt = mem[p].amt
        /\ new.entry = mem[p].entry /\ new.first = mem[p].first /\ new.exit = mem[p].exit
    BY <1>4 DEF PositionType
  <1> HIDE DEF new, p, o
  <1>7. BooksMove /\ OldOrders
    BY BooksSame
  <1>8. Keeps /\ used' \in Nat
    BY <1>7, KeepsSame
  <1>9. /\ hs' \in [Handlers -> HandlerType] /\ \A g \in Handlers \ {h} : hs'[g] = hs[g]
        /\ hs'[h].p = p \/ hs'[h].pc = "idle"
        /\ \/ hs'[h].pc = "idle"
           \/ /\ hs'[h].p = p /\ hs'[h].o = o
              /\ \/ hs'[h].pc = "sell" /\ ex[o].side = "buy"
                 \/ hs'[h].pc = "book" /\ ex[o].side = "sell"
    <2>1. CASE Finish(h)
      BY <2>1, Finished
    <2>2. CASE ex[o].side = "buy" /\ Move(h, "sell", p)
      BY <1>3, <2>2, Moved DEF o
    <2>3. CASE ex[o].side = "sell" /\ Move(h, "book", p)
      BY <1>3, <2>3, Moved DEF o
    <2> QED
      BY <2>1, <2>2, <2>3 DEF o, p
  <1>10. Handling'
    <2>1. hs'[h].pc = "idle" \/ HandlerOk(h)'
      <3>1. ex' = ex
        BY DEF books
      <3> QED
        BY <1>1, <1>2, <1>9, <3>1 DEF HandlerOk
    <2> QED
      BY <1>8, <1>9, <2>1, HandlerKept DEF Handling
  <1>11. FullNext(new, p)
    <2>1. FullNext(mem[p], p)
      BY <1>3, <1>4, <1>8, FullKept
    <2> QED
      BY <1>6, <2>1 DEF FullNext
  <1>12. OrdersUsed
    BY <1>7, OrdersUsedSame
  <1>13. RestTypes(p)
    BY <1>9, CoreTypes DEF Types, RestTypes, CoreInv, Known, p
  <1>14. OthersHeld(p)
    BY <1>3, <1>7, <1>9, HeldOthers DEF p
  <1>15. BoughtIf(p, new)
    BY <1>1, <1>2 DEF BoughtIf
  <1>16. p <= used /\ rec'[new.first].st # "none"
    BY <1>1, <1>2, <1>4, <1>6 DEF Index
  <1> QED
    BY <1>3, <1>5, <1>6, <1>7, <1>10, <1>11, <1>12, <1>13, <1>14, <1>15, <1>16, Written

LEMMA CoreApplyBuy ==
  ASSUME CoreInv, NEW h \in Handlers, ApplyBuy(h)
  PROVE  CoreInv' /\ Keeps
  <1> DEFINE p == hs[h].p
  <1>1. /\ hs[h].pc = "apply" /\ ex[hs[h].o].side = "buy"
        /\ pend' \subseteq pend \cup {p} /\ open' \subseteq open \cup {p}
        /\ Track(p, [mem[p] EXCEPT !.st = "open"])
        /\ \/ Move(h, "sell", p) /\ rec' = rec
           \/ Finish(h) /\ rec' = Marked(rec, RecordOf(hs[h].o), "filled")
        /\ UNCHANGED <<bal, loop, closer, stopper, starter, used, target, abandoned>>
        /\ UNCHANGED books
    BY DEF ApplyBuy, HandlerAt, life, history
  <1>2. BooksMove /\ OldOrders
    BY <1>1, BooksSame
  <1>3. Index(rec')
    <2>1. Index(rec)
      BY <1>2, IndexSame
    <2>2. Index(Marked(rec, RecordOf(hs[h].o), "filled"))
      BY <1>1, <1>2, <2>1, MarkedOf
    <2> QED
      BY <1>1, <2>1, <2>2
  <1>4. hs[h].pc \in {"apply", "sell"} /\ "open" \in {"open", "closed"}
    BY <1>1
  <1>5. \/ Finish(h)
        \/ "open" = "open" /\ ex[hs[h].o].side = "buy" /\ Move(h, "sell", hs[h].p)
        \/ "open" = "closed" /\ ex[hs[h].o].side = "sell" /\ Move(h, "book", hs[h].p)
    BY <1>1
  <1> QED
    BY <1>1, <1>3, <1>4, <1>5, HandlerWrites

LEMMA CoreApplySell ==
  ASSUME CoreInv, NEW h \in Handlers, ApplySell(h)
  PROVE  CoreInv' /\ Keeps
  <1> DEFINE p == hs[h].p
  <1>1. /\ hs[h].pc = "apply" /\ ex[hs[h].o].side = "sell"
        /\ pend' \subseteq pend \cup {p} /\ open' \subseteq open \cup {p}
        /\ Track(p, [mem[p] EXCEPT !.st = "closed"])
        /\ Move(h, "book", p) /\ rec' = rec
        /\ UNCHANGED <<bal, loop, closer, stopper, starter, used, target, abandoned>>
        /\ UNCHANGED books
    BY DEF ApplySell, HandlerAt, life, history, maps
  <1>2. BooksMove /\ OldOrders
    BY <1>1, BooksSame
  <1>3. Index(rec')
    BY <1>1, <1>2, IndexSame
  <1>4. hs[h].pc \in {"apply", "sell"} /\ "closed" \in {"open", "closed"}
    BY <1>1
  <1>5. \/ Finish(h)
        \/ "closed" = "open" /\ ex[hs[h].o].side = "buy" /\ Move(h, "sell", hs[h].p)
        \/ "closed" = "closed" /\ ex[hs[h].o].side = "sell" /\ Move(h, "book", hs[h].p)
    BY <1>1
  <1> QED
    BY <1>1, <1>3, <1>4, <1>5, HandlerWrites

LEMMA CoreBookSell ==
  ASSUME CoreInv, NEW h \in Handlers, BookSell(h)
  PROVE  CoreInv' /\ Keeps
  <1>1. /\ hs[h].pc = "book" /\ bal' = bal + mem[hs[h].p].amt
        /\ open' \subseteq open /\ pend' \subseteq pend
        /\ Finish(h) /\ rec' = Marked(rec, RecordOf(hs[h].o), "filled")
        /\ UNCHANGED books /\ closer' = closer
        /\ UNCHANGED <<mem, db, loop, stopper, starter, used, target, abandoned>>
    BY DEF BookSell, Book, HandlerAt, life
  <1>2. HandlerOk(h) /\ hs[h].p \in Positions
    BY <1>1, HandlerFacts DEF HandlerOk
  <1>3. mem[hs[h].p].amt \in Nat
    BY <1>2, CoreTypes DEF Types, PositionType
  <1>4. BooksMove /\ OldOrders
    BY <1>1, BooksSame
  <1>5. Index(rec')
    <2>1. Index(rec)
      BY <1>4, IndexSame
    <2> QED
      BY <1>1, <1>4, <2>1, MarkedOf
  <1>6. /\ hs' \in [Handlers -> HandlerType] /\ \A g \in Handlers \ {h} : hs'[g] = hs[g]
        /\ hs'[h] = hs[h] \/ hs'[h].pc = "idle" \/ HandlerOk(h)'
        /\ \A q \in Positions : Handled(h, q)' => Held(q)
    BY <1>1, Finished
  <1>7. /\ bal' \in Nat /\ closer' \in [Positions -> {"idle", "check", "save", "book"}]
        /\ \A q \in Positions : closer'[q] # "idle" => closer[q] # "idle"
    BY <1>1, <1>3, CoreTypes DEF Types
  <1> QED
    BY <1>1, <1>4, <1>5, <1>6, <1>7, HandlerFrame

LEMMA CoreSell ==
  ASSUME CoreInv, NEW h \in Handlers, Sell(h)
  PROVE  CoreInv' /\ Keeps
  <1> DEFINE p == hs[h].p
             o == hs[h].o
             filled(r) == Marked(r, RecordOf(hs[h].o), "filled")
  <1>1. /\ hs[h].pc = "sell" /\ Finish(h)
        /\ UNCHANGED <<maps, bal, loop, stopper, starter, life, history>>
    BY DEF Sell, HandlerAt
  <1>2. /\ HandlerOk(h) /\ o \in Orders /\ WasBought(p) /\ p \in Positions /\ p \in 1 .. used
    BY <1>1, HandlerFacts DEF HandlerOk
  <1>3. Held(p)
    BY <1>1, <1>2 DEF Held, Handled
  <1>4. /\ mem[p] \in PositionType /\ Full(mem[p], p)
        /\ mem[p].pair \in Pairs \cup {None} /\ mem[p].amt \in Nat \ {0}
    BY <1>2, <1>3, HeldFacts
  <1>5. /\ hs' \in [Handlers -> HandlerType] /\ hs'[h].pc = "idle"
        /\ \A g \in Handlers \ {h} : hs'[g] = hs[g]
        /\ \A q : ~Handled(h, q)'
    BY <1>1, Finished
  <1>6. UNCHANGED <<pend, open, bal, loop, stopper, starter, used, target, abandoned>>
    BY <1>1 DEF maps, life, history
  <1> HIDE DEF p, o
  <1>7. BooksMove /\ Index(rec) => Index(filled(rec))
    BY <1>1, MarkedOf
  <1>8. CASE /\ Sellable(p) /\ Accept("sell", "limit", p, mem[p].pair, mem[p].amt)
             /\ Track(p, [mem[p] EXCEPT !.st = "selling", !.exit = NewOrder])
             /\ rec' = filled([rec EXCEPT ![NewOrder] = Record(p, NewOrder)])
             /\ closer' = closer
    <2>1. NewOrder \in Orders /\ ex[NewOrder].st = "none" /\ ex'[NewOrder].st # "none"
      BY <1>8, AcceptNew
    <2>2. BooksMove => Index(rec')
      <3>1. BooksMove => Index([rec EXCEPT ![NewOrder] = Record(p, NewOrder)])
        BY <1>2, <2>1, IndexNew
      <3> QED
        BY <1>1, <1>8, <3>1, MarkedOf
    <2>3. UNCHANGED <<pend, bal, loop, closer, stopper, life, abandoned>>
      BY <1>1, <1>6, <1>8 DEF history
    <2>4. /\ open' \subseteq open \cup {p}
          /\ starter' \in [pc : {"idle", "restore"}, todo : SUBSET Positions]
          /\ starter'.todo \subseteq starter.todo
          /\ \A g \in Handlers : hs'[g] = hs[g] \/ hs'[g].pc = "idle"
      BY <1>5, <1>6, CoreTypes DEF Types
    <2>5. "limit" \in {"limit", "market"}
      OBVIOUS
    <2> HIDE DEF Held
    <2> QED
      BY <1>2, <1>3, <1>5, <1>8, <2>2, <2>3, <2>4, <2>5, SaleKept
  <1>9. CASE /\ rec' = filled(rec) /\ UNCHANGED <<books, mem, db>>
             /\ closer' = closer \/ closer' = [closer EXCEPT ![p] = "check"]
    <2>1. BooksMove /\ OldOrders
      BY <1>9, BooksSame
    <2>2. Index(rec')
      BY <1>7, <1>9, <2>1, IndexSame
    <2>3. Keeps /\ used' \in Nat
      BY <1>6, <2>1, <2>2, KeepsSame
    <2>4. Handling'
      BY <1>5, <2>3, HandlerKept DEF Handling
    <2>5. OrdersUsed
      BY <2>1, OrdersUsedSame
    <2>6. closer' \in [Positions -> {"idle", "check", "save", "book"}]
          /\ \A q \in Positions \ {p} : closer'[q] # "idle" => closer[q] # "idle"
      BY <1>2, <1>9, CoreTypes DEF Types
    <2>7. RestTypes(p)
      BY <1>5, <1>6, <2>6, CoreTypes DEF Types, RestTypes, CoreInv, Known
    <2>8. OthersHeld(p)
      BY <1>2, <1>5, <1>6, <2>1, <2>6, HeldOthers
    <2>9. BoughtIf(p, mem[p])
      BY <1>2 DEF BoughtIf
    <2>10. FullNext(mem[p], p) /\ rec'[mem[p].first].st # "none"
      <3>1. Indexed(mem[p].first) /\ mem[p].first \in Orders
        BY <1>2, <1>3, HeldFacts
      <3> QED
        BY <1>2, <1>4, <2>2, <2>3, <3>1, FullKept DEF Index
    <2>11. mem' = mem /\ db' = db /\ p <= used
      BY <1>2, <1>9
    <2> HIDE DEF Held
    <2> QED
      BY <1>2, <1>3, <1>4, <2>1, <2>2, <2>4, <2>5, <2>7, <2>8, <2>9, <2>10, <2>11, Written
  <1>10. CASE /\ Sellable(p) /\ Accept("sell", "limit", p, mem[p].pair, mem[p].amt)
              /\ rec' = filled(rec) /\ UNCHANGED <<mem, db, closer>>
    <2>1. /\ "sell" \in {"buy", "sell"} /\ "limit" \in {"limit", "market"}
          /\ p \in {None} \cup 1 .. used /\ p \in Positions \cup {None}
          /\ coins[mem[p].pair] >= mem[p].amt
      BY <1>2, <1>10 DEF Sellable
    <2>2. BooksMove
      BY <1>4, <1>10, <2>1, AcceptBooks
    <2>3. IndexGrows /\ rec' \in [Orders -> RecordType]
      BY <1>7, <1>10, <2>2, IndexSame, IndexNext
    <2>4. Types'
      BY <1>5, <1>6, <1>10, <2>2, <2>3, CoreTypes DEF Types, BooksMove
    <2>5. UNCHANGED <<mem, maps, db, closer, starter, stopper, life>> /\ bal' \in Nat
      BY <1>1, <1>6, <1>10, CoreTypes DEF Types
    <2>6. loop' = loop /\ \A g \in Handlers : hs'[g] = hs[g] \/ hs'[g].pc = "idle"
      BY <1>5, <1>6
    <2> QED
      BY <1>2, <1>4, <1>10, <2>1, <2>3, <2>4, <2>5, <2>6, Unnoticed
  <1> QED
    <2>1. \/ /\ Sellable(p) /\ Accept("sell", "limit", p, mem[p].pair, mem[p].amt)
             /\ Track(p, [mem[p] EXCEPT !.st = "selling", !.exit = NewOrder])
             /\ rec' = filled([rec EXCEPT ![NewOrder] = Record(p, NewOrder)])
             /\ closer' = closer
          \/ /\ rec' = filled(rec) /\ UNCHANGED <<books, mem, db>>
             /\ closer' = closer \/ closer' = [closer EXCEPT ![p] = "check"]
          \/ /\ Sellable(p) /\ Accept("sell", "limit", p, mem[p].pair, mem[p].amt)
             /\ rec' = filled(rec) /\ UNCHANGED <<mem, db, closer>>
      BY DEF Sell, p
    <2> QED
      BY <1>8, <1>9, <1>10, <2>1

LEMMA CoreCloser ==
  ASSUME CoreInv, NEW p \in Positions, CloserStep(p)
  PROVE  CoreInv' /\ Keeps
  <1>1. /\ UNCHANGED books /\ rec' = rec /\ pend' = pend /\ open' \subseteq open
        /\ UNCHANGED <<mem, loop, hs, stopper, starter, used, target, abandoned>>
        /\ bal' = bal \/ bal' = bal + mem[p].amt
        /\ closer[p] # "idle"
        /\ \/ closer' = [closer EXCEPT ![p] = "save"]
           \/ closer' = [closer EXCEPT ![p] = "book"]
           \/ closer' = [closer EXCEPT ![p] = "idle"]
        /\ db' = db \/ db' = [db EXCEPT ![p].st = "closed"]
    BY DEF CloserStep, CloserCheck, CloserSave, CloserBook, Book, maps, life, history
  <1>2. BooksMove /\ OldOrders
    BY <1>1, BooksSame
  <1>3. Index(rec')
    BY <1>1, <1>2, IndexSame
  <1>4. Keeps /\ used' \in Nat
    BY <1>1, <1>2, <1>3, KeepsSame
  <1>5. Handling'
    BY <1>1, <1>4, HandlerKept DEF Handling
  <1>6. \A q \in Positions, o \in Orders : ex'[o].p = q /\ ex'[o].side = "sell" => Sells(o, q)
    BY <1>2, OrdersUsedSame
  <1>7. \A o \in Orders : ex'[o].p <= used'
    BY <1>1, <1>2, OrdersUsedSame DEF OrdersUsed
  <1>8. WasBought(p)
    BY <1>1 DEF CoreInv, LateWasBought
  <1>9. /\ db' \in [Positions -> PositionType]
        /\ db'[p] = db[p] \/ (db'[p].st = "closed" /\ db'[p].first = db[p].first)
        /\ \A q \in Positions \ {p} : db'[q] = db[q]
    <2>1. db \in [Positions -> PositionType] /\ db[p] \in PositionType
      BY CoreTypes DEF Types
    <2>2. CASE db' = db
      BY <2>1, <2>2
    <2>3. CASE db' = [db EXCEPT ![p].st = "closed"]
      <3> DEFINE r == [db[p] EXCEPT !.st = "closed"]
      <3>1. db' = [db EXCEPT ![p] = r]
        BY <2>1, <2>3 DEF PositionType
      <3>2. r \in PositionType /\ r.st = "closed" /\ r.first = db[p].first
        BY <2>1 DEF PositionType
      <3> HIDE DEF r
      <3> QED
        BY <2>1, <3>1, <3>2
    <2> QED
      BY <1>1, <2>2, <2>3
  <1>10. Types'
    <2>1. mem[p].amt \in Nat
      BY CoreTypes DEF Types, PositionType
    <2>2. bal' \in Nat /\ closer' \in [Positions -> {"idle", "check", "save", "book"}]
      <3>1. bal \in Nat /\ closer \in [Positions -> {"idle", "check", "save", "book"}]
        BY CoreTypes DEF Types
      <3>2. bal' \in Nat
        BY <1>1, <2>1, <3>1
      <3>3. closer' \in [Positions -> {"idle", "check", "save", "book"}]
        BY <1>1, <3>1
      <3> QED
        BY <3>2, <3>3
    <2> QED
      BY <1>1, <1>3, <1>2, <1>9, <2>2, CoreTypes DEF Types, BooksMove
  <1>11. OthersKept(p)
    <2>1. \A q \in Positions : Held(q)' => Held(q)
      BY <1>1 DEF Held, Handled
    <2>2. \A q \in Positions \ {p} : closer'[q] = closer[q]
      BY <1>1, CoreTypes DEF Types
    <2> QED
      BY <1>1, <1>6, <1>9, <2>1, <2>2 DEF OthersKept
  <1>12. Changed(p)
    <2>1. Held(p)' => FullNext(mem'[p], p)
      <3>1. Held(p)' => Held(p)
        BY <1>1 DEF Held, Handled
      <3> QED
        BY <1>1, <1>4, <3>1, FullKept DEF CoreInv, Known
    <2>2. db'[p].st \in {"pending", "open", "selling"} => FullNext(db'[p], p)
      BY <1>4, <1>9, FullKept DEF CoreInv, Known
    <2>3. BoughtNext(p)
      BY <1>4, <1>8, BoughtKept
    <2>4. /\ mem'[p].first # None => rec'[mem'[p].first].st # "none"
          /\ db'[p].first # None => rec'[db'[p].first].st # "none"
      <3>1. /\ mem[p].first # None => Indexed(mem[p].first)
            /\ db[p].first # None => Indexed(db[p].first)
        BY DEF CoreInv, Recorded
      <3> QED
        BY <1>1, <1>9, <3>1 DEF Indexed
    <2>5. p <= used'
      <3>1. \E o \in Orders : ex[o].p = p
        BY <1>8 DEF WasBought, Buys
      <3> QED
        BY <1>1, <3>1 DEF CoreInv, Unused
    <2> HIDE DEF Held
    <2> QED
      BY <2>1, <2>2, <2>3, <2>4, <2>5 DEF Changed
  <1>13. loop'.pc # "idle" => loop'.p \in 1 .. used'
    BY <1>1 DEF CoreInv, Known
  <1> QED
    BY <1>4, <1>5, <1>7, <1>10, <1>11, <1>12, <1>13, CoreOne

-----------------------------------------------------------------------------
(* The actions: stopping, dying and starting.                              *)

LEMMA StopFrame ==
  ASSUME CoreInv, BooksMove, OldOrders, Index(rec'),
         stopper' \in [pc : {"idle", "list", "cancel"}, todo : SUBSET Orders],
         \A o \in stopper'.todo : o \in stopper.todo \/ Indexed(o),
         UNCHANGED <<mem, maps, bal, db, loop, hs, closer, starter, target, used,
                     abandoned>>
  PROVE  CoreInv' /\ Keeps
  <1>1. UNCHANGED <<pend, open>>
    BY DEF maps
  <1>2. IndexGrows /\ rec' \in [Orders -> RecordType]
    BY IndexNext
  <1>3. Types'
    BY <1>1, <1>2, CoreTypes DEF Types, BooksMove
  <1>4. Keeps
    BY <1>2, CoreTypes DEF Keeps
  <1>5. \A q \in Positions : Held(q)' => Held(q)
    BY <1>1 DEF Held, Handled
  <1>6. loop'.pc # "idle" => loop'.p \in 1 .. used
    BY DEF CoreInv, Known
  <1>7. open' \subseteq open
    BY <1>1
  <1> QED
    BY <1>3, <1>4, <1>5, <1>6, <1>7, CoreFrame

LEMMA NothingType ==
  /\ Nothing \in [pc : {"idle", "list", "cancel"}, todo : SUBSET Orders]
  /\ Nothing \in [pc : {"idle", "restore"}, todo : SUBSET Positions]
  /\ Nothing.pc = "idle" /\ Nothing.todo = {}
  BY DEF Nothing

(* rec[o].oid is an order when the record is open.                         *)
LEMMA CoreStop ==
  ASSUME CoreInv, StopBot \/ StopList \/ StopDone
  PROVE  CoreInv' /\ Keeps
  <1>1. /\ UNCHANGED books /\ rec' = rec
        /\ UNCHANGED <<mem, maps, bal, db, loop, hs, closer, starter, target, used,
                       abandoned>>
        /\ \/ stopper' = [pc |-> "list", todo |-> {}]
           \/ stopper' = [pc |-> "cancel",
                   todo |-> {o \in Orders : rec[o].st = "open"
                                           /\ db[rec[o].p].st # "none"}]
           \/ stopper' = Nothing
    BY DEF StopBot, StopList, StopDone, life, history
  <1>2. stopper' \in [pc : {"idle", "list", "cancel"}, todo : SUBSET Orders]
    BY <1>1, NothingType
  <1>3. BooksMove /\ OldOrders
    BY <1>1, BooksSame
  <1>4. Index(rec')
    BY <1>1, <1>3, IndexSame
  <1>5. \A o \in stopper'.todo : Indexed(o)
    BY <1>1, NothingType DEF Indexed
  <1> QED
    BY <1>1, <1>2, <1>3, <1>4, <1>5, StopFrame

LEMMA CoreStopCancel ==
  ASSUME CoreInv, NEW o \in Orders, StopCancel(o)
  PROVE  CoreInv' /\ Keeps
  <1>1. /\ o \in stopper.todo /\ stopper' = [stopper EXCEPT !.todo = @ \ {o}]
        /\ \E ok \in BOOLEAN :
             /\ CancelAnswer(rec[o].oid, ok)
             /\ rec' = IF ok THEN Marked(rec, o, "cancelled") ELSE rec
        /\ UNCHANGED <<mem, maps, bal, db, loop, hs, closer, starter, target, used,
                       abandoned>>
    BY DEF StopCancel, life, history
  <1>2. Indexed(o) /\ rec[o].oid \in Orders
    BY <1>1 DEF CoreInv, Recorded
  <1>3. BooksMove /\ OldOrders
    BY <1>1, <1>2, AnswerBooks
  <1>4. Index(rec')
    <2>1. Index(rec)
      BY <1>3, IndexSame
    <2>2. Index(Marked(rec, o, "cancelled"))
      BY <1>2, <2>1, IndexMarked DEF Indexed
    <2> QED
      BY <1>1, <2>1, <2>2
  <1>5. /\ stopper' \in [pc : {"idle", "list", "cancel"}, todo : SUBSET Orders]
        /\ stopper'.todo \subseteq stopper.todo
    <2>1. stopper \in [pc : {"idle", "list", "cancel"}, todo : SUBSET Orders]
      BY CoreTypes DEF Types
    <2> QED
      BY <1>1, <2>1
  <1> QED
    BY <1>1, <1>3, <1>4, <1>5, StopFrame

LEMMA CoreLoopExit ==
  ASSUME CoreInv, LoopExit
  PROVE  CoreInv' /\ Keeps
  <1>1. /\ UNCHANGED books /\ rec' = rec /\ stopper' = stopper
        /\ UNCHANGED <<mem, maps, bal, db, loop, hs, closer, starter, target, used,
                       abandoned>>
    BY DEF LoopExit, routines, history
  <1>2. BooksMove /\ OldOrders
    BY <1>1, BooksSame
  <1>3. Index(rec')
    BY <1>1, <1>2, IndexSame
  <1>4. stopper' \in [pc : {"idle", "list", "cancel"}, todo : SUBSET Orders]
    BY <1>1, CoreTypes DEF Types
  <1> QED
    BY <1>1, <1>2, <1>3, <1>4, StopFrame

(* Everything in memory is lost, or rebuilt from Redis.                    *)
LEMMA Restart ==
  ASSUME CoreInv, UNCHANGED <<ex, coins, db, rec, used, abandoned>>,
         wire' = wire \/ wire' = <<>>,
         \/ mem' = [p \in Positions |-> NoPosition] /\ starter'.todo = {}
         \/ mem' = db /\ starter'.todo \subseteq ActiveInRedis,
         pend' = {}, open' = {}, bal' \in Nat, target' \in {"limit", "ath"},
         loop' \in LoopType, loop'.pc = "idle",
         hs' \in [Handlers -> HandlerType], \A h \in Handlers : hs'[h].pc = "idle",
         closer' \in [Positions -> {"idle", "check", "save", "book"}],
         \A p \in Positions : closer'[p] = "idle",
         stopper' \in [pc : {"idle", "list", "cancel"}, todo : SUBSET Orders],
         stopper'.todo \subseteq stopper.todo,
         starter' \in [pc : {"idle", "restore"}, todo : SUBSET Positions]
  PROVE  CoreInv' /\ Keeps
  <1>1. wire' \in Seq(Message) /\ Fills' \subseteq Fills
    <2>1. CASE wire' = wire
      BY <2>1, CoreTypes DEF Types, Fills
    <2>2. CASE wire' = <<>>
      BY <2>2 DEF Fills
    <2> QED
      BY <2>1, <2>2
  <1>2. mem' \in [Positions -> PositionType] /\ ActiveInRedis \subseteq Positions
    BY NoPositionType, CoreTypes DEF Types, ActiveInRedis
  <1>3. Types'
    BY <1>1, <1>2, CoreTypes DEF Types
  <1>4. Books' /\ FillsAreTrue'
    BY <1>1 DEF CoreInv, Books, FillsAreTrue
  <1>5. \A p \in Positions : Held(p)' => p \in starter'.todo
    BY DEF Held, Handled
  <1>7. \A p \in Positions : db[p].st \in {"pending", "open", "selling"} => Full(db[p], p)
    BY DEF CoreInv, Known
  <1>8. Known'
    <2>1. \A p \in Positions : Held(p)' => mem'[p] = db[p] /\ Full(db[p], p)
      BY <1>5, <1>7 DEF ActiveInRedis
    <2>2. \A p \in Positions : Held(p)' => FullNext(mem'[p], p)
      BY <2>1 DEF Full, FullNext, Buys, Sells
    <2>3. \A p \in Positions :
             db'[p].st \in {"pending", "open", "selling"} => FullNext(db'[p], p)
      BY <1>7 DEF Full, FullNext, Buys, Sells
    <2> QED
      BY <2>2, <2>3 DEF Known, Full, FullNext, Buys, Sells
  <1>9. LateWasBought'
    <2>1. \A p \in Positions : mem'[p].st \in Late => db[p].st \in Late
      BY NoPositionType DEF Late
    <2>2. \A p \in Positions : db[p].st \in Late => BoughtNext(p)
      BY DEF CoreInv, LateWasBought, WasBought, BoughtNext, Buys
    <2>3. \A p \in Positions, o \in Orders :
             ex'[o].p = p /\ ex'[o].side = "sell" => BoughtNext(p)
      BY DEF CoreInv, LateWasBought, WasBought, BoughtNext, Buys, Sells
    <2> QED
      BY <2>1, <2>2, <2>3 DEF LateWasBought, BoughtNext, WasBought, Buys, Sells
  <1>10. Recorded'
    <2>1. \A p \in Positions : db[p].first # None => Indexed(db[p].first)
      BY DEF CoreInv, Recorded
    <2>2. \A p \in Positions : mem'[p].first = None \/ mem'[p].first = db[p].first
      BY NoPositionType
    <2>3. /\ \A o \in Orders : ex[o].st = "none" => rec[o].st = "none"
          /\ \A o \in Orders : Indexed(o) => rec[o].oid \in Orders
          /\ \A o \in stopper.todo : Indexed(o)
      BY DEF CoreInv, Recorded
    <2> QED
      BY <2>1, <2>2, <2>3 DEF Recorded, Indexed
  <1>11. Handling'
    BY DEF Handling, HandlerOk
  <1>12. Unused'
    <2>1. \A p \in Positions : db[p].st # "none" => p <= used
      BY DEF CoreInv, Unused
    <2>2. \A p \in Positions : mem'[p].st = "none" \/ mem'[p].st = db[p].st
      BY NoPositionType
    <2>3. \A o \in Orders : ex[o].p <= used
      BY DEF CoreInv, Unused
    <2> QED
      BY <2>1, <2>2, <2>3 DEF Unused
  <1>13. Keeps
    <2>1. ExMono
      <3>1. Fills \subseteq Orders
        BY FillsOrders, CoreTypes DEF Types
      <3> QED
        BY <1>1, <3>1, CoreTypes DEF ExMono, Types, OrderType
    <2>2. BooksMove
      BY <1>1, <1>4, <2>1, CoreTypes DEF BooksMove, Types
    <2> QED
      BY <2>2, SameIndex, CoreTypes DEF Keeps
  <1> QED
    BY <1>3, <1>4, <1>8, <1>9, <1>10, <1>11, <1>12, <1>13 DEF CoreInv

LEMMA CoreCrash ==
  ASSUME CoreInv, Crash
  PROVE  CoreInv' /\ Keeps
  <1>1. /\ UNCHANGED <<ex, coins, db, rec, used, abandoned, target>> /\ wire' = <<>>
        /\ mem' = [p \in Positions |-> NoPosition]
        /\ pend' = {} /\ open' = {} /\ bal' = 0
        /\ loop' = IdleLoop /\ hs' = [h \in Handlers |-> IdleHandler]
        /\ closer' = [p \in Positions |-> "idle"]
        /\ stopper' = Nothing /\ starter' = Nothing
    BY DEF Crash, history
  <1>2. loop' \in LoopType /\ loop'.pc = "idle"
    BY <1>1 DEF IdleLoop, LoopType
  <1>3. /\ hs' \in [Handlers -> HandlerType] /\ \A h \in Handlers : hs'[h].pc = "idle"
        /\ closer' \in [Positions -> {"idle", "check", "save", "book"}]
        /\ \A p \in Positions : closer'[p] = "idle"
    BY <1>1, IdleHandlerType
  <1>4. /\ stopper' \in [pc : {"idle", "list", "cancel"}, todo : SUBSET Orders]
        /\ stopper'.todo \subseteq stopper.todo
        /\ starter' \in [pc : {"idle", "restore"}, todo : SUBSET Positions]
        /\ starter'.todo = {}
    BY <1>1, NothingType
  <1>5. bal' \in Nat /\ target' \in {"limit", "ath"}
    BY <1>1, CoreTypes DEF Types
  <1> QED
    BY <1>1, <1>2, <1>3, <1>4, <1>5, Restart

LEMMA CoreStartBot ==
  ASSUME CoreInv, StartBot
  PROVE  CoreInv' /\ Keeps
  <1>1. /\ UNCHANGED <<ex, coins, wire, db, rec, used, abandoned, bal, loop, hs, closer, stopper>>
        /\ mem' = db /\ pend' = {} /\ open' = {} /\ target' \in {"limit", "ath"}
        /\ starter' = [pc |-> "restore", todo |-> ActiveInRedis]
        /\ Quiet
    BY DEF StartBot, books, history
  <1>2. loop' \in LoopType /\ loop'.pc = "idle"
    BY <1>1, CoreTypes DEF Types, Quiet, LoopAt
  <1>3. /\ hs' \in [Handlers -> HandlerType] /\ \A h \in Handlers : hs'[h].pc = "idle"
        /\ closer' \in [Positions -> {"idle", "check", "save", "book"}]
        /\ \A p \in Positions : closer'[p] = "idle"
    BY <1>1, CoreTypes DEF Types, Quiet, HandlerAt
  <1>4. /\ stopper' \in [pc : {"idle", "list", "cancel"}, todo : SUBSET Orders]
        /\ stopper'.todo \subseteq stopper.todo
        /\ starter' \in [pc : {"idle", "restore"}, todo : SUBSET Positions]
        /\ starter'.todo \subseteq ActiveInRedis
    BY <1>1, CoreTypes DEF Types, ActiveInRedis
  <1>5. bal' \in Nat
    BY <1>1, CoreTypes DEF Types
  <1> QED
    BY <1>1, <1>2, <1>3, <1>4, <1>5, Restart

LEMMA CoreStarted ==
  ASSUME CoreInv, Started
  PROVE  CoreInv' /\ Keeps
  <1>1. /\ UNCHANGED <<ex, coins, wire, mem, pend, open, db, rec, loop, hs, closer, stopper,
                       target, used, abandoned>>
        /\ starter' = Nothing /\ bal' = InitialIDR
    BY DEF Started, books, maps, history
  <1>2. BooksMove /\ OldOrders
    BY <1>1, BooksSame DEF books
  <1>3. Types'
    <2>1. starter' \in [pc : {"idle", "restore"}, todo : SUBSET Positions] /\ bal' \in Nat
      BY <1>1, NothingType, PumpAssumption
    <2> QED
      BY <1>1, <2>1, CoreTypes DEF Types
  <1>4. Keeps
    BY <1>1, <1>2, SameIndex, CoreTypes DEF Keeps
  <1>5. \A q \in Positions : Held(q)' => Held(q)
    BY <1>1, NothingType DEF Held, Handled
  <1>6. loop'.pc # "idle" => loop'.p \in 1 .. used
    BY <1>1 DEF CoreInv, Known
  <1> QED
    BY <1>1, <1>3, <1>4, <1>5, <1>6, <1>2, CoreFrame

LEMMA RestoredOne ==
  ASSUME CoreInv, NEW p \in Positions, Restoring(p), Restored(p)
  PROVE  /\ starter' \in [pc : {"idle", "restore"}, todo : SUBSET Positions]
         /\ starter'.todo = starter.todo \ {p} /\ starter'.pc = starter.pc
         /\ Held(p) /\ p \in 1 .. used
  <1>1. /\ starter' \in [pc : {"idle", "restore"}, todo : SUBSET Positions]
        /\ starter'.todo = starter.todo \ {p} /\ starter'.pc = starter.pc
    BY CoreTypes DEF Types, Restored
  <1>2. Held(p)
    BY DEF Held, Restoring
  <1> HIDE DEF Held
  <1> QED
    BY <1>1, <1>2, HeldFacts

(* The order StartBot asked for is filled: a handler starts.               *)
LEMMA CoreFillBehind ==
  ASSUME CoreInv, NEW p \in Positions, Restoring(p), Restored(p),
         NEW o \in Orders, ex[o].p = p, ex[o].st = "filled", FillBehind(p, o),
         UNCHANGED <<books, mem, maps, bal, db, rec, loop, closer, stopper, life, abandoned>>
  PROVE  CoreInv' /\ Keeps
  <1> DEFINE r == [IdleHandler EXCEPT !.pc = "find", !.o = o]
  <1>1. UNCHANGED <<mem, pend, open, bal, db, rec, loop, closer, stopper, target, used, abandoned>>
    BY DEF maps, life
  <1>2. hs' = [hs EXCEPT ![p] = r] /\ UNCHANGED <<ex, coins, wire>>
    BY DEF FillBehind, books
  <1>3. /\ starter' \in [pc : {"idle", "restore"}, todo : SUBSET Positions]
        /\ starter'.todo = starter.todo \ {p}
    BY RestoredOne
  <1>4. /\ BooksMove /\ OldOrders
        /\ \A q \in Orders : /\ ex'[q].st = ex[q].st /\ ex'[q].p = ex[q].p
                             /\ ex'[q].side = ex[q].side /\ ex'[q].done = ex[q].done
    BY <1>2, BooksSame DEF books
  <1>5. r \in HandlerType /\ r.pc = "find" /\ r.o = o
    BY IdleHandlerType DEF IdleHandler, HandlerType
  <1> HIDE DEF r
  <1>6. /\ hs' \in [Handlers -> HandlerType] /\ hs'[p] = r /\ p \in Handlers
        /\ \A g \in Handlers \ {p} : hs'[g] = hs[g]
    BY <1>2, <1>5, CoreTypes DEF Types, Handlers
  <1>7. HandlerOk(p)'
    <2>1. ex[o].done > 0
      BY CoreTypes DEF CoreInv, Books, Types, OrderType
    <2> QED
      BY <1>4, <1>5, <1>6, <2>1 DEF HandlerOk
  <1>8. Types'
    BY <1>1, <1>3, <1>4, <1>6, CoreTypes DEF Types, BooksMove
  <1>9. Keeps
    BY <1>1, <1>4, SameIndex, CoreTypes DEF Keeps
  <1>10. \A q \in Positions : Held(q)' => Held(q)
    BY <1>1, <1>3, <1>5, <1>6 DEF Held, Handled
  <1>11. loop'.pc # "idle" => loop'.p \in 1 .. used
    BY <1>1 DEF CoreInv, Known
  <1>12. \A h \in Handlers : hs'[h] = hs[h] \/ hs'[h].pc = "idle" \/ HandlerOk(h)'
    BY <1>6, <1>7
  <1> QED
    BY <1>1, <1>4, <1>8, <1>9, <1>10, <1>11, <1>12, CoreFrame

LEMMA CoreRestorePending ==
  ASSUME CoreInv, NEW p \in Positions, RestorePending(p)
  PROVE  CoreInv' /\ Keeps
  <1> DEFINE e == mem[p].entry
  <1>1. /\ Restoring(p) /\ Restored(p) /\ mem[p].st = "pending"
        /\ UNCHANGED <<books, mem, open, loop, closer, stopper, life>>
    BY DEF RestorePending
  <1>2. /\ starter' \in [pc : {"idle", "restore"}, todo : SUBSET Positions]
        /\ starter'.todo = starter.todo \ {p} /\ Held(p) /\ p \in 1 .. used
    BY <1>1, RestoredOne
  <1>3. /\ e \in Orders /\ Full(mem[p], p) /\ mem[p].amt \in Nat /\ mem[p].first \in Orders
        /\ Indexed(mem[p].first)
    BY <1>2, HeldFacts
  <1>4. ex[e].p = p /\ ex[e].st # "none"
    BY <1>3, KnownOrder DEF Full, Buys, CoreInv
  <1>5. PICK answer \in Answer(e) :
         CASE answer \in {"open", "error"} ->
                /\ pend' = pend \cup {p}
                /\ UNCHANGED <<bal, db, rec, hs, history>>
           [] answer = "filled" ->
                /\ FillBehind(p, e)
                /\ UNCHANGED <<pend, bal, db, rec, ended, abandoned>>
           [] answer = "cancelled" ->
                /\ bal' = bal + mem[p].amt
                /\ db' = [db EXCEPT ![p] = NoPosition]
                /\ rec' = Marked(rec, mem[p].first, "cancelled")
                /\ ended' = [ended EXCEPT ![p] = @ + 1]
                /\ UNCHANGED <<pend, hs, told>>
                /\ Abandon(p, e)
    BY DEF RestorePending
  <1>6. /\ answer \in {"open", "error", "filled", "cancelled"}
        /\ answer = "filled" => ex[e].st = "filled"
    <2>1. ex[e].st \in {"open", "filled", "cancelled"}
      BY <1>3, <1>4, CoreTypes DEF Types, OrderType
    <2> QED
      BY <1>5, <2>1 DEF Answer
  <1> HIDE DEF e
  <1>7. CASE answer \in {"open", "error"}
    <2>1. pend' = pend \cup {p} /\ UNCHANGED <<books, bal, db, rec, hs, history>>
      BY <1>1, <1>5, <1>7
    <2>2. BooksMove /\ OldOrders
      BY <2>1, BooksSame
    <2>3. UNCHANGED <<mem, open, loop, closer, stopper, bal, db, rec, hs, target, used, abandoned>>
      BY <1>1, <2>1 DEF life, history
    <2>4. Types'
      BY <1>2, <2>1, <2>2, <2>3, CoreTypes DEF Types, BooksMove
    <2>5. Keeps
      BY <2>2, <2>3, SameIndex, CoreTypes DEF Keeps
    <2>6. \A q \in Positions : Held(q)' => Held(q)
      BY <1>2, <2>1, <2>3 DEF Held, Handled
    <2>7. loop'.pc # "idle" => loop'.p \in 1 .. used
      BY <2>3 DEF CoreInv, Known
    <2> QED
      BY <2>2, <2>3, <2>4, <2>5, <2>6, <2>7, CoreFrame
  <1>8. CASE answer = "filled"
    <2>1. FillBehind(p, e) /\ UNCHANGED <<pend, bal, db, rec, abandoned>>
      BY <1>5, <1>8
    <2>2. UNCHANGED <<books, mem, maps, bal, db, rec, loop, closer, stopper, life, abandoned>>
      BY <1>1, <2>1 DEF maps
    <2> QED
      BY <1>1, <1>3, <1>4, <1>6, <1>8, <2>1, <2>2, CoreFillBehind
  <1>9. CASE answer = "cancelled"
    <2>1. /\ UNCHANGED books /\ bal' = bal + mem[p].amt
          /\ db' = [db EXCEPT ![p] = NoPosition]
          /\ rec' = Marked(rec, mem[p].first, "cancelled")
          /\ UNCHANGED <<pend, hs>> /\ Abandon(p, e)
      BY <1>1, <1>5, <1>9
    <2>2. UNCHANGED <<mem, open, loop, closer, stopper, target, used>>
      BY <1>1 DEF life
    <2>3. BooksMove /\ OldOrders
      BY <2>1, BooksSame
    <2>4. Index(rec')
      <3>1. Index(rec)
        BY <2>3, IndexSame
      <3> QED
        BY <1>3, <2>1, <3>1, IndexMarked DEF Indexed
    <2>5. Types'
      <3>1. db' \in [Positions -> PositionType] /\ bal' \in Nat
        BY <1>3, <2>1, NoPositionType, CoreTypes DEF Types
      <3>2. abandoned' \subseteq 1 .. used'
        BY <1>2, <2>1, <2>2, AbandonOne, CoreTypes DEF Types
      <3> QED
        BY <1>2, <2>1, <2>2, <2>3, <2>4, <3>1, <3>2, IndexNext, CoreTypes DEF Types, BooksMove
    <2>6. \A q \in Positions : Held(q)' => Held(q)
      BY <1>2, <2>1, <2>2 DEF Held, Handled
    <2>7. loop'.pc # "idle" => loop'.p \in 1 .. used
      BY <2>2 DEF CoreInv, Known
    <2> QED
      BY <2>1, <2>2, <2>3, <2>4, <2>5, <2>6, <2>7, Deleted
  <1> QED
    BY <1>6, <1>7, <1>8, <1>9

(* StartBot puts a bought position back among the open ones.               *)
LEMMA CoreReopened ==
  ASSUME CoreInv, NEW p \in Positions, Restoring(p), Restored(p), mem[p].st \in Late,
         open' \subseteq open \cup {p},
         SellRestored(p) \/ Reopen(p) \/ UNCHANGED <<books, mem, db, rec, closer>>,
         UNCHANGED <<pend, bal, loop, hs, stopper, life, abandoned>>
  PROVE  CoreInv' /\ Keeps
  <1>1. /\ starter' \in [pc : {"idle", "restore"}, todo : SUBSET Positions]
        /\ starter'.todo = starter.todo \ {p} /\ Held(p) /\ p \in 1 .. used
    BY RestoredOne
  <1>2. /\ mem[p] \in PositionType /\ Full(mem[p], p) /\ Indexed(mem[p].first)
        /\ mem[p].first \in Orders
    BY <1>1, HeldFacts
  <1>3. WasBought(p)
    BY DEF CoreInv, LateWasBought
  <1>4. UNCHANGED <<target, used, abandoned>>
    BY DEF life
  <1>5. hs \in [Handlers -> HandlerType] /\ loop \in LoopType /\ bal \in Nat
        /\ closer \in [Positions -> {"idle", "check", "save", "book"}]
    BY CoreTypes DEF Types
  <1>6. CASE SellAccepted(p, "limit") /\ closer' = closer
    <2>1. /\ Sellable(p) /\ Accept("sell", "limit", p, mem[p].pair, mem[p].amt)
          /\ Track(p, [mem[p] EXCEPT !.st = "selling", !.exit = NewOrder])
          /\ rec' = [rec EXCEPT ![NewOrder] = Record(p, NewOrder)]
      BY <1>6 DEF SellAccepted
    <2>2. NewOrder \in Orders /\ ex[NewOrder].st = "none" /\ ex'[NewOrder].st # "none"
      BY <2>1, AcceptNew
    <2>3. BooksMove => Index(rec')
      BY <2>1, <2>2, IndexNew
    <2>4. UNCHANGED <<pend, bal, loop, closer, stopper, life, abandoned>>
      BY <1>6
    <2>5. /\ hs' \in [Handlers -> HandlerType] /\ starter'.todo \subseteq starter.todo
          /\ \A h \in Handlers : hs'[h] = hs[h] \/ hs'[h].pc = "idle"
          /\ "limit" \in {"limit", "market"}
      BY <1>1, <1>5
    <2> HIDE DEF Held
    <2> QED
      BY <1>1, <1>3, <2>1, <2>3, <2>4, <2>5, SaleKept
  <1>7. CASE /\ UNCHANGED <<books, rec>>
             /\ closer' = closer \/ closer' = [closer EXCEPT ![p] = "check"]
             /\ Reopen(p) \/ UNCHANGED <<mem, db>>
    <2> DEFINE new == IF UNCHANGED <<mem, db>> THEN mem[p] ELSE [mem[p] EXCEPT !.st = "open"]
    <2>1. /\ new \in PositionType /\ new.first = mem[p].first /\ new.entry = mem[p].entry
          /\ new.amt = mem[p].amt /\ new.exit = mem[p].exit
          /\ new.st = mem[p].st \/ new.st = "open"
      BY <1>2 DEF PositionType
    <2>2. \/ mem' = [mem EXCEPT ![p] = new] /\ db' = [db EXCEPT ![p] = new]
          \/ mem' = mem /\ db' = db
      BY <1>7 DEF Reopen, Track
    <2> HIDE DEF new
    <2>3. BooksMove /\ OldOrders
      BY <1>7, BooksSame
    <2>4. Index(rec')
      BY <1>7, <2>3, IndexSame
    <2>5. Keeps /\ used' \in Nat
      BY <1>4, <2>3, <2>4, KeepsSame
    <2>6. Handling'
      BY <2>5, HandlerKept DEF Handling
    <2>7. FullNext(new, p) /\ rec'[new.first].st # "none"
      <3>1. FullNext(mem[p], p)
        BY <1>2, <2>5, FullKept
      <3>2. new.st = "selling" => mem[p].st = "selling"
        BY <2>1
      <3>3. rec'[new.first].st # "none"
        BY <1>2, <1>7, <2>1 DEF Indexed
      <3> QED
        BY <2>1, <3>1, <3>2, <3>3 DEF FullNext
    <2>8. OrdersUsed /\ \A q \in Positions, o \in Orders :
                           ex'[o].p = q /\ ex'[o].side = "sell" => Sells(o, q)
      BY <2>3, OrdersUsedSame
    <2>9. /\ closer' \in [Positions -> {"idle", "check", "save", "book"}]
          /\ \A q \in Positions \ {p} : closer'[q] = closer[q]
      BY <1>5, <1>7
    <2>10. RestTypes(p)
      BY <1>1, <1>4, <1>5, <2>9 DEF RestTypes, CoreInv, Known
    <2>11. OthersHeld(p)
      <3>1. \A q \in Positions \ {p} : Held(q)' => Held(q)
        BY <1>1 DEF Held, Handled
      <3> QED
        BY <2>8, <2>9, <3>1 DEF OthersHeld
    <2>12. BoughtIf(p, new)
      BY <1>3 DEF BoughtIf
    <2>13. p <= used
      BY <1>1
    <2> HIDE DEF Held
    <2> QED
      BY <1>1, <2>1, <2>2, <2>3, <2>4, <2>6, <2>7, <2>8, <2>10, <2>11, <2>12, <2>13, Written
  <1> QED
    <2>1. \/ SellAccepted(p, "limit") /\ closer' = closer
          \/ /\ UNCHANGED <<books, rec>>
             /\ closer' = closer \/ closer' = [closer EXCEPT ![p] = "check"]
             /\ Reopen(p) \/ UNCHANGED <<mem, db>>
      BY DEF SellRestored, Reopen
    <2> QED
      BY <1>6, <1>7, <2>1

LEMMA CoreRestoreOpen ==
  ASSUME CoreInv, NEW p \in Positions, RestoreOpen(p)
  PROVE  CoreInv' /\ Keeps
  <1>1. /\ Restoring(p) /\ Restored(p) /\ mem[p].st \in Late
        /\ open' \subseteq open \cup {p}
        /\ SellRestored(p) \/ Reopen(p) \/ UNCHANGED <<books, mem, db, rec, closer>>
        /\ UNCHANGED <<pend, bal, loop, hs, stopper, life, abandoned>>
    BY DEF RestoreOpen, Late, history
  <1> QED
    BY <1>1, CoreReopened

LEMMA CoreRestoreSelling ==
  ASSUME CoreInv, NEW p \in Positions, RestoreSelling(p)
  PROVE  CoreInv' /\ Keeps
  <1> DEFINE x == mem[p].exit
  <1>1. /\ Restoring(p) /\ Restored(p) /\ mem[p].st = "selling" /\ mem[p].st \in Late
        /\ UNCHANGED <<pend, bal, loop, stopper, life, abandoned>>
    BY DEF RestoreSelling, Late
  <1>2. Held(p)
    BY <1>1, RestoredOne
  <1>3. Full(mem[p], p)
    BY <1>2, HeldFacts
  <1>4. x \in Orders /\ ex[x].p = p /\ ex[x].st # "none"
    BY <1>1, <1>3, KnownOrder DEF Full, Sells, CoreInv
  <1>5. PICK answer \in Answer(x) :
         CASE answer = "filled" ->
                /\ FillBehind(p, x)
                /\ UNCHANGED <<books, mem, open, db, rec, closer>>
           [] answer = "open" ->
                /\ open' = open \cup {p}
                /\ UNCHANGED <<books, mem, db, rec, closer, hs, told>>
           [] answer \in {"cancelled", "error"} ->
                /\ open' = open \cup {p}
                /\ IF target = "limit" THEN SellRestored(p) ELSE Reopen(p)
                /\ UNCHANGED <<hs, told>>
    BY DEF RestoreSelling
  <1>6. /\ answer \in {"open", "error", "filled", "cancelled"}
        /\ answer = "filled" => ex[x].st = "filled"
    <2>1. ex[x].st \in {"open", "filled", "cancelled"}
      BY <1>4, CoreTypes DEF Types, OrderType
    <2> QED
      BY <1>5, <2>1 DEF Answer
  <1> HIDE DEF x
  <1>7. CASE answer = "filled"
    <2>1. FillBehind(p, x) /\ UNCHANGED <<books, mem, open, db, rec, closer>>
      BY <1>5, <1>7
    <2>2. UNCHANGED <<books, mem, maps, bal, db, rec, loop, closer, stopper, life, abandoned>>
      BY <1>1, <2>1 DEF maps
    <2> QED
      BY <1>1, <1>4, <1>6, <1>7, <2>1, <2>2, CoreFillBehind
  <1>8. CASE answer # "filled"
    <2>1. /\ open' \subseteq open \cup {p} /\ hs' = hs
          /\ SellRestored(p) \/ Reopen(p) \/ UNCHANGED <<books, mem, db, rec, closer>>
      BY <1>5, <1>6, <1>8
    <2>2. UNCHANGED <<pend, bal, loop, hs, stopper, life, abandoned>>
      BY <1>1, <2>1
    <2> QED
      BY <1>1, <2>1, <2>2, CoreReopened
  <1> QED
    BY <1>7, <1>8

-----------------------------------------------------------------------------
LEMMA CoreInit == ASSUME Init PROVE CoreInv
  <1>1. Types
    <2>1. ex \in [Orders -> OrderType]
      BY DEF Init, NoOrder, OrderType
    <2>2. mem \in [Positions -> PositionType] /\ db \in [Positions -> PositionType]
      BY NoPositionType DEF Init
    <2>3. rec \in [Orders -> RecordType]
      BY DEF Init, NoRecord, RecordType
    <2>4. loop \in LoopType
      BY DEF Init, IdleLoop, LoopType
    <2>5. hs \in [Handlers -> HandlerType]
      BY IdleHandlerType DEF Init
    <2>6. coins \in [Pairs -> Nat] /\ wire \in Seq(Message) /\ used \in 0 .. MaxPositions
          /\ bal \in Nat /\ closer \in [Positions -> {"idle", "check", "save", "book"}]
      BY PumpAssumption DEF Init
    <2> QED
      BY <2>1, <2>2, <2>3, <2>4, <2>5, <2>6, NothingType DEF Init, Types
  <1>2. Books
    <2>1. 0 \in 0 .. MaxOrders /\ \A o \in Orders : ex[o].st # "none" <=> o <= 0
      BY PumpAssumption DEF Init, NoOrder, Orders
    <2>2. \A o \in Orders : ex[o] = NoOrder
      BY DEF Init
    <2> QED
      BY <2>1, <2>2 DEF Books, NoOrder
  <1>3. FillsAreTrue
    BY DEF Init, FillsAreTrue, Fills
  <1>4. \A p \in Positions : mem[p] = NoPosition /\ db[p] = NoPosition /\ closer[p] = "idle"
    BY DEF Init
  <1>5. \A h \in Handlers : hs[h].pc = "idle"
    BY IdleHandlerType DEF Init
  <1>6. \A o \in Orders : ex[o].p = None /\ ex[o].side = "none"
    BY DEF Init, NoOrder
  <1>7. loop.pc = "idle" /\ starter.todo = {} /\ stopper.todo = {}
    BY NothingType DEF Init, IdleLoop
  <1>8. Known
    BY <1>4, <1>5, <1>7, NoPositionType DEF Known, Held, Handled, Init
  <1>9. LateWasBought
    BY <1>4, <1>6, NoPositionType DEF LateWasBought, Late, Sells, Init
  <1>10. Recorded
    BY <1>4, <1>7, NoPositionType DEF Recorded, Indexed, Init, NoRecord
  <1>11. Handling
    BY <1>5 DEF Handling, HandlerOk
  <1>12. Unused
    BY <1>4, <1>6, NoPositionType DEF Unused, Init, None
  <1> QED
    BY <1>1, <1>2, <1>3, <1>8, <1>9, <1>10, <1>11, <1>12 DEF CoreInv

LEMMA CoreHandler ==
  ASSUME CoreInv, NEW h \in Handlers, HandlerStep(h)
  PROVE  CoreInv' /\ Keeps
  BY CoreFind, CoreLookup, CoreRestoreToMemory, CoreApplyBuy, CoreSell, CoreApplySell,
     CoreBookSell DEF HandlerStep

LEMMA CoreDecide ==
  ASSUME CoreInv, Decide
  PROVE  CoreInv' /\ Keeps
  <1>1. CASE \E c \in Pairs, kind \in {"limit", "market"} :
               OpenPosition(c, kind) \/ OpenPositionUnnoticed(c, kind)
    BY <1>1, CoreOpen, CoreOpenUnnoticed
  <1>2. CASE \E p \in Positions : ClosePosition(p) \/ ClosePositionUnnoticed(p)
    BY <1>2, CoreClose, CoreCloseUnnoticed
  <1>3. CASE \E p \in Positions : FalsePump(p)
    <2>1. PICK p \in Positions : Check(p, "cancel", "limit")
      BY <1>3 DEF FalsePump
    <2> QED
      BY <2>1, CoreCheck
  <1>4. CASE \E p \in Positions, kind \in {"limit", "market"} : PriceMoved(p, kind)
    <2>1. PICK p \in Positions, kind \in {"limit", "market"} : Check(p, "move", kind)
      BY <1>4 DEF PriceMoved
    <2> QED
      BY <2>1, CoreCheck
  <1> QED
    BY <1>1, <1>2, <1>3, <1>4 DEF Decide

LEMMA CoreNext == ASSUME CoreInv, [Next]_vars PROVE CoreInv' /\ Keeps
  <1>1. CASE UNCHANGED vars
    BY <1>1, BooksSame, BooksOnly DEF vars
  <1>2. CASE Exchange
    BY <1>2, CoreExchange
  <1>3. CASE Decide
    BY <1>3, CoreDecide
  <1>4. CASE LoopStep
    BY <1>4, CoreCancelEntry, CoreCancelBook, CoreCancelDelete, CoreMoveCancel,
       CoreMoveTrade, CoreMoveRefused, CoreLoopExit DEF LoopStep
  <1>5. CASE WsStep
    BY <1>5, CoreTakeFill, CoreTakeCancel, CoreHandler DEF WsStep, Ws, Handlers
  <1>6. CASE \E p \in Positions : HandlerStep(p) \/ CloserStep(p)
    BY <1>6, CoreHandler, CoreCloser DEF Handlers
  <1>7. CASE StopStep
    BY <1>7, CoreStop, CoreStopCancel DEF StopStep
  <1>8. CASE StartStep
    BY <1>8, CoreStarted, CoreRestorePending, CoreRestoreOpen, CoreRestoreSelling
       DEF StartStep
  <1>9. CASE Owner
    BY <1>9, CoreStop, CoreCrash, CoreStartBot DEF Owner
  <1> QED
    BY <1>1, <1>2, <1>3, <1>4, <1>5, <1>6, <1>7, <1>8, <1>9 DEF Next

LEMMA CoreAlways == Spec => []CoreInv
  BY CoreInit, CoreNext, PTL DEF Spec

(* A position in OpenPositions has bought something, whatever is repeated, *)
(* delayed, lost or cancelled, and however often the bot is restarted.     *)
THEOREM OpenIsBoughtAlways == Spec => []OpenWasBought
  <1>1. ASSUME CoreInv
        PROVE  OpenWasBought
    BY <1>1, UsedPositions DEF CoreInv, Types, LateWasBought, WasBought, Buys, OpenWasBought
  <1> QED
    BY <1>1, CoreAlways, PTL

-----------------------------------------------------------------------------
(* A step that leaves position q as it is.                                 *)
SameAt(q) ==
    /\ mem'[q] = mem[q] /\ db'[q] = db[q]
    /\ q \in pend' => q \in pend
    /\ q \in open' => q \in open
    /\ closer'[q] # "idle" => closer[q] # "idle"
    /\ q \in starter'.todo => q \in starter.todo
    /\ loop'.pc # "idle" /\ loop'.p = q => q \in pend \/ (loop.pc # "idle" /\ loop.p = q)
    /\ \A o \in Orders : ex'[o].p = q /\ ex'[o].side = "sell" => Sells(o, q)
    /\ \A h \in Handlers : hs'[h] = hs[h] \/ hs'[h].pc = "idle" \/ ex'[hs'[h].o].p # q
    /\ \A o \in Fills' : o \in Fills \/ ex'[o].p # q \/ q \notin starter'.todo

Step == CoreInv /\ CoreInv' /\ Keeps

(* A handler that is busy in the next state on an order of q.              *)
LEMMA AboutNext ==
  ASSUME Step, NEW q \in Positions, SameAt(q), NEW h \in Handlers, About(h, q)'
  PROVE  /\ hs'[h] = hs[h] /\ About(h, q) /\ hs[h].o \in Orders
         /\ ex'[hs[h].o].side = ex[hs[h].o].side
         /\ ex[hs[h].o].st = "filled" => ex'[hs[h].o].st = "filled"
         /\ Indexed(hs[h].o)' => Indexed(hs[h].o)
  <1>1. hs'[h].pc # "idle" /\ ex'[hs'[h].o].p = q
    BY DEF About
  <1>2. hs'[h] = hs[h]
    BY <1>1 DEF SameAt
  <1>3. hs[h].o \in Orders /\ ex[hs[h].o].done > 0
    BY <1>1, <1>2 DEF Step, CoreInv, Handling, HandlerOk
  <1>4. ex[hs[h].o].st # "none"
    BY <1>3, KnownOrder DEF Step, CoreInv
  <1>5. /\ ex'[hs[h].o].p = ex[hs[h].o].p /\ ex'[hs[h].o].side = ex[hs[h].o].side
        /\ ex[hs[h].o].st = "filled" => ex'[hs[h].o].st = "filled"
    BY <1>3, <1>4 DEF Step, Keeps, BooksMove, ExMono
  <1>6. Indexed(hs[h].o)' => Indexed(hs[h].o)
    BY <1>2, <1>3, <1>4 DEF Step, Keeps, IndexGrows, Indexed
  <1> QED
    BY <1>1, <1>2, <1>3, <1>5, <1>6 DEF About

LEMMA SellsNext ==
  ASSUME NEW q \in Positions, SameAt(q), NEW o \in Orders
  PROVE  Sells(o, q)' => Sells(o, q)
  BY DEF SameAt, Sells

LEMMA SameAgree ==
  ASSUME Step, NEW q \in Positions, SameAt(q), AgreeAt(q)
  PROVE  AgreeAt(q)'
  <1>1. \A o \in Orders : Sells(o, q)' => mem'[q].st # "pending" /\ db'[q].st # "pending"
    BY SellsNext DEF AgreeAt, SameAt
  <1>2. /\ mem'[q] = mem[q] /\ db'[q] = db[q]
        /\ q \in pend' => q \in pend
        /\ q \in open' => q \in open
        /\ closer'[q] # "idle" => closer[q] # "idle"
    BY DEF SameAt
  <1> QED
    BY <1>1, <1>2 DEF AgreeAt

LEMMA SameCopies ==
  ASSUME Step, NEW q \in Positions, SameAt(q), CopiesAt(q)
  PROVE  CopiesAt(q)'
  <1> SUFFICES ASSUME NEW h \in Handlers, About(h, q)'
               PROVE  CopyFits(h, q)'
    BY DEF CopiesAt, CopyFits
  <1>1. hs'[h] = hs[h] /\ About(h, q)
    BY AboutNext
  <1>2. mem'[q] = mem[q] /\ db'[q] = db[q]
    BY DEF SameAt
  <1>3. CopyFits(h, q)
    BY DEF CopiesAt
  <1>4. \A o \in Orders : Sells(o, q)' => Sells(o, q)
    BY SellsNext
  <1> QED
    BY <1>1, <1>2, <1>3, <1>4 DEF CopyFits

LEMMA SameRestore ==
  ASSUME Step, NEW q \in Positions, SameAt(q), RestoreAt(q)
  PROVE  RestoreAt(q)'
  <1> SUFFICES ASSUME q \in starter'.todo
               PROVE  RestoreAt(q)'
    BY DEF RestoreAt
  <1>1. /\ q \notin pend \cup open /\ closer[q] = "idle"
        /\ \A h \in Handlers : ~About(h, q)
        /\ mem[q] = db[q] /\ \A o \in Fills : ex[o].p # q
    BY DEF RestoreAt, SameAt
  <1>2. /\ q \notin pend' \cup open' /\ closer'[q] = "idle" /\ mem'[q] = db'[q]
    BY <1>1 DEF SameAt
  <1>3. \A h \in Handlers : ~About(h, q)'
    BY <1>1, AboutNext
  <1>4. \A o \in Fills' : ex'[o].p # q
    <2> SUFFICES ASSUME NEW o \in Fills', ex'[o].p = q
                 PROVE  FALSE
      OBVIOUS
    <2>1. o \in Fills
      BY DEF SameAt
    <2>2. o \in Orders /\ ex[o].done > 0
      BY <2>1, FillsOrders DEF Step, CoreInv, Types, FillsAreTrue
    <2>3. ex'[o].p = ex[o].p
      BY <2>2, OrderKept DEF Step
    <2> QED
      BY <1>1, <2>1, <2>3
  <1> QED
    BY <1>2, <1>3, <1>4 DEF RestoreAt

LEMMA SameOnly ==
  ASSUME Step, NEW q \in Positions, SameAt(q), OnlyAt(q)
  PROVE  OnlyAt(q)'
  <1> SUFFICES ASSUME Taken(q)'
               PROVE  OnlyAt(q)'
    BY DEF OnlyAt
  <1> DEFINE o == hs[q].o
  <1>0. q \in Handlers /\ q # Ws /\ Ws \in Handlers
    BY PumpAssumption DEF Handlers, Ws, Positions
  <1>1. hs'[q].pc # "idle" /\ ex'[hs'[q].o].p = q
    BY <1>0 DEF Taken, Step, CoreInv, Handling, HandlerOk
  <1>2. /\ hs'[q] = hs[q] /\ About(q, q) /\ o \in Orders
        /\ ex'[o].side = ex[o].side
        /\ ex[o].st = "filled" => ex'[o].st = "filled"
    BY <1>0, <1>1, AboutNext DEF About
  <1>3. Taken(q)
    BY <1>2 DEF Taken
  <1>4. /\ mem[q].st = "pending" /\ \A e \in Orders : ~Sells(e, q)
        /\ o \notin Fills /\ ex[o].st = "filled"
        /\ hs[q].pc # "apply" =>
            /\ q \notin pend \cup open /\ (loop.pc = "idle" \/ loop.p # q)
            /\ mem[q].entry = o /\ mem[q] = db[q]
            /\ hs[q].pc = "restore" => hs[q].copy = mem[q]
            /\ ~About(Ws, q)
        /\ hs[q].pc = "apply" =>
            /\ mem[q].entry = o \/ ~Indexed(mem[q].entry)
            /\ About(Ws, q) => hs[Ws].pc = "find" /\ ~Indexed(hs[Ws].o)
    BY <1>3 DEF OnlyAt
  <1> HIDE DEF o
  <1>5. \A e \in Orders : ~Sells(e, q)'
    BY <1>4, SellsNext
  <1>6. o \notin Fills' /\ ex'[o].st = "filled"
    BY <1>2, <1>4 DEF Step, Keeps, BooksMove, ExMono
  <1>7. About(Ws, q)' => About(Ws, q) /\ hs'[Ws] = hs[Ws] /\ (Indexed(hs[Ws].o)' => Indexed(hs[Ws].o))
    BY <1>0, AboutNext
  <1>8. hs[q].pc = "apply" /\ mem[q].entry # o => ~Indexed(mem[q].entry)'
    <2>1. CASE hs[q].pc = "apply" /\ mem[q].entry # o
      <3>1. Held(q)
        <4>1. hs[q].p = q
          BY <1>0, <1>2, <2>1 DEF Step, CoreInv, Handling, HandlerOk, About
        <4> QED
          BY <1>0, <2>1, <4>1 DEF Held, Handled
      <3>2. Full(mem[q], q) /\ mem[q].entry \in Orders
        BY <3>1, HeldFacts DEF Step
      <3>3. ex[mem[q].entry].st # "none"
        BY <3>2, KnownOrder DEF Full, Buys, Step, CoreInv
      <3>4. mem'[q] = mem[q]
        BY DEF SameAt
      <3> QED
        BY <1>4, <2>1, <3>2, <3>3, <3>4 DEF Step, Keeps, IndexGrows, Indexed
    <2> QED
      BY <2>1
  <1>9. /\ mem'[q] = mem[q] /\ db'[q] = db[q]
        /\ q \notin pend \cup open => q \notin pend' \cup open'
        /\ q \notin pend /\ (loop.pc = "idle" \/ loop.p # q) => loop'.pc = "idle" \/ loop'.p # q
    BY DEF SameAt
  <1>10. hs'[q].o = o
    BY <1>2 DEF o
  <1> QED
    BY <1>2, <1>4, <1>5, <1>6, <1>7, <1>8, <1>9, <1>10 DEF OnlyAt

LEMMA OrderlySame ==
  ASSUME Step, NEW q \in Positions, SameAt(q), OrderlyAt(q)
  PROVE  OrderlyAt(q)'
  BY SameAgree, SameCopies, SameRestore, SameOnly DEF OrderlyAt

LEMMA OrderlyFrame ==
  ASSUME OrderlyInv, Step, Exclusive', \A q \in Positions : SameAt(q)
  PROVE  OrderlyInv'
  BY OrderlySame DEF OrderlyInv

LEMMA OrderlyOne ==
  ASSUME OrderlyInv, Step, Exclusive', NEW p \in Positions,
         \A q \in Positions \ {p} : SameAt(q), OrderlyAt(p)'
  PROVE  OrderlyInv'
  BY OrderlySame DEF OrderlyInv

-----------------------------------------------------------------------------
(* What has to be shown of a step: it leaves the other positions as they   *)
(* are, and the position it changes is opened, or still pending.           *)

LEMMA SameElse ==
  ASSUME NEW p,
         \A q \in Positions \ {p} : /\ mem'[q] = mem[q] /\ db'[q] = db[q]
                                    /\ closer'[q] # "idle" => closer[q] # "idle",
         pend' \subseteq pend \cup {p}, open' \subseteq open \cup {p},
         starter'.todo \subseteq starter.todo,
         \/ loop' = loop \/ loop'.pc = "idle" \/ loop'.p \in pend
         \/ loop.pc # "idle" /\ loop'.p = loop.p,
         \A q \in Positions \ {p}, o \in Orders :
            ex'[o].p = q /\ ex'[o].side = "sell" => Sells(o, q),
         \A h \in Handlers : hs'[h] = hs[h] \/ hs'[h].pc = "idle" \/ ex'[hs'[h].o].p = p,
         \A o \in Fills' : o \in Fills \/ ex'[o].p = p \/ ex'[o].p \notin starter'.todo
  PROVE  \A q \in Positions \ {p} : SameAt(q)
  <1> SUFFICES ASSUME NEW q \in Positions \ {p}
               PROVE  SameAt(q)
    OBVIOUS
  <1>1. loop'.pc # "idle" /\ loop'.p = q => q \in pend \/ (loop.pc # "idle" /\ loop.p = q)
    OBVIOUS
  <1>2. \A h \in Handlers : hs'[h] = hs[h] \/ hs'[h].pc = "idle" \/ ex'[hs'[h].o].p # q
    OBVIOUS
  <1>3. \A o \in Fills' : o \in Fills \/ ex'[o].p # q \/ q \notin starter'.todo
    OBVIOUS
  <1> QED
    BY <1>1, <1>2, <1>3 DEF SameAt

LEMMA HandlerOf ==
  ASSUME Step, NEW p \in Positions, NEW h \in Handlers, About(h, p)
  PROVE  (h = p \/ h = Ws) /\ hs[h].o \in Orders /\ ex[hs[h].o].st # "none"
         /\ ex[hs[h].o].side \in {"buy", "sell"}
         /\ (hs[h].pc # "find" => hs[h].p = p)
         /\ p # Ws /\ p \in Handlers /\ Ws \in Handlers
  <1>1. hs[h].o \in Orders /\ ex[hs[h].o].done > 0 /\ (h # Ws => h = p)
        /\ (hs[h].pc # "find" => hs[h].p = p)
    BY DEF About, Step, CoreInv, Handling, HandlerOk
  <1>2. ex[hs[h].o].st # "none"
    BY <1>1, KnownOrder DEF Step, CoreInv
  <1>3. ex[hs[h].o].side \in {"buy", "sell"}
    BY <1>1, <1>2 DEF Step, CoreInv, Books, Types, OrderType
  <1> QED
    BY <1>1, <1>2, <1>3, PumpAssumption DEF Handlers, Ws, Positions

LEMMA OwnHandler == \A p \in Positions : p \in Handlers /\ p # Ws /\ Ws \in Handlers
  BY PumpAssumption DEF Handlers, Ws, Positions

(* An executed order stays with its position, and on its side.             *)
LEMMA HandlerNext ==
  ASSUME Step, NEW h \in Handlers, hs[h].pc # "idle"
  PROVE  /\ ex'[hs[h].o].p = ex[hs[h].o].p /\ ex'[hs[h].o].side = ex[hs[h].o].side
         /\ hs[h].o \in Orders
  <1>1. hs[h].o \in Orders /\ ex[hs[h].o].done > 0
    BY DEF Step, CoreInv, Handling, HandlerOk
  <1> QED
    BY <1>1, OrderKept DEF Step

LEMMA TakenNext ==
  ASSUME Step, NEW p \in Positions, Taken(p)',
         hs'[p] = hs[p] \/ (hs'[p].o = hs[p].o
                              /\ hs[p].pc \in {"find", "lookup", "restore", "apply"})
  PROVE  Taken(p)
  <1>1. hs[p].pc \in {"find", "lookup", "restore", "apply"}
        /\ ex'[hs[p].o].side = "buy"
    BY DEF Taken
  <1>2. ex[hs[p].o].side = "buy"
    BY <1>1, HandlerNext, OwnHandler
  <1> QED
    BY <1>1, <1>2 DEF Taken

(* A position that is, or becomes, open, selling or closed.                *)
LEMMA LateAt ==
  ASSUME NEW p \in Positions, mem'[p].st \in Late, db'[p].st \in Late \cup {"none"},
         p \notin pend', p \notin starter'.todo, ~Taken(p)',
         \A h \in Handlers : About(h, p)' /\ hs'[h].pc = "restore"
                                => hs'[h].copy.st # "pending"
  PROVE  OrderlyAt(p)'
  <1>0. mem'[p].st # "pending" /\ db'[p].st # "pending" /\ mem'[p].st # "none"
    BY DEF Late
  <1>1. AgreeAt(p)'
    BY <1>0 DEF AgreeAt
  <1>2. CopiesAt(p)'
    BY <1>0 DEF CopiesAt, CopyFits
  <1>3. RestoreAt(p)' /\ OnlyAt(p)'
    BY DEF RestoreAt, OnlyAt
  <1> QED
    BY <1>1, <1>2, <1>3 DEF OrderlyAt

(* A position that is pending.                                             *)
LEMMA PendingAt ==
  ASSUME NEW p \in Positions, mem'[p].st = "pending", db'[p].st \in {"pending", "none"},
         p \notin open', p \notin starter'.todo, closer'[p] = "idle",
         \A o \in Orders : ~Sells(o, p)',
         \A h \in Handlers : About(h, p)' =>
            /\ hs'[h].pc # "sell"
            /\ hs'[h].pc = "restore" => hs'[h].copy.st = "pending",
         OnlyAt(p)'
  PROVE  OrderlyAt(p)'
  <1>0. mem'[p].st \notin Late /\ mem'[p].st # "none"
    BY DEF Late
  <1>1. AgreeAt(p)'
    BY <1>0 DEF AgreeAt
  <1>2. CopiesAt(p)'
    BY <1>0 DEF CopiesAt, CopyFits
  <1>3. RestoreAt(p)'
    BY DEF RestoreAt
  <1> QED
    BY <1>1, <1>2, <1>3 DEF OrderlyAt

(* What is known of a position in one of the two.                          *)
LEMMA LateFacts ==
  ASSUME NEW p \in Positions, OrderlyAt(p), mem[p].st \in Late
  PROVE  /\ db[p].st \in Late \cup {"none"} /\ p \notin pend /\ ~Taken(p)
         /\ \A h \in Handlers : About(h, p) /\ hs[h].pc = "restore"
                                  => hs[h].copy.st # "pending"
  BY DEF OrderlyAt, AgreeAt, OnlyAt, CopiesAt, CopyFits, Late

LEMMA PendingFacts ==
  ASSUME NEW p \in Positions, OrderlyAt(p), mem[p].st = "pending"
  PROVE  /\ db[p].st \in {"pending", "none"} /\ p \notin open /\ closer[p] = "idle"
         /\ \A o \in Orders : ~Sells(o, p)
         /\ \A h \in Handlers : About(h, p) =>
               /\ hs[h].pc # "sell"
               /\ hs[h].pc = "restore" => hs[h].copy.st = "pending"
         /\ OnlyAt(p)
  BY DEF OrderlyAt, AgreeAt, CopiesAt, CopyFits, Late

LEMMA StatusOf ==
  ASSUME CoreInv, NEW p \in Positions, mem[p].st # "none"
  PROVE  mem[p].st \in Late \/ mem[p].st = "pending"
  BY DEF CoreInv, Types, PositionType, Late

LEMMA AboutKept ==
  ASSUME Step, NEW p \in Positions, NEW h \in Handlers, hs'[h] = hs[h]
  PROVE  About(h, p)' => About(h, p)
  BY HandlerNext DEF About

LEMMA LateKept ==
  ASSUME Step, NEW p \in Positions, OrderlyAt(p), mem[p].st \in Late,
         mem'[p].st \in Late, db'[p].st \in Late \cup {"none"},
         p \notin pend', p \notin starter'.todo,
         \A h \in Handlers : \/ hs'[h] = hs[h] \/ hs'[h].pc # "restore"
                             \/ hs'[h].copy.st # "pending",
         \/ hs'[p] = hs[p] \/ hs'[p].pc \in {"idle", "sell", "book"}
         \/ hs'[p].o = hs[p].o /\ hs[p].pc \in {"find", "lookup", "restore", "apply"}
         \/ ex'[hs'[p].o].side # "buy"
  PROVE  OrderlyAt(p)'
  <1>1. ~Taken(p) /\ \A h \in Handlers : About(h, p) /\ hs[h].pc = "restore"
                                            => hs[h].copy.st # "pending"
    BY LateFacts
  <1>2. ~Taken(p)'
    <2>1. CASE hs'[p].pc \in {"idle", "sell", "book"} \/ ex'[hs'[p].o].side # "buy"
      BY <2>1 DEF Taken
    <2>2. CASE \/ hs'[p] = hs[p]
               \/ hs'[p].o = hs[p].o /\ hs[p].pc \in {"find", "lookup", "restore", "apply"}
      BY <1>1, <2>2, TakenNext
    <2> QED
      BY <2>1, <2>2
  <1>3. \A h \in Handlers : About(h, p)' /\ hs'[h].pc = "restore"
                               => hs'[h].copy.st # "pending"
    BY <1>1, AboutKept
  <1> QED
    BY <1>2, <1>3, LateAt

-----------------------------------------------------------------------------
(* The actions, in the same order.                                         *)

LEMMA SellsSame ==
  ASSUME CoreInv, BooksMove, OldOrders
  PROVE  \A q \in Positions, o \in Orders :
            ex'[o].p = q /\ ex'[o].side = "sell" => Sells(o, q)
  BY OrdersUsedSame

LEMMA PositionsOnly == None \notin Positions /\ Positions \ {None} = Positions
  BY NoneIsNoPosition

(* A step of the exchange, or of a routine that only moves on.             *)
LEMMA OrderlyQuiet ==
  ASSUME OrderlyInv, Step, Exclusive', OldOrders,
         mem' = mem, db' = db, pend' \subseteq pend, open' \subseteq open,
         \A q \in Positions : closer'[q] # "idle" => closer[q] # "idle",
         starter'.todo \subseteq starter.todo,
         \/ loop' = loop \/ loop'.pc = "idle" \/ loop'.p \in pend
         \/ loop.pc # "idle" /\ loop'.p = loop.p,
         \A h \in Handlers : hs'[h] = hs[h] \/ hs'[h].pc = "idle",
         \A o \in Fills' : o \in Fills \/ ex'[o].p \notin starter'.todo
  PROVE  OrderlyInv'
  <1>1. \A q \in Positions, o \in Orders :
           ex'[o].p = q /\ ex'[o].side = "sell" => Sells(o, q)
    BY SellsSame DEF Step, Keeps
  <1>2. \A q \in Positions \ {None} : SameAt(q)
    BY <1>1, SameElse
  <1> QED
    BY <1>2, PositionsOnly, OrderlyFrame

LEMMA ExclusiveSame ==
  ASSUME Exclusive, UNCHANGED <<starter, loop, hs, up, alive, stopper>>
  PROVE  Exclusive'
  BY DEF Exclusive

LEMMA OrderlyExchange ==
  ASSUME OrderlyInv, Step, Exchange, "late" \notin Enabled
  PROVE  OrderlyInv'
  <1>1. UNCHANGED <<mem, pend, open, db, loop, hs, closer, stopper, starter, up, alive>>
    BY DEF Exchange, LoseMessage, ExFill, ExPartial, ExternalCancel, maps, routines, life
  <1>2. Exclusive'
    BY <1>1, ExclusiveSame DEF OrderlyInv
  <1>3. OldOrders /\ \A o \in Fills' : o \in Fills \/ ex'[o].p \notin starter'.todo
    <2>1. ASSUME NEW o \in Orders, ExFill(o) \/ ExPartial(o)
          PROVE  OldOrders /\ \A e \in Fills' : e \in Fills \/ ex'[e].p \notin starter'.todo
      <3>1. OldOrders /\ Fills' \subseteq Fills \cup {o}
        BY <2>1, FillBooks, PartialBooks DEF Step
      <3>2. ex[o].p \notin starter.todo /\ ex[o].st # "none"
        BY <2>1 DEF ExFill, ExPartial, InTime
      <3>3. ex'[o].p = ex[o].p
        BY <3>2 DEF Step, Keeps, BooksMove, ExMono
      <3> QED
        BY <1>1, <3>1, <3>2, <3>3
    <2>2. ASSUME NEW o \in Orders, ExternalCancel(o)
          PROVE  OldOrders /\ Fills' \subseteq Fills
      BY <2>2, CancelledBooks DEF ExternalCancel, Step
    <2>3. CASE LoseMessage
      BY <2>3, TailBooks, FillsTail DEF LoseMessage, Step, CoreInv, Types
    <2> QED
      BY <2>1, <2>2, <2>3 DEF Exchange
  <1> QED
    BY <1>1, <1>2, <1>3, OrderlyQuiet

LEMMA NotStarting ==
  ASSUME OrderlyInv, alive \/ loop.pc # "idle" \/ hs[Ws].pc # "idle" \/ up
                       \/ stopper.pc # "idle" \/ starter.pc = "idle",
         Step
  PROVE  starter.pc = "idle" /\ starter.todo = {}
  BY CoreTypes DEF OrderlyInv, Exclusive, Step, Types

LEMMA StartingOrNot ==
  ASSUME starter'.pc = "idle", starter'.todo = {}
  PROVE  Exclusive'
  BY DEF Exclusive

LEMMA OrderlyOpen ==
  ASSUME OrderlyInv, Step, NEW pair \in Pairs, NEW kind \in {"limit", "market"},
         OpenPosition(pair, kind)
  PROVE  OrderlyInv'
  <1>0. PICK p : p = used + 1
    OBVIOUS
  <1> DEFINE size == SmallerOf(PositionIDR, bal)
             new == [st |-> "pending", pair |-> pair, amt |-> size, kind |-> kind,
                     entry |-> NewOrder, first |-> NewOrder, exit |-> None]
  <1>1. /\ alive /\ bal > 0 /\ used < MaxPositions
        /\ Accept("buy", kind, p, pair, size)
        /\ Track(p, new)
        /\ pend' = pend \cup {p}
        /\ UNCHANGED <<open, loop, hs, closer, stopper, starter>>
    BY <1>0 DEF OpenPosition, MayOpen, routines
  <1>2. p \in Positions /\ p \notin 1 .. used
    BY <1>0, <1>1, CoreTypes, PumpAssumption DEF Step, Positions
  <1>3. new.st = "pending" /\ mem' = [mem EXCEPT ![p] = new] /\ db' = [db EXCEPT ![p] = new]
    BY <1>1 DEF Track
  <1>4. size \in Nat \ {0}
    BY <1>1, PumpAssumption DEF SmallerOf, Step, CoreInv, Types
  <1> HIDE DEF new, size
  <1>5. /\ \A o \in Orders \ {NewOrder} : ex'[o] = ex[o]
        /\ ex'[NewOrder].side = "buy" /\ ex'[NewOrder].p = p
        /\ Fills' \subseteq Fills \cup {NewOrder}
    BY <1>1, <1>2, <1>4, AcceptBooks DEF Step
  <1>6. starter.pc = "idle" /\ starter.todo = {}
    BY <1>1, NotStarting
  <1>7. Exclusive'
    BY <1>1, <1>6, StartingOrNot
  <1>8. \A q \in Positions, o \in Orders :
           ex'[o].p = q /\ ex'[o].side = "sell" => Sells(o, q)
    BY <1>5 DEF Sells
  <1>9. \A q \in Positions \ {p} : mem'[q] = mem[q] /\ db'[q] = db[q]
    BY <1>3 DEF Step, CoreInv, Types
  <1>10. mem'[p].st = "pending" /\ db'[p].st = "pending"
    BY <1>2, <1>3 DEF Step, CoreInv, Types
  <1>11. \A q \in Positions \ {p} : SameAt(q)
    BY <1>1, <1>5, <1>8, <1>9, SameElse
  <1>12. \A h \in Handlers : ~About(h, p)
    <2> SUFFICES ASSUME NEW h \in Handlers, About(h, p)
                 PROVE  FALSE
      OBVIOUS
    <2>1. hs[h].o \in Orders /\ ex[hs[h].o].p = p
      BY <1>2, HandlerOf DEF About
    <2>2. ex[hs[h].o].p \in 1 .. used
      BY HandlerFacts DEF About, Step
    <2> QED
      BY <1>2, <2>1, <2>2
  <1>13. \A h \in Handlers : ~About(h, p)'
    BY <1>1, <1>2, <1>12, AboutKept
  <1>14. \A o \in Orders : ~Sells(o, p)'
    <2> SUFFICES ASSUME NEW o \in Orders, Sells(o, p)'
                 PROVE  FALSE
      OBVIOUS
    <2>1. Sells(o, p)
      BY <1>2, <1>8 DEF Sells
    <2>2. p <= used
      BY <2>1 DEF Sells, Step, CoreInv, Unused
    <2> QED
      BY <1>2, <2>2, CoreTypes DEF Step, Positions
  <1>15. p \notin open' /\ closer'[p] = "idle"
    <2>1. p \notin open
      BY <1>2 DEF Step, CoreInv, Types
    <2>2. mem[p].st = "none"
      <3>1. ~(p <= used)
        BY <1>2, CoreTypes DEF Step, Positions
      <3> QED
        BY <1>2, <3>1 DEF Step, CoreInv, Unused
    <2>3. closer[p] = "idle"
      BY <1>2, <2>2 DEF OrderlyInv, OrderlyAt, AgreeAt, Late
    <2> QED
      BY <1>1, <2>1, <2>3
  <1>16. OnlyAt(p)'
    <2>1. ~Taken(p)'
      <3> SUFFICES ASSUME Taken(p)'
                   PROVE  FALSE
        OBVIOUS
      <3>1. Taken(p)
        BY <1>1, <1>2, TakenNext
      <3>2. HandlerOk(p)
        BY <1>2, OwnHandler DEF Step, CoreInv, Handling
      <3>3. About(p, p)
        BY <1>2, <3>1, <3>2, OwnHandler DEF About, HandlerOk, Taken
      <3> QED
        BY <1>2, <1>12, <3>3, OwnHandler
    <2> QED
      BY <2>1 DEF OnlyAt
  <1>17. OrderlyAt(p)'
    BY <1>1, <1>2, <1>6, <1>10, <1>13, <1>14, <1>15, <1>16, PendingAt
  <1> QED
    BY <1>2, <1>7, <1>11, <1>17, OrderlyOne

(* A buy order the bot does not learn of.                                  *)
LEMMA OrderlyBought ==
  ASSUME OrderlyInv, Step, NEW kind \in {"limit", "market"},
         NEW p \in Positions \cup {None}, NEW pair \in Pairs \cup {None},
         NEW amt \in Nat \ {0}, Accept("buy", kind, p, pair, amt),
         starter.pc = "idle", starter.todo = {},
         UNCHANGED <<mem, db, pend, open, hs, closer, starter>>,
         loop' = loop \/ (loop.pc # "idle" /\ loop'.p = loop.p)
  PROVE  OrderlyInv'
  <1>1. \A o \in Orders \ {NewOrder} : ex'[o] = ex[o]
    BY AcceptBooks DEF Step
  <1>2. ex'[NewOrder].side = "buy"
    BY AcceptBooks DEF Step
  <1>3. \A q \in Positions, o \in Orders :
           ex'[o].p = q /\ ex'[o].side = "sell" => Sells(o, q)
    BY <1>1, <1>2 DEF Sells
  <1>4. Exclusive'
    BY StartingOrNot
  <1>5. \A q \in Positions \ {None} : SameAt(q)
    BY <1>3, SameElse
  <1> QED
    BY <1>4, <1>5, PositionsOnly, OrderlyFrame

LEMMA OrderlyOpenUnnoticed ==
  ASSUME OrderlyInv, Step, NEW pair \in Pairs, NEW kind \in {"limit", "market"},
         OpenPositionUnnoticed(pair, kind)
  PROVE  OrderlyInv'
  <1> DEFINE size == SmallerOf(PositionIDR, bal)
  <1>1. /\ alive /\ bal > 0
        /\ Accept("buy", kind, None, pair, size)
        /\ UNCHANGED <<mem, db, pend, open, loop, hs, closer, starter>>
    BY DEF OpenPositionUnnoticed, MayOpen, routines, maps
  <1>2. size \in Nat \ {0}
    BY <1>1, PumpAssumption DEF SmallerOf, Step, CoreInv, Types
  <1>3. starter.pc = "idle" /\ starter.todo = {}
    BY <1>1, NotStarting
  <1> HIDE DEF size
  <1> QED
    BY <1>1, <1>2, <1>3, OrderlyBought

(* A sell order of an opened position.                                     *)
LEMMA OrderlySale ==
  ASSUME OrderlyInv, Step, NEW kind \in {"limit", "market"}, NEW p \in Positions,
         Held(p), mem[p].st \in Late, Sellable(p),
         Accept("sell", kind, p, mem[p].pair, mem[p].amt), Exclusive',
         \/ UNCHANGED <<mem, db>>
         \/ Track(p, [mem[p] EXCEPT !.st = "selling", !.exit = NewOrder]),
         UNCHANGED <<loop, closer>>, pend' = pend, open' \subseteq open \cup {p},
         starter'.todo \subseteq starter.todo, p \notin starter'.todo,
         \A h \in Handlers : hs'[h] = hs[h] \/ hs'[h].pc = "idle"
  PROVE  OrderlyInv'
  <1>1. mem[p].pair \in Pairs \cup {None} /\ mem[p].amt \in Nat \ {0}
    BY HeldFacts DEF Step
  <1>2. "sell" = "sell" /\ mem[p].pair \in Pairs => coins[mem[p].pair] >= mem[p].amt
    BY DEF Sellable
  <1>3. /\ \A o \in Orders \ {NewOrder} : ex'[o] = ex[o]
        /\ ex'[NewOrder].p = p /\ Fills' \subseteq Fills \cup {NewOrder}
    BY <1>1, <1>2, AcceptBooks DEF Step
  <1>4. \A q \in Positions \ {p}, o \in Orders :
           ex'[o].p = q /\ ex'[o].side = "sell" => Sells(o, q)
    BY <1>3 DEF Sells
  <1>5. \A q \in Positions \ {p} : mem'[q] = mem[q] /\ db'[q] = db[q]
    BY DEF Track, Step, CoreInv, Types
  <1>6. \A q \in Positions \ {p} : SameAt(q)
    BY <1>3, <1>4, <1>5, SameElse
  <1>7. OrderlyAt(p)
    BY DEF OrderlyInv
  <1>8. db[p].st \in Late \cup {"none"} /\ p \notin pend
    BY <1>7, LateFacts
  <1>9. mem'[p].st \in Late /\ db'[p].st \in Late \cup {"none"}
    <2>1. CASE UNCHANGED <<mem, db>>
      BY <1>8, <2>1
    <2>2. CASE Track(p, [mem[p] EXCEPT !.st = "selling", !.exit = NewOrder])
      <3>1. mem'[p].st = "selling" /\ db'[p].st = "selling"
        BY <2>2 DEF Track, Step, CoreInv, Types, PositionType
      <3> QED
        BY <3>1 DEF Late
    <2> QED
      BY <2>1, <2>2
  <1>10. OrderlyAt(p)'
    BY <1>7, <1>8, <1>9, LateKept, OwnHandler
  <1> QED
    BY <1>6, <1>10, OrderlyOne

LEMMA OpenIsLate ==
  ASSUME OrderlyInv, CoreInv, NEW p \in open
  PROVE  p \in Positions /\ Held(p) /\ mem[p].st \in Late
  BY OpenIsBought DEF OrderlyInv, OrderlyAt, AgreeAt

LEMMA OrderlyClose ==
  ASSUME OrderlyInv, Step, NEW p \in Positions,
         ClosePosition(p) \/ ClosePositionUnnoticed(p)
  PROVE  OrderlyInv'
  <1>1. /\ alive /\ p \in open /\ Sellable(p)
        /\ Accept("sell", "market", p, mem[p].pair, mem[p].amt)
        /\ \/ UNCHANGED <<mem, db>>
           \/ Track(p, [mem[p] EXCEPT !.st = "selling", !.exit = NewOrder])
        /\ UNCHANGED <<pend, open, loop, hs, closer, starter>>
    BY DEF ClosePosition, ClosePositionUnnoticed, MayClose, SellAccepted, maps, routines
  <1>2. Held(p) /\ mem[p].st \in Late
    BY <1>1, OpenIsLate DEF Step
  <1>3. starter.pc = "idle" /\ starter.todo = {}
    BY <1>1, NotStarting
  <1>4. Exclusive'
    BY <1>1, <1>3, StartingOrNot
  <1> QED
    BY <1>1, <1>2, <1>3, <1>4, OrderlySale

LEMMA OrderlyCheck ==
  ASSUME OrderlyInv, Step, NEW p \in Positions, NEW next, NEW kind, Check(p, next, kind)
  PROVE  OrderlyInv'
  <1>1. /\ alive /\ p \in pend /\ loop'.p = p
        /\ UNCHANGED <<mem, pend, open, db, hs, closer, starter>> /\ UNCHANGED books
    BY DEF Check, maps
  <1>2. starter.pc = "idle" /\ starter.todo = {}
    BY <1>1, NotStarting
  <1>3. Exclusive'
    BY <1>1, <1>2, StartingOrNot
  <1>4. OldOrders
    BY <1>1, BooksSame DEF Step
  <1> QED
    BY <1>1, <1>2, <1>3, <1>4, OrderlyQuiet

LEMMA GoneTo ==
  ASSUME Step, loop.pc # "idle",
         NEW pc \in {"idle", "cancel", "book", "delete", "move", "trade"}, GoTo(pc)
  PROVE  loop'.pc = "idle" \/ loop'.p = loop.p
  BY GoToLoop DEF Step

(* runBot on its position, without a new order.                            *)
LEMMA OrderlyLoop ==
  ASSUME OrderlyInv, Step, CancelEntry \/ CancelBook \/ MoveCancel
  PROVE  OrderlyInv'
  <1>1. /\ loop.pc # "idle" /\ pend' \subseteq pend /\ open' \subseteq open
        /\ \E pc \in {"idle", "cancel", "book", "delete", "move", "trade"} : GoTo(pc)
        /\ UNCHANGED <<mem, db, hs, closer, starter>>
    BY DEF CancelEntry, CancelBook, MoveCancel, LoopAt, maps
  <1>2. OldOrders
    <2>1. loop.p \in Positions /\ Held(loop.p)
      BY <1>1, LoopFacts DEF Step
    <2>2. mem[loop.p].entry \in Orders
      BY <2>1, HeldFacts DEF Step
    <2>3. \/ UNCHANGED books
          \/ \E ok \in BOOLEAN : CancelAnswer(mem[loop.p].entry, ok)
      BY DEF CancelEntry, CancelBook, MoveCancel
    <2> QED
      BY <2>2, <2>3, BooksSame, AnswerBooks DEF Step
  <1>3. starter.pc = "idle" /\ starter.todo = {}
    BY <1>1, NotStarting
  <1>4. Exclusive'
    BY <1>1, <1>3, StartingOrNot
  <1>5. loop'.pc = "idle" \/ loop'.p = loop.p
    BY <1>1, GoneTo
  <1> QED
    BY <1>1, <1>2, <1>3, <1>4, <1>5, OrderlyQuiet

LEMMA OrderlyMoveRefused ==
  ASSUME OrderlyInv, Step, MoveRefused
  PROVE  OrderlyInv'
  <1>1. /\ loop.pc # "idle" /\ GoTo("cancel")
        /\ UNCHANGED <<mem, pend, open, db, hs, closer, starter>>
        /\ \/ UNCHANGED books
           \/ Accept("buy", loop.kind, loop.p, mem[loop.p].pair, mem[loop.p].amt)
    BY DEF MoveRefused, LoopAt, maps
  <1>2. starter.pc = "idle" /\ starter.todo = {}
    BY <1>1, NotStarting
  <1>3. Exclusive'
    BY <1>1, <1>2, StartingOrNot
  <1>4. loop'.p = loop.p
    BY <1>1, GoToLoop DEF Step
  <1>5. CASE UNCHANGED books
    <2>1. OldOrders
      BY <1>5, BooksSame DEF Step
    <2> QED
      BY <1>1, <1>2, <1>3, <1>4, <2>1, OrderlyQuiet
  <1>6. CASE Accept("buy", loop.kind, loop.p, mem[loop.p].pair, mem[loop.p].amt)
    <2>1. loop.p \in Positions /\ Held(loop.p) /\ loop.kind \in {"limit", "market"}
      BY <1>1, LoopFacts DEF Step, CoreInv, Types, LoopType
    <2>2. mem[loop.p].pair \in Pairs \cup {None} /\ mem[loop.p].amt \in Nat \ {0}
      BY <2>1, HeldFacts DEF Step
    <2> QED
      BY <1>1, <1>2, <1>4, <1>6, <2>1, <2>2, OrderlyBought
  <1> QED
    BY <1>1, <1>5, <1>6

LEMMA OrderlyLoopExit ==
  ASSUME OrderlyInv, Step, LoopExit
  PROVE  OrderlyInv'
  <1>1. /\ alive /\ UNCHANGED books
        /\ UNCHANGED <<mem, pend, open, db, loop, hs, closer, starter>>
    BY DEF LoopExit, maps, routines
  <1>2. starter.pc = "idle" /\ starter.todo = {}
    BY <1>1, NotStarting
  <1>3. Exclusive'
    BY <1>1, <1>2, StartingOrNot
  <1>4. OldOrders
    BY <1>1, BooksSame DEF Step
  <1> QED
    BY <1>1, <1>2, <1>3, <1>4, OrderlyQuiet

(* The handler of an entry that StartBot found filled, about to apply it.  *)
LEMMA OnlyApply ==
  ASSUME Step, NEW p \in Positions, OrderlyAt(p), hs'[p] = hs[p], hs[p].pc = "apply",
         mem'[p].st = "pending", \A e \in Orders : ~Sells(e, p)',
         Taken(p) => /\ mem'[p].entry = hs[p].o \/ rec'[mem'[p].entry].st = "none"
                     /\ About(Ws, p)' => hs'[Ws].pc = "find" /\ rec'[hs'[Ws].o].st = "none"
  PROVE  OnlyAt(p)'
  <1> SUFFICES ASSUME Taken(p)'
               PROVE  OnlyAt(p)'
    BY DEF OnlyAt
  <1>1. Taken(p)
    BY TakenNext
  <1>2. hs[p].o \notin Fills /\ ex[hs[p].o].st = "filled"
    BY <1>1 DEF OrderlyAt, OnlyAt
  <1>3. hs[p].o \in Orders
    BY HandlerNext, OwnHandler
  <1>4. hs[p].o \notin Fills' /\ ex'[hs[p].o].st = "filled"
    BY <1>2, <1>3 DEF Step, Keeps, BooksMove, ExMono
  <1> QED
    BY <1>1, <1>4 DEF OnlyAt, Indexed

(* An order the exchange has is in the index only if it was.               *)
LEMMA StillNot ==
  ASSUME Step, NEW o \in Orders, ex[o].st # "none", ~Indexed(o)
  PROVE  rec'[o].st = "none"
  BY DEF Step, Keeps, IndexGrows, Indexed

LEMMA WsStays ==
  ASSUME Step, NEW p \in Positions, hs'[Ws] = hs[Ws], About(Ws, p)',
         hs[Ws].pc = "find", ~Indexed(hs[Ws].o)
  PROVE  hs'[Ws].pc = "find" /\ rec'[hs'[Ws].o].st = "none"
  <1>1. About(Ws, p)
    BY AboutKept, OwnHandler
  <1>2. hs[Ws].o \in Orders /\ ex[hs[Ws].o].st # "none"
    BY <1>1, HandlerOf, OwnHandler
  <1>3. rec'[hs[Ws].o].st = "none"
    BY <1>2, StillNot
  <1> QED
    BY <1>3

LEMMA EntryStays ==
  ASSUME Step, NEW p \in Positions, Full(mem[p], p), ~Indexed(mem[p].entry)
  PROVE  rec'[mem[p].entry].st = "none"
  <1>1. mem[p].entry \in Orders /\ ex[mem[p].entry].st # "none"
    BY KnownOrder DEF Full, Buys, Step, CoreInv
  <1> QED
    BY <1>1, StillNot

(* While runBot is at work on a pending position, a handler of its entry   *)
(* can only be about to apply it.                                          *)
LEMMA LoopTaken ==
  ASSUME NEW p \in Positions, OrderlyAt(p), Taken(p),
         p \in pend \cup open \/ (loop.pc # "idle" /\ loop.p = p)
  PROVE  /\ hs[p].pc = "apply"
         /\ mem[p].entry = hs[p].o \/ ~Indexed(mem[p].entry)
         /\ About(Ws, p) => hs[Ws].pc = "find" /\ ~Indexed(hs[Ws].o)
  BY DEF OrderlyAt, OnlyAt, Taken

LEMMA OrderlyCancelDelete ==
  ASSUME OrderlyInv, Step, CancelDelete
  PROVE  OrderlyInv'
  <1>0. PICK p : p = loop.p
    OBVIOUS
  <1>1. /\ loop.pc # "idle" /\ GoTo("idle") /\ UNCHANGED books
        /\ db' = [db EXCEPT ![p] = NoPosition]
        /\ UNCHANGED <<mem, pend, open, hs, closer, starter, rec>>
    BY <1>0 DEF CancelDelete, LoopAt, maps
  <1>2. p \in Positions /\ Held(p) /\ Full(mem[p], p)
    BY <1>0, <1>1, LoopFacts, HeldFacts DEF Step
  <1>3. starter.pc = "idle" /\ starter.todo = {}
    BY <1>1, NotStarting
  <1>4. Exclusive'
    BY <1>1, <1>3, StartingOrNot
  <1>5. OldOrders
    BY <1>1, BooksSame DEF Step
  <1>6. \A q \in Positions, o \in Orders :
           ex'[o].p = q /\ ex'[o].side = "sell" => Sells(o, q)
    BY <1>5, SellsSame DEF Step, Keeps
  <1>7. db'[p].st = "none" /\ \A q \in Positions \ {p} : db'[q] = db[q]
    BY <1>1, <1>2, NoPositionType DEF Step, CoreInv, Types
  <1>8. loop'.pc = "idle"
    BY <1>1, GoToLoop DEF Step
  <1>9. Fills' = Fills
    BY <1>1, BooksSame DEF Step
  <1>10. \A q \in Positions \ {p} : SameAt(q)
    BY <1>1, <1>6, <1>7, <1>8, <1>9, SameElse
  <1>11. OrderlyAt(p)
    BY <1>2 DEF OrderlyInv
  <1>12. CASE mem[p].st \in Late
    <2>1. p \notin pend
      BY <1>2, <1>11, <1>12, LateFacts
    <2>2. OrderlyAt(p)'
      BY <1>1, <1>2, <1>3, <1>7, <1>11, <1>12, <2>1, LateKept, OwnHandler
    <2> QED
      BY <1>2, <1>4, <1>10, <2>2, OrderlyOne
  <1>13. CASE mem[p].st = "pending"
    <2>1. /\ p \notin open /\ closer[p] = "idle"
          /\ \A o \in Orders : ~Sells(o, p)
          /\ \A h \in Handlers : About(h, p) =>
               /\ hs[h].pc # "sell"
               /\ hs[h].pc = "restore" => hs[h].copy.st = "pending"
      BY <1>2, <1>11, <1>13, PendingFacts
    <2>2. \A o \in Orders : ~Sells(o, p)'
      BY <1>2, <1>6, <2>1 DEF Sells
    <2>3. \A h \in Handlers : About(h, p)' => About(h, p)
      BY <1>1, <1>2, AboutKept
    <2>4. OnlyAt(p)'
      <3> SUFFICES ASSUME Taken(p)'
                   PROVE  OnlyAt(p)'
        BY DEF OnlyAt
      <3>1. Taken(p)
        BY <1>1, <1>2, TakenNext
      <3>2. /\ hs[p].pc = "apply"
            /\ mem[p].entry = hs[p].o \/ ~Indexed(mem[p].entry)
            /\ About(Ws, p) => hs[Ws].pc = "find" /\ ~Indexed(hs[Ws].o)
        BY <1>0, <1>1, <1>2, <1>11, <3>1, LoopTaken
      <3>3. About(Ws, p)' => hs'[Ws].pc = "find" /\ rec'[hs'[Ws].o].st = "none"
        BY <1>1, <1>2, <2>3, <3>2, WsStays, OwnHandler
      <3>4. mem'[p].entry = hs[p].o \/ rec'[mem'[p].entry].st = "none"
        BY <1>1, <1>2, <3>2, EntryStays
      <3> QED
        BY <1>1, <1>2, <1>11, <1>13, <2>2, <3>2, <3>3, <3>4, OnlyApply
    <2>5. OrderlyAt(p)'
      BY <1>1, <1>2, <1>3, <1>7, <1>13, <2>1, <2>2, <2>3, <2>4, PendingAt
    <2> QED
      BY <1>2, <1>4, <1>10, <2>5, OrderlyOne
  <1> QED
    BY <1>2, <1>12, <1>13, StatusOf DEF Full, Step

LEMMA OrderlyMoveTrade ==
  ASSUME OrderlyInv, Step, MoveTrade
  PROVE  OrderlyInv'
  <1>0. PICK p : p = loop.p
    OBVIOUS
  <1> DEFINE new == [mem[p] EXCEPT !.entry = NewOrder, !.kind = loop.kind]
  <1>1. /\ loop.pc # "idle" /\ GoTo("idle")
        /\ Accept("buy", loop.kind, p, mem[p].pair, mem[p].amt)
        /\ mem' = [mem EXCEPT ![p] = new] /\ db' = [db EXCEPT ![p] = new]
        /\ rec' = [rec EXCEPT ![mem[p].first] = Record(p, NewOrder)]
        /\ UNCHANGED <<pend, open, hs, closer, starter>>
    BY <1>0 DEF MoveTrade, LoopAt, maps, Track
  <1>2. p \in Positions /\ Held(p) /\ Full(mem[p], p) /\ mem[p] \in PositionType
    BY <1>0, <1>1, LoopFacts, HeldFacts DEF Step
  <1>3. starter.pc = "idle" /\ starter.todo = {}
    BY <1>1, NotStarting
  <1>4. Exclusive'
    BY <1>1, <1>3, StartingOrNot
  <1>5. /\ NewOrder \in Orders /\ ex[NewOrder].st = "none"
        /\ \A o \in Orders \ {NewOrder} : ex'[o] = ex[o]
        /\ ex'[NewOrder].side = "buy" /\ ex'[NewOrder].p = p
        /\ Fills' \subseteq Fills \cup {NewOrder}
    <2>1. mem[p].pair \in Pairs \cup {None} /\ mem[p].amt \in Nat \ {0}
      BY <1>2, HeldFacts DEF Step
    <2>2. loop.kind \in {"limit", "market"}
      BY DEF Step, CoreInv, Types, LoopType
    <2> QED
      BY <1>1, <1>2, <2>1, <2>2, AcceptBooks DEF Step
  <1>6. \A q \in Positions, o \in Orders :
           ex'[o].p = q /\ ex'[o].side = "sell" => Sells(o, q)
    BY <1>5 DEF Sells
  <1>7. new.st = mem[p].st /\ new.entry = NewOrder
    BY <1>2 DEF PositionType
  <1> HIDE DEF new
  <1>8. /\ mem'[p].st = mem[p].st /\ db'[p].st = mem[p].st /\ mem'[p].entry = NewOrder
        /\ \A q \in Positions \ {p} : mem'[q] = mem[q] /\ db'[q] = db[q]
    BY <1>1, <1>2, <1>7 DEF Step, CoreInv, Types
  <1>9. loop'.pc = "idle"
    BY <1>1, GoToLoop DEF Step
  <1>10. \A q \in Positions \ {p} : SameAt(q)
    BY <1>1, <1>5, <1>6, <1>8, <1>9, SameElse
  <1>11. OrderlyAt(p)
    BY <1>2 DEF OrderlyInv
  <1>12. CASE mem[p].st \in Late
    <2>1. p \notin pend
      BY <1>2, <1>11, <1>12, LateFacts
    <2>2. OrderlyAt(p)'
      BY <1>1, <1>2, <1>3, <1>8, <1>11, <1>12, <2>1, LateKept, OwnHandler
    <2> QED
      BY <1>2, <1>4, <1>10, <2>2, OrderlyOne
  <1>13. CASE mem[p].st = "pending"
    <2>1. /\ p \notin open /\ closer[p] = "idle"
          /\ \A o \in Orders : ~Sells(o, p)
          /\ \A h \in Handlers : About(h, p) =>
               /\ hs[h].pc # "sell"
               /\ hs[h].pc = "restore" => hs[h].copy.st = "pending"
      BY <1>2, <1>11, <1>13, PendingFacts
    <2>2. \A o \in Orders : ~Sells(o, p)'
      BY <1>2, <1>6, <2>1 DEF Sells
    <2>3. \A h \in Handlers : About(h, p)' => About(h, p)
      BY <1>1, <1>2, AboutKept
    <2>4. rec'[mem'[p].entry].st = "none"
      <3>1. PICK n \in Orders : n = NewOrder
        BY <1>5
      <3>2. rec[n].st = "none" /\ ex[n].st = "none"
        BY <1>5, <3>1 DEF Step, CoreInv, Recorded
      <3>3. ex[mem[p].first].st # "none" /\ mem[p].first \in Orders
        BY <1>2, KnownOrder DEF Full, Buys, Step, CoreInv
      <3>4. rec'[n] = rec[n]
        BY <1>1, <3>2, <3>3 DEF Step, CoreInv, Types
      <3>5. mem'[p].entry = n /\ rec'[n].st = "none"
        BY <1>8, <3>1, <3>2, <3>4
      <3> QED
        BY <3>5 DEF Indexed
    <2>5. OnlyAt(p)'
      <3> SUFFICES ASSUME Taken(p)'
                   PROVE  OnlyAt(p)'
        BY DEF OnlyAt
      <3>1. Taken(p)
        BY <1>1, <1>2, TakenNext
      <3>2. /\ hs[p].pc = "apply"
            /\ About(Ws, p) => hs[Ws].pc = "find" /\ ~Indexed(hs[Ws].o)
        BY <1>0, <1>1, <1>2, <1>11, <3>1, LoopTaken
      <3>3. About(Ws, p)' => hs'[Ws].pc = "find" /\ rec'[hs'[Ws].o].st = "none"
        BY <1>1, <1>2, <2>3, <3>2, WsStays, OwnHandler
      <3> QED
        BY <1>1, <1>2, <1>8, <1>11, <1>13, <2>2, <2>4, <3>2, <3>3, OnlyApply
    <2>6. OrderlyAt(p)'
      BY <1>1, <1>2, <1>3, <1>8, <1>13, <2>1, <2>2, <2>3, <2>5, PendingAt
    <2> QED
      BY <1>2, <1>4, <1>10, <2>6, OrderlyOne
  <1> QED
    BY <1>2, <1>12, <1>13, StatusOf DEF Full, Step

(* StopBot and what it started.                                            *)
LEMMA OrderlyStop ==
  ASSUME OrderlyInv, Step,
         StopBot \/ StopList \/ StopDone \/ \E o \in Orders : StopCancel(o)
  PROVE  OrderlyInv'
  <1>1. /\ UNCHANGED <<mem, pend, open, db, loop, hs, closer, starter>>
        /\ starter.pc = "idle" \/ stopper.pc # "idle"
    BY DEF StopBot, StopList, StopDone, StopCancel, maps
  <1>2. OldOrders
    <2>1. CASE \E o \in Orders : StopCancel(o)
      <3>1. PICK o \in Orders : StopCancel(o)
        BY <2>1
      <3>2. rec[o].oid \in Orders
        BY <3>1 DEF StopCancel, Step, CoreInv, Recorded
      <3> QED
        BY <3>1, <3>2, AnswerBooks DEF StopCancel, Step
    <2>2. CASE StopBot \/ StopList \/ StopDone
      BY <2>2, BooksSame DEF StopBot, StopList, StopDone, Step
    <2> QED
      BY <2>1, <2>2
  <1>3. starter.pc = "idle" /\ starter.todo = {}
    BY <1>1, NotStarting
  <1>4. Exclusive'
    BY <1>1, <1>3, StartingOrNot
  <1> QED
    BY <1>1, <1>2, <1>3, <1>4, OrderlyQuiet

LEMMA OrderlyTakeCancel ==
  ASSUME OrderlyInv, Step, TakeCancel
  PROVE  OrderlyInv'
  <1>1. /\ UNCHANGED <<mem, pend, open, db, loop, hs, closer, stopper, starter, up, alive>>
        /\ UNCHANGED <<ex, coins>> /\ wire # <<>> /\ wire' = Tail(wire)
    BY DEF TakeCancel, NextIs, maps, routines, life
  <1>2. Exclusive'
    BY <1>1, ExclusiveSame DEF OrderlyInv
  <1>3. OldOrders /\ Fills' \subseteq Fills
    BY <1>1, TailBooks, FillsTail DEF Step, CoreInv, Types
  <1> QED
    BY <1>1, <1>2, <1>3, OrderlyQuiet

(* A pending position whose handlers work on, or get one more fill.        *)
LEMMA HandlersOf ==
  ASSUME Step, NEW p \in Positions, OrderlyAt(p), mem[p].st # "none",
         UNCHANGED <<mem, db, pend, open, closer>>, p \notin starter'.todo,
         \A o \in Orders : ex'[o].p = p /\ ex'[o].side = "sell" => Sells(o, p),
         \A h \in Handlers :
            \/ hs'[h] = hs[h] \/ hs'[h].pc \in {"find", "lookup", "apply"}
            \/ hs'[h].pc = "restore" /\ hs'[h].copy = db[p] /\ db[p].st # "none",
         \/ hs'[p] = hs[p]
         \/ hs'[p].o = hs[p].o /\ hs[p].pc \in {"find", "lookup", "restore", "apply"},
         mem[p].st = "pending" => OnlyAt(p)'
  PROVE  OrderlyAt(p)'
  <1>1. CASE mem[p].st \in Late
    <2>1. db[p].st \in Late \cup {"none"} /\ p \notin pend
      BY <1>1, LateFacts
    <2>2. db[p].st # "pending"
      BY <2>1 DEF Late
    <2>3. \A h \in Handlers : \/ hs'[h] = hs[h] \/ hs'[h].pc # "restore"
                              \/ hs'[h].copy.st # "pending"
      BY <2>2
    <2> QED
      BY <1>1, <2>1, <2>3, LateKept
  <1>2. CASE mem[p].st = "pending"
    <2>1. /\ p \notin open /\ closer[p] = "idle" /\ db[p].st \in {"pending", "none"}
          /\ \A o \in Orders : ~Sells(o, p)
          /\ \A h \in Handlers : About(h, p) =>
               /\ hs[h].pc # "sell"
               /\ hs[h].pc = "restore" => hs[h].copy.st = "pending"
      BY <1>2, PendingFacts
    <2>2. \A o \in Orders : ~Sells(o, p)'
      BY <2>1 DEF Sells
    <2>3. \A h \in Handlers : About(h, p)' =>
               /\ hs'[h].pc # "sell"
               /\ hs'[h].pc = "restore" => hs'[h].copy.st = "pending"
      BY <2>1, AboutKept
    <2> QED
      BY <1>2, <2>1, <2>2, <2>3, PendingAt
  <1> QED
    BY <1>1, <1>2, StatusOf DEF Step

LEMMA OrderlyTakeFill ==
  ASSUME OrderlyInv, Step, TakeFill
  PROVE  OrderlyInv'
  <1>0. PICK o : o = Head(wire).o
    OBVIOUS
  <1>1. /\ UNCHANGED <<mem, pend, open, db, loop, closer, stopper, starter, up, alive>>
        /\ UNCHANGED <<ex, coins, rec>> /\ wire # <<>> /\ wire' = Tail(wire)
        /\ starter.pc = "idle" /\ Head(wire).st = "fill"
        /\ \/ hs' = hs
           \/ /\ \E p \in pend \cup open : Match(p, o)
              /\ hs' = [hs EXCEPT ![Ws] = [IdleHandler EXCEPT !.pc = "find", !.o = o]]
    BY <1>0 DEF TakeFill, NextIs, maps, life
  <1>2. starter.todo = {}
    BY <1>1, NotStarting
  <1>3. Exclusive'
    BY <1>1, <1>2, StartingOrNot
  <1>4. OldOrders /\ BooksMove /\ Fills' \subseteq Fills
    BY <1>1, TailBooks, FillsTail DEF Step, CoreInv, Types
  <1>5. CASE hs' = hs
    BY <1>1, <1>2, <1>3, <1>4, <1>5, OrderlyQuiet
  <1>6. ASSUME NEW p \in pend \cup open, Match(p, o),
               hs' = [hs EXCEPT ![Ws] = [IdleHandler EXCEPT !.pc = "find", !.o = o]]
        PROVE  OrderlyInv'
    <2>1. o \in Orders /\ o \in Fills
      BY <1>0, <1>1, HeadOf DEF Step
    <2>2. p \in Positions /\ Held(p) /\ ex[o].p = p
      BY <1>6, <2>1, Matched DEF Step
    <2>3. Full(mem[p], p)
      BY <2>2, HeldFacts DEF Step
    <2>4. /\ hs'[Ws].pc = "find" /\ hs'[Ws].o = o
          /\ \A h \in Handlers \ {Ws} : hs'[h] = hs[h]
      BY <1>6 DEF Step, CoreInv, Types, IdleHandler, Handlers, Ws
    <2>5. \A q \in Positions, e \in Orders :
             ex'[e].p = q /\ ex'[e].side = "sell" => Sells(e, q)
      BY <1>4, SellsSame DEF Step
    <2>6. ex'[hs'[Ws].o].p = p
      BY <1>1, <2>2, <2>4
    <2>7. \A q \in Positions \ {p} : SameAt(q)
      BY <1>1, <1>4, <2>4, <2>5, <2>6, SameElse
    <2>8. OrderlyAt(p)
      BY <2>2 DEF OrderlyInv
    <2>9. mem[p].st = "pending" => OnlyAt(p)'
      <3> SUFFICES ASSUME mem[p].st = "pending", Taken(p)'
                   PROVE  OnlyAt(p)'
        BY DEF OnlyAt
      <3>1. hs'[p] = hs[p]
        BY <2>2, <2>4, OwnHandler
      <3>2. Taken(p)
        BY <2>2, <3>1, TakenNext
      <3>3. hs[p].pc = "apply" /\ (mem[p].entry = hs[p].o \/ ~Indexed(mem[p].entry))
        BY <1>6, <2>2, <2>8, <3>2, LoopTaken
      <3>4. hs[p].o \notin Fills
        BY <2>8, <3>2 DEF OrderlyAt, OnlyAt
      <3>5. \A e \in Orders : ~Sells(e, p)
        BY <2>2, <2>8, PendingFacts
      <3>6. mem[p].exit = None
        BY <2>3, <3>5 DEF Full
      <3>7. o = mem[p].entry
        <4>1. o # None
          BY <2>1, PumpAssumption DEF Orders, None
        <4> QED
          BY <1>6, <3>6, <4>1 DEF Match
      <3>8. rec[o].st = "none"
        BY <2>1, <3>3, <3>4, <3>7 DEF Indexed
      <3>9. \A e \in Orders : ~Sells(e, p)'
        BY <2>2, <2>5, <3>5 DEF Sells
      <3>10. rec'[mem'[p].entry].st = "none" /\ rec'[hs'[Ws].o].st = "none"
        BY <1>1, <2>4, <3>7, <3>8
      <3> QED
        BY <1>1, <2>2, <2>4, <2>8, <3>1, <3>3, <3>9, <3>10, OnlyApply
    <2>10. OrderlyAt(p)'
      <3>1. mem[p].st # "none"
        BY <2>3 DEF Full
      <3>2. \A h \in Handlers : hs'[h] = hs[h] \/ hs'[h].pc \in {"find", "lookup", "apply"}
        BY <2>4
      <3>3. hs'[p] = hs[p]
        BY <2>2, <2>4, OwnHandler
      <3> QED
        BY <1>1, <1>2, <2>2, <2>5, <2>8, <2>9, <3>1, <3>2, <3>3, HandlersOf
    <2> QED
      BY <1>3, <2>2, <2>7, <2>10, OrderlyOne
  <1> QED
    BY <1>1, <1>5, <1>6

(* A handler's step: the restorer's guards, and the other positions.       *)
LEMMA HandlerExclusive ==
  ASSUME OrderlyInv, NEW h \in Handlers, hs[h].pc # "idle",
         UNCHANGED <<loop, stopper, starter, up, alive>>,
         \A g \in Handlers \ {h} : hs'[g] = hs[g]
  PROVE  Exclusive'
  BY DEF OrderlyInv, Exclusive, Handlers, Ws

LEMMA AboutIt ==
  ASSUME OrderlyInv, Step, NEW h \in Handlers, hs[h].pc # "idle"
  PROVE  \E p \in Positions :
            /\ p = ex[hs[h].o].p /\ About(h, p) /\ OrderlyAt(p) /\ mem[p].st # "none"
            /\ p \notin starter.todo /\ ex'[hs[h].o].p = p
            /\ hs[h].pc # "find" => hs[h].p = p
  <1> PICK p \in Positions : p = ex[hs[h].o].p
    BY HandlerFacts DEF Step
  <1>1. About(h, p) /\ OrderlyAt(p)
    BY DEF About, OrderlyInv
  <1>2. mem[p].st # "none" /\ p \notin starter.todo
    BY <1>1 DEF OrderlyAt, CopiesAt, CopyFits, RestoreAt
  <1>3. ex'[hs[h].o].p = p
    BY HandlerNext
  <1> QED
    BY <1>1, <1>2, <1>3, HandlerOf

LEMMA OrderlyFinish ==
  ASSUME OrderlyInv, Step, NEW h \in Handlers, hs[h].pc # "idle", Finish(h),
         UNCHANGED <<mem, pend, db, loop, stopper, starter, up, alive>>, UNCHANGED books,
         open' \subseteq open, closer' = closer
  PROVE  OrderlyInv'
  <1>1. \A g \in Handlers \ {h} : hs'[g] = hs[g]
    BY Finished DEF Step
  <1>2. hs'[h].pc = "idle"
    BY Finished DEF Step
  <1>3. Exclusive'
    BY <1>1, HandlerExclusive
  <1>4. OldOrders /\ Fills' = Fills
    BY BooksSame DEF Step
  <1> QED
    BY <1>1, <1>2, <1>3, <1>4, OrderlyQuiet

LEMMA WsTaken ==
  ASSUME NEW p \in Positions, OrderlyAt(p), About(Ws, p), Taken(p)
  PROVE  hs[p].pc = "apply" /\ hs[Ws].pc = "find" /\ ~Indexed(hs[Ws].o)
  BY DEF OrderlyAt, OnlyAt, Taken

(* Two handlers of one position: not while one restores it as pending.     *)
LEMMA NoOtherRestore ==
  ASSUME Step, NEW p \in Positions, OrderlyAt(p), NEW h \in Handlers, About(h, p),
         hs[h].pc \in {"lookup", "restore", "apply"},
         NEW g \in Handlers \ {h}, About(g, p), hs[g].pc = "restore",
         hs[g].copy.st = "pending"
  PROVE  FALSE
  <1>1. \A o \in Orders : ~Sells(o, p)
    BY DEF OrderlyAt, CopiesAt, CopyFits
  <1>2. (h = p \/ h = Ws) /\ (g = p \/ g = Ws) /\ p \in Handlers /\ Ws \in Handlers
    BY HandlerOf
  <1>3. hs[p].pc \in {"find", "lookup", "restore", "apply"} /\ About(p, p)
    BY <1>2
  <1>4. hs[p].o \in Orders /\ ex[hs[p].o].side \in {"buy", "sell"} /\ ex[hs[p].o].p = p
    BY <1>2, <1>3, HandlerOf DEF About
  <1>5. ex[hs[p].o].side = "buy"
    BY <1>1, <1>4 DEF Sells
  <1>6. Taken(p)
    BY <1>3, <1>5 DEF Taken
  <1>7. About(Ws, p)
    BY <1>2
  <1>8. hs[p].pc = "apply" /\ hs[Ws].pc = "find"
    BY <1>6, <1>7, WsTaken
  <1> QED
    BY <1>2, <1>8

(* A handler that looks for its position, or reads it from Redis.          *)
LEMMA OrderlyMoves ==
  ASSUME OrderlyInv, Step, NEW h \in Handlers, NEW p \in Positions,
         p = ex[hs[h].o].p, hs[h].pc \in {"find", "lookup"},
         hs'[h].o = hs[h].o, \A g \in Handlers \ {h} : hs'[g] = hs[g],
         \/ hs'[h].pc = "lookup" /\ hs[h].pc = "find"
         \/ hs'[h].pc = "apply" /\ p \in pend \cup open /\ hs[h].pc = "find"
         \/ hs'[h].pc = "restore" /\ hs'[h].copy = db[p] /\ db[p].st # "none",
         h = Ws /\ hs[h].pc = "find" => Indexed(hs[h].o),
         UNCHANGED books,
         UNCHANGED <<mem, pend, open, db, loop, closer, stopper, starter, up, alive, rec>>
  PROVE  OrderlyInv'
  <1>1. /\ About(h, p) /\ OrderlyAt(p) /\ mem[p].st # "none" /\ p \notin starter.todo
        /\ ex'[hs[h].o].p = p
    BY AboutIt
  <1>2. Exclusive'
    BY HandlerExclusive
  <1>3. OldOrders /\ BooksMove /\ Fills' = Fills
    BY BooksSame DEF Step
  <1>4. \A q \in Positions, e \in Orders :
             ex'[e].p = q /\ ex'[e].side = "sell" => Sells(e, q)
    BY <1>3, SellsSame DEF Step
  <1>5. \A q \in Positions \ {p} : SameAt(q)
    BY <1>1, <1>3, <1>4, SameElse
  <1>6. (h = p \/ h = Ws) /\ p # Ws /\ p \in Handlers /\ Ws \in Handlers
    BY <1>1, HandlerOf
  <1>7. \/ hs'[p] = hs[p]
        \/ hs'[p].o = hs[p].o /\ hs[p].pc \in {"find", "lookup", "restore", "apply"}
    BY <1>6
  <1>8. OnlyAt(p)'
    <2> SUFFICES ASSUME Taken(p)'
                 PROVE  OnlyAt(p)'
      BY DEF OnlyAt
    <2>1. Taken(p)
      BY <1>7, TakenNext
    <2>2. h = p
      BY <1>1, <1>6, <2>1, WsTaken
    <2>3. ~About(Ws, p)
      BY <1>1, <2>1, <2>2, WsTaken
    <2>4. ~About(Ws, p)'
      BY <1>6, <2>2, <2>3, AboutKept
    <2>5. /\ mem[p].st = "pending" /\ \A e \in Orders : ~Sells(e, p)
          /\ hs[p].o \notin Fills /\ ex[hs[p].o].st = "filled"
          /\ p \notin pend \cup open /\ (loop.pc = "idle" \/ loop.p # p)
          /\ mem[p].entry = hs[p].o /\ mem[p] = db[p]
      BY <1>1, <2>1, <2>2 DEF OrderlyAt, OnlyAt
    <2>6. \A e \in Orders : ~Sells(e, p)'
      BY <1>4, <2>5 DEF Sells
    <2>7. ex'[hs[p].o].st = "filled"
      BY <2>5 DEF books
    <2>8. hs'[p].pc # "apply" /\ (hs'[p].pc = "restore" => hs'[p].copy = db[p])
      BY <2>2, <2>5
    <2> QED
      BY <1>3, <2>2, <2>4, <2>5, <2>6, <2>7, <2>8 DEF OnlyAt
  <1>9. OrderlyAt(p)'
    <2>1. \A g \in Handlers :
            \/ hs'[g] = hs[g] \/ hs'[g].pc \in {"find", "lookup", "apply"}
            \/ hs'[g].pc = "restore" /\ hs'[g].copy = db[p] /\ db[p].st # "none"
      OBVIOUS
    <2> QED
      BY <1>1, <1>4, <1>7, <1>8, <2>1, HandlersOf
  <1> QED
    BY <1>2, <1>5, <1>9, OrderlyOne

LEMMA OrderlyFind ==
  ASSUME OrderlyInv, Step, NEW h \in Handlers, Find(h)
  PROVE  OrderlyInv'
  <1>1. /\ hs[h].pc = "find" /\ UNCHANGED books
        /\ UNCHANGED <<mem, pend, open, db, loop, closer, stopper, starter, up, alive, rec>>
    BY DEF Find, HandlerAt, maps, life
  <1>2. \/ Finish(h)
        \/ /\ FoundById(h, hs[h].o) \/ Indexed(hs[h].o)
           /\ \/ Move(h, "lookup", ex[hs[h].o].p)
              \/ \E p \in pend \cup open : Match(p, hs[h].o) /\ Move(h, "apply", p)
    BY DEF Find, Match
  <1>3. CASE Finish(h)
    BY <1>1, <1>3, OrderlyFinish
  <1>4. CASE ~Finish(h)
    <2>1. PICK p \in Positions : p = ex[hs[h].o].p
      BY <1>1, HandlerFacts DEF Step
    <2>2. h = Ws => Indexed(hs[h].o)
      BY <1>2, <1>4 DEF FoundById
    <2>3. hs[h].o \in Orders
      BY <1>1, HandlerFacts DEF Step
    <2>4. \/ Move(h, "lookup", p)
          \/ Move(h, "apply", p) /\ p \in pend \cup open
      BY <1>2, <1>4, <2>1, <2>3, Matched DEF Step
    <2>5. /\ hs'[h].o = hs[h].o /\ \A g \in Handlers \ {h} : hs'[g] = hs[g]
          /\ \/ hs'[h].pc = "lookup"
             \/ hs'[h].pc = "apply" /\ p \in pend \cup open
      BY <2>4, Moved DEF Step
    <2> QED
      BY <1>1, <2>1, <2>2, <2>5, OrderlyMoves
  <1> QED
    BY <1>3, <1>4

LEMMA OrderlyLookup ==
  ASSUME OrderlyInv, Step, NEW h \in Handlers, Lookup(h)
  PROVE  OrderlyInv'
  <1>1. /\ hs[h].pc = "lookup" /\ UNCHANGED books
        /\ UNCHANGED <<mem, pend, open, db, loop, closer, stopper, starter, up, alive>>
    BY DEF Lookup, HandlerAt, maps, life
  <1>2. PICK p \in Positions : p = ex[hs[h].o].p /\ hs[h].p = p
    BY <1>1, AboutIt
  <1>3. \/ Finish(h)
        \/ /\ rec' = rec /\ db[p].st # "none"
           /\ hs' = [hs EXCEPT ![h].pc = "restore", ![h].copy = db[p]]
    BY <1>2 DEF Lookup
  <1>4. CASE Finish(h)
    BY <1>1, <1>4, OrderlyFinish
  <1>5. CASE /\ rec' = rec /\ db[p].st # "none"
             /\ hs' = [hs EXCEPT ![h].pc = "restore", ![h].copy = db[p]]
    <2>1. /\ hs'[h].pc = "restore" /\ hs'[h].copy = db[p] /\ hs'[h].o = hs[h].o
          /\ \A g \in Handlers \ {h} : hs'[g] = hs[g]
      BY <1>5 DEF Step, CoreInv, Types, HandlerType
    <2> QED
      BY <1>1, <1>2, <1>5, <2>1, OrderlyMoves
  <1> QED
    BY <1>3, <1>4, <1>5

LEMMA OrderlyRestoreToMemory ==
  ASSUME OrderlyInv, Step, NEW h \in Handlers, RestoreToMemory(h)
  PROVE  OrderlyInv'
  <1>1. hs[h].pc = "restore"
    BY DEF RestoreToMemory, HandlerAt
  <1>2. PICK p \in Positions :
          /\ About(h, p) /\ OrderlyAt(p) /\ hs[h].p = p /\ p \notin starter.todo
          /\ ex'[hs[h].o].p = p
    BY <1>1, AboutIt
  <1> PICK new : new = hs[h].copy
    OBVIOUS
  <1>3. /\ mem' = [mem EXCEPT ![p] = new]
        /\ pend' = IF new.st = "pending" THEN pend \cup {p} ELSE pend
        /\ open' = IF new.st = "pending" THEN open ELSE open \cup {p}
        /\ hs' = [hs EXCEPT ![h].pc = "apply", ![h].copy = NoPosition]
        /\ UNCHANGED books
        /\ UNCHANGED <<db, loop, closer, stopper, starter, up, alive, rec>>
    BY <1>2 DEF RestoreToMemory, life
  <1>4. /\ hs'[h].pc = "apply" /\ hs'[h].o = hs[h].o
        /\ \A g \in Handlers \ {h} : hs'[g] = hs[g]
    BY <1>3 DEF Step, CoreInv, Types, HandlerType
  <1>5. mem'[p] = new /\ \A q \in Positions \ {p} : mem'[q] = mem[q]
    BY <1>3 DEF Step, CoreInv, Types
  <1>6. Exclusive'
    BY <1>1, <1>3, <1>4, HandlerExclusive
  <1>7. OldOrders /\ BooksMove /\ Fills' = Fills
    BY <1>3, BooksSame DEF Step
  <1>8. \A q \in Positions, e \in Orders :
             ex'[e].p = q /\ ex'[e].side = "sell" => Sells(e, q)
    BY <1>7, SellsSame DEF Step
  <1>9. \A q \in Positions \ {p} : SameAt(q)
    <2>1. \A g \in Handlers : hs'[g] = hs[g] \/ hs'[g].pc = "idle" \/ ex'[hs'[g].o].p = p
      BY <1>2, <1>4
    <2>2. pend' \subseteq pend \cup {p} /\ open' \subseteq open \cup {p}
      BY <1>3
    <2>3. \A q \in Positions \ {p} : /\ mem'[q] = mem[q] /\ db'[q] = db[q]
                                     /\ closer'[q] # "idle" => closer[q] # "idle"
      BY <1>3, <1>5
    <2>4. starter'.todo \subseteq starter.todo /\ loop' = loop
      BY <1>3
    <2> QED
      BY <1>7, <1>8, <2>1, <2>2, <2>3, <2>4, SameElse
  <1>10. (h = p \/ h = Ws) /\ p # Ws /\ p \in Handlers /\ Ws \in Handlers
    BY <1>2, HandlerOf
  <1>11. \/ hs'[p] = hs[p]
         \/ hs'[p].o = hs[p].o /\ hs[p].pc \in {"find", "lookup", "restore", "apply"}
    BY <1>1, <1>4, <1>10
  <1>12. new.st \in {"pending", "open", "selling"}
    BY <1>1, HandlerFacts DEF HandlerOk, Step
  <1>13. \A g \in Handlers \ {h} : About(g, p) /\ hs[g].pc = "restore"
                                      => hs[g].copy.st # "pending"
    BY <1>1, <1>2, NoOtherRestore
  <1>14. CASE new.st = "pending"
    <2>1. /\ mem[p].st = "pending" /\ db[p].st \in {"pending", "none"}
          /\ \A e \in Orders : ~Sells(e, p)
      BY <1>1, <1>2, <1>14 DEF OrderlyAt, CopiesAt, CopyFits
    <2>2. /\ p \notin open /\ closer[p] = "idle"
          /\ \A g \in Handlers : About(g, p) =>
               /\ hs[g].pc # "sell"
               /\ hs[g].pc = "restore" => hs[g].copy.st = "pending"
      BY <1>2, <2>1, PendingFacts
    <2>3. \A e \in Orders : ~Sells(e, p)'
      BY <1>8, <2>1 DEF Sells
    <2>4. \A g \in Handlers : About(g, p)' =>
               /\ hs'[g].pc # "sell"
               /\ hs'[g].pc = "restore" => hs'[g].copy.st = "pending"
      BY <1>4, <2>2, AboutKept
    <2>5. OnlyAt(p)'
      <3> SUFFICES ASSUME Taken(p)'
                   PROVE  OnlyAt(p)'
        BY DEF OnlyAt
      <3>1. Taken(p)
        BY <1>11, TakenNext
      <3>2. h = p /\ hs[p].pc = "restore"
        BY <1>1, <1>2, <1>10, <3>1, WsTaken
      <3>3. ~About(Ws, p)
        BY <1>2, <3>1, <3>2, WsTaken
      <3>4. ~About(Ws, p)'
        BY <1>4, <1>10, <3>2, <3>3, AboutKept
      <3>5. /\ hs[p].o \notin Fills /\ ex[hs[p].o].st = "filled"
            /\ mem[p].entry = hs[p].o /\ hs[p].copy = mem[p]
        BY <1>2, <3>1, <3>2 DEF OrderlyAt, OnlyAt
      <3>6. mem'[p].entry = hs[p].o
        BY <1>5, <3>2, <3>5
      <3>7. ex'[hs[p].o].st = "filled"
        BY <1>3, <3>5 DEF books
      <3> QED
        BY <1>4, <1>5, <1>7, <1>14, <2>3, <3>2, <3>4, <3>5, <3>6, <3>7 DEF OnlyAt
    <2>6. OrderlyAt(p)'
      BY <1>2, <1>3, <1>5, <1>14, <2>1, <2>2, <2>3, <2>4, <2>5, PendingAt
    <2> QED
      BY <1>6, <1>9, <2>6, OrderlyOne
  <1>15. CASE new.st # "pending"
    <2>1. mem[p].st \in Late /\ db[p].st \in Late \cup {"none"}
      BY <1>1, <1>2, <1>15 DEF OrderlyAt, CopiesAt, CopyFits
    <2>2. new.st \in Late
      BY <1>12, <1>15 DEF Late
    <2>3. p \notin pend
      BY <1>2, <2>1, LateFacts
    <2>4. \A g \in Handlers : hs'[g] = hs[g] \/ hs'[g].pc # "restore"
                              \/ hs'[g].copy.st # "pending"
      BY <1>4
    <2>5. OrderlyAt(p)'
      BY <1>2, <1>3, <1>5, <1>11, <1>15, <2>1, <2>2, <2>3, <2>4, LateKept
    <2> QED
      BY <1>6, <1>9, <2>5, OrderlyOne
  <1> QED
    BY <1>14, <1>15

(* A handler that opens or closes its position.                            *)
LEMMA OrderlyWrites ==
  ASSUME OrderlyInv, Step, NEW h \in Handlers, hs[h].pc = "apply",
         NEW st \in {"open", "closed"},
         NEW p \in Positions, p = hs[h].p, Track(p, [mem[p] EXCEPT !.st = st]),
         Finish(h) \/ Move(h, "sell", p) \/ Move(h, "book", p),
         open' \subseteq open \cup {p},
         pend' = IF mem[p].st = "pending" THEN pend \ {p} ELSE pend,
         UNCHANGED books, UNCHANGED <<loop, closer, stopper, starter, up, alive>>
  PROVE  OrderlyInv'
  <1>1. /\ About(h, p) /\ OrderlyAt(p) /\ p \notin starter.todo
        /\ ex'[hs[h].o].p = p
    BY AboutIt
  <1>2. /\ hs'[h].pc \in {"idle", "sell", "book"}
        /\ hs'[h].pc # "idle" => hs'[h].o = hs[h].o
        /\ \A g \in Handlers \ {h} : hs'[g] = hs[g]
    BY Finished, Moved DEF Step
  <1>3. /\ mem'[p].st = st /\ db'[p].st = st
        /\ \A q \in Positions \ {p} : mem'[q] = mem[q] /\ db'[q] = db[q]
    BY DEF Track, Step, CoreInv, Types, PositionType
  <1>4. Exclusive'
    BY <1>2, HandlerExclusive
  <1>5. OldOrders /\ BooksMove /\ Fills' = Fills
    BY BooksSame DEF Step
  <1>6. \A q \in Positions, e \in Orders :
             ex'[e].p = q /\ ex'[e].side = "sell" => Sells(e, q)
    BY <1>5, SellsSame DEF Step
  <1>7. \A q \in Positions \ {p} : SameAt(q)
    BY <1>1, <1>2, <1>3, <1>5, <1>6, SameElse
  <1>8. p \notin pend'
    BY <1>1 DEF OrderlyAt, AgreeAt
  <1>9. (h = p \/ h = Ws) /\ p # Ws /\ p \in Handlers /\ Ws \in Handlers
    BY <1>1, HandlerOf
  <1>10. ~Taken(p)'
    <2>1. CASE h = p
      BY <1>2, <2>1 DEF Taken
    <2>2. CASE h = Ws
      <3>1. ~Taken(p)
        BY <1>1, <2>2, WsTaken
      <3>2. hs'[p] = hs[p]
        BY <1>2, <1>9, <2>2
      <3> QED
        BY <3>1, <3>2, TakenNext
    <2> QED
      BY <1>9, <2>1, <2>2
  <1>11. \A g \in Handlers : About(g, p)' /\ hs'[g].pc = "restore"
                               => hs'[g].copy.st # "pending"
    <2> SUFFICES ASSUME NEW g \in Handlers, About(g, p)', hs'[g].pc = "restore"
                 PROVE  hs'[g].copy.st # "pending"
      OBVIOUS
    <2>1. g # h /\ hs'[g] = hs[g]
      BY <1>2
    <2>2. About(g, p)
      BY <2>1, AboutKept
    <2> QED
      BY <1>1, <2>1, <2>2, NoOtherRestore
  <1>12. st \in Late
    BY DEF Late
  <1>13. OrderlyAt(p)'
    BY <1>1, <1>3, <1>8, <1>10, <1>11, <1>12, LateAt
  <1> QED
    BY <1>4, <1>7, <1>13, OrderlyOne

LEMMA OrderlyApply ==
  ASSUME OrderlyInv, Step, NEW h \in Handlers, ApplyBuy(h) \/ ApplySell(h)
  PROVE  OrderlyInv'
  <1>1. hs[h].pc = "apply"
    BY DEF ApplyBuy, ApplySell, HandlerAt
  <1>2. PICK p \in Positions :
          /\ p = ex[hs[h].o].p /\ OrderlyAt(p) /\ hs[h].p = p /\ mem[p].st # "none"
    BY <1>1, AboutIt
  <1>3. CASE ApplyBuy(h)
    <2>1. /\ pend' = IF mem[p].st = "pending" THEN pend \ {p} ELSE pend
          /\ open' \subseteq open \cup {p}
          /\ Track(p, [mem[p] EXCEPT !.st = "open"])
          /\ Finish(h) \/ Move(h, "sell", p)
          /\ UNCHANGED books /\ UNCHANGED <<loop, closer, stopper, starter, up, alive>>
      BY <1>2, <1>3 DEF ApplyBuy, life
    <2> QED
      BY <1>1, <1>2, <2>1, OrderlyWrites
  <1>4. CASE ApplySell(h)
    <2>1. /\ pend' = pend /\ open' = open
          /\ Track(p, [mem[p] EXCEPT !.st = "closed"])
          /\ Move(h, "book", p)
          /\ UNCHANGED books /\ UNCHANGED <<loop, closer, stopper, starter, up, alive>>
          /\ ex[hs[h].o].side = "sell"
      BY <1>2, <1>4 DEF ApplySell, life, maps
    <2>2. hs[h].o \in Orders
      BY <1>1, HandlerFacts DEF Step
    <2>3. mem[p].st # "pending"
      BY <1>2, <2>1, <2>2 DEF OrderlyAt, AgreeAt, Sells
    <2> QED
      BY <1>1, <1>2, <2>1, <2>3, OrderlyWrites
  <1> QED
    BY <1>3, <1>4

LEMMA OrderlyBookSell ==
  ASSUME OrderlyInv, Step, NEW h \in Handlers, BookSell(h)
  PROVE  OrderlyInv'
  <1>1. /\ hs[h].pc = "book" /\ Finish(h)
        /\ UNCHANGED <<mem, pend, db, loop, stopper, starter, up, alive>>
        /\ UNCHANGED books /\ open' \subseteq open /\ closer' = closer
    BY DEF BookSell, Book, HandlerAt, life
  <1> QED
    BY <1>1, OrderlyFinish

LEMMA OrderlySell ==
  ASSUME OrderlyInv, Step, NEW h \in Handlers, Sell(h)
  PROVE  OrderlyInv'
  <1>1. hs[h].pc = "sell" /\ Finish(h)
    BY DEF Sell, HandlerAt
  <1>2. PICK p \in Positions :
          /\ p = ex[hs[h].o].p /\ OrderlyAt(p) /\ hs[h].p = p /\ About(h, p)
          /\ p \notin starter.todo
    BY <1>1, AboutIt
  <1>3. mem[p].st \in Late
    BY <1>1, <1>2 DEF OrderlyAt, CopiesAt, CopyFits
  <1>4. UNCHANGED <<pend, open, loop, stopper, starter, up, alive>>
    BY DEF Sell, maps, life
  <1>5. /\ \A g \in Handlers \ {h} : hs'[g] = hs[g]
        /\ hs'[h].pc = "idle"
    BY <1>1, Finished DEF Step
  <1>6. Exclusive'
    BY <1>1, <1>4, <1>5, HandlerExclusive
  <1>7. Held(p)
    BY <1>1, <1>2 DEF Held, Handled
  <1>8. \/ /\ Sellable(p) /\ Accept("sell", "limit", p, mem[p].pair, mem[p].amt)
           /\ \/ UNCHANGED <<mem, db>>
              \/ Track(p, [mem[p] EXCEPT !.st = "selling", !.exit = NewOrder])
           /\ closer' = closer
        \/ /\ UNCHANGED books /\ UNCHANGED <<mem, db>>
           /\ closer' = [closer EXCEPT ![p] = "check"] \/ closer' = closer
    BY <1>2 DEF Sell
  <1>9. CASE /\ Sellable(p) /\ Accept("sell", "limit", p, mem[p].pair, mem[p].amt)
             /\ \/ UNCHANGED <<mem, db>>
                \/ Track(p, [mem[p] EXCEPT !.st = "selling", !.exit = NewOrder])
             /\ closer' = closer
    BY <1>2, <1>3, <1>4, <1>5, <1>6, <1>7, <1>9, OrderlySale
  <1>10. CASE /\ UNCHANGED books /\ UNCHANGED <<mem, db>>
              /\ closer' = [closer EXCEPT ![p] = "check"] \/ closer' = closer
    <2>1. OldOrders /\ BooksMove /\ Fills' = Fills
      BY <1>10, BooksSame DEF Step
    <2>2. \A q \in Positions, e \in Orders :
               ex'[e].p = q /\ ex'[e].side = "sell" => Sells(e, q)
      BY <2>1, SellsSame DEF Step
    <2>3. \A q \in Positions \ {p} : closer'[q] # "idle" => closer[q] # "idle"
      BY <1>10 DEF Step, CoreInv, Types
    <2>4. \A q \in Positions \ {p} : SameAt(q)
      BY <1>4, <1>5, <1>10, <2>1, <2>2, <2>3, SameElse
    <2>5. db[p].st \in Late \cup {"none"} /\ p \notin pend
      BY <1>2, <1>3, LateFacts
    <2>6. \A g \in Handlers : hs'[g] = hs[g] \/ hs'[g].pc # "restore"
                              \/ hs'[g].copy.st # "pending"
      BY <1>5
    <2>7. hs'[p] = hs[p] \/ hs'[p].pc \in {"idle", "sell", "book"}
      BY <1>5, OwnHandler
    <2>8. OrderlyAt(p)'
      BY <1>2, <1>3, <1>4, <1>10, <2>5, <2>6, <2>7, LateKept
    <2> QED
      BY <1>6, <2>4, <2>8, OrderlyOne
  <1> QED
    BY <1>8, <1>9, <1>10

LEMMA OrderlyCloser ==
  ASSUME OrderlyInv, Step, NEW p \in Positions, CloserStep(p)
  PROVE  OrderlyInv'
  <1>1. /\ closer[p] # "idle" /\ UNCHANGED books
        /\ UNCHANGED <<mem, pend, loop, hs, stopper, starter, up, alive>>
        /\ open' \subseteq open
        /\ \A q \in Positions \ {p} : closer'[q] = closer[q]
        /\ db' = db \/ db' = [db EXCEPT ![p].st = "closed"]
    BY DEF CloserStep, CloserCheck, CloserSave, CloserBook, Book, maps, life,
           Step, CoreInv, Types
  <1>2. OrderlyAt(p)
    BY DEF OrderlyInv
  <1>3. mem[p].st \in Late /\ p \notin starter.todo
    BY <1>1, <1>2 DEF OrderlyAt, AgreeAt, RestoreAt
  <1>4. db[p].st \in Late \cup {"none"} /\ p \notin pend
    BY <1>2, <1>3, LateFacts
  <1>5. /\ db'[p].st \in Late \cup {"none"}
        /\ \A q \in Positions \ {p} : db'[q] = db[q]
    <2>1. CASE db' = db
      BY <1>4, <2>1
    <2>2. CASE db' = [db EXCEPT ![p].st = "closed"]
      <3>1. db'[p].st = "closed" /\ \A q \in Positions \ {p} : db'[q] = db[q]
        BY <2>2 DEF Step, CoreInv, Types, PositionType
      <3> QED
        BY <3>1 DEF Late
    <2> QED
      BY <1>1, <2>1, <2>2
  <1>6. Exclusive'
    BY <1>1, ExclusiveSame DEF OrderlyInv
  <1>7. OldOrders /\ BooksMove /\ Fills' = Fills
    BY <1>1, BooksSame DEF Step
  <1>8. \A q \in Positions, e \in Orders :
             ex'[e].p = q /\ ex'[e].side = "sell" => Sells(e, q)
    BY <1>7, SellsSame DEF Step
  <1>9. \A q \in Positions \ {p} : SameAt(q)
    BY <1>1, <1>5, <1>7, <1>8, SameElse
  <1>10. OrderlyAt(p)'
    BY <1>1, <1>2, <1>3, <1>4, <1>5, LateKept, OwnHandler
  <1> QED
    BY <1>6, <1>9, <1>10, OrderlyOne

LEMMA OrderlyHandler ==
  ASSUME OrderlyInv, Step, NEW h \in Handlers, HandlerStep(h)
  PROVE  OrderlyInv'
  BY OrderlyFind, OrderlyLookup, OrderlyRestoreToMemory, OrderlyApply, OrderlySell,
     OrderlyBookSell DEF HandlerStep

-----------------------------------------------------------------------------
(* StartBot and the process.                                               *)

LEMMA RestoringFacts ==
  ASSUME OrderlyInv, Step, NEW p \in Positions, Restoring(p), Restored(p),
         UNCHANGED <<loop, stopper, up, alive>>, hs'[Ws] = hs[Ws]
  PROVE  /\ Exclusive' /\ OrderlyAt(p) /\ Held(p) /\ Full(mem[p], p)
         /\ p \notin starter'.todo /\ starter'.todo \subseteq starter.todo
         /\ p \notin pend \cup open /\ closer[p] = "idle" /\ loop.pc = "idle"
         /\ \A h \in Handlers : ~About(h, p)
         /\ mem[p] = db[p] /\ \A o \in Fills : ex[o].p # p
         /\ ~Taken(p)
  <1>1. /\ starter'.todo = starter.todo \ {p} /\ starter'.pc = starter.pc /\ Held(p)
    BY RestoredOne DEF Step
  <1>2. Full(mem[p], p)
    BY <1>1, HeldFacts DEF Step
  <1>3. starter.pc = "restore" /\ p \in starter.todo
    BY DEF Restoring
  <1>4. Exclusive'
    BY <1>1, <1>3 DEF OrderlyInv, Exclusive
  <1>5. OrderlyAt(p)
    BY DEF OrderlyInv
  <1>6. /\ p \notin pend \cup open /\ closer[p] = "idle"
        /\ \A h \in Handlers : ~About(h, p)
        /\ mem[p] = db[p] /\ \A o \in Fills : ex[o].p # p
    BY <1>3, <1>5 DEF OrderlyAt, RestoreAt
  <1>7. loop.pc = "idle"
    BY <1>3 DEF OrderlyInv, Exclusive
  <1>8. ~Taken(p)
    <2>1. HandlerOk(p)
      BY OwnHandler DEF Step, CoreInv, Handling
    <2> QED
      BY <1>6, <2>1, OwnHandler DEF Taken, About, HandlerOk
  <1> QED
    BY <1>1, <1>2, <1>4, <1>5, <1>6, <1>7, <1>8

(* An order StartBot found filled.                                         *)
LEMMA OrderlyFillBehind ==
  ASSUME OrderlyInv, Step, NEW p \in Positions, Restoring(p), Restored(p),
         NEW o \in Orders, FillBehind(p, o), ex[o].p = p, ex[o].st = "filled",
         \/ mem[p].st = "pending" /\ o = mem[p].entry
         \/ mem[p].st \in Late /\ ex[o].side # "buy",
         UNCHANGED <<ex, coins, wire, mem, pend, open, db, loop, closer, stopper, up, alive>>
  PROVE  OrderlyInv'
  <1>1. /\ hs' = [hs EXCEPT ![p] = [IdleHandler EXCEPT !.pc = "find", !.o = o]]
        /\ UNCHANGED <<ex, coins, wire>>
    BY DEF FillBehind
  <1>2. /\ hs'[p].pc = "find" /\ hs'[p].o = o
        /\ \A h \in Handlers \ {p} : hs'[h] = hs[h]
    BY <1>1, OwnHandler DEF Step, CoreInv, Types, IdleHandler
  <1>3. /\ Exclusive' /\ OrderlyAt(p) /\ Held(p) /\ Full(mem[p], p)
        /\ p \notin starter'.todo /\ starter'.todo \subseteq starter.todo
        /\ p \notin pend \cup open /\ closer[p] = "idle" /\ loop.pc = "idle"
        /\ \A h \in Handlers : ~About(h, p)
        /\ mem[p] = db[p] /\ \A e \in Fills : ex[e].p # p
    BY <1>2, OwnHandler, RestoringFacts
  <1>4. /\ OldOrders /\ BooksMove
        /\ \A q \in Orders : /\ ex'[q].st = ex[q].st /\ ex'[q].p = ex[q].p
                             /\ ex'[q].side = ex[q].side
    BY <1>1, BooksSame DEF Step, books
  <1>5. Fills' = Fills
    BY <1>1 DEF Fills
  <1>6. \A q \in Positions, e \in Orders :
             ex'[e].p = q /\ ex'[e].side = "sell" => Sells(e, q)
    BY <1>4 DEF Sells
  <1>7. \A q \in Positions \ {p} : SameAt(q)
    BY <1>2, <1>3, <1>4, <1>5, <1>6, SameElse
  <1>8. CASE mem[p].st \in Late
    <2>1. ex[o].side # "buy"
      BY <1>8 DEF Late
    <2>2. ex'[hs'[p].o].side # "buy"
      BY <1>2, <1>4, <2>1
    <2>3. \A h \in Handlers : hs'[h] = hs[h] \/ hs'[h].pc # "restore"
                              \/ hs'[h].copy.st # "pending"
      BY <1>2
    <2>4. db[p].st \in Late \cup {"none"}
      BY <1>3, <1>8
    <2>5. OrderlyAt(p)'
      BY <1>3, <1>8, <2>2, <2>3, <2>4, LateKept
    <2> QED
      BY <1>3, <1>7, <2>5, OrderlyOne
  <1>9. CASE mem[p].st = "pending" /\ o = mem[p].entry
    <2>1. \A e \in Orders : ~Sells(e, p)
      BY <1>3, <1>9, PendingFacts
    <2>2. \A e \in Orders : ~Sells(e, p)'
      BY <1>6, <2>1 DEF Sells
    <2>3. ~About(Ws, p)'
      BY <1>2, <1>3, AboutKept, OwnHandler
    <2>4. o \notin Fills' /\ ex'[o].st = "filled"
      BY <1>3, <1>4, <1>5
    <2>5. OnlyAt(p)'
      BY <1>2, <1>3, <1>9, <2>2, <2>3, <2>4 DEF OnlyAt
    <2>6. \A h \in Handlers : About(h, p)' => hs'[h].pc # "sell" /\ hs'[h].pc # "restore"
      BY <1>2, <1>3, AboutKept
    <2>7. OrderlyAt(p)'
      BY <1>3, <1>9, <2>2, <2>5, <2>6, PendingAt
    <2> QED
      BY <1>3, <1>7, <2>7, OrderlyOne
  <1> QED
    BY <1>8, <1>9

LEMMA EntryAnswered ==
  ASSUME Step, NEW p \in Positions, Full(mem[p], p)
  PROVE  mem[p].entry \in Orders /\ ex[mem[p].entry].p = p
         /\ (mem[p].exit # None => mem[p].exit \in Orders /\ ex[mem[p].exit].p = p
                                     /\ ex[mem[p].exit].side # "buy")
  BY DEF Full, Buys, Sells

LEMMA OrderlyRestorePending ==
  ASSUME OrderlyInv, Step, NEW p \in Positions, RestorePending(p)
  PROVE  OrderlyInv'
  <1>1. /\ Restoring(p) /\ Restored(p) /\ mem[p].st = "pending"
        /\ UNCHANGED <<books, mem, open, loop, closer, stopper, up, alive>>
    BY DEF RestorePending, life
  <1>2. Full(mem[p], p)
    BY <1>1, RestoredOne, HeldFacts DEF Step
  <1>3. \/ /\ UNCHANGED books /\ hs' = hs /\ pend' = pend \cup {p} /\ db' = db
        \/ /\ FillBehind(p, mem[p].entry) /\ pend' = pend /\ db' = db
           /\ ex[mem[p].entry].st = "filled"
        \/ /\ UNCHANGED books /\ hs' = hs /\ pend' = pend
           /\ db' = [db EXCEPT ![p] = NoPosition]
    <2> DEFINE e == mem[p].entry
    <2>1. PICK answer \in Answer(e) :
           CASE answer \in {"open", "error"} ->
                  /\ pend' = pend \cup {p}
                  /\ UNCHANGED <<bal, db, rec, hs, history>>
             [] answer = "filled" ->
                  /\ FillBehind(p, e)
                  /\ UNCHANGED <<pend, bal, db, rec, ended, abandoned>>
             [] answer = "cancelled" ->
                  /\ bal' = bal + mem[p].amt
                  /\ db' = [db EXCEPT ![p] = NoPosition]
                  /\ rec' = Marked(rec, mem[p].first, "cancelled")
                  /\ ended' = [ended EXCEPT ![p] = @ + 1]
                  /\ UNCHANGED <<pend, hs, told>>
                  /\ Abandon(p, e)
      BY DEF RestorePending
    <2>2. e \in Orders /\ ex[e].st # "none"
      BY <1>2, KnownOrder DEF Full, Buys, Step, CoreInv
    <2>3. ex[e].st \in {"open", "filled", "cancelled"}
      BY <2>2 DEF Step, CoreInv, Types, OrderType
    <2>4. /\ answer \in {"open", "error", "filled", "cancelled"}
          /\ answer = "filled" => ex[e].st = "filled"
      BY <2>1, <2>3 DEF Answer
    <2> HIDE DEF e
    <2>5. CASE answer \in {"open", "error"}
      BY <1>1, <2>1, <2>5
    <2>6. CASE answer = "filled"
      <3>1. FillBehind(p, e) /\ UNCHANGED <<pend, db>>
        BY <2>1, <2>6
      <3> QED
        BY <2>4, <2>6, <3>1 DEF e
    <2>7. CASE answer = "cancelled"
      <3>1. /\ UNCHANGED books /\ UNCHANGED <<pend, hs>>
            /\ db' = [db EXCEPT ![p] = NoPosition]
        BY <1>1, <2>1, <2>7
      <3> QED
        BY <3>1
    <2> QED
      BY <2>4, <2>5, <2>6, <2>7
  <1>4. CASE FillBehind(p, mem[p].entry) /\ ex[mem[p].entry].st = "filled"
             /\ pend' = pend /\ db' = db
    <2>1. mem[p].entry \in Orders /\ ex[mem[p].entry].p = p
      BY <1>2, EntryAnswered
    <2> QED
      BY <1>1, <1>4, <2>1, OrderlyFillBehind DEF books
  <1>5. CASE /\ UNCHANGED books /\ hs' = hs /\ pend' \subseteq pend \cup {p}
             /\ db' = db \/ db' = [db EXCEPT ![p] = NoPosition]
    <2>1. /\ Exclusive' /\ OrderlyAt(p)
          /\ p \notin starter'.todo /\ starter'.todo \subseteq starter.todo
          /\ p \notin pend \cup open /\ closer[p] = "idle" /\ loop.pc = "idle"
          /\ \A h \in Handlers : ~About(h, p)
          /\ mem[p] = db[p] /\ ~Taken(p)
      BY <1>1, <1>5, RestoringFacts
    <2>2. OldOrders /\ BooksMove /\ Fills' = Fills
      BY <1>5, BooksSame DEF Step
    <2>3. \A q \in Positions, e \in Orders :
               ex'[e].p = q /\ ex'[e].side = "sell" => Sells(e, q)
      BY <2>2, SellsSame DEF Step
    <2>4. /\ db'[p].st \in {"pending", "none"}
          /\ \A q \in Positions \ {p} : db'[q] = db[q]
      BY <1>1, <1>5, <2>1, NoPositionType DEF Step, CoreInv, Types
    <2>5. \A q \in Positions \ {p} : SameAt(q)
      BY <1>1, <1>5, <2>1, <2>2, <2>3, <2>4, SameElse
    <2>6. \A e \in Orders : ~Sells(e, p)
      BY <1>1, <2>1, PendingFacts
    <2>7. \A e \in Orders : ~Sells(e, p)'
      BY <2>3, <2>6 DEF Sells
    <2>8. \A h \in Handlers : ~About(h, p)'
      BY <1>5, <2>1, AboutKept
    <2>9. OnlyAt(p)'
      <3>1. ~Taken(p)'
        BY <1>5, <2>1, TakenNext
      <3> QED
        BY <3>1 DEF OnlyAt
    <2>10. OrderlyAt(p)'
      BY <1>1, <2>1, <2>4, <2>7, <2>8, <2>9, PendingAt
    <2> QED
      BY <2>1, <2>5, <2>10, OrderlyOne
  <1> QED
    BY <1>3, <1>4, <1>5

(* An opened position that StartBot puts back, and may sell again.         *)
LEMMA OrderlyReopened ==
  ASSUME OrderlyInv, Step, NEW p \in Positions, Restoring(p), Restored(p),
         mem[p].st \in Late, open' \subseteq open \cup {p},
         SellRestored(p) \/ Reopen(p) \/ UNCHANGED <<books, mem, db, rec, closer>>,
         UNCHANGED <<pend, loop, hs, stopper, up, alive>>
  PROVE  OrderlyInv'
  <1>1. /\ Exclusive' /\ OrderlyAt(p) /\ Held(p)
        /\ p \notin starter'.todo /\ starter'.todo \subseteq starter.todo
        /\ p \notin pend \cup open /\ mem[p] = db[p]
    BY RestoringFacts
  <1>2. \/ /\ Sellable(p) /\ Accept("sell", "limit", p, mem[p].pair, mem[p].amt)
           /\ Track(p, [mem[p] EXCEPT !.st = "selling", !.exit = NewOrder])
           /\ closer' = closer
        \/ /\ UNCHANGED books
           /\ closer' = [closer EXCEPT ![p] = "check"] \/ closer' = closer
           /\ UNCHANGED <<mem, db>> \/ Track(p, [mem[p] EXCEPT !.st = "open"])
    BY DEF SellRestored, Reopen, SellAccepted
  <1>3. CASE /\ Sellable(p) /\ Accept("sell", "limit", p, mem[p].pair, mem[p].amt)
             /\ Track(p, [mem[p] EXCEPT !.st = "selling", !.exit = NewOrder])
             /\ closer' = closer
    BY <1>1, <1>3, OrderlySale
  <1>4. CASE /\ UNCHANGED books
             /\ closer' = [closer EXCEPT ![p] = "check"] \/ closer' = closer
             /\ UNCHANGED <<mem, db>> \/ Track(p, [mem[p] EXCEPT !.st = "open"])
    <2>1. OldOrders /\ BooksMove /\ Fills' = Fills
      BY <1>4, BooksSame DEF Step
    <2>2. \A q \in Positions, e \in Orders :
               ex'[e].p = q /\ ex'[e].side = "sell" => Sells(e, q)
      BY <2>1, SellsSame DEF Step
    <2>3. \A q \in Positions \ {p} : /\ mem'[q] = mem[q] /\ db'[q] = db[q]
                                     /\ closer'[q] # "idle" => closer[q] # "idle"
      BY <1>4 DEF Step, CoreInv, Types, Track
    <2>4. \A q \in Positions \ {p} : SameAt(q)
      BY <1>1, <2>1, <2>2, <2>3, SameElse
    <2>5. mem'[p].st \in Late /\ db'[p].st \in Late \cup {"none"}
      <3>1. CASE UNCHANGED <<mem, db>>
        BY <1>1, <3>1
      <3>2. CASE Track(p, [mem[p] EXCEPT !.st = "open"])
        <4>1. mem'[p].st = "open" /\ db'[p].st = "open"
          BY <3>2 DEF Track, Step, CoreInv, Types, PositionType
        <4> QED
          BY <4>1 DEF Late
      <3> QED
        BY <1>4, <3>1, <3>2
    <2>6. OrderlyAt(p)'
      BY <1>1, <2>5, LateKept
    <2> QED
      BY <1>1, <2>4, <2>6, OrderlyOne
  <1> QED
    BY <1>2, <1>3, <1>4

LEMMA OrderlyRestoreOpen ==
  ASSUME OrderlyInv, Step, NEW p \in Positions, RestoreOpen(p)
  PROVE  OrderlyInv'
  <1>1. /\ Restoring(p) /\ Restored(p) /\ mem[p].st \in Late
        /\ open' \subseteq open \cup {p}
        /\ SellRestored(p) \/ Reopen(p) \/ UNCHANGED <<books, mem, db, rec, closer>>
        /\ UNCHANGED <<pend, loop, hs, stopper, up, alive>>
    BY DEF RestoreOpen, Late, life
  <1> QED
    BY <1>1, OrderlyReopened

LEMMA OrderlyRestoreSelling ==
  ASSUME OrderlyInv, Step, NEW p \in Positions, RestoreSelling(p)
  PROVE  OrderlyInv'
  <1>1. /\ Restoring(p) /\ Restored(p) /\ mem[p].st = "selling" /\ mem[p].st \in Late
        /\ UNCHANGED <<pend, loop, stopper, up, alive>>
    BY DEF RestoreSelling, Late, life
  <1>2. \/ /\ FillBehind(p, mem[p].exit) /\ ex[mem[p].exit].st = "filled"
           /\ UNCHANGED <<books, mem, open, db, closer>>
        \/ /\ open' \subseteq open \cup {p} /\ hs' = hs
           /\ SellRestored(p) \/ Reopen(p) \/ UNCHANGED <<books, mem, db, rec, closer>>
    <2> DEFINE x == mem[p].exit
    <2>1. PICK answer \in Answer(x) :
           CASE answer = "filled" ->
                  /\ FillBehind(p, x)
                  /\ UNCHANGED <<books, mem, open, db, rec, closer>>
             [] answer = "open" ->
                  /\ open' = open \cup {p}
                  /\ UNCHANGED <<books, mem, db, rec, closer, hs, told>>
             [] answer \in {"cancelled", "error"} ->
                  /\ open' = open \cup {p}
                  /\ IF target = "limit" THEN SellRestored(p) ELSE Reopen(p)
                  /\ UNCHANGED <<hs, told>>
      BY DEF RestoreSelling
    <2>2. x \in Orders /\ ex[x].st # "none"
      <3>1. Full(mem[p], p)
        BY <1>1, RestoredOne, HeldFacts DEF Step
      <3> QED
        BY <1>1, <3>1, KnownOrder DEF Full, Sells, Step, CoreInv
    <2>3. ex[x].st \in {"open", "filled", "cancelled"}
      BY <2>2 DEF Step, CoreInv, Types, OrderType
    <2>4. /\ answer \in {"open", "error", "filled", "cancelled"}
          /\ answer = "filled" => ex[x].st = "filled"
      BY <2>1, <2>3 DEF Answer
    <2> HIDE DEF x
    <2>5. CASE answer = "filled"
      <3>1. FillBehind(p, x) /\ UNCHANGED <<books, mem, open, db, rec, closer>>
        BY <2>1, <2>5
      <3> QED
        BY <2>4, <2>5, <3>1 DEF x
    <2>6. CASE answer # "filled"
      <3>1. /\ open' \subseteq open \cup {p} /\ hs' = hs
            /\ SellRestored(p) \/ Reopen(p) \/ UNCHANGED <<books, mem, db, rec, closer>>
        BY <2>1, <2>4, <2>6
      <3> QED
        BY <3>1
    <2> QED
      BY <2>5, <2>6
  <1>3. CASE /\ FillBehind(p, mem[p].exit) /\ ex[mem[p].exit].st = "filled"
             /\ UNCHANGED <<books, mem, open, db, closer>>
    <2>1. Full(mem[p], p)
      BY <1>1, RestoredOne, HeldFacts DEF Step
    <2>2. mem[p].exit # None
      BY <1>1, <2>1 DEF Full
    <2>3. /\ mem[p].exit \in Orders /\ ex[mem[p].exit].p = p
          /\ ex[mem[p].exit].side # "buy"
      BY <2>1, <2>2, EntryAnswered
    <2> QED
      BY <1>1, <1>3, <2>3, OrderlyFillBehind DEF books
  <1>4. CASE /\ open' \subseteq open \cup {p} /\ hs' = hs
             /\ SellRestored(p) \/ Reopen(p) \/ UNCHANGED <<books, mem, db, rec, closer>>
    BY <1>1, <1>4, OrderlyReopened
  <1> QED
    BY <1>2, <1>3, <1>4

LEMMA OrderlyStarted ==
  ASSUME OrderlyInv, Step, Started
  PROVE  OrderlyInv'
  <1>1. /\ UNCHANGED books /\ UNCHANGED <<mem, pend, open, db, loop, hs, closer>>
        /\ starter'.pc = "idle" /\ starter'.todo = {}
    BY NothingType DEF Started, maps
  <1>2. Exclusive'
    BY <1>1, StartingOrNot
  <1>3. OldOrders /\ Fills' = Fills
    BY <1>1, BooksSame DEF Step
  <1> QED
    BY <1>1, <1>2, <1>3, OrderlyQuiet

(* Nothing in memory, or what Redis has.                                   *)
LEMMA OrderlyReset ==
  ASSUME OrderlyInv, Step, Exclusive', UNCHANGED <<ex, db>>,
         wire' = <<>>, pend' = {}, open' = {},
         \/ mem' = [p \in Positions |-> NoPosition] /\ starter'.todo = {}
         \/ mem' = db,
         \A h \in Handlers : hs'[h].pc = "idle", \A p \in Positions : closer'[p] = "idle"
  PROVE  OrderlyInv'
  <1> SUFFICES ASSUME NEW p \in Positions
               PROVE  OrderlyAt(p)'
    BY DEF OrderlyInv
  <1>1. \A o \in Orders : Sells(o, p)' => db[p].st # "pending"
    BY DEF Sells, OrderlyInv, OrderlyAt, AgreeAt
  <1>2. mem'[p].st = "none" \/ mem'[p] = db[p]
    BY NoPositionType
  <1>3. AgreeAt(p)'
    BY <1>1, <1>2 DEF AgreeAt, Late
  <1>4. \A h \in Handlers : ~About(h, p)'
    BY DEF About
  <1>5. CopiesAt(p)'
    BY <1>4 DEF CopiesAt, CopyFits
  <1>6. Fills' = {}
    BY DEF Fills
  <1>7. p \in starter'.todo => mem'[p] = db[p]
    OBVIOUS
  <1>8. RestoreAt(p)'
    BY <1>4, <1>6, <1>7 DEF RestoreAt
  <1>9. OnlyAt(p)'
    BY OwnHandler DEF OnlyAt, Taken
  <1> QED
    BY <1>3, <1>5, <1>8, <1>9 DEF OrderlyAt

LEMMA OrderlyCrash ==
  ASSUME OrderlyInv, Step, Crash
  PROVE  OrderlyInv'
  <1>1. /\ UNCHANGED <<ex, db>> /\ wire' = <<>> /\ pend' = {} /\ open' = {}
        /\ mem' = [p \in Positions |-> NoPosition]
        /\ starter'.pc = "idle" /\ starter'.todo = {}
        /\ \A h \in Handlers : hs'[h].pc = "idle"
        /\ \A p \in Positions : closer'[p] = "idle"
    BY NothingType, IdleHandlerType DEF Crash
  <1>2. Exclusive'
    BY <1>1, StartingOrNot
  <1> QED
    BY <1>1, <1>2, OrderlyReset

LEMMA OrderlyStartBot ==
  ASSUME OrderlyInv, Step, StartBot, "late" \notin Enabled
  PROVE  OrderlyInv'
  <1>1. /\ UNCHANGED <<ex, db, loop, hs, closer, stopper, up, alive>>
        /\ wire' = <<>> /\ pend' = {} /\ open' = {} /\ mem' = db
        /\ ~up /\ ~alive /\ Quiet /\ starter'.pc = "restore"
    BY DEF StartBot, books
  <1>2. /\ \A h \in Handlers : hs[h].pc = "idle"
        /\ \A p \in Positions : closer[p] = "idle"
        /\ loop.pc = "idle" /\ stopper.pc = "idle"
    BY <1>1 DEF Quiet, HandlerAt, LoopAt
  <1>3. Exclusive'
    BY <1>1, <1>2 DEF Exclusive, Handlers, Ws
  <1> QED
    BY <1>1, <1>2, <1>3, OrderlyReset

LEMMA OrderlyInit == ASSUME Init PROVE OrderlyInv
  <1>1. /\ \A h \in Handlers : hs[h].pc = "idle"
        /\ \A p \in Positions : closer[p] = "idle" /\ mem[p].st = "none" /\ db[p].st = "none"
        /\ starter.pc = "idle" /\ starter.todo = {} /\ pend = {} /\ open = {}
    BY NothingType, IdleHandlerType, NoPositionType DEF Init
  <1>2. Exclusive
    BY <1>1 DEF Exclusive
  <1>3. ASSUME NEW p \in Positions
        PROVE  OrderlyAt(p)
    <2>1. AgreeAt(p)
      BY <1>1 DEF AgreeAt, Late
    <2>2. CopiesAt(p)
      BY <1>1 DEF CopiesAt, CopyFits, About
    <2>3. RestoreAt(p) /\ OnlyAt(p)
      BY <1>1, OwnHandler DEF RestoreAt, OnlyAt, Taken
    <2> QED
      BY <2>1, <2>2, <2>3 DEF OrderlyAt
  <1> QED
    BY <1>2, <1>3 DEF OrderlyInv

LEMMA OrderlyStutter ==
  ASSUME OrderlyInv, Step, UNCHANGED vars
  PROVE  OrderlyInv'
  <1>1. /\ UNCHANGED books
        /\ UNCHANGED <<mem, pend, open, db, loop, hs, closer, stopper, starter, up, alive>>
    BY DEF vars, maps, routines, life
  <1>2. Exclusive'
    BY <1>1, ExclusiveSame DEF OrderlyInv
  <1>3. OldOrders /\ Fills' = Fills
    BY <1>1, BooksSame DEF Step
  <1> QED
    BY <1>1, <1>2, <1>3, OrderlyQuiet

LEMMA OrderlyNext ==
  ASSUME OrderlyInv, Step, [Next]_vars, "late" \notin Enabled
  PROVE  OrderlyInv'
  <1>1. CASE Exchange
    BY <1>1, OrderlyExchange
  <1>2. CASE Decide
    <2>1. CASE \E c \in Pairs, kind \in {"limit", "market"} :
                  OpenPosition(c, kind) \/ OpenPositionUnnoticed(c, kind)
      BY <2>1, OrderlyOpen, OrderlyOpenUnnoticed
    <2>2. CASE \E p \in Positions : ClosePosition(p) \/ ClosePositionUnnoticed(p)
      BY <2>2, OrderlyClose
    <2>3. CASE \/ \E p \in Positions : FalsePump(p)
               \/ \E p \in Positions, kind \in {"limit", "market"} : PriceMoved(p, kind)
      BY <2>3, OrderlyCheck DEF FalsePump, PriceMoved
    <2> QED
      BY <1>2, <2>1, <2>2, <2>3 DEF Decide
  <1>3. CASE LoopStep
    BY <1>3, OrderlyLoop, OrderlyCancelDelete, OrderlyMoveTrade, OrderlyMoveRefused,
       OrderlyLoopExit DEF LoopStep
  <1>4. CASE WsStep
    BY <1>4, OrderlyTakeFill, OrderlyTakeCancel, OrderlyHandler DEF WsStep, Handlers, Ws
  <1>5. CASE \E p \in Positions : HandlerStep(p) \/ CloserStep(p)
    BY <1>5, OrderlyHandler, OrderlyCloser, OwnHandler
  <1>6. CASE StopStep
    BY <1>6, OrderlyStop DEF StopStep
  <1>7. CASE StartStep
    BY <1>7, OrderlyStarted, OrderlyRestorePending, OrderlyRestoreOpen,
       OrderlyRestoreSelling DEF StartStep
  <1>8. CASE Owner
    BY <1>8, OrderlyStop, OrderlyCrash, OrderlyStartBot DEF Owner
  <1>9. CASE UNCHANGED vars
    BY <1>9, OrderlyStutter
  <1> QED
    BY <1>1, <1>2, <1>3, <1>4, <1>5, <1>6, <1>7, <1>8, <1>9 DEF Next

(* A position in memory is pending or open, never both, however handlers,  *)
(* runBot, StopBot and StartBot interleave, and an open one was bought:    *)
(* for any number of pairs, positions, orders, restarts and crashes, and   *)
(* any mixture of the events but "late", a fill that StartBot finds out    *)
(* about and that is reported to the new instance as well (with it, two    *)
(* handlers can work on one position, and both maps can hold it).          *)
THEOREM PositionsAlways ==
  ASSUME "late" \notin Enabled
  PROVE  Spec => []PositionInv
  <1>1. ASSUME CoreInv, OrderlyInv
        PROVE  PositionInv
    <2>1. pend \cap open = {}
      <3> SUFFICES ASSUME NEW p \in pend, p \in open
                   PROVE  FALSE
        OBVIOUS
      <3>1. p \in Positions
        BY <1>1, UsedPositions DEF CoreInv, Types
      <3> QED
        BY <1>1, <3>1 DEF OrderlyInv, OrderlyAt, AgreeAt, Late
    <2>2. TypeOK
      BY <1>1, <2>1 DEF CoreInv, Types, Books, TypeOK
    <2>3. OpenWasBought
      BY <1>1, UsedPositions DEF CoreInv, Types, LateWasBought, WasBought, Buys,
                                 OpenWasBought
    <2> QED
      BY <2>2, <2>3 DEF PositionInv
  <1>2. Init => CoreInv /\ OrderlyInv
    BY CoreInit, OrderlyInit
  <1>3. CoreInv /\ OrderlyInv /\ [Next]_vars => (CoreInv /\ OrderlyInv)'
    <2> SUFFICES ASSUME CoreInv, OrderlyInv, [Next]_vars
                 PROVE  CoreInv' /\ OrderlyInv'
      OBVIOUS
    <2>1. CoreInv' /\ Keeps
      BY CoreNext
    <2>2. Step
      BY <2>1 DEF Step
    <2> QED
      BY <2>1, <2>2, OrderlyNext
  <1> QED
    BY <1>1, <1>2, <1>3, PTL DEF Spec

-----------------------------------------------------------------------------
(* Sums.                                                                   *)

(* Induction over the natural numbers, stated of a set.                    *)
LEMMA SetInduction ==
  ASSUME NEW S, S \subseteq Nat, 0 \in S, \A n \in S : n + 1 \in S
  PROVE  S = Nat
  <1> DEFINE R == OpToRel(<, Nat)
  <1>1. IsWellFoundedOn(R, Nat)
    BY NatLessThanWellFounded
  <1>2. \A m, n \in Nat : m < n => <<m, n>> \in R
    BY DEF OpToRel
  <1> HIDE DEF R
  <1>3. SUFFICES ASSUME Nat \ S # {} PROVE FALSE
    OBVIOUS
  <1>4. PICK x \in Nat \ S : \A y \in Nat \ S : <<y, x>> \notin R
    BY <1>1, <1>3, WFMin
  <1>5. x # 0 /\ x - 1 \in Nat /\ x = (x - 1) + 1
    BY <1>4
  <1>6. <<x - 1, x>> \in R
    <2>1. x \in Nat /\ x - 1 < x
      BY <1>4, <1>5
    <2> QED
      BY ONLY <2>1, <1>2, <1>5
  <1>7. x - 1 \in S
    BY ONLY <1>4, <1>5, <1>6
  <1> QED
    BY ONLY <1>4, <1>5, <1>7, \A n \in S : n + 1 \in S

(* The sum of the first 0 is 0; one more adds its share.                   *)
LEMMA PrefixSteps ==
  ASSUME NEW k \in Nat, NEW f
  PROVE  /\ Prefix(k, f)[0] = 0
         /\ \A n \in 1 .. k : Prefix(k, f)[n] = Prefix(k, f)[n - 1] + f[n]
  <1> DEFINE Is(s, m) == s = [n \in 0 .. m |-> IF n = 0 THEN 0 ELSE s[n - 1] + f[n]]
             M == {m \in Nat : \E s : Is(s, m)}
  <1>1. 0 \in M
    <2> DEFINE s == [n \in 0 .. 0 |-> 0]
    <2>1. Is(s, 0)
      OBVIOUS
    <2> QED
      BY <2>1
  <1>2. ASSUME NEW m \in M PROVE m + 1 \in M
    <2>1. PICK s : Is(s, m)
      OBVIOUS
    <2> DEFINE t == [n \in 0 .. m + 1 |-> IF n = m + 1 THEN s[m] + f[m + 1] ELSE s[n]]
    <2>2. m \in Nat
      OBVIOUS
    <2>3. \A n \in 0 .. m : s[n] = IF n = 0 THEN 0 ELSE s[n - 1] + f[n]
      BY <2>1
    <2>4. \A n \in 0 .. m + 1 : t[n] = IF n = 0 THEN 0 ELSE t[n - 1] + f[n]
      <3> SUFFICES ASSUME NEW n \in 0 .. m + 1
                   PROVE  t[n] = IF n = 0 THEN 0 ELSE t[n - 1] + f[n]
        OBVIOUS
      <3>1. CASE n = m + 1
        <4>1. n # 0 /\ n - 1 = m /\ m \in 0 .. m + 1 /\ m # m + 1
          BY <2>2, <3>1
        <4>2. t[n] = s[m] + f[m + 1] /\ t[m] = s[m]
          BY ONLY <2>2, <3>1, <4>1, n \in 0 .. m + 1
        <4> QED
          BY ONLY <3>1, <4>1, <4>2
      <3>2. CASE n # m + 1
        <4>1. n \in 0 .. m /\ t[n] = s[n]
          BY <2>2, <3>2
        <4>2. n # 0 => n - 1 \in 0 .. m + 1 /\ n - 1 # m + 1
          BY <2>2, <4>1
        <4>3. n # 0 => t[n - 1] = s[n - 1]
          BY <4>2
        <4> QED
          BY ONLY <2>3, <4>1, <4>3
      <3> QED
        BY <3>1, <3>2
    <2>5. Is(t, m + 1)
      BY ONLY <2>4
    <2>6. \E s2 : Is(s2, m + 1)
      <3> HIDE DEF t, Is
      <3> QED
        BY ONLY <2>5
    <2> QED
      BY <2>2, <2>6
  <1>3. k \in M
    <2> HIDE DEF M
    <2>1. M = Nat
      <3>1. M \subseteq Nat
        BY DEF M
      <3> QED
        BY ONLY <1>1, <1>2, <3>1, SetInduction
    <2> QED
      BY <2>1
  <1>4. \E s : s = [i \in 0 .. k |-> IF i = 0 THEN 0 ELSE s[i - 1] + f[i]]
    BY <1>3
  <1>5. Prefix(k, f) = [i \in 0 .. k |-> IF i = 0 THEN 0 ELSE Prefix(k, f)[i - 1] + f[i]]
    BY ONLY <1>4 DEF Prefix
  <1> DEFINE u == Prefix(k, f)
  <1>6. u = [n \in 0 .. k |-> IF n = 0 THEN 0 ELSE u[n - 1] + f[n]]
    BY ONLY <1>5
  <1> HIDE DEF u
  <1>7. u[0] = 0
    BY ONLY <1>6, k \in Nat
  <1>8. \A n \in 1 .. k : u[n] = u[n - 1] + f[n]
    BY ONLY <1>6, k \in Nat
  <1> QED
    BY ONLY <1>7, <1>8 DEF u

(* A sum of integers is an integer, and so is every part of it.            *)
LEMMA PrefixInt ==
  ASSUME NEW k \in Nat, NEW f \in [1 .. k -> Int]
  PROVE  \A n \in 0 .. k : Prefix(k, f)[n] \in Int
  <1> DEFINE u == Prefix(k, f)
  <1>1. u[0] = 0 /\ \A n \in 1 .. k : u[n] = u[n - 1] + f[n] /\ f[n] \in Int
    BY PrefixSteps
  <1> HIDE DEF u
  <1> DEFINE S == {n \in Nat : n <= k => u[n] \in Int}
  <1>3. S = Nat
    <2>1. S \subseteq Nat /\ 0 \in S
      BY <1>1
    <2>2. ASSUME NEW n \in S PROVE n + 1 \in S
      <3>1. CASE n + 1 <= k
        <4>1. n \in Nat /\ n + 1 \in 1 .. k /\ (n + 1) - 1 = n /\ n <= k
          BY <3>1
        <4>2. u[n + 1] = u[n] + f[n + 1] /\ f[n + 1] \in Int /\ u[n] \in Int
          BY <4>1, <1>1
        <4> QED
          BY <4>1, <4>2
      <3> QED
        BY <3>1
    <2> HIDE DEF S
    <2> QED
      BY ONLY <2>1, <2>2, SetInduction
  <1>4. \A n \in 0 .. k : u[n] \in Int
    BY <1>3
  <1> QED
    BY <1>4 DEF u

(* Changing one share changes the sum by as much.                          *)
LEMMA TotalChange ==
  ASSUME NEW k \in Nat, NEW f \in [1 .. k -> Int], NEW g \in [1 .. k -> Int],
         NEW o \in 1 .. k, \A p \in 1 .. k : p # o => g[p] = f[p]
  PROVE  Total(k, g) = Total(k, f) + (g[o] - f[o])
         /\ Total(k, f) \in Int
  <1> DEFINE u == Prefix(k, f)
             v == Prefix(k, g)
  <1>1. /\ u[0] = 0 /\ v[0] = 0
        /\ \A n \in 1 .. k : u[n] = u[n - 1] + f[n] /\ v[n] = v[n - 1] + g[n]
    BY PrefixSteps
  <1>2. u[k] = Total(k, f) /\ v[k] = Total(k, g)
    BY DEF Total
  <1>3. \A n \in 0 .. k : u[n] \in Int /\ v[n] \in Int
    BY PrefixInt
  <1>4. /\ \A n \in 1 .. k : f[n] \in Int /\ g[n] \in Int /\ (n # o => g[n] = f[n])
        /\ o \in 1 .. k
    OBVIOUS
  <1> HIDE DEF u, v
  <1> DEFINE Same(n) == v[n] = u[n] + IF o <= n THEN g[o] - f[o] ELSE 0
             S == {n \in Nat : n <= k => Same(n)}
  <1>5. S = Nat
    <2>1. S \subseteq Nat /\ 0 \in S
      BY <1>1, <1>4
    <2>2. ASSUME NEW n \in S PROVE n + 1 \in S
      <3>1. CASE n + 1 <= k
        <4>1. n \in Nat /\ n + 1 \in 1 .. k /\ (n + 1) - 1 = n /\ n <= k
              /\ n \in 0 .. k
          BY <3>1
        <4>2. /\ u[n + 1] = u[n] + f[n + 1] /\ v[n + 1] = v[n] + g[n + 1]
              /\ u[n] \in Int /\ v[n] \in Int
          BY <4>1, <1>1, <1>3
        <4>3. Same(n)
          BY <4>1
        <4>4. CASE o = n + 1
          BY <4>1, <4>2, <4>3, <4>4, <1>4
        <4>5. CASE o # n + 1
          <5>1. (o <= n + 1) <=> (o <= n)
            BY <4>1, <4>5, <1>4
          <5>2. g[n + 1] = f[n + 1] /\ f[n + 1] \in Int /\ g[o] - f[o] \in Int
            BY <4>1, <4>5, <1>4
          <5>3. v[n + 1] = u[n + 1] + IF o <= n THEN g[o] - f[o] ELSE 0
            BY <4>2, <4>3, <5>2
          <5>4. Same(n + 1)
            BY ONLY <5>1, <5>3
          <5> QED
            BY <5>4, <4>1
        <4> QED
          BY <4>4, <4>5
      <3> QED
        BY <3>1
    <2> HIDE DEF S
    <2> QED
      BY ONLY <2>1, <2>2, SetInduction
  <1>6. k \in S
    BY <1>5
  <1> QED
    BY <1>2, <1>3, <1>4, <1>6

(* No shares, nothing to sum.                                              *)
LEMMA TotalNone ==
  ASSUME NEW k \in Nat, NEW f, \A n \in 1 .. k : f[n] = 0
  PROVE  Total(k, f) = 0
  <1> DEFINE u == Prefix(k, f)
  <1>1. u[0] = 0 /\ \A n \in 1 .. k : u[n] = u[n - 1] + 0
    BY PrefixSteps
  <1>2. u[k] = Total(k, f)
    BY DEF Total
  <1> HIDE DEF u
  <1> DEFINE S == {n \in Nat : n <= k => u[n] = 0}
  <1>3. S = Nat
    <2>1. S \subseteq Nat /\ 0 \in S
      BY <1>1
    <2>2. ASSUME NEW n \in S PROVE n + 1 \in S
      <3>1. CASE n + 1 <= k
        <4>1. n \in Nat /\ n + 1 \in 1 .. k /\ (n + 1) - 1 = n /\ n <= k
          BY <3>1
        <4>2. u[n + 1] = u[n] + 0 /\ u[n] = 0
          BY <4>1, <1>1
        <4> QED
          BY <4>1, <4>2
      <3> QED
        BY <3>1
    <2> HIDE DEF S
    <2> QED
      BY ONLY <2>1, <2>2, SetInduction
  <1>4. k \in S
    BY <1>3
  <1> QED
    BY <1>2, <1>4

(* One share, and nothing else to sum.                                     *)
LEMMA TotalOne ==
  ASSUME NEW k \in Nat, NEW f \in [1 .. k -> Int], NEW o \in 1 .. k,
         \A n \in 1 .. k : n # o => f[n] = 0
  PROVE  Total(k, f) = f[o]
  <1> DEFINE z == [n \in 1 .. k |-> 0]
  <1>1. z \in [1 .. k -> Int] /\ Total(k, z) = 0
    BY TotalNone
  <1>2. Total(k, f) = Total(k, z) + (f[o] - z[o])
    BY <1>1, TotalChange
  <1> QED
    BY <1>1, <1>2

(* A sum of natural numbers is one, and none of them exceeds it.           *)
LEMMA TotalNat ==
  ASSUME NEW k \in Nat, NEW f \in [1 .. k -> Nat]
  PROVE  Total(k, f) \in Nat
  <1> DEFINE u == Prefix(k, f)
  <1>1. u[0] = 0 /\ \A n \in 1 .. k : u[n] = u[n - 1] + f[n] /\ f[n] \in Nat
    BY PrefixSteps
  <1>2. u[k] = Total(k, f)
    BY DEF Total
  <1> HIDE DEF u
  <1> DEFINE S == {n \in Nat : n <= k => u[n] \in Nat}
  <1>3. S = Nat
    <2>1. S \subseteq Nat /\ 0 \in S
      BY <1>1
    <2>2. ASSUME NEW n \in S PROVE n + 1 \in S
      <3>1. CASE n + 1 <= k
        <4>1. n \in Nat /\ n + 1 \in 1 .. k /\ (n + 1) - 1 = n /\ n <= k
          BY <3>1
        <4>2. u[n + 1] = u[n] + f[n + 1] /\ f[n + 1] \in Nat /\ u[n] \in Nat
          BY <4>1, <1>1
        <4> QED
          BY <4>1, <4>2
      <3> QED
        BY <3>1
    <2> HIDE DEF S
    <2> QED
      BY ONLY <2>1, <2>2, SetInduction
  <1>4. k \in S
    BY <1>3
  <1> QED
    BY <1>2, <1>4

LEMMA TotalAtLeast ==
  ASSUME NEW k \in Nat, NEW f \in [1 .. k -> Nat], NEW o \in 1 .. k
  PROVE  Total(k, f) \in Nat /\ Total(k, f) >= f[o]
  <1> DEFINE g == [f EXCEPT ![o] = 0]
  <1>1. g \in [1 .. k -> Nat] /\ g[o] = 0 /\ \A n \in 1 .. k : n # o => g[n] = f[n]
    OBVIOUS
  <1> HIDE DEF g
  <1>2. f \in [1 .. k -> Int] /\ g \in [1 .. k -> Int]
    BY <1>1
  <1>3. Total(k, g) = Total(k, f) + (g[o] - f[o])
    BY <1>1, <1>2, TotalChange
  <1>4. Total(k, g) \in Nat /\ Total(k, f) \in Nat
    BY <1>1, TotalNat
  <1> QED
    BY <1>1, <1>3, <1>4

-----------------------------------------------------------------------------
(* Memory, maps, records and funds of a bot that is not started again.     *)

(* A step from such a state to such a state.                               *)
TidyStep ==
    CoreInv /\ CoreInv' /\ Keeps /\ NoRestart /\ NoRestart' /\ Clean /\ Clean' /\ Tidy

LEMMA StepTypes ==
  ASSUME TidyStep
  PROVE  /\ ex \in [Orders -> OrderType] /\ ex' \in [Orders -> OrderType]
         /\ coins \in [Pairs -> Nat] /\ coins' \in [Pairs -> Nat]
         /\ mem \in [Positions -> PositionType] /\ mem' \in [Positions -> PositionType]
         /\ db \in [Positions -> PositionType] /\ db' \in [Positions -> PositionType]
         /\ used \in Nat /\ used' \in Nat /\ used' >= used /\ bal \in Nat /\ bal' \in Nat
         /\ hs \in [Handlers -> HandlerType] /\ hs' \in [Handlers -> HandlerType]
         /\ ended \in [Positions -> Nat] /\ ended' \in [Positions -> Nat]
         /\ rec \in [Orders -> RecordType] /\ loop \in LoopType
         /\ 1 .. used \subseteq Positions
         /\ told \in [Orders -> {"no", "once", "wrongly"}]
         /\ told' \in [Orders -> {"no", "once", "wrongly"}]
  <1>1. used \in 0 .. MaxPositions /\ used' \in 0 .. MaxPositions
    BY DEF TidyStep, CoreInv, Types
  <1> QED
    BY <1>1, PumpAssumption DEF TidyStep, CoreInv, Types, NoRestart, Keeps, Positions

(* What is standing or done stays what it is; an order is known by its     *)
(* record or it is not.                                                    *)
LEMMA OldOrder ==
  ASSUME TidyStep, NEW o \in Orders, ex[o].st # "none"
  PROVE  /\ ex'[o].p = ex[o].p /\ ex'[o].side = ex[o].side
         /\ ex[o].st = "filled" => ex'[o].st = "filled"
         /\ Indexed(o)' <=> Indexed(o)
  BY DEF TidyStep, Keeps, BooksMove, ExMono, IndexGrows, Indexed

LEMMA NewOrderFacts ==
  ASSUME TidyStep, NEW o \in Orders, ex[o].st = "none"
  PROVE  /\ ex[o].p = None /\ ex[o].side = "none" /\ ex[o].done = 0 /\ ~Indexed(o)
         /\ \A p \in Positions : ~Buys(o, p) /\ ~Sells(o, p)
  <1>1. ex[o] = NoOrder /\ ~Indexed(o)
    BY DEF TidyStep, CoreInv, Books, Recorded, Indexed
  <1> QED
    BY <1>1 DEF NoOrder, Buys, Sells

(* The facts about an order that a position's part of Tidy mentions.       *)
LEMMA TidyPosition ==
  ASSUME TidyStep, NEW p \in Positions, p <= used
  PROVE  /\ p \in 1 .. used /\ mem[p].st # "none" /\ closer[p] = "idle"
         /\ OrdersFit(p) /\ IsPending(p) /\ WasFilled(p)
         /\ Entry(p) \in Orders /\ ex[Entry(p)].p = p /\ ex[Entry(p)].st # "none"
         /\ mem[p].st # "pending" /\ mem[p].st # "open" =>
              mem[p].exit \in Orders /\ Sells(mem[p].exit, p) /\ ex[mem[p].exit].st # "none"
  <1>1. mem[p].st # "none" /\ OrdersFit(p) /\ IsPending(p) /\ WasFilled(p) /\ closer[p] = "idle"
    BY DEF TidyStep, Tidy, TidyAt
  <1>2. Entry(p) \in Orders /\ Buys(Entry(p), p)
    BY <1>1 DEF OrdersFit
  <1>3. ex[Entry(p)].p = p /\ ex[Entry(p)].st # "none"
    BY <1>2, KnownOrder DEF Buys, TidyStep, CoreInv
  <1>4. ASSUME mem[p].st # "pending", mem[p].st # "open"
        PROVE  mem[p].exit \in Orders /\ Sells(mem[p].exit, p) /\ ex[mem[p].exit].st # "none"
    <2>1. KnownSells(p) = {mem[p].exit}
      BY <1>1, <1>4 DEF WasFilled
    <2>2. mem[p].exit \in Orders /\ Sells(mem[p].exit, p)
      BY <2>1 DEF KnownSells
    <2> QED
      BY <2>2, KnownOrder DEF Sells, TidyStep, CoreInv
  <1>5. p \in 1 .. used
    BY StepTypes DEF Positions
  <1> QED
    BY <1>1, <1>2, <1>3, <1>4, <1>5

-----------------------------------------------------------------------------
(* What a step leaves alone.                                               *)

Away(q) == loop.pc = "idle" \/ loop.p # q
SameFor(q) ==
    /\ mem'[q] = mem[q] /\ db'[q] = db[q] /\ closer'[q] = closer[q] /\ ended'[q] = ended[q]
    /\ q \in pend' <=> q \in pend
    /\ q \in open' <=> q \in open
    /\ \A o \in Orders : ex[o].p = q \/ ex'[o].p = q => ex'[o] = ex[o] /\ told'[o] = told[o]
    /\ q \in pend => coins'[mem[q].pair] >= coins[mem[q].pair]
    /\ loop' = loop \/ (Away(q) /\ Away(q)')
    /\ Booking(q)' <=> Booking(q)
    /\ q <= used' => q <= used

LEMMA AtSame ==
  ASSUME TidyStep, NEW q, loop' = loop \/ (Away(q) /\ Away(q)'),
         NEW pcs \in SUBSET {"cancel", "move", "book", "trade", "delete"}
  PROVE  At(q, pcs)' <=> At(q, pcs)
  BY DEF At, Away

LEMMA SameKept ==
  ASSUME TidyStep, NEW q \in Positions, SameFor(q)
  PROVE  TidyAt(q)'
  <1>1. TidyAt(q)
    BY DEF TidyStep, Tidy
  <1>2. closer'[q] = "idle" /\ (q > used' => ended'[q] = 0)
    <2>1. q > used' => q > used
      BY StepTypes DEF Positions
    <2> QED
      BY <1>1, <2>1 DEF TidyAt, SameFor
  <1>3. ASSUME q <= used'
        PROVE  mem'[q].st # "none" /\ OrdersFit(q)' /\ IsPending(q)' /\ WasFilled(q)'
    <2>1. q <= used /\ mem'[q] = mem[q] /\ Entry(q)' = Entry(q)
      BY <1>3 DEF SameFor, Entry
    <2>2. /\ q \in 1 .. used /\ mem[q].st # "none"
          /\ OrdersFit(q) /\ IsPending(q) /\ WasFilled(q)
          /\ Entry(q) \in Orders /\ ex[Entry(q)].p = q
          /\ mem[q].st # "pending" /\ mem[q].st # "open" =>
               mem[q].exit \in Orders /\ Sells(mem[q].exit, q) /\ ex[mem[q].exit].st # "none"
      BY <2>1, TidyPosition
    <2>3. \A o \in Orders : ex[o].p = q \/ ex'[o].p = q => ex'[o] = ex[o] /\ told'[o] = told[o]
      BY DEF SameFor
    <2>4. \A o \in Orders : /\ Buys(o, q)' <=> Buys(o, q)
                            /\ Sells(o, q)' <=> Sells(o, q)
      BY <2>3 DEF Buys, Sells
    <2>5. ex'[Entry(q)] = ex[Entry(q)] /\ told'[Entry(q)] = told[Entry(q)]
      BY <2>2, <2>3
    <2>6. KnownSells(q)' = KnownSells(q)
      <3>1. \A o \in Orders : Sells(o, q) => (Indexed(o)' <=> Indexed(o))
        BY OldOrder, KnownOrder DEF Sells, TidyStep, CoreInv
      <3> QED
        BY <2>4, <3>1 DEF KnownSells
    <2>7. OrdersFit(q)'
      <3>1. \A o \in Orders : ex'[o].p = q =>
                 ex'[o].pair = mem[q].pair /\ ex'[o].amt = mem[q].amt
        BY <2>2, <2>3 DEF OrdersFit
      <3>2. \A o \in Orders : Buys(o, q)' /\ o # Entry(q) => Dead(o)'
        BY <2>2, <2>3, <2>4 DEF OrdersFit, Dead, Buys
      <3> QED
        BY <2>1, <2>2, <2>4, <3>1, <3>2 DEF OrdersFit
    <2>8. \A pcs \in SUBSET {"cancel", "move", "book", "trade", "delete"} :
               At(q, pcs)' <=> At(q, pcs)
      BY AtSame DEF SameFor
    <2>9. Dead(Entry(q))' <=> Dead(Entry(q))
      BY <2>1, <2>5 DEF Dead
    <2>10. IsPending(q)'
      <3>1. CASE mem[q].st = "pending"
        <4>1. coins[mem[q].pair] \in Nat /\ coins'[mem[q].pair] \in Nat
              /\ ex[Entry(q)].done \in Nat
          BY <2>2, StepTypes DEF OrdersFit, OrderType
        <4>2. q \in pend => coins'[mem[q].pair] >= ex'[Entry(q)].done
          BY <2>2, <2>5, <3>1, <4>1 DEF IsPending, SameFor
        <4>3. At(q, {"delete"})' <=> At(q, {"delete"})
          BY <2>8
        <4>4. At(q, {"cancel", "move", "book", "trade"})' <=> At(q, {"cancel", "move", "book", "trade"})
          BY <2>8
        <4>5. At(q, {"book", "trade"})' <=> At(q, {"book", "trade"})
          BY <2>8
        <4> HIDE DEF At, Dead
        <4> QED
          BY <2>1, <2>2, <2>4, <2>9, <3>1, <4>2, <4>3, <4>4, <4>5 DEF IsPending, SameFor
      <3> QED
        BY <2>1, <3>1 DEF IsPending
    <2>11. WasFilled(q)'
      <3>1. CASE mem[q].st # "pending"
        <4>1. mem[q].st = "closed" => ex'[mem[q].exit] = ex[mem[q].exit]
                                       /\ told'[mem[q].exit] = told[mem[q].exit]
          BY <2>2, <2>3 DEF Sells
        <4>2. At(q, {"book", "delete", "trade"})' <=> At(q, {"book", "delete", "trade"})
          BY <2>8
        <4> QED
          BY <2>1, <2>2, <2>5, <2>6, <3>1, <4>1, <4>2 DEF WasFilled, SameFor
      <3> QED
        BY <2>1, <3>1 DEF WasFilled
    <2> QED
      BY <2>1, <2>2, <2>7, <2>10, <2>11
  <1> QED
    BY <1>2, <1>3 DEF TidyAt

-----------------------------------------------------------------------------
(* The exchange executes or cancels a standing order.                      *)

OrderMoves(o) ==
    /\ ex[o].st = "open" /\ \A q \in Orders \ {o} : ex'[q] = ex[q]
    /\ ex'[o].side = ex[o].side /\ ex'[o].p = ex[o].p
    /\ ex'[o].pair = ex[o].pair /\ ex'[o].amt = ex[o].amt
    /\ \A c \in Pairs : coins'[c] >= coins[c]
    /\ ex[o].side = "buy" /\ ex[o].pair \in Pairs =>
         coins'[ex[o].pair] >= coins[ex[o].pair] + (ex'[o].done - ex[o].done)
    /\ ex'[o].st = "cancelled" => ex'[o].done = ex[o].done
Gentle == (\E o \in Orders : OrderMoves(o)) \/ UNCHANGED <<ex, coins>>

LEMMA FillMoves ==
  ASSUME TidyStep, NEW o \in Orders, ExFill(o) \/ ExPartial(o) \/ Cancelled(o)
  PROVE  OrderMoves(o)
  <1>1. /\ ex \in [Orders -> OrderType] /\ coins \in [Pairs -> Nat] /\ ex[o] \in OrderType
        /\ ex[o].done \in Nat /\ ex[o].amt \in Nat /\ ex[o].done <= ex[o].amt
    BY StepTypes DEF OrderType, TidyStep, CoreInv, Books
  <1>2. ex[o].st = "open"
    BY DEF ExFill, ExPartial, Cancelled
  <1> DEFINE Gains(d) == /\ coins' = [coins EXCEPT ![ex[o].pair] = @ + d]
                         /\ ex[o].side = "buy" => d >= ex'[o].done - ex[o].done
             Still == coins' = coins /\ (ex[o].side = "buy" => ex'[o].done = ex[o].done)
  <1>3. (\E d \in Nat : Gains(d)) \/ Still
    <2>0. ex[o].amt - ex[o].done \in Nat
      BY <1>1
    <2>1. CASE ExFill(o)
      <3>1. ex'[o].done = ex[o].amt
        BY <1>1, <2>1 DEF ExFill, OrderType
      <3>2. ex[o].side = "buy" => Gains(ex[o].amt - ex[o].done)
        BY <1>1, <2>0, <2>1, <3>1 DEF ExFill
      <3>3. ex[o].side # "buy" => Still
        BY <2>1 DEF ExFill
      <3> QED
        BY <2>0, <3>2, <3>3
    <2>2. CASE ExPartial(o)
      <3>1. ex'[o].done = ex[o].done + 1
        BY <1>1, <2>2 DEF ExPartial, OrderType
      <3>2. ex[o].side = "buy" => Gains(1)
        BY <1>1, <2>2, <3>1 DEF ExPartial
      <3>3. ex[o].side # "buy" => Still
        BY <2>2 DEF ExPartial
      <3> QED
        BY <3>2, <3>3
    <2>3. CASE Cancelled(o)
      <3>1. ex'[o].done = ex[o].done
        BY <1>1, <2>3 DEF Cancelled, OrderType
      <3>2. ex[o].side = "sell" => Gains(ex[o].amt - ex[o].done)
        BY <1>1, <2>0, <2>3, <3>1 DEF Cancelled
      <3>3. ex[o].side # "sell" => Still
        BY <2>3, <3>1 DEF Cancelled
      <3> QED
        BY <2>0, <3>2, <3>3
    <2> QED
      BY <2>1, <2>2, <2>3
  <1>4. \A c \in Pairs : coins'[c] >= coins[c]
    BY <1>1, <1>3
  <1>5. ex[o].side = "buy" /\ ex[o].pair \in Pairs =>
           coins'[ex[o].pair] >= coins[ex[o].pair] + (ex'[o].done - ex[o].done)
    <2>1. ex'[o].done \in Nat
      BY StepTypes DEF OrderType
    <2> QED
      BY <1>1, <1>3, <2>1
  <1>6. /\ \A q \in Orders \ {o} : ex'[q] = ex[q]
        /\ ex'[o].side = ex[o].side /\ ex'[o].p = ex[o].p
        /\ ex'[o].pair = ex[o].pair /\ ex'[o].amt = ex[o].amt
        /\ ex'[o].st = "cancelled" => ex'[o].done = ex[o].done
    BY <1>1, <1>2 DEF ExFill, ExPartial, Cancelled, OrderType
  <1> QED
    BY <1>2, <1>4, <1>5, <1>6 DEF OrderMoves

LEMMA AnswerMoves ==
  ASSUME TidyStep, NEW o \in Orders, NEW ok \in BOOLEAN, CancelAnswer(o, ok)
  PROVE  Gentle
  BY FillMoves DEF CancelAnswer, Gentle, books

(* A standing order that moves is none the positions rely on; what is      *)
(* bought is in the account.                                               *)
GentleAt(q) ==
    /\ mem'[q] = mem[q] /\ db'[q] = db[q] /\ closer'[q] = closer[q] /\ ended'[q] = ended[q]
    /\ q \in pend' <=> q \in pend
    /\ q \in open' <=> q \in open
    /\ \A o \in Orders : ex[o].p = q /\ told[o] = "once" => told'[o] = "once"
    /\ Booking(q)' <=> Booking(q)
    /\ used' = used
    /\ At(q, {"delete"})' <=> At(q, {"delete"})
    /\ At(q, {"cancel", "move"})' => q \in pend \/ mem[q].st # "pending"
    /\ At(q, {"book", "trade"})' => q \in pend /\ mem[q].st = "pending" /\ Dead(Entry(q))'

LEMMA GentleKept ==
  ASSUME TidyStep, NEW q \in Positions, Gentle, GentleAt(q)
  PROVE  TidyAt(q)'
  <1>1. TidyAt(q)
    BY DEF TidyStep, Tidy
  <1>2. closer'[q] = "idle" /\ (q > used' => ended'[q] = 0)
    BY <1>1 DEF TidyAt, GentleAt
  <1>3. ASSUME q <= used'
        PROVE  mem'[q].st # "none" /\ OrdersFit(q)' /\ IsPending(q)' /\ WasFilled(q)'
    <2>1. q <= used /\ mem'[q] = mem[q] /\ Entry(q)' = Entry(q)
      BY <1>3 DEF GentleAt, Entry
    <2>2. /\ q \in 1 .. used /\ mem[q].st # "none"
          /\ OrdersFit(q) /\ IsPending(q) /\ WasFilled(q)
          /\ Entry(q) \in Orders /\ ex[Entry(q)].p = q
          /\ mem[q].st # "pending" /\ mem[q].st # "open" =>
               mem[q].exit \in Orders /\ Sells(mem[q].exit, q) /\ ex[mem[q].exit].st # "none"
      BY <2>1, TidyPosition
    <2>3. /\ \A o \in Orders : ex[o].st # "open" => ex'[o] = ex[o]
          /\ \A o \in Orders : /\ ex'[o].side = ex[o].side /\ ex'[o].p = ex[o].p
                               /\ ex'[o].pair = ex[o].pair /\ ex'[o].amt = ex[o].amt
      BY DEF Gentle, OrderMoves
    <2>4. \A o \in Orders : /\ Buys(o, q)' <=> Buys(o, q)
                            /\ Sells(o, q)' <=> Sells(o, q)
      BY <2>3 DEF Buys, Sells
    <2>5. /\ \A o \in Orders : ex[o].st = "filled" => ex'[o].st = "filled"
          /\ \A o \in Orders : Dead(o) => Dead(o)'
      BY <2>3 DEF Dead
    <2>6. KnownSells(q)' = KnownSells(q)
      <3>1. \A o \in Orders : Sells(o, q) => (Indexed(o)' <=> Indexed(o))
        BY OldOrder, KnownOrder DEF Sells, TidyStep, CoreInv
      <3> QED
        BY <2>4, <3>1 DEF KnownSells
    <2>7. OrdersFit(q)'
      <3>1. \A o \in Orders : ex'[o].p = q =>
                 ex'[o].pair = mem[q].pair /\ ex'[o].amt = mem[q].amt
        BY <2>2, <2>3 DEF OrdersFit
      <3>2. \A o \in Orders : Buys(o, q)' /\ o # Entry(q) => Dead(o)'
        BY <2>2, <2>4, <2>5 DEF OrdersFit
      <3> QED
        BY <2>1, <2>2, <2>4, <3>1, <3>2 DEF OrdersFit
    <2>8. IsPending(q)'
      <3>1. CASE mem[q].st = "pending"
        <4>1. /\ coins[mem[q].pair] \in Nat /\ coins'[mem[q].pair] \in Nat
              /\ ex[Entry(q)].done \in Nat /\ ex'[Entry(q)].done \in Nat
              /\ mem[q].pair \in Pairs
          BY <2>2, StepTypes DEF OrdersFit, OrderType
        <4>2. q \in pend => coins'[mem[q].pair] >= ex'[Entry(q)].done
          <5>1. ASSUME q \in pend
                PROVE  coins[mem[q].pair] >= ex[Entry(q)].done
            BY <2>2, <3>1, <5>1 DEF IsPending
          <5>2. ex[Entry(q)].side = "buy" /\ ex[Entry(q)].pair = mem[q].pair
            BY <2>2 DEF OrdersFit, Buys
          <5>3. CASE UNCHANGED <<ex, coins>>
            BY <5>1, <5>3
          <5>4. ASSUME NEW o \in Orders, OrderMoves(o)
                PROVE  q \in pend => coins'[mem[q].pair] >= ex'[Entry(q)].done
            <6>1. CASE o = Entry(q)
              BY <4>1, <5>1, <5>2, <5>4, <6>1 DEF OrderMoves
            <6>2. CASE o # Entry(q)
              BY <2>2, <4>1, <5>1, <5>4, <6>2 DEF OrderMoves
            <6> QED
              BY <6>1, <6>2
          <5> QED
            BY <5>3, <5>4 DEF Gentle
        <4>3. /\ ~(q \in open') /\ mem[q].exit = None /\ \A o \in Orders : ~Sells(o, q)'
          BY <2>2, <2>4, <3>1 DEF IsPending, GentleAt
        <4>4. q \in pend' => /\ db'[q] = mem[q] /\ ended'[q] = 0 /\ ~At(q, {"delete"})'
          BY <2>2, <3>1 DEF IsPending, GentleAt
        <4>5. q \notin pend' =>
               /\ Dead(Entry(q))' /\ ended'[q] = 1
               /\ db'[q] = IF At(q, {"delete"})' THEN mem[q] ELSE NoPosition
               /\ ~At(q, {"cancel", "move", "book", "trade"})'
          <5>1. ASSUME q \notin pend' PROVE Dead(Entry(q))' /\ ended'[q] = 1
            BY <2>1, <2>2, <2>5, <3>1, <5>1 DEF IsPending, GentleAt
          <5>2. ASSUME q \notin pend'
                PROVE  db'[q] = IF At(q, {"delete"})' THEN mem[q] ELSE NoPosition
            BY <2>2, <3>1, <5>2 DEF IsPending, GentleAt
          <5>3. ASSUME q \notin pend' PROVE ~At(q, {"cancel", "move", "book", "trade"})'
            BY <3>1, <5>3 DEF GentleAt, At
          <5> QED
            BY <5>1, <5>2, <5>3
        <4>6. At(q, {"book", "trade"})' => Dead(Entry(q))'
          BY DEF GentleAt
        <4>7. q \in pend' => coins'[mem[q].pair] >= ex'[Entry(q)].done
          BY <4>2 DEF GentleAt
        <4> HIDE DEF Dead, At
        <4> QED
          BY <2>1, <4>3, <4>4, <4>5, <4>6, <4>7 DEF IsPending
      <3> QED
        BY <2>1, <3>1 DEF IsPending
    <2>9. WasFilled(q)'
      <3>1. CASE mem[q].st # "pending"
        <4>1. mem[q].st = "closed" => ex'[mem[q].exit].st = "filled"
                                       /\ told'[mem[q].exit] = "once"
          BY <2>2, <2>5, <3>1 DEF Sells, WasFilled, GentleAt
        <4>2. ~At(q, {"book", "delete", "trade"})'
          BY <2>2, <3>1 DEF WasFilled, GentleAt, At
        <4>3. ex'[Entry(q)].st = "filled" /\ told'[Entry(q)] = "once"
          BY <2>2, <2>5, <3>1 DEF WasFilled, GentleAt
        <4> QED
          BY <2>1, <2>2, <2>6, <3>1, <4>1, <4>2, <4>3 DEF WasFilled, GentleAt
      <3> QED
        BY <2>1, <3>1 DEF WasFilled
    <2> QED
      BY <2>1, <2>2, <2>7, <2>8, <2>9
  <1> QED
    BY <1>2, <1>3 DEF TidyAt

(* The funds and the maps are as before.                                   *)
LEMMA MoneySame ==
  ASSUME TidyStep, UNCHANGED <<mem, db, pend, open, bal, ended, used>>
  PROVE  Booked' /\ OnePair' /\ Limited'
  <1>1. Booked'
    BY DEF TidyStep, Tidy, Booked, Invested
  <1>2. OnePair'
    BY DEF TidyStep, Tidy, OnePair
  <1>3. Limited'
    BY DEF TidyStep, Tidy, Limited, Counted
  <1> QED
    BY <1>1, <1>2, <1>3

LEMMA ReaderFacts ==
  ASSUME TidyStep, hs[Ws].pc # "idle"
  PROVE  /\ ReaderAt(hs[Ws], ex[hs[Ws].o].p) /\ hs[Ws].o \in Orders
         /\ ex[hs[Ws].o].p \in 1 .. used /\ ex[hs[Ws].o].p \in Positions
         /\ ex[hs[Ws].o].p <= used /\ ex[hs[Ws].o].st = "filled"
  <1>1. ReaderAt(hs[Ws], ex[hs[Ws].o].p)
    BY DEF TidyStep, Tidy, Reader
  <1>2. ex[hs[Ws].o].p \in 1 .. used
    BY <1>1 DEF ReaderAt
  <1>3. hs[Ws].o \in Orders /\ ex[hs[Ws].o].st = "filled"
    BY <1>1 DEF ReaderAt
  <1>4. ex[hs[Ws].o].p \in Positions /\ ex[hs[Ws].o].p <= used
    BY <1>2, StepTypes
  <1> QED
    BY <1>1, <1>2, <1>3, <1>4

LEMMA GentleReader ==
  ASSUME TidyStep, Gentle, UNCHANGED <<mem, used>>, hs'[Ws] = hs[Ws],
         \A o \in Orders : told[o] = "once" => told'[o] = "once"
  PROVE  Reader'
  <1> SUFFICES ASSUME hs[Ws].pc # "idle"
               PROVE  ReaderAt(hs[Ws], ex[hs[Ws].o].p)'
    BY DEF Reader
  <1>0. PICK p \in Positions : p = ex[hs[Ws].o].p
    BY ReaderFacts
  <1>1. /\ ReaderAt(hs[Ws], p) /\ hs[Ws].o \in Orders /\ p <= used
        /\ ex[hs[Ws].o].st = "filled"
    BY <1>0, ReaderFacts
  <1>2. ex'[hs[Ws].o] = ex[hs[Ws].o]
    BY <1>1 DEF Gentle, OrderMoves
  <1>3. mem[p].pair \in Pairs /\ mem[p].amt \in Nat
    BY <1>1, TidyPosition, StepTypes DEF OrdersFit, PositionType
  <1>4. Sellable(p) => Sellable(p)'
    <2>1. coins[mem[p].pair] \in Nat /\ coins'[mem[p].pair] \in Nat
      BY <1>3, StepTypes
    <2>2. coins'[mem[p].pair] >= coins[mem[p].pair]
      BY <1>3, <2>1 DEF Gentle, OrderMoves
    <2> QED
      BY <1>3, <2>1, <2>2 DEF Sellable
  <1>5. told'[hs[Ws].o] = "once"
    BY <1>1 DEF ReaderAt
  <1>6. Entry(p)' = Entry(p) /\ mem'[p] = mem[p] /\ p \in 1 .. used'
    BY <1>1 DEF Entry, ReaderAt
  <1>7. ReaderAt(hs[Ws], p)'
    <2> HIDE DEF Sellable
    <2> QED
      BY <1>1, <1>2, <1>4, <1>5, <1>6 DEF ReaderAt
  <1> QED
    BY <1>0, <1>2, <1>7

(* Steps of the exchange, and of goroutines that only look.                *)
PositionsSame == UNCHANGED <<mem, db, pend, open, bal, closer, ended, used>>
LoopOk(q) ==
    /\ At(q, {"delete"})' <=> At(q, {"delete"})
    /\ At(q, {"cancel", "move"})' => q \in pend \/ mem[q].st # "pending"
    /\ At(q, {"book", "trade"})' => q \in pend /\ mem[q].st = "pending" /\ Dead(Entry(q))'

LEMMA LoopFits ==
  ASSUME TidyStep, NEW q \in Positions, loop.pc # "idle", loop.p = q
  PROVE  /\ q <= used /\ q \in 1 .. used
         /\ loop.pc \in {"cancel", "move"} => q \in pend \/ mem[q].st # "pending"
         /\ loop.pc \in {"book", "trade"} => q \in pend /\ mem[q].st = "pending" /\ Dead(Entry(q))
         /\ loop.pc = "delete" => q \notin pend /\ mem[q].st = "pending"
  <1>1. q \in 1 .. used
    BY DEF TidyStep, CoreInv, Known
  <1>2. q <= used
    BY <1>1, StepTypes
  <1>3. IsPending(q) /\ WasFilled(q)
    BY <1>2, TidyPosition
  <1>4. mem[q].st # "pending" => loop.pc \notin {"book", "delete", "trade"}
    BY <1>3 DEF WasFilled, At
  <1>5. mem[q].st = "pending" /\ q \notin pend => loop.pc \notin {"cancel", "move", "book", "trade"}
    BY <1>3 DEF IsPending, At
  <1>6. mem[q].st = "pending" /\ q \in pend => loop.pc # "delete"
    BY <1>3 DEF IsPending, At
  <1>7. mem[q].st = "pending" /\ loop.pc \in {"book", "trade"} => Dead(Entry(q))
    BY <1>3 DEF IsPending, At
  <1> QED
    BY <1>1, <1>2, <1>4, <1>5, <1>6, <1>7

LEMMA DeadKept ==
  ASSUME TidyStep, Gentle, mem' = mem, NEW q \in Positions, q <= used, Dead(Entry(q))
  PROVE  Dead(Entry(q))'
  <1>1. Entry(q) \in Orders
    BY TidyPosition
  <1> QED
    BY <1>1 DEF Gentle, OrderMoves, Dead, Entry

LEMMA LoopStays ==
  ASSUME TidyStep, Gentle, mem' = mem, loop' = loop, NEW q \in Positions
  PROVE  LoopOk(q)
  <1>1. CASE loop.pc # "idle" /\ loop.p = q
    <2>1. loop.pc \in {"book", "trade"} => Dead(Entry(q))'
      BY <1>1, LoopFits, DeadKept
    <2> QED
      BY <1>1, <2>1, LoopFits DEF LoopOk, At
  <1>2. CASE loop.pc = "idle" \/ loop.p # q
    BY <1>2 DEF LoopOk, At
  <1> QED
    BY <1>1, <1>2

LEMMA GentleStep ==
  ASSUME TidyStep, Gentle, PositionsSame, Reader',
         \A q \in Positions : LoopOk(q),
         \A q \in Positions : Booking(q)' <=> Booking(q),
         \A o \in Orders : told[o] = "once" /\ ex[o].p \in Positions => told'[o] = "once"
  PROVE  Tidy'
  <1>1. Booked' /\ OnePair' /\ Limited'
    BY MoneySame DEF PositionsSame
  <1>2. \A q \in Positions : GentleAt(q)
    BY DEF PositionsSame, GentleAt, LoopOk
  <1> QED
    BY <1>1, <1>2, GentleKept DEF Tidy

LEMMA GentleOther ==
  ASSUME TidyStep, Gentle, PositionsSame, hs'[Ws] = hs[Ws], told' = told,
         \A q \in Positions : LoopOk(q)
  PROVE  Tidy'
  <1>1. Reader'
    BY GentleReader DEF PositionsSame
  <1>2. \A q \in Positions : Booking(q)' <=> Booking(q)
    BY DEF Booking
  <1> QED
    BY <1>1, <1>2, GentleStep

-----------------------------------------------------------------------------
(* The exchange, StopBot and the check of pending positions.               *)

LEMMA TidyExchange ==
  ASSUME TidyStep, Exchange
  PROVE  Tidy'
  <1>1. Gentle
    BY FillMoves DEF Exchange, ExternalCancel, LoseMessage, Gentle
  <1>2. UNCHANGED <<mem, maps, bal, db, rec, routines, life, history>>
    BY DEF Exchange, ExFill, ExPartial, ExternalCancel, LoseMessage
  <1>3. PositionsSame /\ loop' = loop /\ hs' = hs /\ told' = told /\ mem' = mem
    BY <1>2 DEF PositionsSame, maps, routines, life, history
  <1> QED
    BY <1>1, <1>3, LoopStays, GentleOther

LEMMA TidyStop ==
  ASSUME TidyStep, StopBot \/ StopStep \/ LoopExit
  PROVE  Tidy'
  <1>1. PositionsSame /\ loop' = loop /\ hs' = hs /\ told' = told /\ mem' = mem
    BY DEF StopBot, StopStep, StopList, StopDone, StopCancel, LoopExit, PositionsSame, maps,
           life, history, routines
  <1>2. Gentle
    <2>1. CASE StopBot \/ StopList \/ StopDone \/ LoopExit
      BY <2>1 DEF StopBot, StopList, StopDone, LoopExit, books, Gentle
    <2>2. ASSUME NEW o \in Orders, StopCancel(o) PROVE Gentle
      <3>1. rec[o].oid \in Orders
        BY <2>2 DEF StopCancel, TidyStep, CoreInv, Recorded
      <3> QED
        BY <2>2, <3>1, AnswerMoves DEF StopCancel
    <2> QED
      BY <2>1, <2>2 DEF StopStep
  <1> QED
    BY <1>1, <1>2, LoopStays, GentleOther

LEMMA TidyCheck ==
  ASSUME TidyStep, NEW p \in Positions, NEW next \in {"cancel", "move"}, NEW kind,
         Check(p, next, kind)
  PROVE  Tidy'
  <1>1. /\ PositionsSame /\ hs' = hs /\ told' = told /\ Gentle
        /\ p \in pend /\ loop.pc = "idle" /\ loop' = [pc |-> next, p |-> p, kind |-> kind]
    BY DEF Check, PositionsSame, maps, life, history, books, Gentle
  <1>2. \A q \in Positions : LoopOk(q)
    BY <1>1 DEF LoopOk, At
  <1> QED
    BY <1>1, <1>2, GentleOther

-----------------------------------------------------------------------------
(* runBot cancels.                                                         *)

LEMMA NothingAbandoned ==
  ASSUME TidyStep, NEW p, NEW o, Abandon(p, o)
  PROVE  Dead(o)'
  BY DEF TidyStep, Clean, Abandon, Dead

LEMMA LoopCancel ==
  ASSUME TidyStep, Gentle, loop.pc \in {"cancel", "move"}, NEW pc \in {"book", "trade"},
         GoTo(pc), Abandon(loop.p, mem[loop.p].entry), PositionsSame, hs' = hs, told' = told
  PROVE  Tidy'
  <1>1. PICK p \in Positions : p = loop.p
    BY LoopFacts DEF TidyStep
  <1>2. p <= used /\ (p \in pend \/ mem[p].st # "pending")
    BY <1>1, LoopFits
  <1>3. loop'.pc = pc /\ loop'.p = p
    BY <1>1, StepTypes DEF GoTo, LoopType
  <1>4. Dead(Entry(p))'
    BY <1>1, NothingAbandoned DEF Entry, PositionsSame, Dead
  <1>5. mem[p].st = "pending"
    <2>1. Entry(p) \in Orders /\ WasFilled(p)
      BY <1>2, TidyPosition
    <2>2. ex[Entry(p)].st = "filled" => ex'[Entry(p)].st = "filled"
      BY <2>1 DEF Gentle, OrderMoves
    <2>3. Entry(p)' = Entry(p)
      BY DEF Entry, PositionsSame
    <2> QED
      BY <1>4, <2>1, <2>2, <2>3 DEF WasFilled, Dead
  <1>6. \A q \in Positions : LoopOk(q)
    BY <1>1, <1>2, <1>3, <1>4, <1>5 DEF LoopOk, At
  <1> QED
    BY <1>6, GentleOther

LEMMA TidyCancelEntry ==
  ASSUME TidyStep, CancelEntry
  PROVE  Tidy'
  <1>1. PICK p \in Positions : p = loop.p
    BY LoopFacts DEF TidyStep, CancelEntry, LoopAt
  <1>2. mem[p].entry \in Orders
    BY <1>1, LoopFits, TidyPosition DEF CancelEntry, LoopAt, Entry
  <1>3. Gentle
    <2>1. PICK ok \in BOOLEAN : IF mem[p].kind = "limit" THEN CancelAnswer(mem[p].entry, ok)
                                ELSE ~ok /\ UNCHANGED books
      BY <1>1 DEF CancelEntry
    <2> QED
      BY <1>2, <2>1, AnswerMoves DEF Gentle, books
  <1>4. /\ loop.pc = "cancel" /\ GoTo("book") /\ Abandon(loop.p, mem[loop.p].entry)
        /\ PositionsSame /\ hs' = hs /\ told' = told
    BY DEF CancelEntry, LoopAt, PositionsSame, maps, life
  <1> QED
    BY <1>3, <1>4, LoopCancel

LEMMA TidyMoveCancel ==
  ASSUME TidyStep, MoveCancel
  PROVE  Tidy'
  <1>1. PICK p \in Positions : p = loop.p
    BY LoopFacts DEF TidyStep, MoveCancel, LoopAt
  <1>2. mem[p].entry \in Orders
    BY <1>1, LoopFits, TidyPosition DEF MoveCancel, LoopAt, Entry
  <1>3. Gentle
    <2>1. (\E ok \in BOOLEAN : CancelAnswer(mem[p].entry, ok)) \/ UNCHANGED books
      BY <1>1 DEF MoveCancel
    <2> QED
      BY <1>2, <2>1, AnswerMoves DEF Gentle, books
  <1>4. /\ loop.pc = "move" /\ GoTo("trade") /\ Abandon(loop.p, mem[loop.p].entry)
        /\ PositionsSame /\ hs' = hs /\ told' = told
    BY DEF MoveCancel, LoopAt, PositionsSame, maps, life
  <1> QED
    BY <1>3, <1>4, LoopCancel

LEMMA TidyMoveRefused ==
  ASSUME TidyStep, MoveRefused
  PROVE  Tidy'
  <1>1. PICK p \in Positions : p = loop.p
    BY LoopFacts DEF TidyStep, MoveRefused, LoopAt
  <1>2. /\ loop.pc = "trade" /\ PositionsSame /\ hs' = hs /\ told' = told
        /\ loop' = [loop EXCEPT !.pc = "cancel"]
    BY DEF MoveRefused, LoopAt, PositionsSame, maps, life, GoTo
  <1>3. UNCHANGED books
    <2>1. ASSUME Accept("buy", loop.kind, p, mem[p].pair, mem[p].amt), Abandon(p, NewOrder)
          PROVE  FALSE
      <3>1. NewOrder \in Orders /\ ex'[NewOrder].st \in {"open", "filled"}
        BY <2>1, StepTypes DEF Accept
      <3>2. ex'[NewOrder].st # "cancelled"
        BY <3>1
      <3>3. abandoned' = abandoned \cup {p}
        BY <2>1, <3>2 DEF Abandon
      <3> QED
        BY <3>3 DEF TidyStep, Clean
    <2> QED
      BY <1>1, <2>1 DEF MoveRefused
  <1>4. Gentle
    BY <1>3 DEF Gentle, books
  <1>5. loop'.pc = "cancel" /\ loop'.p = p
    BY <1>1, <1>2, StepTypes DEF LoopType
  <1>6. p \in pend
    BY <1>1, <1>2, LoopFits
  <1>7. \A q \in Positions : LoopOk(q)
    BY <1>1, <1>2, <1>5, <1>6 DEF LoopOk, At
  <1> QED
    BY <1>2, <1>4, <1>7, GentleOther

-----------------------------------------------------------------------------
(* The WebSocket reader takes a message and finds the position.            *)

(* An order that matches a position in a map is one of its orders.         *)
LEMMA MatchFacts ==
  ASSUME TidyStep, NEW p \in pend \cup open, NEW o \in Orders, Match(p, o)
  PROVE  /\ p \in Positions /\ p \in 1 .. used /\ p <= used /\ ex[o].p = p /\ ex[o].st # "none"
         /\ o = Entry(p) \/ (o = mem[p].exit /\ mem[p].st \in {"selling", "closed"})
  <1>1. p \in Positions /\ p \in 1 .. used /\ p <= used
    BY StepTypes DEF TidyStep, CoreInv, Types
  <1>2. /\ mem[p].st # "none" /\ OrdersFit(p) /\ IsPending(p) /\ WasFilled(p)
        /\ Entry(p) \in Orders /\ ex[Entry(p)].p = p
        /\ mem[p].st # "pending" /\ mem[p].st # "open" =>
             mem[p].exit \in Orders /\ Sells(mem[p].exit, p) /\ ex[mem[p].exit].st # "none"
    BY <1>1, TidyPosition
  <1>3. CASE o = mem[p].entry
    BY <1>1, <1>2, <1>3, TidyPosition DEF Entry
  <1>4. CASE o = mem[p].exit
    <2>1. o # None
      BY DEF None, Orders
    <2>2. mem[p].st # "pending" /\ mem[p].st # "open"
      BY <1>2, <1>4, <2>1 DEF IsPending, WasFilled
    <2>3. mem[p].st \in {"selling", "closed"}
      BY <1>1, <1>2, <2>2, StepTypes DEF PositionType
    <2> QED
      BY <1>1, <1>2, <1>4, <2>2, <2>3 DEF Sells
  <1> QED
    BY <1>3, <1>4 DEF Match

LEMMA TidyTakeFill ==
  ASSUME TidyStep, TakeFill
  PROVE  Tidy'
  <1> DEFINE o == Head(wire).o
  <1>1. /\ PositionsSame /\ UNCHANGED <<ex, coins, mem, loop, used>>
        /\ hs[Ws].pc = "idle"
        /\ hs' = IF up /\ \E p \in pend \cup open : Match(p, o)
                 THEN [hs EXCEPT ![Ws] = [IdleHandler EXCEPT !.pc = "find", !.o = o]]
                 ELSE hs
        /\ IF up THEN Tell(o) ELSE told' = told
    BY DEF TakeFill, PositionsSame, HandlerAt, maps, life
  <1>2. o \in Orders
    <2>1. wire \in Seq(Message) /\ wire # <<>>
      BY DEF TidyStep, CoreInv, Types, TakeFill, NextIs
    <2>2. Head(wire) \in Message
      BY <2>1
    <2> QED
      BY <2>2 DEF Message
  <1> HIDE DEF o
  <1>3. Gentle
    BY <1>1 DEF Gentle
  <1>4. \A q \in Positions : LoopOk(q)
    BY <1>1, <1>3, LoopStays
  <1>5. ASSUME NEW q \in Orders, ex[q].p \in Positions
        PROVE  told'[q] \in {"no", "once"}
    <2>1. PICK p \in Positions : p = ex[q].p
      BY <1>5
    <2>2. ToldOnce(p)'
      BY DEF TidyStep, Clean
    <2>3. told'[q] # "wrongly"
      BY <1>1, <1>5, <2>1, <2>2 DEF ToldOnce
    <2> QED
      BY <2>3, StepTypes
  <1>6. up /\ ex[o].p \in Positions => /\ told[o] = "no" /\ ex[o].st = "filled" /\ told'[o] = "once"
    BY <1>1, <1>2, <1>5, StepTypes DEF Tell
  <1>7. \A q \in Orders : told[q] = "once" /\ ex[q].p \in Positions => told'[q] = "once"
    <2>1. \A q \in Orders \ {o} : told'[q] = told[q]
      BY <1>1, <1>2, StepTypes DEF Tell
    <2>2. ~up => told' = told
      BY <1>1
    <2> QED
      BY <1>2, <1>6, <2>1, <2>2
  <1>8. \A q \in Positions : Booking(q)' <=> Booking(q)
    <2>1. hs'[Ws] = hs[Ws] \/ hs'[Ws].pc = "find"
      BY <1>1, StepTypes, IdleHandlerType DEF IdleHandler, Handlers, Ws
    <2> QED
      BY <1>1, <2>1 DEF Booking
  <1>9. Reader'
    <2>1. CASE hs' = hs
      BY <1>1, <2>1 DEF Reader
    <2>2. CASE up /\ \E p \in pend \cup open : Match(p, o)
      <3>1. PICK p \in pend \cup open : Match(p, o)
        BY <2>2
      <3>2. /\ p \in Positions /\ p \in 1 .. used /\ p <= used /\ ex[o].p = p
            /\ o = Entry(p) \/ (o = mem[p].exit /\ mem[p].st \in {"selling", "closed"})
        BY <1>2, <3>1, MatchFacts
      <3>3. told[o] = "no" /\ ex[o].st = "filled" /\ told'[o] = "once"
        BY <1>6, <2>2, <3>2
      <3>4. \/ o = Entry(p) /\ mem[p].st = "pending"
            \/ o = mem[p].exit /\ mem[p].st = "selling"
        <4>1. WasFilled(p)
          BY <3>2, TidyPosition
        <4>2. o = Entry(p) => mem[p].st = "pending"
          BY <3>3, <4>1 DEF WasFilled
        <4>3. ~(o = mem[p].exit /\ mem[p].st = "closed")
          BY <3>3, <4>1 DEF WasFilled
        <4> QED
          BY <3>2, <3>3, <4>2, <4>3
      <3>5. hs'[Ws].pc = "find" /\ hs'[Ws].o = o
        BY <1>1, <2>2, StepTypes, IdleHandlerType DEF IdleHandler, Handlers, Ws
      <3>6. mem'[p] = mem[p] /\ Entry(p)' = Entry(p) /\ p \in 1 .. used' /\ ex'[o] = ex[o]
        BY <1>1, <3>2 DEF Entry
      <3>7. ReaderAt(hs[Ws], p)'
        BY <1>2, <3>2, <3>3, <3>4, <3>5, <3>6 DEF ReaderAt
      <3>8. ex'[hs'[Ws].o].p = p
        BY <3>2, <3>5, <3>6
      <3> QED
        BY <3>7, <3>8 DEF Reader
    <2> QED
      BY <1>1, <2>1, <2>2
  <1> QED
    BY <1>1, <1>3, <1>4, <1>7, <1>8, <1>9, GentleStep

LEMMA TidyTakeCancel ==
  ASSUME TidyStep, TakeCancel
  PROVE  Tidy'
  <1>1. PositionsSame /\ UNCHANGED <<ex, coins, mem, loop, hs, told>>
    BY DEF TakeCancel, PositionsSame, maps, life, routines, history
  <1>2. Gentle
    BY <1>1 DEF Gentle
  <1> QED
    BY <1>1, <1>2, LoopStays, GentleOther

LEMMA TidyFind ==
  ASSUME TidyStep, Find(Ws)
  PROVE  Tidy'
  <1>1. /\ PositionsSame /\ UNCHANGED <<ex, coins, mem, loop, used, told>>
        /\ hs[Ws].pc = "find"
    BY DEF Find, PositionsSame, HandlerAt, books, maps, life, history
  <1>2. PICK o \in Orders, p \in Positions : o = hs[Ws].o /\ p = ex[o].p
    BY <1>1, ReaderFacts
  <1>3. ReaderAt(hs[Ws], p) /\ p <= used /\ ex[o].st = "filled"
    BY <1>1, <1>2, ReaderFacts
  <1> DEFINE inOpen == {q \in open : Match(q, o)}
             inPend == {q \in pend : mem[q].entry = o}
  <1>4. p \in inOpen \cup inPend
    <2>1. IsPending(p) /\ WasFilled(p)
      BY <1>3, TidyPosition
    <2>2. CASE o = Entry(p) /\ mem[p].st = "pending"
      BY <1>3, <2>1, <2>2 DEF IsPending, Dead, Entry
    <2>3. CASE o = mem[p].exit /\ mem[p].st = "selling"
      BY <2>1, <2>3 DEF WasFilled, Match
    <2> QED
      BY <1>1, <1>2, <1>3, <2>2, <2>3 DEF ReaderAt
  <1>5. \A q \in inOpen \cup inPend : q = p
    BY <1>2, MatchFacts DEF Match
  <1>6. \/ hs' = [hs EXCEPT ![Ws] = IdleHandler]
        \/ \E q \in inOpen \cup inPend : Move(Ws, "apply", q)
    <2>1. \/ hs' = [hs EXCEPT ![Ws] = IdleHandler]
          \/ \E q \in IF inOpen # {} THEN inOpen ELSE inPend : Move(Ws, "apply", q)
      BY <1>2, <1>4 DEF Find, Finish, FoundById
    <2> HIDE DEF inOpen, inPend
    <2> QED
      BY <2>1
  <1> HIDE DEF inOpen, inPend
  <1>7. hs'[Ws].pc = "idle" \/ (hs'[Ws].pc = "apply" /\ hs'[Ws].o = o /\ hs'[Ws].p = p)
    BY <1>2, <1>5, <1>6, StepTypes, IdleHandlerType DEF Move, Handlers, Ws, HandlerType, IdleHandler
  <1>8. Reader'
    <2>1. CASE hs'[Ws].pc = "idle"
      BY <2>1 DEF Reader
    <2>2. CASE hs'[Ws].pc = "apply" /\ hs'[Ws].o = o /\ hs'[Ws].p = p
      <3>1. Entry(p)' = Entry(p) /\ p \in 1 .. used' /\ told' = told /\ ex' = ex /\ mem' = mem
        BY <1>1, <1>3 DEF Entry, ReaderAt
      <3>2. ReaderAt(hs[Ws], p)'
        BY <1>1, <1>2, <1>3, <2>2, <3>1 DEF ReaderAt
      <3>3. ex'[hs'[Ws].o].p = p
        BY <1>2, <2>2, <3>1
      <3> QED
        BY <3>2, <3>3 DEF Reader
    <2> QED
      BY <1>7, <2>1, <2>2
  <1>9. \A q \in Positions : Booking(q)' <=> Booking(q)
    BY <1>1, <1>7 DEF Booking
  <1>10. Gentle
    BY <1>1 DEF Gentle
  <1> QED
    BY <1>1, <1>8, <1>9, <1>10, LoopStays, GentleStep

-----------------------------------------------------------------------------
(* Steps that change one position.                                         *)

Share(p) == IF p <= used /\ ended[p] = 0 THEN db[p].amt ELSE 0

LEMMA CountedFinite ==
  ASSUME TidyStep
  PROVE  IsFiniteSet(Counted)
  <1>1. Counted \subseteq 1 .. used
    BY DEF Counted, TidyStep, CoreInv, Types
  <1>2. IsFiniteSet(1 .. used)
    BY StepTypes, FS_Interval
  <1> QED
    BY <1>1, <1>2, FS_Subset

LEMMA LimitedKept ==
  ASSUME TidyStep, Counted' \subseteq Counted
  PROVE  Limited'
  <1>1. IsFiniteSet(Counted)
    BY CountedFinite
  <1>2. Cardinality(Counted') <= Cardinality(Counted) /\ Cardinality(Counted) \in Nat
        /\ Cardinality(Counted') \in Nat
    BY <1>1, FS_Subset, FS_CardinalityType
  <1>3. Cardinality(Counted) <= MaxConcurrent
    BY DEF TidyStep, Tidy, Limited
  <1> QED
    BY <1>2, <1>3, PumpAssumption DEF Limited

LEMMA InvestedInt ==
  ASSUME TidyStep
  PROVE  /\ Invested \in [Positions -> Int] /\ Invested' \in [Positions -> Int]
         /\ \A q \in Positions : Invested[q] = Share(q) /\ Invested'[q] = Share(q)'
         /\ \A q \in Positions : Share(q) \in Nat /\ Share(q)' \in Nat
  <1>1. \A q \in Positions : Share(q) \in Nat /\ Share(q)' \in Nat
    BY StepTypes DEF Share, PositionType
  <1>2. Invested = [q \in Positions |-> Share(q)] /\ Invested' = [q \in Positions |-> Share(q)']
    BY DEF Invested, Share
  <1> QED
    BY <1>1, <1>2
(* The balance and the investments move against each other.                *)
LEMMA StaysBooked ==
  ASSUME NEW p, bal \in Nat, bal' \in Nat, Share(p) \in Nat, Share(p)' \in Nat,
         Total(MaxPositions, Invested) \in Int,
         Total(MaxPositions, Invested') =
             Total(MaxPositions, Invested) + (Share(p)' - Share(p)),
         bal + Total(MaxPositions, Invested) = InitialIDR,
         bal' + Share(p)' = bal + Share(p)
  PROVE  bal' + Total(MaxPositions, Invested') = InitialIDR
  OBVIOUS


LEMMA BookedOne ==
  ASSUME TidyStep, NEW p \in Positions, \A q \in Positions \ {p} : Share(q)' = Share(q),
         bal' + Share(p)' = bal + Share(p)
  PROVE  Booked'
  <1>1. /\ Invested \in [1 .. MaxPositions -> Int] /\ Invested' \in [1 .. MaxPositions -> Int]
        /\ p \in 1 .. MaxPositions
        /\ \A q \in 1 .. MaxPositions : q # p => Invested'[q] = Invested[q]
        /\ Invested'[p] = Share(p)' /\ Invested[p] = Share(p)
        /\ Share(p) \in Nat /\ Share(p)' \in Nat
    BY InvestedInt DEF Positions
  <1>2. /\ Total(MaxPositions, Invested') =
             Total(MaxPositions, Invested) + (Share(p)' - Share(p))
        /\ Total(MaxPositions, Invested) \in Int
    <2> DEFINE f == Invested
               g == Invested'
    <2>1. /\ f \in [1 .. MaxPositions -> Int] /\ g \in [1 .. MaxPositions -> Int]
          /\ \A q \in 1 .. MaxPositions : q # p => g[q] = f[q]
      BY <1>1
    <2> HIDE DEF f, g
    <2>2. Total(MaxPositions, g) = Total(MaxPositions, f) + (g[p] - f[p])
          /\ Total(MaxPositions, f) \in Int
      BY <1>1, <2>1, TotalChange, PumpAssumption
    <2> QED
      BY <1>1, <2>2 DEF f, g
  <1>3. bal + Total(MaxPositions, Invested) = InitialIDR /\ bal \in Nat /\ bal' \in Nat
    BY StepTypes DEF TidyStep, Tidy, Booked
  <1>4. bal' + Total(MaxPositions, Invested') = InitialIDR
    BY <1>1, <1>2, <1>3, StaysBooked
  <1>5. Total(MaxPositions, Invested)' = Total(MaxPositions, Invested')
    BY DEF Total, Prefix
  <1> QED
    BY <1>4, <1>5 DEF Booked

LEMMA ShareSame ==
  ASSUME TidyStep, NEW q \in Positions, SameFor(q)
  PROVE  Share(q)' = Share(q)
  <1>1. q <= used' <=> q <= used
    BY StepTypes DEF SameFor, Positions
  <1> QED
    BY <1>1 DEF SameFor, Share

LEMMA TidyOne ==
  ASSUME TidyStep, NEW p \in Positions, \A q \in Positions \ {p} : SameFor(q),
         TidyAt(p)', Reader', bal' + Share(p)' = bal + Share(p),
         p \in pend' \cup open' => p \in pend \cup open, mem'[p].pair = mem[p].pair,
         p \in pend' \/ (p \in open' /\ mem'[p].st = "open") =>
            p \in pend \/ (p \in open /\ mem[p].st = "open")
  PROVE  Tidy'
  <1>1. \A q \in Positions : TidyAt(q)'
    BY SameKept
  <1>2. Booked'
    BY BookedOne, ShareSame
  <1>3. pend \cup open \subseteq Positions /\ pend' \cup open' \subseteq Positions
    <2>1. /\ pend \cup open \subseteq 1 .. used /\ pend' \cup open' \subseteq 1 .. used'
          /\ used \in 0 .. MaxPositions /\ used' \in 0 .. MaxPositions
      BY DEF TidyStep, CoreInv, Types
    <2> QED
      BY <2>1, PumpAssumption DEF Positions
  <1>4. /\ pend' \cup open' \subseteq pend \cup open
        /\ \A q \in Positions : mem'[q].pair = mem[q].pair
    BY <1>3 DEF SameFor
  <1>5. OnePair'
    BY <1>3, <1>4 DEF TidyStep, Tidy, OnePair
  <1>6. Counted' \subseteq Counted
    BY <1>3 DEF SameFor, Counted
  <1> QED
    BY <1>1, <1>2, <1>5, <1>6, LimitedKept DEF Tidy

(* The reader's position and order are not touched.                        *)
LEMMA ReaderKept ==
  ASSUME TidyStep, hs'[Ws] = hs[Ws], told' = told,
         \A o \in Orders : ex[o].st = "filled" => ex'[o] = ex[o],
         \A q \in Positions : hs[Ws].pc # "idle" /\ ex[hs[Ws].o].p = q =>
            /\ mem'[q] = mem[q]
            /\ hs[Ws].pc = "sell" => coins'[mem[q].pair] >= coins[mem[q].pair]
  PROVE  Reader'
  <1> SUFFICES ASSUME hs[Ws].pc # "idle"
               PROVE  ReaderAt(hs[Ws], ex[hs[Ws].o].p)'
    BY DEF Reader
  <1>0. PICK p \in Positions : p = ex[hs[Ws].o].p
    BY ReaderFacts
  <1>1. /\ ReaderAt(hs[Ws], p) /\ hs[Ws].o \in Orders /\ p <= used
        /\ ex[hs[Ws].o].st = "filled" /\ p \in 1 .. used'
    BY <1>0, ReaderFacts, StepTypes
  <1>2. ex'[hs[Ws].o] = ex[hs[Ws].o]
    BY <1>1
  <1>3. mem[p].pair \in Pairs /\ mem[p].amt \in Nat
    BY <1>1, TidyPosition, StepTypes DEF OrdersFit, PositionType
  <1>4. Entry(p)' = Entry(p) /\ mem'[p] = mem[p]
    BY <1>0 DEF Entry
  <1>5. hs[Ws].pc = "sell" /\ Sellable(p) => Sellable(p)'
    <2>1. coins[mem[p].pair] \in Nat /\ coins'[mem[p].pair] \in Nat
      BY <1>3, StepTypes
    <2>2. hs[Ws].pc = "sell" => coins'[mem[p].pair] >= coins[mem[p].pair]
      BY <1>0
    <2> QED
      BY <1>3, <1>4, <2>1, <2>2 DEF Sellable
  <1>6. told'[hs[Ws].o] = "once"
    BY <1>1 DEF ReaderAt
  <1>7. ReaderAt(hs[Ws], p)'
    <2> HIDE DEF Sellable
    <2> QED
      BY <1>1, <1>2, <1>4, <1>5, <1>6 DEF ReaderAt
  <1> QED
    BY <1>0, <1>2, <1>7

(* What the reader's next step says of the position.                       *)
LEMMA ReaderPosition ==
  ASSUME TidyStep, hs[Ws].pc # "idle", NEW p \in Positions, p = ex[hs[Ws].o].p
  PROVE  /\ mem[p].st = "pending" => hs[Ws].o = Entry(p)
         /\ mem[p].st = "open" => hs[Ws].pc = "sell" /\ hs[Ws].p = p
         /\ hs[Ws].pc = "book" <=> mem[p].st = "closed"
         /\ hs[Ws].pc # "find" => hs[Ws].p = p
  BY ReaderFacts DEF ReaderAt

(* Booking is about the reader's position.                                 *)
LEMMA BookingFacts ==
  ASSUME TidyStep, NEW p \in Positions, Booking(p)
  PROVE  ex[hs[Ws].o].p = p /\ mem[p].st = "closed" /\ p <= used
  BY ReaderFacts DEF Booking, ReaderAt

(* The parts of a position's invariant.                                    *)
LEMMA TidyIs ==
  ASSUME TidyStep, NEW p \in Positions, p <= used', closer'[p] = "idle",
         mem'[p].st # "none", OrdersFit(p)', IsPending(p)', WasFilled(p)'
  PROVE  TidyAt(p)'
  <1>1. ~(p > used')
    BY StepTypes DEF Positions
  <1> QED
    BY <1>1 DEF TidyAt

LEMMA NotFilled ==
  ASSUME NEW p, mem'[p].st = "pending"
  PROVE  WasFilled(p)' /\ mem'[p].st # "none"
  BY DEF WasFilled

LEMMA NotPending ==
  ASSUME NEW p, mem'[p].st \in Late
  PROVE  IsPending(p)' /\ mem'[p].st # "none" /\ mem'[p].st # "pending"
  BY DEF IsPending, Late

LEMMA FitKept ==
  ASSUME TidyStep, NEW p \in Positions, p <= used, ex' = ex,
         mem'[p].pair = mem[p].pair, mem'[p].amt = mem[p].amt, mem'[p].entry = mem[p].entry
  PROVE  OrdersFit(p)'
  <1>1. OrdersFit(p)
    BY TidyPosition
  <1> QED
    BY <1>1 DEF OrdersFit, Entry, Buys, Dead

LEMMA SellsKept ==
  ASSUME TidyStep, NEW p \in Positions, ex' = ex
  PROVE  KnownSells(p)' = KnownSells(p) /\ \A o \in Orders : Sells(o, p)' <=> Sells(o, p)
  <1>1. \A o \in Orders : Sells(o, p) => (Indexed(o)' <=> Indexed(o))
    BY OldOrder, KnownOrder DEF Sells, TidyStep, CoreInv
  <1> QED
    BY <1>1 DEF KnownSells, Sells

LEMMA LoopIsAway ==
  ASSUME TidyStep, NEW pc \in {"idle", "book", "delete", "trade", "cancel"}, GoTo(pc),
         NEW q, q # loop.p
  PROVE  Away(q) /\ (q # None => Away(q)')
  BY StepTypes DEF GoTo, IdleLoop, Away, LoopType

LEMMA TidyCancelBook ==
  ASSUME TidyStep, CancelBook
  PROVE  Tidy'
  <1>1. PICK p \in Positions : p = loop.p
    BY LoopFacts DEF TidyStep, CancelBook, LoopAt
  <1>2. /\ loop.pc = "book" /\ bal' = bal + mem[p].amt
        /\ pend' = pend \ {p} /\ open' = open \ {p} /\ ended' = [ended EXCEPT ![p] = @ + 1]
        /\ UNCHANGED <<ex, coins, mem, db, hs, closer, used, told>> /\ GoTo("delete")
    BY <1>1 DEF CancelBook, LoopAt, books, life
  <1>3. p <= used /\ p \in pend /\ mem[p].st = "pending" /\ Dead(Entry(p))
    BY <1>1, <1>2, LoopFits
  <1>4. closer[p] = "idle" /\ OrdersFit(p) /\ IsPending(p) /\ OrdersFit(p)'
    BY <1>2, <1>3, TidyPosition, FitKept
  <1>5. db[p] = mem[p] /\ ended[p] = 0 /\ p \notin open /\ mem[p].exit = None
        /\ \A o \in Orders : ~Sells(o, p)
    BY <1>3, <1>4 DEF IsPending
  <1>6. loop'.pc = "delete" /\ loop'.p = p /\ ended'[p] = 1
    BY <1>1, <1>2, <1>5, StepTypes DEF GoTo, LoopType
  <1>7. IsPending(p)'
    <2>1. At(p, {"delete"})' /\ ~At(p, {"book", "trade"})' /\ ~At(p, {"cancel", "move", "book", "trade"})'
      BY <1>6 DEF At
    <2>2. Dead(Entry(p))' /\ \A o \in Orders : ~Sells(o, p)'
      BY <1>2, <1>3, <1>5 DEF Dead, Entry, Sells
    <2> QED
      BY <1>2, <1>5, <1>6, <2>1, <2>2 DEF IsPending
  <1>8. TidyAt(p)'
    BY <1>2, <1>3, <1>4, <1>7, TidyIs, NotFilled
  <1>9. \A q \in Positions \ {p} : SameFor(q)
    <2> SUFFICES ASSUME NEW q \in Positions \ {p}
                 PROVE  SameFor(q)
      OBVIOUS
    <2>1. Away(q) /\ Away(q)'
      BY <1>1, <1>2, LoopIsAway, NoneIsNoPosition
    <2>2. q \in pend => coins'[mem[q].pair] >= coins[mem[q].pair]
      <3>1. ASSUME q \in pend PROVE coins[mem[q].pair] \in Nat
        <4>1. q <= used
          BY <3>1, StepTypes DEF TidyStep, CoreInv, Types
        <4> QED
          BY <4>1, TidyPosition, StepTypes DEF OrdersFit
      <3> QED
        BY <1>2, <3>1
    <2> QED
      BY <1>2, <2>1, <2>2, StepTypes DEF SameFor, Booking
  <1>10. Reader'
    <2>1. ASSUME hs[Ws].pc = "sell", NEW q \in Positions, ex[hs[Ws].o].p = q
          PROVE  coins[mem[q].pair] \in Nat
      <3>1. q <= used
        BY <2>1, ReaderFacts
      <3> QED
        BY <3>1, TidyPosition, StepTypes DEF OrdersFit
    <2> QED
      BY <1>2, <2>1, ReaderKept
  <1>11. bal' + Share(p)' = bal + Share(p)
    BY <1>2, <1>3, <1>5, <1>6, StepTypes DEF Share, PositionType
  <1> QED
    BY <1>2, <1>3, <1>8, <1>9, <1>10, <1>11, TidyOne

LEMMA TidyCancelDelete ==
  ASSUME TidyStep, CancelDelete
  PROVE  Tidy'
  <1>1. PICK p \in Positions : p = loop.p
    BY LoopFacts DEF TidyStep, CancelDelete, LoopAt
  <1>2. /\ loop.pc = "delete" /\ db' = [db EXCEPT ![p] = NoPosition] /\ GoTo("idle")
        /\ UNCHANGED <<ex, coins, mem, pend, open, bal, hs, closer, used, told, ended>>
    BY <1>1 DEF CancelDelete, LoopAt, books, maps, life, history
  <1>3. p <= used /\ p \notin pend /\ mem[p].st = "pending"
    BY <1>1, <1>2, LoopFits
  <1>4. closer[p] = "idle" /\ OrdersFit(p) /\ IsPending(p) /\ OrdersFit(p)'
    BY <1>2, <1>3, TidyPosition, FitKept
  <1>5. Dead(Entry(p)) /\ ended[p] = 1 /\ p \notin open /\ mem[p].exit = None
        /\ \A o \in Orders : ~Sells(o, p)
    BY <1>3, <1>4 DEF IsPending
  <1>6. loop'.pc = "idle" /\ db'[p] = NoPosition
    BY <1>2, StepTypes DEF GoTo, IdleLoop
  <1>7. IsPending(p)'
    <2>1. \A pcs \in SUBSET {"cancel", "move", "book", "trade", "delete"} : ~At(p, pcs)'
      BY <1>6 DEF At
    <2>2. Dead(Entry(p))' /\ \A o \in Orders : ~Sells(o, p)'
      BY <1>2, <1>5 DEF Dead, Entry, Sells
    <2>3. ~At(p, {"delete"})' /\ ~At(p, {"book", "trade"})' /\ ~At(p, {"cancel", "move", "book", "trade"})'
      BY <2>1
    <2> QED
      BY <1>2, <1>3, <1>5, <1>6, <2>2, <2>3 DEF IsPending
  <1>8. TidyAt(p)'
    BY <1>2, <1>3, <1>4, <1>7, TidyIs, NotFilled
  <1>9. \A q \in Positions \ {p} : SameFor(q)
    <2> SUFFICES ASSUME NEW q \in Positions \ {p}
                 PROVE  SameFor(q)
      OBVIOUS
    <2>1. Away(q) /\ Away(q)'
      BY <1>1, <1>2, LoopIsAway, NoneIsNoPosition
    <2>2. q \in pend => coins'[mem[q].pair] >= coins[mem[q].pair]
      <3>1. ASSUME q \in pend PROVE coins[mem[q].pair] \in Nat
        <4>1. q <= used
          BY <3>1, StepTypes DEF TidyStep, CoreInv, Types
        <4> QED
          BY <4>1, TidyPosition, StepTypes DEF OrdersFit
      <3> QED
        BY <1>2, <3>1
    <2> QED
      BY <1>2, <2>1, <2>2, StepTypes DEF SameFor, Booking
  <1>10. Reader'
    <2>1. ASSUME hs[Ws].pc = "sell", NEW q \in Positions, ex[hs[Ws].o].p = q
          PROVE  coins[mem[q].pair] \in Nat
      <3>1. q <= used
        BY <2>1, ReaderFacts
      <3> QED
        BY <3>1, TidyPosition, StepTypes DEF OrdersFit
    <2> QED
      BY <1>2, <2>1, ReaderKept
  <1>11. bal' + Share(p)' = bal + Share(p)
    BY <1>2, <1>5 DEF Share
  <1> QED
    BY <1>2, <1>3, <1>8, <1>9, <1>10, <1>11, TidyOne

-----------------------------------------------------------------------------
(* The exchange accepts an order.                                          *)

IsAccepted(n, side, p, pair, amt) ==
    /\ n \in Orders /\ ex[n].st = "none"
    /\ \A o \in Orders \ {n} : ex'[o] = ex[o]
    /\ ex'[n].st \in {"open", "filled"} /\ ex'[n].side = side
    /\ ex'[n].p = p /\ ex'[n].pair = pair /\ ex'[n].amt = amt
    /\ \A c \in Pairs \ {pair} : coins'[c] = coins[c]
    /\ side = "buy" => coins'[pair] >= coins[pair] + ex'[n].done
    /\ side = "buy" => coins'[pair] >= coins[pair]

LEMMA Accepted ==
  ASSUME TidyStep, NEW side \in {"buy", "sell"}, NEW kind, NEW p, NEW pair \in Pairs,
         NEW amt \in Nat, Accept(side, kind, p, pair, amt)
  PROVE  IsAccepted(NewOrder, side, p, pair, amt)
  <1> DEFINE n == NewOrder
             now == kind = "market"
  <1>1. /\ n \in Orders
        /\ ex' = [ex EXCEPT ![n] =
             [st |-> IF now THEN "filled" ELSE "open", side |-> side, p |-> p,
              pair |-> pair, amt |-> amt, done |-> IF now THEN amt ELSE 0]]
        /\ coins' = [coins EXCEPT ![pair] =
             IF side = "sell" THEN @ - amt ELSE IF now THEN @ + amt ELSE @]
    BY DEF Accept
  <1>2. ex[n].st = "none"
    BY <1>1, Fresh DEF TidyStep, CoreInv
  <1> HIDE DEF n
  <1>3. /\ \A o \in Orders \ {n} : ex'[o] = ex[o]
        /\ ex'[n] = [st |-> IF now THEN "filled" ELSE "open", side |-> side, p |-> p,
                     pair |-> pair, amt |-> amt, done |-> IF now THEN amt ELSE 0]
    BY <1>1, StepTypes
  <1>4. ex'[n].st \in {"open", "filled"} /\ ex'[n].done = IF now THEN amt ELSE 0
    BY <1>3
  <1>5. coins[pair] \in Nat /\ \A c \in Pairs \ {pair} : coins'[c] = coins[c]
    BY <1>1, StepTypes
  <1>6. side = "buy" => coins'[pair] = IF now THEN coins[pair] + amt ELSE coins[pair]
    BY <1>1, StepTypes
  <1>7. side = "buy" => /\ coins'[pair] >= coins[pair] + ex'[n].done
                        /\ coins'[pair] >= coins[pair]
    BY <1>4, <1>5, <1>6
  <1> QED
    BY <1>1, <1>2, <1>3, <1>4, <1>5, <1>7 DEF n, IsAccepted

(* A position in a map has a pair; no other position in a map has it.      *)
LEMMA MapFacts ==
  ASSUME TidyStep, NEW q \in pend \cup open
  PROVE  /\ q \in Positions /\ q <= used /\ mem[q].pair \in Pairs /\ mem[q].amt \in Nat
         /\ coins[mem[q].pair] \in Nat
         /\ \A p \in pend \cup open : mem[p].pair = mem[q].pair => p = q
  <1>1. q \in Positions /\ q <= used
    BY StepTypes DEF TidyStep, CoreInv, Types
  <1>2. mem[q].pair \in Pairs
    BY <1>1, TidyPosition DEF OrdersFit
  <1> QED
    BY <1>1, <1>2, StepTypes DEF TidyStep, Tidy, OnePair, PositionType

(* The coins of the positions in the maps but p, of which an order was     *)
(* accepted.                                                               *)
LEMMA OtherCoins ==
  ASSUME TidyStep, NEW side \in {"buy", "sell"}, NEW kind, NEW o, NEW pair \in Pairs,
         NEW amt \in Nat, Accept(side, kind, o, pair, amt),
         NEW p, side = "sell" => p \in pend \cup open /\ pair = mem[p].pair,
         NEW q \in pend \cup open, q # p
  PROVE  coins'[mem[q].pair] >= coins[mem[q].pair]
  <1>0. IsAccepted(NewOrder, side, o, pair, amt)
    BY Accepted
  <1>1. mem[q].pair \in Pairs /\ coins[mem[q].pair] \in Nat
    BY MapFacts
  <1>2. CASE mem[q].pair = pair
    <2>1. side = "buy"
      BY <1>2, MapFacts
    <2> QED
      BY <1>0, <1>2, <2>1 DEF IsAccepted
  <1>3. CASE mem[q].pair # pair
    <2>1. \A c \in Pairs \ {pair} : coins'[c] = coins[c]
      BY <1>0 DEF IsAccepted
    <2> QED
      BY <1>1, <1>3, <2>1
  <1> QED
    BY <1>2, <1>3

LEMMA SameWithNew ==
  ASSUME TidyStep, NEW n \in Orders, ex[n].st = "none",
         \A o \in Orders \ {n} : ex'[o] = ex[o], told' = told,
         NEW q \in Positions, ex'[n].p # q,
         mem'[q] = mem[q], db'[q] = db[q], closer'[q] = closer[q], ended'[q] = ended[q],
         q \in pend' <=> q \in pend, q \in open' <=> q \in open,
         q \in pend => coins'[mem[q].pair] >= coins[mem[q].pair],
         loop' = loop \/ (Away(q) /\ Away(q)'), Booking(q)' <=> Booking(q),
         q <= used' => q <= used
  PROVE  SameFor(q)
  <1>1. ex[n].p # q
    BY NewOrderFacts, NoneIsNoPosition
  <1>2. \A o \in Orders : ex[o].p = q \/ ex'[o].p = q => ex'[o] = ex[o] /\ told'[o] = told[o]
    BY <1>1
  <1> QED
    BY <1>2 DEF SameFor

(* A position that nothing happens to, when nothing happens to the funds.  *)
LEMMA TidyAll ==
  ASSUME TidyStep, UNCHANGED <<mem, db, pend, open, bal, ended, used>>,
         \A q \in Positions : SameFor(q), Reader'
  PROVE  Tidy'
  BY MoneySame, SameKept DEF Tidy

(* The reader's coins while an order is accepted that is not of its        *)
(* position.                                                               *)
LEMMA ReaderWithNew ==
  ASSUME TidyStep, NEW side \in {"buy", "sell"}, NEW kind, NEW o, NEW pair \in Pairs,
         NEW amt \in Nat, Accept(side, kind, o, pair, amt), hs'[Ws] = hs[Ws], told' = told,
         NEW p, side = "sell" => p \in pend \cup open /\ pair = mem[p].pair,
         hs[Ws].pc # "idle" => ex[hs[Ws].o].p # p,
         \A q \in Positions \ {p} : mem'[q] = mem[q]
  PROVE  Reader'
  <1>1. \A e \in Orders : ex[e].st = "filled" => ex'[e] = ex[e]
    <2>1. IsAccepted(NewOrder, side, o, pair, amt)
      BY Accepted
    <2> QED
      BY <2>1 DEF IsAccepted
  <1>2. ASSUME NEW q \in Positions, hs[Ws].pc # "idle", ex[hs[Ws].o].p = q
        PROVE  /\ mem'[q] = mem[q]
               /\ hs[Ws].pc = "sell" => coins'[mem[q].pair] >= coins[mem[q].pair]
    <2>1. q # p /\ ReaderAt(hs[Ws], q) /\ q <= used
      BY <1>2, ReaderFacts
    <2>2. hs[Ws].pc = "sell" => mem[q].st = "open"
      BY <2>1 DEF ReaderAt
    <2>3. hs[Ws].pc = "sell" => q \in pend \cup open
      BY <2>1, <2>2, TidyPosition DEF WasFilled
    <2>4. q \in pend \cup open => coins'[mem[q].pair] >= coins[mem[q].pair]
      BY <2>1, OtherCoins
    <2> QED
      BY <2>1, <2>3, <2>4
  <1> QED
    BY <1>1, <1>2, ReaderKept

LEMMA TidyOpenUnnoticed ==
  ASSUME TidyStep, NEW pair \in Pairs, NEW kind \in {"limit", "market"},
         OpenPositionUnnoticed(pair, kind)
  PROVE  Tidy'
  <1> DEFINE amt == SmallerOf(PositionIDR, bal)
  <1>1. /\ Accept("buy", kind, None, pair, amt)
        /\ UNCHANGED <<mem, db, pend, open, bal, ended, used, told, closer, loop, hs>>
    BY DEF OpenPositionUnnoticed, maps, routines, life, history
  <1>2. amt \in Nat
    BY StepTypes, PumpAssumption DEF SmallerOf
  <1> HIDE DEF amt
  <1>3. /\ NewOrder \in Orders /\ ex[NewOrder].st = "none"
        /\ \A o \in Orders \ {NewOrder} : ex'[o] = ex[o]
        /\ ex'[NewOrder].p = None
    BY <1>1, <1>2, Accepted DEF IsAccepted
  <1>4. \A q \in Positions : q \in pend => coins'[mem[q].pair] >= coins[mem[q].pair]
    BY <1>1, <1>2, OtherCoins, NoneIsNoPosition
  <1>5. \A q \in Positions : SameFor(q)
    BY <1>1, <1>3, <1>4, SameWithNew, NoneIsNoPosition DEF Booking
  <1>6. Reader'
    <2>1. hs[Ws].pc # "idle" => ex[hs[Ws].o].p # None
      BY ReaderFacts, NoneIsNoPosition
    <2> QED
      BY <1>1, <1>2, <2>1, ReaderWithNew
  <1> QED
    BY <1>1, <1>5, <1>6, TidyAll

-----------------------------------------------------------------------------
(* runBot moves a pending position to a new order.                         *)

LEMMA TidyMoveTrade ==
  ASSUME TidyStep, MoveTrade
  PROVE  Tidy'
  <1>1. PICK p \in Positions : p = loop.p
    BY LoopFacts DEF TidyStep, MoveTrade, LoopAt
  <1>0. PICK n : n = NewOrder
    OBVIOUS
  <1> DEFINE new == [mem[p] EXCEPT !.entry = n, !.kind = loop.kind]
  <1>2. /\ loop.pc = "trade" /\ Accept("buy", loop.kind, p, mem[p].pair, mem[p].amt)
        /\ mem' = [mem EXCEPT ![p] = new] /\ db' = [db EXCEPT ![p] = new]
        /\ GoTo("idle") /\ UNCHANGED <<pend, open, bal, hs, closer, used, ended, told>>
    BY <1>0, <1>1 DEF MoveTrade, LoopAt, Track, maps, life, history
  <1>3. p <= used /\ p \in pend /\ mem[p].st = "pending" /\ Dead(Entry(p))
    BY <1>1, <1>2, LoopFits
  <1>4. closer[p] = "idle" /\ OrdersFit(p) /\ IsPending(p)
    BY <1>3, TidyPosition
  <1>5. mem[p].pair \in Pairs /\ mem[p].amt \in Nat /\ coins[mem[p].pair] \in Nat
    BY <1>3, MapFacts
  <1>6. /\ n \in Orders /\ ex[n].st = "none"
        /\ \A o \in Orders \ {n} : ex'[o] = ex[o]
        /\ ex'[n].side = "buy" /\ ex'[n].p = p
        /\ ex'[n].pair = mem[p].pair /\ ex'[n].amt = mem[p].amt
        /\ coins'[mem[p].pair] >= coins[mem[p].pair] + ex'[n].done
    <2>1. Accept("buy", loop.kind, p, mem[p].pair, mem[p].amt)
      BY <1>2
    <2>2. IsAccepted(n, "buy", p, mem[p].pair, mem[p].amt)
      BY <1>0, <1>5, <2>1, Accepted
    <2> QED
      BY <2>2 DEF IsAccepted
  <1>7. /\ mem'[p] = new /\ db'[p] = new
        /\ \A q \in Positions \ {p} : mem'[q] = mem[q] /\ db'[q] = db[q]
    BY <1>2, StepTypes
  <1>8. /\ new.st = "pending" /\ new.pair = mem[p].pair /\ new.amt = mem[p].amt
        /\ new.entry = n /\ new.exit = mem[p].exit
    BY <1>3, StepTypes DEF PositionType
  <1> HIDE DEF new
  <1>9. loop'.pc = "idle"
    BY <1>2 DEF GoTo, IdleLoop
  <1>10. \A o \in Orders : /\ ~Sells(o, p)'
                           /\ Buys(o, p)' /\ o # n => Dead(o)'
    <2>1. \A o \in Orders : ~Sells(o, p)
      BY <1>3, <1>4 DEF IsPending
    <2>2. \A o \in Orders : Buys(o, p) => Dead(o)
      BY <1>3, <1>4 DEF OrdersFit
    <2> QED
      BY <1>6, <2>1, <2>2 DEF Sells, Buys, Dead
  <1>11. Entry(p)' = n
    BY <1>7, <1>8 DEF Entry
  <1>12. OrdersFit(p)'
    <2>1. mem[p].amt > 0 /\ \A o \in Orders : ex[o].p = p =>
              ex[o].pair = mem[p].pair /\ ex[o].amt = mem[p].amt
      BY <1>4 DEF OrdersFit
    <2>2. \A o \in Orders : ex'[o].p = p =>
              ex'[o].pair = mem'[p].pair /\ ex'[o].amt = mem'[p].amt
      BY <1>6, <1>7, <1>8, <2>1
    <2>3. Buys(n, p)'
      BY <1>6 DEF Buys
    <2> QED
      BY <1>5, <1>6, <1>7, <1>8, <1>10, <1>11, <2>1, <2>2, <2>3 DEF OrdersFit
  <1>13. IsPending(p)'
    <2>1. p \notin open /\ mem[p].exit = None /\ ended[p] = 0
      BY <1>3, <1>4 DEF IsPending
    <2>2. \A pcs \in SUBSET {"cancel", "move", "book", "trade", "delete"} : ~At(p, pcs)'
      BY <1>9 DEF At
    <2>3. ~At(p, {"delete"})' /\ ~At(p, {"book", "trade"})'
      BY <2>2
    <2>4. coins'[mem'[p].pair] >= ex'[n].done
      <3>1. ex'[n].done \in Nat /\ coins'[mem[p].pair] \in Nat
        BY <1>5, <1>6, StepTypes DEF OrderType
      <3> QED
        BY <1>5, <1>6, <1>7, <1>8, <3>1
    <2> QED
      BY <1>2, <1>3, <1>7, <1>8, <1>10, <1>11, <2>1, <2>3, <2>4 DEF IsPending
  <1>14. TidyAt(p)'
    BY <1>2, <1>3, <1>4, <1>7, <1>8, <1>12, <1>13, TidyIs, NotFilled
  <1>15. \A q \in Positions \ {p} : SameFor(q)
    <2> SUFFICES ASSUME NEW q \in Positions \ {p}
                 PROVE  SameFor(q)
      OBVIOUS
    <2>1. Away(q) /\ Away(q)'
      BY <1>1, <1>2, LoopIsAway, NoneIsNoPosition
    <2>2. q \in pend => coins'[mem[q].pair] >= coins[mem[q].pair]
      <3> SUFFICES ASSUME q \in pend \cup open
                   PROVE  coins'[mem[q].pair] >= coins[mem[q].pair]
        OBVIOUS
      <3>1. Accept("buy", loop.kind, p, mem[p].pair, mem[p].amt) /\ q # p
        BY <1>2
      <3>2. mem[p].pair \in Pairs /\ mem[p].amt \in Nat
        BY <1>5
      <3> QED
        BY <3>1, <3>2, OtherCoins
    <2>3. Booking(q)' <=> Booking(q)
      BY <1>2 DEF Booking
    <2> QED
      BY <1>2, <1>6, <1>7, <2>1, <2>2, <2>3, SameWithNew
  <1>16. Reader'
    <2>1. hs[Ws].pc # "idle" => ex[hs[Ws].o].p # p
      <3>1. ASSUME hs[Ws].pc # "idle", ex[hs[Ws].o].p = p
            PROVE  FALSE
        BY <1>3, <3>1, ReaderPosition, ReaderFacts DEF Dead
      <3> QED
        BY <3>1
    <2> QED
      BY <1>2, <1>5, <1>7, <2>1, ReaderWithNew
  <1>17. bal' + Share(p)' = bal + Share(p)
    <2>1. db[p] = mem[p]
      BY <1>3, <1>4 DEF IsPending
    <2> QED
      BY <1>2, <1>7, <1>8, <2>1 DEF Share
  <1> QED
    BY <1>2, <1>3, <1>7, <1>8, <1>14, <1>15, <1>16, <1>17, TidyOne

-----------------------------------------------------------------------------
(* Sell orders.                                                            *)

(* A sell order of an open position was accepted, and booked or not.       *)
SellPlaced(p, n, kind) ==
    /\ n = NewOrder /\ Accept("sell", kind, p, mem[p].pair, mem[p].amt)
    /\ p <= used /\ p \in open /\ mem[p].st = "open"
    /\ UNCHANGED <<pend, open, used, ended, told, closer, loop>>

LEMMA SellFacts ==
  ASSUME TidyStep, NEW p \in Positions, NEW n, NEW kind, SellPlaced(p, n, kind)
  PROVE  /\ IsAccepted(n, "sell", p, mem[p].pair, mem[p].amt)
         /\ mem[p].pair \in Pairs /\ mem[p].amt \in Nat /\ ~Indexed(n)
         /\ \A o \in Orders : Buys(o, p)' <=> Buys(o, p)
         /\ \A o \in Orders : Sells(o, p)' <=> Sells(o, p) \/ o = n
         /\ Entry(p) \in Orders /\ Entry(p) # n /\ ex'[Entry(p)] = ex[Entry(p)]
         /\ ex[Entry(p)].st = "filled" /\ told[Entry(p)] = "once"
         /\ KnownSells(p) = {} /\ mem[p].exit = None /\ closer[p] = "idle"
         /\ p \notin pend /\ ended[p] = 0 /\ db[p] = mem[p]
         /\ ~At(p, {"book", "delete", "trade"})
  <1>1. mem[p].pair \in Pairs /\ mem[p].amt \in Nat /\ p \in pend \cup open
    BY MapFacts DEF SellPlaced
  <1>2. IsAccepted(n, "sell", p, mem[p].pair, mem[p].amt)
    BY <1>1, Accepted DEF SellPlaced
  <1>3. ~Indexed(n) /\ ~Buys(n, p) /\ ~Sells(n, p)
    BY <1>2, NewOrderFacts DEF IsAccepted
  <1>4. Entry(p) \in Orders /\ Buys(Entry(p), p) /\ WasFilled(p) /\ closer[p] = "idle"
    BY TidyPosition DEF OrdersFit, SellPlaced
  <1>5. Entry(p) # n
    BY <1>3, <1>4
  <1>6. /\ \A o \in Orders : Buys(o, p)' <=> Buys(o, p)
        /\ \A o \in Orders : Sells(o, p)' <=> Sells(o, p) \/ o = n
    <2>1. ex'[n].side = "sell" /\ ex'[n].p = p /\ \A o \in Orders \ {n} : ex'[o] = ex[o]
      BY <1>2 DEF IsAccepted
    <2> QED
      BY <1>3, <2>1 DEF Buys, Sells
  <1>7. ex'[Entry(p)] = ex[Entry(p)]
    BY <1>2, <1>4, <1>5 DEF IsAccepted
  <1> QED
    BY <1>1, <1>2, <1>3, <1>4, <1>5, <1>6, <1>7 DEF WasFilled, SellPlaced

LEMMA SellFits ==
  ASSUME TidyStep, NEW p \in Positions, NEW n, NEW kind, SellPlaced(p, n, kind),
         mem'[p].pair = mem[p].pair, mem'[p].amt = mem[p].amt, mem'[p].entry = mem[p].entry
  PROVE  OrdersFit(p)'
  <1>1. OrdersFit(p)
    BY TidyPosition DEF SellPlaced
  <1>2. /\ IsAccepted(n, "sell", p, mem[p].pair, mem[p].amt)
        /\ \A o \in Orders : Buys(o, p)' <=> Buys(o, p)
    BY SellFacts
  <1>3. Entry(p)' = Entry(p)
    BY DEF Entry
  <1>4. \A o \in Orders : ex'[o].p = p => ex'[o].pair = mem'[p].pair /\ ex'[o].amt = mem'[p].amt
    BY <1>1, <1>2 DEF OrdersFit, IsAccepted
  <1>5. \A o \in Orders : Buys(o, p)' /\ o # Entry(p) => Dead(o)'
    <2>1. \A o \in Orders : Buys(o, p) => o # n
      BY <1>2, NewOrderFacts DEF IsAccepted
    <2>2. \A o \in Orders \ {n} : ex'[o] = ex[o]
      BY <1>2 DEF IsAccepted
    <2> QED
      BY <1>1, <1>2, <2>1, <2>2 DEF OrdersFit, Dead
  <1> QED
    BY <1>1, <1>2, <1>3, <1>4, <1>5 DEF OrdersFit

LEMMA SellKnown ==
  ASSUME TidyStep, NEW p \in Positions, NEW n, NEW kind, SellPlaced(p, n, kind)
  PROVE  KnownSells(p)' = IF Indexed(n)' THEN {n} ELSE {}
  <1>1. /\ n \in Orders /\ KnownSells(p) = {}
        /\ \A o \in Orders : Sells(o, p)' <=> Sells(o, p) \/ o = n
    BY SellFacts DEF IsAccepted
  <1>2. \A o \in Orders : Sells(o, p) => ~Indexed(o)'
    <2>1. \A o \in Orders : Sells(o, p) => ~Indexed(o)
      BY <1>1 DEF KnownSells
    <2> QED
      BY <2>1, OldOrder, KnownOrder DEF Sells, TidyStep, CoreInv
  <1> QED
    BY <1>1, <1>2 DEF KnownSells

LEMMA SellBooked ==
  ASSUME TidyStep, NEW p \in Positions, NEW n, NEW kind, SellPlaced(p, n, kind),
         Track(p, [mem[p] EXCEPT !.st = "selling", !.exit = n]), Indexed(n)'
  PROVE  TidyAt(p)'
  <1> DEFINE new == [mem[p] EXCEPT !.st = "selling", !.exit = n]
  <1>1. mem'[p] = new /\ db'[p] = new
    BY StepTypes DEF Track
  <1>2. /\ new.st = "selling" /\ new.exit = n /\ new.pair = mem[p].pair
        /\ new.amt = mem[p].amt /\ new.entry = mem[p].entry
    BY StepTypes DEF PositionType
  <1> HIDE DEF new
  <1>3. OrdersFit(p)'
    BY <1>1, <1>2, SellFits
  <1>4. KnownSells(p)' = {n}
    BY SellKnown
  <1>5. WasFilled(p)'
    <2>1. Entry(p)' = Entry(p)
      BY <1>1, <1>2 DEF Entry
    <2>2. ~At(p, {"book", "delete", "trade"})'
      BY SellFacts DEF SellPlaced, At
    <2>3. /\ ex'[Entry(p)].st = "filled" /\ told'[Entry(p)] = "once"
          /\ p \notin pend' /\ p \in open' /\ ended'[p] = 0
      BY SellFacts DEF SellPlaced
    <2> QED
      BY <1>1, <1>2, <1>4, <2>1, <2>2, <2>3 DEF WasFilled
  <1>6. closer'[p] = "idle" /\ p <= used'
    BY SellFacts DEF SellPlaced
  <1> QED
    BY <1>1, <1>2, <1>3, <1>5, <1>6, TidyIs, NotPending DEF Late

LEMMA SellUnbooked ==
  ASSUME TidyStep, NEW p \in Positions, NEW n, NEW kind, SellPlaced(p, n, kind),
         UNCHANGED <<mem, db>>, ~Indexed(n)'
  PROVE  TidyAt(p)'
  <1>1. mem'[p].st = "open"
    BY DEF SellPlaced
  <1>2. OrdersFit(p)'
    BY SellFits
  <1>3. KnownSells(p)' = {}
    BY SellKnown
  <1>4. WasFilled(p)'
    <2>1. Entry(p)' = Entry(p)
      BY DEF Entry
    <2>2. ~At(p, {"book", "delete", "trade"})'
      BY SellFacts DEF SellPlaced, At
    <2>3. /\ ex'[Entry(p)].st = "filled" /\ told'[Entry(p)] = "once"
          /\ p \notin pend' /\ p \in open' /\ ended'[p] = 0
          /\ db'[p] = mem'[p] /\ mem'[p].exit = None
      BY SellFacts DEF SellPlaced
    <2> QED
      BY <1>1, <1>3, <2>1, <2>2, <2>3 DEF WasFilled
  <1>5. closer'[p] = "idle" /\ p <= used'
    BY SellFacts DEF SellPlaced
  <1> QED
    BY <1>1, <1>2, <1>4, <1>5, TidyIs, NotPending DEF Late

(* The other positions, whoever placed the order.                          *)
LEMMA SellOthers ==
  ASSUME TidyStep, NEW p \in Positions, NEW n, NEW kind, SellPlaced(p, n, kind),
         \A q \in Positions \ {p} : mem'[q] = mem[q] /\ db'[q] = db[q],
         \A q \in Positions \ {p} : Booking(q)' <=> Booking(q)
  PROVE  \A q \in Positions \ {p} : SameFor(q)
  <1> SUFFICES ASSUME NEW q \in Positions \ {p}
               PROVE  SameFor(q)
    OBVIOUS
  <1>1. /\ IsAccepted(n, "sell", p, mem[p].pair, mem[p].amt)
        /\ mem[p].pair \in Pairs /\ mem[p].amt \in Nat
    BY SellFacts
  <1>2. /\ Accept("sell", kind, p, mem[p].pair, mem[p].amt) /\ p \in pend \cup open
        /\ UNCHANGED <<pend, open, used, ended, told, closer, loop>>
    BY DEF SellPlaced
  <1>3. q \in pend => coins'[mem[q].pair] >= coins[mem[q].pair]
    BY <1>1, <1>2, OtherCoins
  <1>4. /\ n \in Orders /\ ex[n].st = "none" /\ \A o \in Orders \ {n} : ex'[o] = ex[o]
        /\ ex'[n].p = p
    BY <1>1 DEF IsAccepted
  <1> QED
    BY <1>2, <1>3, <1>4, SameWithNew

LEMMA SellShare ==
  ASSUME TidyStep, NEW p \in Positions, NEW n, NEW kind, SellPlaced(p, n, kind),
         UNCHANGED <<mem, db>> \/ Track(p, [mem[p] EXCEPT !.st = "selling", !.exit = n])
  PROVE  /\ Share(p)' = Share(p) /\ mem'[p].pair = mem[p].pair
         /\ \A q \in Positions \ {p} : mem'[q] = mem[q] /\ db'[q] = db[q]
  <1>1. CASE UNCHANGED <<mem, db>>
    BY <1>1 DEF Share, SellPlaced
  <1>2. CASE Track(p, [mem[p] EXCEPT !.st = "selling", !.exit = n])
    <2> DEFINE new == [mem[p] EXCEPT !.st = "selling", !.exit = n]
    <2>1. /\ mem'[p] = new /\ db'[p] = new
          /\ \A q \in Positions \ {p} : mem'[q] = mem[q] /\ db'[q] = db[q]
      BY <1>2, StepTypes DEF Track
    <2>2. new.pair = mem[p].pair /\ new.amt = mem[p].amt
      BY StepTypes DEF PositionType
    <2>3. db[p] = mem[p]
      BY SellFacts
    <2> HIDE DEF new
    <2> QED
      BY <2>1, <2>2, <2>3 DEF Share, SellPlaced
  <1> QED
    BY <1>1, <1>2

(* runBot sells a position that its own fill handler is not selling.       *)
LEMMA TidyCloseAny ==
  ASSUME TidyStep, NEW p \in Positions, NEW n, MayClose(p), hs' = hs, bal' = bal,
         SellPlaced(p, n, "market"),
         \/ UNCHANGED <<mem, db>> /\ ~Indexed(n)'
         \/ Track(p, [mem[p] EXCEPT !.st = "selling", !.exit = n]) /\ Indexed(n)'
  PROVE  Tidy'
  <1>1. TidyAt(p)'
    BY SellBooked, SellUnbooked
  <1>2. /\ Share(p)' = Share(p) /\ mem'[p].pair = mem[p].pair
        /\ \A q \in Positions \ {p} : mem'[q] = mem[q] /\ db'[q] = db[q]
    BY SellShare
  <1>3. \A q \in Positions \ {p} : SameFor(q)
    BY <1>2, SellOthers DEF Booking
  <1>4. hs[Ws].pc # "idle" => ex[hs[Ws].o].p # p
    <2>1. ASSUME hs[Ws].pc # "idle", ex[hs[Ws].o].p = p PROVE FALSE
      <3>1. hs[Ws].pc = "sell" /\ hs[Ws].p = p
        BY <2>1, ReaderPosition DEF SellPlaced
      <3> QED
        BY <3>1 DEF MayClose, JustFilled, Handlers, Ws
    <2> QED
      BY <2>1
  <1>5. Reader'
    <2>1. mem[p].pair \in Pairs /\ mem[p].amt \in Nat
      BY SellFacts
    <2>2. /\ Accept("sell", "market", p, mem[p].pair, mem[p].amt) /\ told' = told
          /\ p \in pend \cup open /\ hs'[Ws] = hs[Ws]
      BY DEF SellPlaced
    <2> QED
      BY <1>2, <1>4, <2>1, <2>2, ReaderWithNew
  <1>6. bal' + Share(p)' = bal + Share(p)
    BY <1>2
  <1> QED
    BY <1>1, <1>2, <1>3, <1>5, <1>6, TidyOne DEF SellPlaced

LEMMA TidyClose ==
  ASSUME TidyStep, NEW p \in Positions, ClosePosition(p) \/ ClosePositionUnnoticed(p)
  PROVE  Tidy'
  <1>1. PICK n : n = NewOrder
    OBVIOUS
  <1>2. MayClose(p) /\ p \in open /\ mem[p].st = "open" /\ p <= used
    <2>1. MayClose(p)
      BY DEF ClosePosition, ClosePositionUnnoticed
    <2>2. p \in open /\ mem[p].st = "open"
      BY <2>1 DEF MayClose
    <2> QED
      BY <2>1, <2>2, MapFacts
  <1>3. /\ Accept("sell", "market", p, mem[p].pair, mem[p].amt)
        /\ UNCHANGED <<pend, open, used, ended, told, closer, loop, hs, bal>>
    BY DEF ClosePosition, ClosePositionUnnoticed, SellAccepted, maps, routines, life, history
  <1>4. SellPlaced(p, n, "market")
    BY <1>1, <1>2, <1>3 DEF SellPlaced
  <1>5. n \in Orders /\ ~Indexed(n)
    BY <1>4, SellFacts DEF IsAccepted
  <1>6. CASE ClosePosition(p)
    <2>1. /\ Track(p, [mem[p] EXCEPT !.st = "selling", !.exit = n])
          /\ rec' = [rec EXCEPT ![n] = Record(p, n)]
      BY <1>1, <1>6 DEF ClosePosition, SellAccepted
    <2>2. Indexed(n)'
      BY <1>5, <2>1, StepTypes DEF Indexed, Record
    <2> QED
      BY <1>2, <1>3, <1>4, <2>1, <2>2, TidyCloseAny
  <1>7. CASE ClosePositionUnnoticed(p)
    <2>1. UNCHANGED <<mem, db, rec>>
      BY <1>7 DEF ClosePositionUnnoticed
    <2>2. ~Indexed(n)'
      BY <1>5, <2>1 DEF Indexed
    <2> QED
      BY <1>2, <1>3, <1>4, <2>1, <2>2, TidyCloseAny
  <1> QED
    BY <1>6, <1>7

-----------------------------------------------------------------------------
(* The WebSocket reader applies a fill.                                    *)

(* What the reader works on.                                               *)
LEMMA ReaderWork ==
  ASSUME TidyStep, hs[Ws].pc \notin {"idle", "find"}
  PROVE  /\ hs[Ws].pc \in {"apply", "sell", "book"}
         /\ hs[Ws].p \in Positions /\ hs[Ws].p <= used /\ hs[Ws].p \in 1 .. used
         /\ ex[hs[Ws].o].p = hs[Ws].p /\ hs[Ws].o \in Orders
         /\ ReaderAt(hs[Ws], hs[Ws].p)
  <1>1. ReaderAt(hs[Ws], ex[hs[Ws].o].p) /\ ex[hs[Ws].o].p \in Positions
        /\ ex[hs[Ws].o].p <= used /\ ex[hs[Ws].o].p \in 1 .. used
    BY ReaderFacts
  <1>2. hs[Ws].p = ex[hs[Ws].o].p
    BY <1>1 DEF ReaderAt
  <1> QED
    BY <1>1, <1>2 DEF ReaderAt

(* The reader is done, or goes on with the same order.                     *)
LEMMA ReaderGoes ==
  ASSUME TidyStep, NEW p, NEW pc \in {"apply", "sell", "book"}
  PROVE  /\ Finish(Ws) => hs'[Ws].pc = "idle"
         /\ Move(Ws, pc, p) => hs'[Ws].pc = pc /\ hs'[Ws].o = hs[Ws].o /\ hs'[Ws].p = p
  BY StepTypes, IdleHandlerType DEF Finish, Move, Handlers, Ws, HandlerType, IdleHandler

LEMMA IdleReader ==
  ASSUME hs'[Ws].pc = "idle"
  PROVE  Reader' /\ \A q : ~Booking(q)'
  BY DEF Reader, Booking

(* A position's record and its object in memory change together.           *)
LEMMA Tracked ==
  ASSUME TidyStep, NEW p \in Positions, NEW new, Track(p, new)
  PROVE  /\ mem'[p] = new /\ db'[p] = new
         /\ \A q \in Positions \ {p} : mem'[q] = mem[q] /\ db'[q] = db[q]
  BY StepTypes DEF Track

LEMMA SameElsewhere ==
  ASSUME TidyStep, NEW p \in Positions, NEW q \in Positions \ {p},
         mem'[q] = mem[q], db'[q] = db[q], UNCHANGED <<ex, coins, closer, loop, told, used>>,
         pend' \ {p} = pend \ {p}, open' \ {p} = open \ {p}, ended'[q] = ended[q],
         Booking(q)' <=> Booking(q)
  PROVE  SameFor(q)
  <1>1. q \in pend => coins[mem[q].pair] \in Nat
    BY MapFacts
  <1>2. (q \in pend' <=> q \in pend) /\ (q \in open' <=> q \in open)
    OBVIOUS
  <1> QED
    BY <1>1, <1>2 DEF SameFor

LEMMA TidyApplyBuy ==
  ASSUME TidyStep, ApplyBuy(Ws)
  PROVE  Tidy'
  <1>1. PICK p : p = hs[Ws].p
    OBVIOUS
  <1> DEFINE new == [mem[p] EXCEPT !.st = "open"]
  <1>2. /\ hs[Ws].pc = "apply" /\ ex[hs[Ws].o].side = "buy" /\ Track(p, new)
        /\ pend' = IF mem[p].st = "pending" THEN pend \ {p} ELSE pend
        /\ open' = IF mem[p].st = "pending" THEN open \cup {p} ELSE open
        /\ Finish(Ws) \/ Move(Ws, "sell", p)
        /\ UNCHANGED <<ex, coins, bal, closer, loop, told, used, ended>>
    BY <1>1 DEF ApplyBuy, HandlerAt, books, life, history
  <1>3. /\ p \in Positions /\ p <= used /\ p \in 1 .. used /\ ex[hs[Ws].o].p = p
        /\ ReaderAt(hs[Ws], p)
    BY <1>1, <1>2, ReaderWork
  <1>4. /\ closer[p] = "idle" /\ OrdersFit(p) /\ IsPending(p)
        /\ mem[p].st # "pending" /\ mem[p].st # "open" => Sells(mem[p].exit, p)
    BY <1>3, TidyPosition
  <1>5. hs[Ws].o = Entry(p) /\ mem[p].st = "pending" /\ ex[Entry(p)].st = "filled"
        /\ told[Entry(p)] = "once"
    BY <1>2, <1>3, <1>4 DEF ReaderAt, Sells
  <1>6. /\ p \in pend /\ p \notin open /\ mem[p].exit = None /\ \A o \in Orders : ~Sells(o, p)
        /\ db[p] = mem[p] /\ ended[p] = 0 /\ coins[mem[p].pair] >= ex[Entry(p)].done
        /\ ~At(p, {"delete"}) /\ ~At(p, {"book", "trade"})
    BY <1>4, <1>5 DEF IsPending, Dead
  <1>7. /\ mem'[p] = new /\ db'[p] = new
        /\ \A q \in Positions \ {p} : mem'[q] = mem[q] /\ db'[q] = db[q]
    BY <1>2, <1>3, Tracked
  <1>8. /\ new.st = "open" /\ new.pair = mem[p].pair /\ new.amt = mem[p].amt
        /\ new.entry = mem[p].entry /\ new.exit = mem[p].exit
    BY <1>3, StepTypes DEF PositionType
  <1> HIDE DEF new
  <1>9. OrdersFit(p)' /\ Entry(p)' = Entry(p) /\ KnownSells(p)' = KnownSells(p)
    BY <1>2, <1>3, <1>7, <1>8, FitKept, SellsKept DEF Entry
  <1>10. WasFilled(p)'
    <2>1. ~At(p, {"book", "delete", "trade"})'
      BY <1>2, <1>6 DEF At
    <2>2. KnownSells(p)' = {}
      BY <1>6, <1>9 DEF KnownSells
    <2> QED
      BY <1>2, <1>5, <1>6, <1>7, <1>8, <1>9, <2>1, <2>2 DEF WasFilled
  <1>11. TidyAt(p)'
    BY <1>2, <1>3, <1>4, <1>7, <1>8, <1>9, <1>10, TidyIs, NotPending DEF Late
  <1>12. hs'[Ws].pc = "idle" \/ (hs'[Ws].pc = "sell" /\ hs'[Ws].o = hs[Ws].o /\ hs'[Ws].p = p)
    BY <1>2, ReaderGoes
  <1>13. Reader'
    <2>1. CASE hs'[Ws].pc = "idle"
      BY <2>1, IdleReader
    <2>2. CASE hs'[Ws].pc = "sell" /\ hs'[Ws].o = hs[Ws].o /\ hs'[Ws].p = p
      <3>1. Sellable(p)'
        <4>1. ex[Entry(p)].done = ex[Entry(p)].amt /\ ex[Entry(p)].amt = mem[p].amt
          BY <1>3, <1>4, <1>5 DEF OrdersFit, Buys, TidyStep, CoreInv, Books
        <4> QED
          BY <1>2, <1>6, <1>7, <1>8, <4>1 DEF Sellable
      <3>2. ReaderAt(hs[Ws], p)'
        <4> HIDE DEF Sellable
        <4> QED
          BY <1>2, <1>3, <1>5, <1>7, <1>8, <1>9, <2>2, <3>1 DEF ReaderAt
      <3>3. ex'[hs'[Ws].o].p = p
        BY <1>2, <1>3, <2>2
      <3> QED
        BY <3>2, <3>3 DEF Reader
    <2> QED
      BY <1>12, <2>1, <2>2
  <1>14. \A q \in Positions \ {p} : SameFor(q)
    BY <1>2, <1>3, <1>5, <1>7, <1>12, SameElsewhere DEF Booking
  <1>15. bal' + Share(p)' = bal + Share(p)
    BY <1>2, <1>6, <1>7, <1>8 DEF Share
  <1> QED
    BY <1>2, <1>3, <1>5, <1>6, <1>7, <1>8, <1>11, <1>13, <1>14, <1>15, TidyOne

LEMMA TidyApplySell ==
  ASSUME TidyStep, ApplySell(Ws)
  PROVE  Tidy'
  <1>1. PICK p : p = hs[Ws].p
    OBVIOUS
  <1> DEFINE new == [mem[p] EXCEPT !.st = "closed"]
  <1>2. /\ hs[Ws].pc = "apply" /\ ex[hs[Ws].o].side = "sell" /\ Track(p, new)
        /\ Move(Ws, "book", p)
        /\ UNCHANGED <<ex, coins, bal, pend, open, closer, loop, told, used, ended>>
    BY <1>1 DEF ApplySell, HandlerAt, books, maps, life, history
  <1>3. /\ p \in Positions /\ p <= used /\ p \in 1 .. used /\ ex[hs[Ws].o].p = p
        /\ ReaderAt(hs[Ws], p)
    BY <1>1, <1>2, ReaderWork
  <1>4. closer[p] = "idle" /\ OrdersFit(p) /\ WasFilled(p)
    BY <1>3, TidyPosition
  <1>5. hs[Ws].o = mem[p].exit /\ mem[p].st = "selling"
        /\ ex[mem[p].exit].st = "filled" /\ told[mem[p].exit] = "once"
    BY <1>2, <1>3, <1>4 DEF ReaderAt, OrdersFit, Buys
  <1>6. /\ p \notin pend /\ p \in open /\ db[p] = mem[p] /\ ended[p] = 0
        /\ ex[Entry(p)].st = "filled" /\ told[Entry(p)] = "once"
        /\ ~At(p, {"book", "delete", "trade"}) /\ KnownSells(p) = {mem[p].exit}
    BY <1>4, <1>5 DEF WasFilled
  <1>7. /\ mem'[p] = new /\ db'[p] = new
        /\ \A q \in Positions \ {p} : mem'[q] = mem[q] /\ db'[q] = db[q]
    BY <1>2, <1>3, Tracked
  <1>8. /\ new.st = "closed" /\ new.pair = mem[p].pair /\ new.amt = mem[p].amt
        /\ new.entry = mem[p].entry /\ new.exit = mem[p].exit
    BY <1>3, StepTypes DEF PositionType
  <1> HIDE DEF new
  <1>9. OrdersFit(p)' /\ Entry(p)' = Entry(p) /\ KnownSells(p)' = KnownSells(p)
    BY <1>2, <1>3, <1>7, <1>8, FitKept, SellsKept DEF Entry
  <1>10. hs'[Ws].pc = "book" /\ hs'[Ws].o = hs[Ws].o /\ hs'[Ws].p = p
    BY <1>2, ReaderGoes
  <1>11. WasFilled(p)'
    <2>1. ~At(p, {"book", "delete", "trade"})'
      BY <1>2, <1>6 DEF At
    <2>2. Booking(p)'
      BY <1>10 DEF Booking
    <2> HIDE DEF Booking
    <2> QED
      BY <1>2, <1>5, <1>6, <1>7, <1>8, <1>9, <2>1, <2>2 DEF WasFilled
  <1>12. TidyAt(p)'
    BY <1>2, <1>3, <1>4, <1>7, <1>8, <1>9, <1>11, TidyIs, NotPending DEF Late
  <1>13. Reader'
    <2>1. ReaderAt(hs[Ws], p)'
      BY <1>2, <1>3, <1>7, <1>8, <1>10 DEF ReaderAt
    <2>2. ex'[hs'[Ws].o].p = p
      BY <1>2, <1>3, <1>10
    <2> QED
      BY <2>1, <2>2 DEF Reader
  <1>14. \A q \in Positions \ {p} : SameFor(q)
    <2>1. \A q \in Positions \ {p} : ~Booking(q)' /\ ~Booking(q)
      BY <1>2, <1>10 DEF Booking
    <2> QED
      BY <1>2, <1>3, <1>7, <2>1, SameElsewhere
  <1>15. bal' + Share(p)' = bal + Share(p)
    BY <1>2, <1>6, <1>7, <1>8 DEF Share
  <1> QED
    BY <1>2, <1>3, <1>6, <1>7, <1>8, <1>12, <1>13, <1>14, <1>15, TidyOne

LEMMA TidyBookSell ==
  ASSUME TidyStep, BookSell(Ws)
  PROVE  Tidy'
  <1>1. PICK p : p = hs[Ws].p
    OBVIOUS
  <1>2. /\ hs[Ws].pc = "book" /\ Finish(Ws)
        /\ bal' = bal + mem[p].amt /\ open' = open \ {p}
        /\ ended' = [ended EXCEPT ![p] = @ + 1]
        /\ UNCHANGED <<ex, coins, mem, db, pend, closer, loop, told, used>>
    BY <1>1 DEF BookSell, Book, HandlerAt, books, life
  <1>3. /\ p \in Positions /\ p <= used /\ ReaderAt(hs[Ws], p)
    BY <1>1, <1>2, ReaderWork
  <1>4. /\ closer[p] = "idle" /\ OrdersFit(p) /\ WasFilled(p) /\ mem[p].st = "closed"
        /\ Booking(p)
    BY <1>1, <1>2, <1>3, TidyPosition DEF ReaderAt, Booking
  <1>5. /\ p \notin pend /\ p \in open /\ db[p] = mem[p] /\ ended[p] = 0
        /\ ex[Entry(p)].st = "filled" /\ told[Entry(p)] = "once"
        /\ ex[mem[p].exit].st = "filled" /\ told[mem[p].exit] = "once"
        /\ ~At(p, {"book", "delete", "trade"}) /\ KnownSells(p) = {mem[p].exit}
    BY <1>4 DEF WasFilled
  <1>6. OrdersFit(p)' /\ Entry(p)' = Entry(p) /\ KnownSells(p)' = KnownSells(p)
    BY <1>2, <1>3, FitKept, SellsKept DEF Entry
  <1>7. hs'[Ws].pc = "idle" /\ ended'[p] = 1
    BY <1>2, <1>3, <1>5, ReaderGoes, StepTypes
  <1>8. Reader' /\ \A q : ~Booking(q)'
    BY <1>7, IdleReader
  <1>9. WasFilled(p)'
    <2>1. ~At(p, {"book", "delete", "trade"})'
      BY <1>2, <1>5 DEF At
    <2> HIDE DEF Booking
    <2> QED
      BY <1>2, <1>4, <1>5, <1>6, <1>7, <1>8, <2>1 DEF WasFilled
  <1>10. TidyAt(p)'
    BY <1>2, <1>3, <1>4, <1>6, <1>9, TidyIs, NotPending DEF Late
  <1>11. \A q \in Positions \ {p} : SameFor(q)
    <2>1. \A q \in Positions \ {p} : ended'[q] = ended[q] /\ ~Booking(q)
      BY <1>1, <1>2, StepTypes DEF Booking
    <2> QED
      BY <1>2, <1>3, <1>8, <2>1, SameElsewhere
  <1>12. bal' + Share(p)' = bal + Share(p)
    <2>1. bal \in Nat /\ mem[p].amt \in Nat
      BY <1>3, StepTypes DEF PositionType
    <2> QED
      BY <1>2, <1>3, <1>5, <1>7, <2>1 DEF Share
  <1> QED
    BY <1>2, <1>3, <1>5, <1>8, <1>10, <1>11, <1>12, TidyOne

(* The limit sell order of the fill handler: the coins are there.          *)
LEMMA TidySell ==
  ASSUME TidyStep, Sell(Ws)
  PROVE  Tidy'
  <1>1. PICK p : p = hs[Ws].p
    OBVIOUS
  <1>2. PICK n : n = NewOrder
    OBVIOUS
  <1> DEFINE filled(r) == Marked(r, RecordOf(hs[Ws].o), "filled")
  <1>3. /\ hs[Ws].pc = "sell" /\ Finish(Ws)
        /\ UNCHANGED <<pend, open, bal, loop, told, used, ended>>
        /\ \/ /\ Accept("sell", "limit", p, mem[p].pair, mem[p].amt)
              /\ Track(p, [mem[p] EXCEPT !.st = "selling", !.exit = n])
              /\ rec' = filled([rec EXCEPT ![n] = Record(p, n)])
              /\ closer' = closer
           \/ ~Sellable(p)
           \/ UNCHANGED <<ex, coins, mem, db, closer>>
           \/ /\ Accept("sell", "limit", p, mem[p].pair, mem[p].amt)
              /\ rec' = filled(rec)
              /\ UNCHANGED <<mem, db, closer>>
    BY <1>1, <1>2 DEF Sell, HandlerAt, books, maps, life, history
  <1> HIDE DEF filled
  <1>4. /\ p \in Positions /\ p <= used /\ ex[hs[Ws].o].p = p /\ hs[Ws].o \in Orders
        /\ ReaderAt(hs[Ws], p)
    BY <1>1, <1>3, ReaderWork
  <1>5. Sellable(p) /\ mem[p].st = "open" /\ p \in open
    BY <1>3, <1>4, TidyPosition DEF ReaderAt, WasFilled
  <1>6. Reader' /\ \A q : ~Booking(q)' /\ ~Booking(q)
    BY <1>3, ReaderGoes, IdleReader DEF Booking
  <1>7. CASE UNCHANGED <<ex, coins, mem, db, closer>>
    <2>1. \A q \in Positions \ {p} : SameFor(q)
      BY <1>3, <1>4, <1>6, <1>7, SameElsewhere
    <2>2. SameFor(p)
      <3>1. coins[mem[p].pair] \in Nat
        BY <1>5, MapFacts
      <3> QED
        BY <1>3, <1>6, <1>7, <3>1 DEF SameFor
    <2> QED
      BY <1>3, <1>6, <1>7, <2>1, <2>2, TidyAll
  <1>8. ASSUME Accept("sell", "limit", p, mem[p].pair, mem[p].amt), closer' = closer,
               \/ UNCHANGED <<mem, db>> /\ ~Indexed(n)'
               \/ Track(p, [mem[p] EXCEPT !.st = "selling", !.exit = n]) /\ Indexed(n)'
        PROVE  Tidy'
    <2>1. SellPlaced(p, n, "limit")
      BY <1>2, <1>3, <1>4, <1>5, <1>8 DEF SellPlaced
    <2>2. TidyAt(p)'
      BY <1>4, <1>8, <2>1, SellBooked, SellUnbooked
    <2>3. /\ Share(p)' = Share(p) /\ mem'[p].pair = mem[p].pair
          /\ \A q \in Positions \ {p} : mem'[q] = mem[q] /\ db'[q] = db[q]
      BY <1>4, <1>8, <2>1, SellShare
    <2>4. \A q \in Positions \ {p} : SameFor(q)
      BY <1>4, <1>6, <2>1, <2>3, SellOthers
    <2>5. bal' + Share(p)' = bal + Share(p)
      BY <1>3, <2>3
    <2> QED
      BY <1>3, <1>4, <1>5, <1>6, <2>2, <2>3, <2>4, <2>5, TidyOne
  <1>9. ASSUME Accept("sell", "limit", p, mem[p].pair, mem[p].amt), closer' = closer
        PROVE  /\ n \in Orders /\ ~Indexed(n) /\ RecordOf(hs[Ws].o) # n
               /\ RecordOf(hs[Ws].o) \in Orders
    <2>1. SellPlaced(p, n, "limit")
      BY <1>2, <1>3, <1>4, <1>5, <1>9 DEF SellPlaced
    <2>2. n \in Orders /\ ~Indexed(n) /\ ex[n].st = "none"
      BY <1>4, <2>1, SellFacts DEF IsAccepted
    <2>3. Held(p)
      BY <1>5 DEF Held
    <2>4. mem[p].first \in Orders /\ Indexed(mem[p].first)
      BY <1>4, <2>3, HeldFacts DEF TidyStep
    <2>5. ex[hs[Ws].o].st = "filled"
      BY <1>4 DEF ReaderAt
    <2> QED
      BY <1>4, <2>2, <2>4, <2>5 DEF RecordOf
  <1>10. CASE /\ Accept("sell", "limit", p, mem[p].pair, mem[p].amt)
              /\ Track(p, [mem[p] EXCEPT !.st = "selling", !.exit = n])
              /\ rec' = filled([rec EXCEPT ![n] = Record(p, n)])
              /\ closer' = closer
    <2>1. Indexed(n)'
      BY <1>9, <1>10, StepTypes DEF Indexed, filled, Marked, Record
    <2> QED
      BY <1>8, <1>10, <2>1
  <1>11. CASE /\ Accept("sell", "limit", p, mem[p].pair, mem[p].amt)
              /\ rec' = filled(rec)
              /\ UNCHANGED <<mem, db, closer>>
    <2>1. ~Indexed(n)'
      BY <1>9, <1>11, StepTypes DEF Indexed, filled, Marked
    <2> QED
      BY <1>8, <1>11, <2>1
  <1> QED
    BY <1>3, <1>5, <1>7, <1>10, <1>11

LEMMA TidyHandler ==
  ASSUME TidyStep, HandlerStep(Ws)
  PROVE  Tidy'
  <1>1. ~Lookup(Ws) /\ ~RestoreToMemory(Ws)
    <2>1. hs[Ws].pc # "lookup" /\ hs[Ws].pc # "restore"
      BY ReaderWork
    <2> QED
      BY <2>1 DEF Lookup, RestoreToMemory, HandlerAt
  <1> QED
    BY <1>1, TidyFind, TidyApplyBuy, TidySell, TidyApplySell, TidyBookSell DEF HandlerStep

-----------------------------------------------------------------------------
(* runBot opens a position.                                                *)

LEMMA NothingOf ==
  ASSUME TidyStep, NEW p \in Positions, p > used
  PROVE  /\ \A o \in Orders : ex[o].p # p
         /\ closer[p] = "idle" /\ ended[p] = 0 /\ p \notin pend /\ p \notin open
  <1>1. \A o \in Orders : ex[o].p # p
    <2>1. ASSUME NEW o \in Orders, ex[o].p = p PROVE FALSE
      <3>1. p <= used
        BY <2>1 DEF TidyStep, CoreInv, Unused
      <3> QED
        BY <3>1, StepTypes DEF Positions
    <2> QED
      BY <2>1
  <1>2. p \notin pend /\ p \notin open
    <2>1. p \notin 1 .. used
      BY StepTypes DEF Positions
    <2> QED
      BY <2>1 DEF TidyStep, CoreInv, Types
  <1>3. TidyAt(p)
    BY DEF TidyStep, Tidy
  <1> QED
    BY <1>1, <1>2, <1>3 DEF TidyAt

LEMMA LimitedOpen ==
  ASSUME TidyStep, NEW p \in Positions, p \notin pend, p \notin open, Active < MaxConcurrent,
         pend' = pend \cup {p}, open' = open, \A q \in Positions \ {p} : mem'[q] = mem[q]
  PROVE  Limited'
  <1> DEFINE opened == {q \in open : mem[q].st = "open"}
  <1>1. pend \subseteq 1 .. used /\ open \subseteq 1 .. used /\ 1 .. used \subseteq Positions
    BY StepTypes DEF TidyStep, CoreInv, Types
  <1>2. Counted' = Counted \cup {p}
    BY <1>1 DEF Counted
  <1>3. IsFiniteSet(pend) /\ IsFiniteSet(opened) /\ Counted = pend \cup opened
    <2>1. IsFiniteSet(1 .. used)
      BY StepTypes, FS_Interval
    <2>2. opened \subseteq 1 .. used
      BY <1>1
    <2> QED
      BY <1>1, <2>1, <2>2, FS_Subset DEF Counted
  <1>4. Active = Cardinality(pend) + Cardinality(opened)
    BY DEF Active
  <1> HIDE DEF opened
  <1>5. /\ Cardinality(pend) \in Nat /\ Cardinality(opened) \in Nat
        /\ Cardinality(pend \cap opened) \in Nat
        /\ IsFiniteSet(Counted)
        /\ Cardinality(Counted) =
             Cardinality(pend) + Cardinality(opened) - Cardinality(pend \cap opened)
    <2>1. IsFiniteSet(pend \cap opened)
      BY <1>3, FS_Subset
    <2> QED
      BY <1>3, <2>1, FS_Union, FS_CardinalityType
  <1>6. Cardinality(Counted) \in Nat
    BY <1>5, FS_CardinalityType
  <1>7. Cardinality(Counted \cup {p}) <= Cardinality(Counted) + 1
        /\ Cardinality(Counted \cup {p}) \in Nat
    <2>1. Cardinality(Counted \cup {p}) =
             IF p \in Counted THEN Cardinality(Counted) ELSE Cardinality(Counted) + 1
      BY <1>5, FS_AddElement
    <2> QED
      BY <1>6, <2>1
  <1>8. Cardinality(Counted \cup {p}) <= MaxConcurrent
    BY <1>4, <1>5, <1>7, PumpAssumption
  <1> QED
    BY <1>2, <1>8 DEF Limited

LEMMA TidyOpen ==
  ASSUME TidyStep, NEW pair \in Pairs, NEW kind \in {"limit", "market"},
         OpenPosition(pair, kind)
  PROVE  Tidy'
  <1>1. PICK p : p = used + 1
    OBVIOUS
  <1>2. PICK n : n = NewOrder
    OBVIOUS
  <1>3. PICK size : size = SmallerOf(PositionIDR, bal)
    OBVIOUS
  <1> DEFINE new == [st |-> "pending", pair |-> pair, amt |-> size, kind |-> kind,
                     entry |-> n, first |-> n, exit |-> None]
  <1>4. /\ Accept("buy", kind, p, pair, size) /\ Track(p, new)
        /\ used' = p /\ pend' = pend \cup {p} /\ bal' = bal - size
        /\ UNCHANGED <<open, loop, hs, closer, ended, told>>
    BY <1>1, <1>2, <1>3 DEF OpenPosition, routines, history
  <1>5. /\ Active < MaxConcurrent /\ ~HasPosition(pair) /\ bal > 0 /\ used < MaxPositions
        /\ loop.pc = "idle"
    BY DEF OpenPosition, MayOpen
  <1>6. p \in Positions /\ p > used /\ p <= used' /\ \A q \in Positions \ {p} : q <= used' => q <= used
    BY <1>1, <1>4, <1>5, StepTypes, PumpAssumption DEF Positions
  <1>7. size \in Nat /\ size > 0
    BY <1>3, <1>5, StepTypes, PumpAssumption DEF SmallerOf
  <1>8. IsAccepted(n, "buy", p, pair, size)
    BY <1>2, <1>4, <1>7, Accepted
  <1>9. /\ \A o \in Orders : ex[o].p # p
        /\ closer[p] = "idle" /\ ended[p] = 0 /\ p \notin pend /\ p \notin open
    BY <1>6, NothingOf
  <1>10. /\ mem'[p] = new /\ db'[p] = new
         /\ \A q \in Positions \ {p} : mem'[q] = mem[q] /\ db'[q] = db[q]
    BY <1>4, <1>6, Tracked
  <1>11. /\ new.st = "pending" /\ new.pair = pair /\ new.amt = size /\ new.entry = n
         /\ new.exit = None
    OBVIOUS
  <1> HIDE DEF new
  <1>12. \A o \in Orders : ex'[o].p = p <=> o = n
    BY <1>8, <1>9 DEF IsAccepted
  <1>13. OrdersFit(p)'
    <2>1. ex'[n].side = "buy" /\ ex'[n].pair = pair /\ ex'[n].amt = size /\ n \in Orders
      BY <1>8 DEF IsAccepted
    <2>2. \A o \in Orders : Buys(o, p)' <=> o = n
      BY <1>12, <2>1 DEF Buys
    <2>3. Entry(p)' = n
      BY <1>10, <1>11 DEF Entry
    <2>4. \A o \in Orders : ex'[o].p = p =>
                ex'[o].pair = mem'[p].pair /\ ex'[o].amt = mem'[p].amt
      BY <1>10, <1>11, <1>12, <2>1
    <2> QED
      BY <1>7, <1>10, <1>11, <2>1, <2>2, <2>3, <2>4 DEF OrdersFit
  <1>14. IsPending(p)'
    <2>1. Entry(p)' = n /\ ex'[n].done \in Nat /\ coins[pair] \in Nat /\ coins'[pair] \in Nat
      BY <1>8, <1>10, <1>11, StepTypes DEF Entry, IsAccepted, OrderType
    <2>2. coins'[mem'[p].pair] >= ex'[n].done
      BY <1>8, <1>10, <1>11, <2>1 DEF IsAccepted
    <2>3. \A o \in Orders : ~Sells(o, p)'
      BY <1>8, <1>12 DEF Sells, IsAccepted
    <2>4. ~At(p, {"delete"})' /\ ~At(p, {"book", "trade"})'
      BY <1>4, <1>5 DEF At
    <2> QED
      BY <1>4, <1>9, <1>10, <1>11, <2>1, <2>2, <2>3, <2>4 DEF IsPending
  <1>15. TidyAt(p)'
    BY <1>4, <1>6, <1>9, <1>10, <1>11, <1>13, <1>14, TidyIs, NotFilled
  <1>16. \A q \in Positions \ {p} : SameFor(q)
    <2> SUFFICES ASSUME NEW q \in Positions \ {p}
                 PROVE  SameFor(q)
      OBVIOUS
    <2>1. q \in pend => coins'[mem[q].pair] >= coins[mem[q].pair]
      BY <1>4, <1>7, OtherCoins
    <2>2. Booking(q)' <=> Booking(q)
      BY <1>4 DEF Booking
    <2>3. /\ n \in Orders /\ ex[n].st = "none" /\ \A o \in Orders \ {n} : ex'[o] = ex[o]
          /\ ex'[n].p = p
      BY <1>8 DEF IsAccepted
    <2> QED
      BY <1>4, <1>6, <1>10, <2>1, <2>2, <2>3, SameWithNew
  <1>17. \A q \in Positions : TidyAt(q)'
    BY <1>15, <1>16, SameKept
  <1>18. Reader'
    <2>1. ASSUME hs[Ws].pc # "idle", ex[hs[Ws].o].p = p PROVE FALSE
      BY <1>9, <2>1, ReaderFacts
    <2> QED
      BY <1>4, <1>7, <1>10, <2>1, ReaderWithNew
  <1>19. Booked'
    <2>1. \A q \in Positions \ {p} : Share(q)' = Share(q)
      BY <1>16, ShareSame
    <2>2. Share(p) = 0
      BY <1>6, StepTypes DEF Share, Positions
    <2>3. Share(p)' = size
      BY <1>4, <1>6, <1>9, <1>10, <1>11 DEF Share
    <2>4. bal' + Share(p)' = bal + Share(p)
      BY <1>4, <1>7, <2>2, <2>3, StepTypes
    <2> QED
      BY <1>6, <2>1, <2>4, BookedOne
  <1>20. OnePair'
    <2>1. \A q \in pend \cup open : q \in Positions \ {p} /\ mem'[q].pair = mem[q].pair
                                    /\ mem[q].pair # pair
      BY <1>5, <1>9, <1>10, MapFacts DEF HasPosition
    <2>2. pend' \cup open' = (pend \cup open) \cup {p}
      BY <1>4
    <2>3. mem'[p].pair = pair
      BY <1>10, <1>11
    <2> QED
      BY <2>1, <2>2, <2>3, MapFacts DEF OnePair
  <1>21. Limited'
    BY <1>4, <1>5, <1>6, <1>9, <1>10, LimitedOpen
  <1> QED
    BY <1>17, <1>18, <1>19, <1>20, <1>21 DEF Tidy

LEMMA TidyDecide ==
  ASSUME TidyStep, Decide
  PROVE  Tidy'
  <1>1. CASE \E c \in Pairs, kind \in {"limit", "market"} :
                OpenPosition(c, kind) \/ OpenPositionUnnoticed(c, kind)
    BY <1>1, TidyOpen, TidyOpenUnnoticed
  <1>2. CASE \E p \in Positions : ClosePosition(p) \/ ClosePositionUnnoticed(p)
    BY <1>2, TidyClose
  <1>3. CASE \/ \E p \in Positions : FalsePump(p)
             \/ \E p \in Positions, kind \in {"limit", "market"} : PriceMoved(p, kind)
    BY <1>3, TidyCheck DEF FalsePump, PriceMoved
  <1> QED
    BY <1>1, <1>2, <1>3 DEF Decide

-----------------------------------------------------------------------------
(* What the bot was told and gave up before.                               *)

HistoryMoves ==
    /\ starts' = starts /\ starter' = starter /\ \A p \in Positions : hs'[p] = hs[p]
    /\ ended' \in [Positions -> Nat]
    /\ abandoned \subseteq abandoned'
    /\ told' = told \/ \E o \in Orders : ex[o].st # "none" /\ Tell(o)

LEMMA NoRestartInit == ASSUME Init PROVE NoRestart
  BY DEF Init, NoRestart, Handlers

LEMMA HistoryLoop ==
  ASSUME CoreInv, NoRestart, LoopStep
  PROVE  HistoryMoves
  <1>1. CASE CancelBook
    <2>1. /\ ended' = [ended EXCEPT ![loop.p] = @ + 1] /\ loop.p \in Positions
          /\ UNCHANGED <<starts, starter, hs, abandoned, told>>
      BY <1>1, LoopFacts DEF CancelBook, LoopAt, life
    <2>2. ended' \in [Positions -> Nat]
      BY <2>1 DEF NoRestart
    <2> QED
      BY <2>1, <2>2 DEF HistoryMoves
  <1>2. CASE CancelDelete \/ MoveTrade \/ LoopExit
    BY <1>2 DEF CancelDelete, MoveTrade, LoopExit, life, history, routines, NoRestart,
                HistoryMoves
  <1>3. CASE CancelEntry \/ MoveCancel \/ MoveRefused
    <2>1. abandoned \subseteq abandoned'
      BY <1>3 DEF CancelEntry, MoveCancel, MoveRefused, Abandon
    <2> QED
      BY <1>3, <2>1 DEF CancelEntry, MoveCancel, MoveRefused, life, NoRestart, HistoryMoves
  <1> QED
    BY <1>1, <1>2, <1>3 DEF LoopStep

LEMMA HistoryHandler ==
  ASSUME CoreInv, NoRestart, HandlerStep(Ws)
  PROVE  HistoryMoves
  <1>1. Ws \notin Positions
    BY NoneIsNoPosition DEF Ws, None
  <1>2. \A p \in Positions : hs'[p] = hs[p]
    BY <1>1, CoreTypes DEF Types, HandlerStep, Find, Lookup, RestoreToMemory, ApplyBuy, Sell,
       ApplySell, BookSell, Finish, Move, Handlers
  <1>3. CASE BookSell(Ws)
    <2>1. /\ ended' = [ended EXCEPT ![hs[Ws].p] = @ + 1]
          /\ UNCHANGED <<starts, starter, abandoned, told>>
      BY <1>3 DEF BookSell, Book, life
    <2>2. ended' \in [Positions -> Nat]
      <3>1. CASE hs[Ws].p \in Positions
        BY <2>1, <3>1 DEF NoRestart
      <3>2. CASE hs[Ws].p \notin Positions
        BY <2>1, <3>2 DEF NoRestart
      <3> QED
        BY <3>1, <3>2
    <2> QED
      BY <1>2, <2>1, <2>2 DEF HistoryMoves
  <1>4. CASE Find(Ws) \/ Lookup(Ws) \/ RestoreToMemory(Ws) \/ ApplyBuy(Ws) \/ Sell(Ws)
             \/ ApplySell(Ws)
    BY <1>2, <1>4 DEF Find, Lookup, RestoreToMemory, ApplyBuy, Sell, ApplySell, life, history,
       NoRestart, HistoryMoves
  <1> QED
    BY <1>3, <1>4 DEF HandlerStep

LEMMA HistoryWs ==
  ASSUME CoreInv, NoRestart, TakeFill \/ TakeCancel
  PROVE  HistoryMoves
  <1>1. CASE TakeCancel
    BY <1>1 DEF TakeCancel, routines, life, history, NoRestart, HistoryMoves
  <1>2. CASE TakeFill
    <2>1. Ws \notin Positions
      BY NoneIsNoPosition DEF Ws, None
    <2>2. \A p \in Positions : hs'[p] = hs[p]
      BY <1>2, <2>1, CoreTypes DEF Types, TakeFill, Handlers
    <2>3. Head(wire).o \in Orders /\ ex[Head(wire).o].st # "none"
      <3>1. wire \in Seq(Message) /\ wire # <<>> /\ Head(wire).st = "fill"
        BY <1>2 DEF TakeFill, NextIs, CoreInv, Types
      <3>2. Head(wire) = wire[1] /\ wire[1] \in Message /\ 1 \in 1 .. Len(wire)
        BY <3>1
      <3>3. Head(wire).o \in Fills
        BY <3>1, <3>2 DEF Fills
      <3>4. Head(wire).o \in Orders
        BY <3>2 DEF Message
      <3> QED
        BY <3>3, <3>4, KnownOrder DEF CoreInv, FillsAreTrue
    <2>4. told' = told \/ \E o \in Orders : ex[o].st # "none" /\ Tell(o)
      BY <1>2, <2>3 DEF TakeFill
    <2> QED
      BY <1>2, <2>2, <2>4 DEF TakeFill, life, NoRestart, HistoryMoves
  <1> QED
    BY <1>1, <1>2

LEMMA HistoryNext ==
  ASSUME CoreInv, NoRestart, MaxStarts = 0, [Next]_vars
  PROVE  HistoryMoves
  <1>1. CASE Exchange \/ UNCHANGED vars
    BY <1>1 DEF Exchange, ExFill, ExPartial, ExternalCancel, LoseMessage, vars, life, history,
       routines, NoRestart, HistoryMoves
  <1>2. CASE Decide
    <2>1. UNCHANGED <<starts, starter, hs, ended, abandoned, told>>
      BY <1>2 DEF Decide, OpenPosition, OpenPositionUnnoticed, ClosePosition,
         ClosePositionUnnoticed, FalsePump, PriceMoved, Check, life, history, routines
    <2> QED
      BY <2>1 DEF NoRestart, HistoryMoves
  <1>3. CASE StopBot \/ StopStep
    BY <1>3 DEF StopBot, StopStep, StopList, StopDone, StopCancel, life, history, NoRestart,
       HistoryMoves
  <1>4. ~Crash /\ ~StartBot
    BY DEF Crash, StartBot, NoRestart
  <1>5. ~StartStep
    BY DEF StartStep, Started, RestorePending, RestoreOpen, RestoreSelling, Restoring, Nothing,
       NoRestart
  <1>6. \A p \in Positions : ~HandlerStep(p)
    BY DEF HandlerStep, Find, Lookup, RestoreToMemory, ApplyBuy, Sell, ApplySell, BookSell,
       HandlerAt, IdleHandler, NoRestart
  <1>7. ASSUME NEW p \in Positions, CloserStep(p)
        PROVE  HistoryMoves
    <2>1. ended' \in [Positions -> Nat]
      BY <1>7 DEF CloserStep, CloserCheck, CloserSave, CloserBook, Book, history, NoRestart
    <2> QED
      BY <1>7, <2>1 DEF CloserStep, CloserCheck, CloserSave, CloserBook, life, history,
                        HistoryMoves
  <1> QED
    BY <1>1, <1>2, <1>3, <1>4, <1>5, <1>6, <1>7, HistoryLoop, HistoryHandler, HistoryWs
       DEF Next, WsStep, Owner

LEMMA NoRestartNext ==
  ASSUME CoreInv, Keeps, NoRestart, HistoryMoves
  PROVE  NoRestart'
  <1>1. \A o \in Orders : ex'[o].st = "none" => ex[o].st = "none"
    BY DEF Keeps, BooksMove, ExMono
  <1>2. /\ told' \in [Orders -> {"no", "once", "wrongly"}]
        /\ \A o \in Orders : ex[o].st = "none" => told'[o] = told[o]
    <2>1. CASE told' = told
      BY <2>1 DEF NoRestart
    <2>2. ASSUME NEW o \in Orders, ex[o].st # "none", Tell(o)
          PROVE  /\ told' \in [Orders -> {"no", "once", "wrongly"}]
                 /\ \A q \in Orders : ex[q].st = "none" => told'[q] = told[q]
      BY <2>2 DEF Tell, NoRestart
    <2> QED
      BY <2>1, <2>2 DEF HistoryMoves
  <1> QED
    BY <1>1, <1>2 DEF NoRestart, HistoryMoves

LEMMA CleanBefore ==
  ASSUME CoreInv, Keeps, NoRestart, HistoryMoves, Clean'
  PROVE  Clean
  <1>1. abandoned = {}
    BY DEF Clean, HistoryMoves
  <1>2. \A o \in Orders : told[o] = "wrongly" => told'[o] = "wrongly"
    <2>1. ASSUME NEW o \in Orders, Tell(o)
          PROVE  \A q \in Orders : told[q] = "wrongly" => told'[q] = "wrongly"
      BY <2>1 DEF Tell, NoRestart
    <2> QED
      BY <2>1 DEF HistoryMoves
  <1>3. ASSUME NEW p \in Positions, NEW o \in Orders, ex[o].p = p, told[o] = "wrongly"
        PROVE  FALSE
    <2>1. ex[o].st # "none"
      BY <1>3, NoneIsNoPosition DEF CoreInv, Books, NoOrder
    <2>2. ex'[o].p = p
      BY <1>3, <2>1 DEF Keeps, BooksMove, ExMono
    <2> QED
      BY <1>2, <1>3, <2>2 DEF Clean, ToldOnce
  <1> QED
    BY <1>1, <1>3 DEF Clean, ToldOnce

-----------------------------------------------------------------------------
(* The invariant.                                                          *)

LEMMA TidyInit == ASSUME Init PROVE TidyInv
  <1>1. CoreInv
    BY CoreInit
  <1>2. NoRestart
    BY NoRestartInit
  <1>3. \A p \in Positions : TidyAt(p)
    <2> SUFFICES ASSUME NEW p \in Positions
                 PROVE  TidyAt(p)
      OBVIOUS
    <2>1. used = 0 /\ ~(p <= used)
      BY DEF Init, Positions
    <2> QED
      BY <2>1 DEF Init, TidyAt
  <1>4. Reader
    BY IdleHandlerType DEF Init, Reader, Handlers, Ws
  <1>5. Booked
    <2>1. \A p \in 1 .. MaxPositions : Invested[p] = 0
      BY DEF Init, Invested, Positions
    <2>2. Total(MaxPositions, Invested) = 0
      <3> DEFINE f == Invested
      <3>1. \A p \in 1 .. MaxPositions : f[p] = 0
        BY <2>1
      <3> HIDE DEF f
      <3>2. Total(MaxPositions, f) = 0
        BY <3>1, TotalNone, PumpAssumption
      <3> QED
        BY <3>2 DEF f
    <2> QED
      BY <2>2, PumpAssumption DEF Init, Booked
  <1>6. OnePair
    BY DEF Init, OnePair
  <1>7. Limited
    <2>1. Counted = {}
      BY DEF Init, Counted
    <2> QED
      BY <2>1, FS_EmptySet, PumpAssumption DEF Limited
  <1> QED
    BY <1>1, <1>2, <1>3, <1>4, <1>5, <1>6, <1>7 DEF TidyInv, Tidy

LEMMA TidyStutter ==
  ASSUME TidyStep, UNCHANGED vars
  PROVE  Tidy'
  <1>1. PositionsSame /\ Gentle /\ loop' = loop /\ hs' = hs /\ told' = told /\ mem' = mem
    BY DEF vars, books, maps, routines, life, history, PositionsSame, Gentle
  <1> QED
    BY <1>1, LoopStays, GentleOther

LEMMA TidyNext ==
  ASSUME TidyStep, MaxStarts = 0, [Next]_vars
  PROVE  Tidy'
  <1>1. ~Crash /\ ~StartBot
    BY DEF Crash, StartBot, NoRestart, TidyStep
  <1>2. ~StartStep
    BY DEF StartStep, Started, RestorePending, RestoreOpen, RestoreSelling, Restoring, Nothing,
       NoRestart, TidyStep
  <1>3. \A p \in Positions : ~HandlerStep(p)
    BY DEF HandlerStep, Find, Lookup, RestoreToMemory, ApplyBuy, Sell, ApplySell, BookSell,
       HandlerAt, IdleHandler, NoRestart, TidyStep
  <1>4. \A p \in Positions : ~CloserStep(p)
    BY DEF CloserStep, CloserCheck, CloserSave, CloserBook, TidyStep, Tidy, TidyAt
  <1>5. CASE LoopStep
    BY <1>5, TidyCancelEntry, TidyCancelBook, TidyCancelDelete, TidyMoveCancel, TidyMoveTrade,
       TidyMoveRefused, TidyStop DEF LoopStep
  <1>6. CASE WsStep
    BY <1>6, TidyTakeFill, TidyTakeCancel, TidyHandler DEF WsStep
  <1> QED
    BY <1>1, <1>2, <1>3, <1>4, <1>5, <1>6, TidyExchange, TidyDecide, TidyStop, TidyStutter
       DEF Next, Owner

LEMMA TidyAlways ==
  ASSUME MaxStarts = 0
  PROVE  Spec => []TidyInv
  <1>1. TidyInv /\ [Next]_vars => TidyInv'
    <2> SUFFICES ASSUME TidyInv, [Next]_vars
                 PROVE  TidyInv'
      OBVIOUS
    <2>1. CoreInv /\ NoRestart /\ (Clean => Tidy)
      BY DEF TidyInv
    <2>2. CoreInv' /\ Keeps
      BY <2>1, CoreNext
    <2>3. HistoryMoves
      BY <2>1, HistoryNext
    <2>4. NoRestart'
      BY <2>1, <2>2, <2>3, NoRestartNext
    <2>5. ASSUME Clean'
          PROVE  Tidy'
      <3>1. Clean
        BY <2>1, <2>2, <2>3, <2>5, CleanBefore
      <3>2. TidyStep
        BY <2>1, <2>2, <2>4, <2>5, <3>1 DEF TidyStep
      <3> QED
        BY <3>2, TidyNext
    <2> QED
      BY <2>2, <2>4, <2>5 DEF TidyInv
  <1> QED
    BY <1>1, TidyInit, PTL DEF Spec

(* Without a restart, and unless the bot was told wrongly of an order or   *)
(* gave one up that bought or could buy: a pair never has two positions,   *)
(* and never more than MaxConcurrentPositions are pending or open,         *)
(* whichever way fills, cancellations, moved orders, refusals, lost        *)
(* replies, failing cancellations and StopBot interleave.                  *)
THEOREM WithinLimitsAlways ==
  ASSUME MaxStarts = 0
  PROVE  Spec => []WithinLimits
  <1>1. TidyInv => WithinLimits
    BY DEF TidyInv, Tidy, OnePair, Limited, Counted, WithinLimits, OnePositionPerPair,
           ActiveWithinLimit
  <1> QED
    BY <1>1, TidyAlways, PTL

(* What a position's part says of the maps and of its record.              *)
LEMMA TidyMaps ==
  ASSUME CoreInv, NEW p \in Positions, TidyAt(p), Quiet
  PROVE  p \in pend \cup open <=> db[p].st \in {"pending", "open", "selling"}
  <1>1. used \in Nat /\ pend \cup open \subseteq 1 .. used /\ mem[p] \in PositionType
    BY CoreTypes DEF Types
  <1>2. CASE p > used
    <2>1. p \notin pend \cup open
      BY <1>1, <1>2 DEF Positions
    <2>2. db[p].st = "none"
      <3>1. ~(p <= used)
        BY <1>1, <1>2 DEF Positions
      <3> QED
        BY <3>1 DEF CoreInv, Unused
    <2> QED
      BY <2>1, <2>2
  <1>3. CASE p <= used
    <2>1. mem[p].st # "none" /\ IsPending(p) /\ WasFilled(p)
      BY <1>3 DEF TidyAt
    <2>2. loop.pc = "idle" /\ ~Booking(p)
      BY DEF Quiet, LoopAt, Handlers, Ws, HandlerAt, Booking
    <2>3. CASE mem[p].st = "pending"
      <3>1. ~At(p, {"delete"})
        BY <2>2 DEF At
      <3> QED
        BY <2>1, <2>3, <3>1 DEF IsPending, NoPosition
    <2>4. CASE mem[p].st # "pending"
      <3>1. /\ p \notin pend /\ db[p] = mem[p]
            /\ mem[p].st # "closed" => p \in open
            /\ mem[p].st = "closed" => p \notin open
        BY <2>1, <2>2, <2>4 DEF WasFilled
      <3>2. mem[p].st \in {"open", "selling", "closed"}
        BY <1>1, <2>1, <2>4 DEF PositionType
      <3> QED
        BY <3>1, <3>2
    <2> QED
      BY <2>3, <2>4
  <1>4. p > used \/ p <= used
    BY <1>1 DEF Positions
  <1> QED
    BY <1>2, <1>3, <1>4

(* Without a restart, and while nothing was told wrongly or abandoned: the *)
(* maps of a running bot and the active positions in Redis are the same    *)
(* between two operations, although memory, maps and records change at     *)
(* different moments.                                                      *)
THEOREM MapsMatchAlways ==
  ASSUME MaxStarts = 0
  PROVE  Spec => []MapsMatch
  <1>1. ASSUME TidyInv
        PROVE  MapsMatch
    <2> SUFFICES ASSUME Clean, Quiet
                 PROVE  pend \cup open = ActiveInRedis
      BY DEF MapsMatch
    <2>1. CoreInv /\ \A p \in Positions : TidyAt(p)
      BY <1>1 DEF TidyInv, Tidy
    <2>2. pend \cup open \subseteq Positions
      BY <2>1, UsedPositions DEF CoreInv, Types
    <2>3. \A p \in Positions : p \in pend \cup open <=> db[p].st \in {"pending", "open", "selling"}
      BY <2>1, TidyMaps
    <2> QED
      BY <2>2, <2>3 DEF ActiveInRedis
  <1> QED
    BY <1>1, TidyAlways, PTL

(* Without a restart, and while nothing was told wrongly or abandoned: the *)
(* virtual balance is the allocation less the amounts of the positions     *)
(* whose funds were not booked back, so that no position is booked twice   *)
(* or not at all.                                                          *)
THEOREM BalanceBookedAlways ==
  ASSUME MaxStarts = 0
  PROVE  Spec => []BalanceBooked
  <1>1. ASSUME TidyInv
        PROVE  BalanceBooked
    <2> SUFFICES ASSUME Clean
                 PROVE  bal = InitialIDR - Total(MaxPositions, Invested)
      BY DEF BalanceBooked
    <2>1. CoreInv /\ NoRestart /\ Booked
      BY <1>1 DEF TidyInv, Tidy
    <2>2. Invested \in [1 .. MaxPositions -> Int]
      BY <2>1 DEF Invested, Positions, CoreInv, Types, PositionType, NoRestart
    <2>3. Total(MaxPositions, Invested) \in Int
      <3> DEFINE f == Invested
      <3>1. f \in [1 .. MaxPositions -> Int]
        BY <2>2
      <3> HIDE DEF f
      <3>2. \A n \in 0 .. MaxPositions : Prefix(MaxPositions, f)[n] \in Int
        BY <3>1, PrefixInt, PumpAssumption
      <3>3. Total(MaxPositions, f) \in Int
        BY <3>2, PumpAssumption DEF Total
      <3> QED
        BY <3>3 DEF f
    <2> QED
      BY <2>1, <2>3, PumpAssumption DEF Booked, CoreInv, Types
  <1> QED
    BY <1>1, TidyAlways, PTL

(* Without a restart, and while nothing was told wrongly or abandoned: a   *)
(* position that bought coins is in a map of the bot, or closed.           *)
THEOREM BoughtIsKnownAlways ==
  ASSUME MaxStarts = 0
  PROVE  Spec => []BoughtIsKnown
  <1>1. ASSUME TidyInv
        PROVE  BoughtIsKnown
    <2> SUFFICES ASSUME Clean, NEW p \in 1 .. used, Bought(p) > 0
                 PROVE  p \in pend \cup open \/ db[p].st = "closed"
      BY DEF BoughtIsKnown
    <2>1. CoreInv /\ p \in Positions /\ p <= used /\ TidyAt(p) /\ mem[p] \in PositionType
      BY <1>1, UsedPositions DEF TidyInv, Tidy, CoreInv, Types
    <2>2. OrdersFit(p) /\ IsPending(p) /\ WasFilled(p) /\ mem[p].st # "none"
      BY <2>1 DEF TidyAt
    <2>3. CASE mem[p].st = "pending" /\ p \notin pend
      <3>1. \A o \in Orders : Buys(o, p) => ex[o].done = 0
        BY <2>2, <2>3 DEF IsPending, OrdersFit, Dead
      <3>2. \A o \in 1 .. MaxOrders : Purchase(p)[o] = 0
        BY <3>1 DEF Purchase, Buys, Orders
      <3> DEFINE f == Purchase(p)
      <3>3. \A o \in 1 .. MaxOrders : f[o] = 0
        BY <3>2
      <3> HIDE DEF f
      <3>4. Total(MaxOrders, f) = 0
        BY <3>3, TotalNone, PumpAssumption
      <3> QED
        BY <3>4 DEF f, Bought
    <2>4. CASE mem[p].st # "pending"
      <3>1. mem[p].st \in {"open", "selling", "closed"}
        BY <2>1, <2>2, <2>4 DEF PositionType
      <3> QED
        BY <2>2, <2>4, <3>1 DEF WasFilled
    <2> QED
      BY <2>3, <2>4
  <1> QED
    BY <1>1, TidyAlways, PTL

-----------------------------------------------------------------------------
(* Sells and purchases of a bot that is not started again.                 *)

AmountsStay == \A o \in Orders : ex[o].st # "none" => ex'[o].amt = ex[o].amt
Plain ==
    CoreInv /\ CoreInv' /\ Keeps /\ NoRestart /\ NoRestart' /\ HistoryMoves /\ AmountsStay

OnceStep == Plain /\ \A p \in Positions : OnceAt(p)

LEMMA PlainTypes ==
  ASSUME OnceStep
  PROVE  /\ ex \in [Orders -> OrderType] /\ ex' \in [Orders -> OrderType]
         /\ coins \in [Pairs -> Nat]
         /\ mem \in [Positions -> PositionType] /\ mem' \in [Positions -> PositionType]
         /\ db \in [Positions -> PositionType] /\ db' \in [Positions -> PositionType]
         /\ used \in Nat /\ used' \in Nat /\ bal \in Nat
         /\ hs \in [Handlers -> HandlerType] /\ hs' \in [Handlers -> HandlerType]
         /\ rec \in [Orders -> RecordType] /\ loop \in LoopType
         /\ closer \in [Positions -> {"idle", "check", "save", "book"}]
         /\ 1 .. used \subseteq Positions /\ Ws \in Handlers
         /\ told \in [Orders -> {"no", "once", "wrongly"}]
         /\ told' \in [Orders -> {"no", "once", "wrongly"}]
  <1>1. used \in 0 .. MaxPositions /\ used' \in 0 .. MaxPositions
    BY DEF OnceStep, Plain, CoreInv, Types
  <1> QED
    BY <1>1, PumpAssumption DEF OnceStep, Plain, CoreInv, Types, NoRestart, Positions, Handlers, Ws

(* An order the exchange had before the step.                              *)
LEMMA PlainOld ==
  ASSUME OnceStep, NEW o \in Orders, ex[o].st # "none"
  PROVE  /\ ex'[o].p = ex[o].p /\ ex'[o].side = ex[o].side /\ ex'[o].amt = ex[o].amt
         /\ ex'[o].st # "none" /\ (ex[o].st = "filled" => ex'[o].st = "filled")
         /\ rec'[o].st # "none" <=> Indexed(o)
  <1>1. /\ ex'[o].p = ex[o].p /\ ex'[o].side = ex[o].side /\ ex'[o].amt = ex[o].amt
        /\ ex'[o].st # "none" /\ (ex[o].st = "filled" => ex'[o].st = "filled")
    BY DEF OnceStep, Plain, Keeps, BooksMove, ExMono, AmountsStay
  <1>2. rec'[o].st # "none" <=> Indexed(o)
    BY DEF OnceStep, Plain, Keeps, IndexGrows, Indexed
  <1> QED
    BY <1>1, <1>2

(* One that it had not.                                                    *)
LEMMA PlainNew ==
  ASSUME OnceStep, NEW o \in Orders, ex[o].st = "none"
  PROVE  /\ ex[o].p = None /\ ex[o].side = "none" /\ ~Indexed(o)
         /\ \A p \in Positions : ex[o].p # p /\ ~Buys(o, p) /\ ~Sells(o, p)
  <1>1. ex[o] = NoOrder /\ ~Indexed(o)
    BY DEF OnceStep, Plain, CoreInv, Books, Recorded, Indexed
  <1> QED
    BY <1>1, NoneIsNoPosition DEF NoOrder, Buys, Sells

LEMMA ToldNext ==
  ASSUME OnceStep, NEW q \in Positions, ToldOnce(q)'
  PROVE  /\ ToldOnce(q)
         /\ \A o \in Orders : ex[o].p = q /\ told[o] = "once" => told'[o] = "once"
  <1>1. \A o \in Orders : ex[o].p = q => told'[o] # "wrongly"
    <2> SUFFICES ASSUME NEW o \in Orders, ex[o].p = q
                 PROVE  told'[o] # "wrongly"
      OBVIOUS
    <2>1. ex[o].st # "none"
      BY PlainNew
    <2> QED
      BY <2>1, PlainOld DEF ToldOnce
  <1>2. \A o \in Orders : told'[o] = told[o] \/ told'[o] = "wrongly" \/ told[o] = "no"
    <2>1. ASSUME NEW e \in Orders, Tell(e)
          PROVE  \A o \in Orders : told'[o] = told[o] \/ told'[o] = "wrongly" \/ told[o] = "no"
      BY <2>1, PlainTypes DEF Tell
    <2> QED
      BY <2>1 DEF OnceStep, Plain, HistoryMoves
  <1>3. \A o \in Orders : told[o] = "wrongly" => told'[o] = "wrongly"
    BY <1>2
  <1> QED
    BY <1>1, <1>2, <1>3 DEF ToldOnce

(* What a step may do to a position: its first order and its size stay,    *)
(* its record is written from memory, deleted or closed, and a new order   *)
(* is of its size and a buy order not one found by its id.                 *)
NewOrdersFit(q) ==
    \A o \in Orders : ex[o].st = "none" /\ ex'[o].p = q =>
       /\ ex'[o].amt = mem[q].amt
       /\ ex'[o].side = "buy" => rec'[o].st = "none"
RecordFits(q) ==
    \/ db'[q] = db[q] \/ db'[q] = mem'[q]
    \/ db'[q].st = "none"
    \/ closer[q] # "idle" /\ db'[q].st = "closed"
Stays(q) ==
    /\ q <= used' => q <= used
    /\ mem[q].st # "none" => mem'[q].st # "none"
    /\ mem'[q].first = mem[q].first /\ mem'[q].amt = mem[q].amt
    /\ RecordFits(q) /\ NewOrdersFit(q)

(* ... and what the reader may do.                                         *)
CopyIsOf(q) ==
    hs'[Ws] = hs[Ws] \/ (hs'[Ws].pc = "restore" /\ hs'[Ws].p = q => IsOf(hs[Ws].copy, q)')

LEMMA FixedKept ==
  ASSUME OnceStep, NEW q \in Positions, Stays(q), q <= used', CopyIsOf(q)
  PROVE  Fixed(q)'
  <1>1. Fixed(q)
    BY DEF OnceStep, OnceAt, Stays
  <1>2. /\ mem[q].st # "none" /\ mem[q].first \in Orders /\ Buys(mem[q].first, q)
        /\ mem'[q].st # "none" /\ mem'[q].first = mem[q].first /\ mem'[q].amt = mem[q].amt
    BY <1>1 DEF Fixed, Stays
  <1>3. Buys(mem[q].first, q)'
    <2>1. ex[mem[q].first].st # "none"
      BY <1>2, KnownOrder DEF Buys, OnceStep, Plain, CoreInv
    <2>2. ex'[mem[q].first].p = q /\ ex'[mem[q].first].side = "buy"
      BY <1>2, <2>1, PlainOld DEF Buys
    <2> QED
      BY <1>2, <2>2 DEF Buys
  <1>4. \A o \in Orders : ex'[o].p = q => ex'[o].amt = mem[q].amt
    <2> SUFFICES ASSUME NEW o \in Orders, ex'[o].p = q
                 PROVE  ex'[o].amt = mem[q].amt
      OBVIOUS
    <2>1. CASE ex[o].st = "none"
      BY <2>1 DEF Stays, NewOrdersFit
    <2>2. CASE ex[o].st # "none"
      BY <1>1, <2>2, PlainOld DEF Fixed
    <2> QED
      BY <2>1, <2>2
  <1>5. \A o \in Orders : Buys(o, q)' /\ Indexed(o)' => o = mem[q].first
    <2> SUFFICES ASSUME NEW o \in Orders, Buys(o, q)', Indexed(o)'
                 PROVE  o = mem[q].first
      OBVIOUS
    <2>1. CASE ex[o].st = "none"
      BY <2>1 DEF Stays, NewOrdersFit, Buys, Indexed
    <2>2. CASE ex[o].st # "none"
      BY <1>1, <2>2, PlainOld DEF Fixed, Buys, Indexed
    <2> QED
      BY <2>1, <2>2
  <1>6. IsOf(db[q], q)'
    BY <1>1, <1>2 DEF Fixed, IsOf, Stays, RecordFits
  <1>7. hs'[Ws].pc = "restore" /\ hs'[Ws].p = q => IsOf(hs[Ws].copy, q)'
    BY <1>1, <1>2 DEF Fixed, IsOf, CopyIsOf
  <1> QED
    BY <1>2, <1>3, <1>4, <1>5, <1>6, <1>7 DEF Fixed

(* A step that leaves the status of a position, and creates no sell order  *)
(* the bot knows of.                                                       *)
Untouched(q) ==
    /\ Stays(q) /\ mem'[q].st = mem[q].st
    /\ ToldOnce(q)' =>
         /\ closer'[q] # "idle" => closer[q] # "idle" \/ mem[q].st # "pending"
         /\ \A o \in Orders : ex[o].st = "none" /\ ex'[o].p = q /\ ex'[o].side = "sell" =>
               mem[q].st # "pending" /\ rec'[o].st = "none"
ReaderFits(q) ==
    \/ hs'[Ws] = hs[Ws] \/ hs'[Ws].pc = "idle" \/ ~About(Ws, q)'
    \/ (ToldOnce(q)' => Works(q)')

LEMMA SalesNext ==
  ASSUME OnceStep, NEW q \in Positions
  PROVE  /\ KnownSells(q)' = {o \in Orders : ex'[o].p = q /\ ex'[o].side = "sell"
                                             /\ rec'[o].st # "none"}
         /\ KnownSells(q) \subseteq KnownSells(q)'
         /\ \A o \in Orders : ex'[o].p = q /\ ex'[o].side = "sell" =>
               Sells(o, q) \/ ex[o].st = "none"
         /\ \A o \in Orders : o \in KnownSells(q)' => o \in KnownSells(q)
              \/ (ex[o].st = "none" /\ ex'[o].p = q /\ ex'[o].side = "sell"
                    /\ rec'[o].st # "none")
  <1>1. KnownSells(q)' = {o \in Orders : ex'[o].p = q /\ ex'[o].side = "sell"
                                         /\ rec'[o].st # "none"}
    BY DEF KnownSells, Sells, Indexed
  <1>2. KnownSells(q) = {o \in Orders : ex[o].p = q /\ ex[o].side = "sell" /\ Indexed(o)}
    BY DEF KnownSells, Sells
  <1>3. \A o \in Orders : ex[o].st = "none" => ex[o].p # q
    BY PlainNew
  <1>4. \A o \in Orders : ex[o].st # "none" =>
           ex'[o].p = ex[o].p /\ ex'[o].side = ex[o].side /\ (rec'[o].st # "none" <=> Indexed(o))
    BY PlainOld
  <1>5. KnownSells(q) \subseteq KnownSells(q)'
    BY <1>1, <1>2, <1>3, <1>4
  <1>6. \A o \in Orders : ex'[o].p = q /\ ex'[o].side = "sell" =>
               Sells(o, q) \/ ex[o].st = "none"
    BY <1>4 DEF Sells
  <1>7. \A o \in Orders : o \in KnownSells(q)' => o \in KnownSells(q)
              \/ (ex[o].st = "none" /\ ex'[o].p = q /\ ex'[o].side = "sell"
                    /\ rec'[o].st # "none")
    BY <1>1, <1>2, <1>4
  <1> QED
    BY <1>1, <1>5, <1>6, <1>7

LEMMA SellsUntouched ==
  ASSUME OnceStep, NEW q \in Positions, Untouched(q), ToldOnce(q)'
  PROVE  /\ KnownSells(q)' \subseteq KnownSells(q)
         /\ mem[q].st = "pending" =>
              \A o \in Orders : ex'[o].p = q /\ ex'[o].side = "sell" => Sells(o, q)
  <1>1. \A o \in Orders : ex[o].st = "none" /\ ex'[o].p = q /\ ex'[o].side = "sell" =>
          mem[q].st # "pending" /\ rec'[o].st = "none"
    BY DEF Untouched
  <1>2. KnownSells(q)' \subseteq Orders
    BY DEF KnownSells
  <1>3. KnownSells(q)' \subseteq KnownSells(q)
    BY <1>1, <1>2, SalesNext
  <1>4. mem[q].st = "pending" =>
              \A o \in Orders : ex'[o].p = q /\ ex'[o].side = "sell" => Sells(o, q)
    BY <1>1, SalesNext
  <1> QED
    BY <1>3, <1>4

LEMMA SoldKept ==
  ASSUME OnceStep, NEW q \in Positions, Untouched(q), q <= used', ToldOnce(q)'
  PROVE  SoldOnce(q)'
  <1>1. Fixed(q) /\ SoldOnce(q)
    BY ToldNext DEF OnceStep, OnceAt, Untouched, Stays
  <1>2. /\ mem'[q].st = mem[q].st /\ mem'[q].first = mem[q].first
        /\ RecordFits(q)
    BY DEF Untouched, Stays
  <1>3. KnownSells(q)' \subseteq KnownSells(q)
    BY SellsUntouched
  <1>4. CASE mem[q].st = "pending"
    <2>1. db[q].st \in {"pending", "none"} /\ closer[q] = "idle" /\ \A o \in Orders : ~Sells(o, q)
      BY <1>1, <1>4 DEF SoldOnce
    <2>2. db'[q].st \in {"pending", "none"}
      BY <1>2, <1>4, <2>1 DEF RecordFits
    <2>3. closer'[q] = "idle"
      BY <1>4, <2>1 DEF Untouched
    <2>4. \A o \in Orders : ~Sells(o, q)'
      BY <1>4, <2>1, SellsUntouched DEF Sells
    <2>5. KnownSells(q)' = {}
      BY <2>4 DEF KnownSells
    <2> QED
      BY <1>2, <1>4, <2>2, <2>3, <2>4, <2>5 DEF SoldOnce
  <1>5. CASE mem[q].st # "pending"
    <2>1. /\ db[q].st # "pending" /\ told[mem[q].first] = "once"
          /\ ex[mem[q].first].st = "filled"
      BY <1>1, <1>5 DEF SoldOnce
    <2>2. db'[q].st # "pending"
      BY <1>2, <1>5, <2>1 DEF RecordFits
    <2>3. mem[q].first \in Orders /\ ex[mem[q].first].p = q
      BY <1>1 DEF Fixed, Buys
    <2>4. told'[mem[q].first] = "once"
      BY <2>1, <2>3, ToldNext
    <2>5. ex'[mem[q].first].st = "filled"
      BY <2>1, <2>3, PlainOld
    <2>6. KnownSells(q)' # {} =>
             mem'[q].st \in {"selling", "closed"} /\ db'[q].st \in {"selling", "closed", "none"}
      BY <1>1, <1>2, <1>3 DEF SoldOnce, RecordFits
    <2>7. \A x, y \in KnownSells(q)' : x = y
      BY <1>1, <1>3 DEF SoldOnce
    <2> QED
      BY <1>2, <1>5, <2>2, <2>4, <2>5, <2>6, <2>7 DEF SoldOnce
  <1> QED
    BY <1>4, <1>5

LEMMA ReaderOrder ==
  ASSUME OnceStep, hs[Ws].pc # "idle"
  PROVE  /\ hs[Ws].o \in Orders /\ ex[hs[Ws].o].st # "none"
         /\ ex[hs[Ws].o].p \in Positions /\ ex[hs[Ws].o].p <= used
         /\ hs[Ws].pc # "find" => hs[Ws].p = ex[hs[Ws].o].p
  <1>1. Ws \in Handlers /\ CoreInv
    BY PlainTypes DEF OnceStep, Plain
  <1>2. /\ HandlerOk(Ws) /\ hs[Ws].o \in Orders /\ ex[hs[Ws].o].done > 0
        /\ ex[hs[Ws].o].p \in 1 .. used
    BY <1>1, HandlerFacts
  <1>3. ex[hs[Ws].o].st # "none"
    BY <1>1, <1>2, KnownOrder DEF CoreInv
  <1> QED
    BY <1>2, <1>3, PlainTypes DEF HandlerOk

LEMMA WorksKept ==
  ASSUME OnceStep, NEW q \in Positions, Untouched(q), q <= used', ToldOnce(q)',
         hs'[Ws] = hs[Ws]
  PROVE  Works(q)'
  <1> SUFFICES ASSUME About(Ws, q)' PROVE Works(q)'
    BY DEF Works
  <1>1. Fixed(q) /\ Works(q)
    BY ToldNext DEF OnceStep, OnceAt, Untouched, Stays
  <1>2. /\ hs[Ws].pc # "idle" /\ hs[Ws].o \in Orders /\ ex[hs[Ws].o].st # "none"
    BY ReaderOrder DEF About
  <1>3. About(Ws, q) /\ ex[hs[Ws].o].p = q
    BY <1>2, PlainOld DEF About
  <1>4. told'[hs[Ws].o] = "once" /\ ex'[hs[Ws].o].st = "filled"
    <2>1. told[hs[Ws].o] = "once" /\ ex[hs[Ws].o].st = "filled"
      BY <1>1, <1>3 DEF Works
    <2>2. told'[hs[Ws].o] = "once"
      BY <1>2, <1>3, <2>1, ToldNext
    <2>3. ex'[hs[Ws].o].st = "filled"
      BY <1>2, <2>1, PlainOld
    <2> QED
      BY <2>2, <2>3
  <1>5. rec'[hs[Ws].o].st # "none" <=> Indexed(hs[Ws].o)
    BY <1>2, PlainOld DEF Indexed
  <1>6. KnownSells(q)' \subseteq KnownSells(q)
    BY SellsUntouched
  <1>7. mem'[q].st = mem[q].st /\ mem'[q].first = mem[q].first
    BY DEF Untouched, Stays
  <1>8. hs[Ws].pc \in {"lookup", "restore", "apply"} => rec'[hs[Ws].o].st # "none"
    BY <1>1, <1>3, <1>5 DEF Works
  <1>9. hs[Ws].pc = "restore" =>
            /\ hs[Ws].copy.st = "pending" <=> mem'[q].st = "pending"
            /\ KnownSells(q)' # {} => hs[Ws].copy.st = "selling"
    BY <1>1, <1>3, <1>6, <1>7 DEF Works
  <1>10. /\ hs[Ws].o = mem[q].first /\ hs[Ws].pc \notin {"sell", "book"} => mem'[q].st = "pending"
         /\ hs[Ws].pc = "sell" => mem'[q].st = "open"
    BY <1>1, <1>3, <1>7 DEF Works
  <1> QED
    BY <1>4, <1>7, <1>8, <1>9, <1>10 DEF Works, Indexed

LEMMA OnceFrame ==
  ASSUME OnceStep, NEW q \in Positions, Untouched(q), ReaderFits(q), CopyIsOf(q)
  PROVE  OnceAt(q)'
  <1> SUFFICES ASSUME q <= used' PROVE Fixed(q)' /\ (ToldOnce(q)' => SoldOnce(q)' /\ Works(q)')
    BY DEF OnceAt
  <1>1. Fixed(q)'
    BY FixedKept DEF Untouched
  <1>2. ASSUME ToldOnce(q)' PROVE SoldOnce(q)' /\ Works(q)'
    <2>1. SoldOnce(q)'
      BY <1>2, SoldKept
    <2>2. Works(q)'
      <3>1. CASE hs'[Ws] = hs[Ws]
        BY <1>2, <3>1, WorksKept
      <3>2. CASE hs'[Ws].pc = "idle" \/ ~About(Ws, q)'
        BY <3>2 DEF Works, About
      <3> QED
        BY <1>2, <3>1, <3>2 DEF ReaderFits
    <2> QED
      BY <2>1, <2>2
  <1> QED
    BY <1>1, <1>2

-----------------------------------------------------------------------------
(* An order keeps its size.                                                *)

IsNew(n, side, p, amt) ==
    /\ n \in Orders /\ ex[n].st = "none"
    /\ \A o \in Orders \ {n} : ex'[o] = ex[o]
    /\ ex'[n].st # "none" /\ ex'[n].side = side /\ ex'[n].p = p /\ ex'[n].amt = amt

LEMMA AcceptIs ==
  ASSUME CoreInv, NEW side, NEW kind, NEW p, NEW pair, NEW amt,
         Accept(side, kind, p, pair, amt)
  PROVE  IsNew(NewOrder, side, p, amt)
  <1> DEFINE n == NewOrder
  <1>1. /\ n \in Orders
        /\ ex' = [ex EXCEPT ![n] =
             [st |-> IF kind = "market" THEN "filled" ELSE "open", side |-> side, p |-> p,
              pair |-> pair, amt |-> amt, done |-> IF kind = "market" THEN amt ELSE 0]]
    BY DEF Accept
  <1>2. ex[n].st = "none" /\ ex \in [Orders -> OrderType]
    BY <1>1, Fresh DEF CoreInv, Types
  <1> HIDE DEF n
  <1>3. /\ \A o \in Orders \ {n} : ex'[o] = ex[o]
        /\ ex'[n] = [st |-> IF kind = "market" THEN "filled" ELSE "open", side |-> side,
                     p |-> p, pair |-> pair, amt |-> amt,
                     done |-> IF kind = "market" THEN amt ELSE 0]
    BY <1>1, <1>2
  <1>4. ex'[n].st # "none" /\ ex'[n].side = side /\ ex'[n].p = p /\ ex'[n].amt = amt
    BY <1>3
  <1> QED
    BY <1>1, <1>2, <1>3, <1>4 DEF IsNew, n

LEMMA AmountsAccepted ==
  ASSUME CoreInv, NEW side, NEW kind, NEW p, NEW pair, NEW amt,
         Accept(side, kind, p, pair, amt)
  PROVE  AmountsStay
  <1>1. IsNew(NewOrder, side, p, amt)
    BY AcceptIs
  <1> QED
    BY <1>1 DEF IsNew, AmountsStay

LEMMA AmountsCancelled ==
  ASSUME CoreInv, NEW o, NEW ok, CancelAnswer(o, ok)
  PROVE  AmountsStay
  <1>1. ex \in [Orders -> OrderType]
    BY DEF CoreInv, Types
  <1> QED
    BY <1>1 DEF CancelAnswer, Cancelled, books, AmountsStay, OrderType

LEMMA AmountsExchange ==
  ASSUME CoreInv, Exchange
  PROVE  AmountsStay
  <1>1. ex \in [Orders -> OrderType]
    BY DEF CoreInv, Types
  <1>2. ASSUME NEW o \in Orders, ExFill(o) \/ ExPartial(o) \/ Cancelled(o)
        PROVE  AmountsStay
    BY <1>1, <1>2 DEF ExFill, ExPartial, Cancelled, AmountsStay, OrderType
  <1>3. LoseMessage => AmountsStay
    BY DEF LoseMessage, AmountsStay
  <1> QED
    BY <1>2, <1>3 DEF Exchange, ExternalCancel

LEMMA AmountsNext ==
  ASSUME CoreInv, NoRestart, MaxStarts = 0, [Next]_vars
  PROVE  AmountsStay
  <1>1. CASE Decide
    <2>1. \A c \in Pairs, kind \in {"limit", "market"} :
             OpenPosition(c, kind) \/ OpenPositionUnnoticed(c, kind) => AmountsStay
      BY AmountsAccepted DEF OpenPosition, OpenPositionUnnoticed
    <2>2. \A p \in Positions : ClosePosition(p) \/ ClosePositionUnnoticed(p) => AmountsStay
      BY AmountsAccepted DEF ClosePosition, ClosePositionUnnoticed, SellAccepted
    <2>3. \A p \in Positions : FalsePump(p) => AmountsStay
      BY DEF FalsePump, Check, books, AmountsStay
    <2>4. \A p \in Positions, kind \in {"limit", "market"} : PriceMoved(p, kind) => AmountsStay
      BY DEF PriceMoved, Check, books, AmountsStay
    <2> QED
      BY <1>1, <2>1, <2>2, <2>3, <2>4 DEF Decide
  <1>2. CASE LoopStep
    <2>1. CASE CancelEntry
      BY <2>1, AmountsCancelled DEF CancelEntry, books, AmountsStay
    <2>2. CASE MoveCancel
      BY <2>2, AmountsCancelled DEF MoveCancel, books, AmountsStay
    <2>3. CASE MoveTrade \/ MoveRefused
      BY <2>3, AmountsAccepted DEF MoveTrade, MoveRefused, books, AmountsStay
    <2>4. CASE CancelBook \/ CancelDelete \/ LoopExit
      BY <2>4 DEF CancelBook, CancelDelete, LoopExit, books, AmountsStay
    <2> QED
      BY <1>2, <2>1, <2>2, <2>3, <2>4 DEF LoopStep
  <1>3. CASE HandlerStep(Ws)
    <2>1. CASE Sell(Ws)
      BY <2>1, AmountsAccepted DEF Sell, books, AmountsStay
    <2>2. CASE Find(Ws) \/ Lookup(Ws) \/ RestoreToMemory(Ws) \/ ApplyBuy(Ws)
               \/ ApplySell(Ws) \/ BookSell(Ws)
      BY <2>2 DEF Find, Lookup, RestoreToMemory, ApplyBuy, ApplySell, BookSell, books,
                  AmountsStay
    <2> QED
      BY <1>3, <2>1, <2>2 DEF HandlerStep
  <1>4. CASE TakeFill \/ TakeCancel
    BY <1>4 DEF TakeFill, TakeCancel, AmountsStay
  <1>5. ASSUME NEW p \in Positions, CloserStep(p)
        PROVE  AmountsStay
    BY <1>5 DEF CloserStep, CloserCheck, CloserSave, CloserBook, books, AmountsStay
  <1>6. CASE StopStep
    BY <1>6, AmountsCancelled DEF StopStep, StopList, StopDone, StopCancel, books, AmountsStay
  <1>7. CASE StopBot \/ UNCHANGED vars
    BY <1>7 DEF StopBot, vars, books, AmountsStay
  <1>8. ~Crash /\ ~StartBot
    BY DEF Crash, StartBot, NoRestart
  <1>9. ~StartStep
    BY DEF StartStep, Started, RestorePending, RestoreOpen, RestoreSelling, Restoring, Nothing,
       NoRestart
  <1>10. \A p \in Positions : ~HandlerStep(p)
    BY DEF HandlerStep, Find, Lookup, RestoreToMemory, ApplyBuy, Sell, ApplySell, BookSell,
       HandlerAt, IdleHandler, NoRestart
  <1> QED
    BY <1>1, <1>2, <1>3, <1>4, <1>5, <1>6, <1>7, <1>8, <1>9, <1>10, AmountsExchange
       DEF Next, WsStep, Owner

-----------------------------------------------------------------------------
(* Steps that leave the positions in memory alone.                         *)

LEMMA OnceOld ==
  ASSUME OnceStep, OldOrders, UNCHANGED <<mem, used>>, NEW q \in Positions, RecordFits(q),
         closer'[q] # "idle" => closer[q] # "idle" \/ mem[q].st # "pending",
         ReaderFits(q), CopyIsOf(q)
  PROVE  OnceAt(q)'
  <1>1. \A o \in Orders : ex[o].st = "none" => ex'[o].p # q
    BY PlainNew DEF OldOrders
  <1>2. Untouched(q)
    BY <1>1 DEF Untouched, Stays, NewOrdersFit
  <1> QED
    BY <1>2, OnceFrame

LEMMA OnceQuiet ==
  ASSUME OnceStep, OldOrders, UNCHANGED <<mem, used>>, hs'[Ws] = hs[Ws],
         \A q \in Positions : RecordFits(q),
         \A q \in Positions : closer'[q] # "idle" => closer[q] # "idle"
  PROVE  \A q \in Positions : OnceAt(q)'
  BY OnceOld DEF ReaderFits, CopyIsOf

LEMMA OldOrdersOf ==
  ASSUME CoreInv
  PROVE  /\ UNCHANGED ex => OldOrders
         /\ Exchange => OldOrders
         /\ \A o \in Orders, ok \in BOOLEAN : CancelAnswer(o, ok) => OldOrders
  <1>1. UNCHANGED ex => OldOrders
    BY DEF OldOrders
  <1>2. Exchange => OldOrders
    BY <1>1, FillBooks, PartialBooks, CancelledBooks DEF Exchange, ExternalCancel, LoseMessage
  <1> QED
    BY <1>1, <1>2, AnswerBooks

LEMMA OnceExchange ==
  ASSUME OnceStep, Exchange
  PROVE  \A q \in Positions : OnceAt(q)'
  <1>1. OldOrders
    BY OldOrdersOf DEF OnceStep, Plain
  <1>2. UNCHANGED <<mem, used, hs, db, closer>>
    BY DEF Exchange, ExFill, ExPartial, ExternalCancel, LoseMessage, routines, life
  <1> QED
    BY <1>1, <1>2, OnceQuiet DEF RecordFits

(* The position a step of runBot works on.                                 *)
LEMMA LoopPosition ==
  ASSUME OnceStep, loop.pc # "idle"
  PROVE  /\ loop.p \in Positions /\ loop.p <= used /\ mem[loop.p].entry \in Orders
         /\ mem[loop.p].first \in Orders /\ Indexed(mem[loop.p].first)
         /\ mem[loop.p] \in PositionType
  <1>1. CoreInv
    BY DEF OnceStep, Plain
  <1>2. loop.p \in Positions /\ loop.p \in 1 .. used /\ Held(loop.p)
    BY <1>1, LoopFacts
  <1> QED
    BY <1>1, <1>2, HeldFacts, PlainTypes

LEMMA OnceCancel ==
  ASSUME OnceStep,
         CancelEntry \/ CancelBook \/ CancelDelete \/ MoveCancel \/ LoopExit \/ TakeCancel
  PROVE  \A q \in Positions : OnceAt(q)'
  <1>1. UNCHANGED <<mem, used, closer>> /\ hs'[Ws] = hs[Ws]
    BY DEF CancelEntry, CancelBook, CancelDelete, MoveCancel, LoopExit, TakeCancel, routines, life
  <1>2. OldOrders
    <2>1. CASE CancelBook \/ CancelDelete \/ LoopExit \/ TakeCancel
      BY <2>1, OldOrdersOf
         DEF CancelBook, CancelDelete, LoopExit, TakeCancel, books, OnceStep, Plain
    <2>2. CASE CancelEntry \/ MoveCancel
      <3>1. mem[loop.p].entry \in Orders
        BY <2>2, LoopPosition DEF CancelEntry, MoveCancel, LoopAt
      <3> QED
        BY <2>2, <3>1, OldOrdersOf DEF CancelEntry, MoveCancel, books, OnceStep, Plain
    <2> QED
      BY <2>1, <2>2
  <1>3. \A q \in Positions : RecordFits(q)
    <2>1. CASE CancelDelete
      <3>1. \A q \in Positions : db'[q] = db[q] \/ db'[q] = NoPosition
        BY <2>1, PlainTypes DEF CancelDelete
      <3> QED
        BY <3>1, NoPositionType DEF RecordFits
    <2>2. CASE CancelEntry \/ CancelBook \/ MoveCancel \/ LoopExit \/ TakeCancel
      BY <2>2 DEF CancelEntry, CancelBook, MoveCancel, LoopExit, TakeCancel, RecordFits
    <2> QED
      BY <2>1, <2>2
  <1> QED
    BY <1>1, <1>2, <1>3, OnceQuiet

LEMMA OnceCloser ==
  ASSUME OnceStep, NEW p \in Positions, CloserStep(p)
  PROVE  \A q \in Positions : OnceAt(q)'
  <1>1. UNCHANGED <<mem, used, ex>> /\ hs'[Ws] = hs[Ws]
    BY DEF CloserStep, CloserCheck, CloserSave, CloserBook, books, life
  <1>2. \A q \in Positions : closer'[q] # "idle" => closer[q] # "idle"
    BY PlainTypes DEF CloserStep, CloserCheck, CloserSave, CloserBook
  <1>3. \A q \in Positions : RecordFits(q)
    <2>1. CASE CloserSave(p)
      <3>1. \A q \in Positions : q # p => db'[q] = db[q]
        BY <2>1, PlainTypes DEF CloserSave
      <3>2. db'[p].st = "closed"
        BY <2>1, PlainTypes DEF CloserSave, PositionType
      <3> QED
        BY <2>1, <3>1, <3>2 DEF RecordFits, CloserSave
    <2>2. CASE CloserCheck(p) \/ CloserBook(p)
      BY <2>2 DEF CloserCheck, CloserBook, RecordFits
    <2> QED
      BY <2>1, <2>2 DEF CloserStep
  <1> QED
    BY <1>1, <1>2, <1>3, OnceQuiet, OldOrdersOf DEF OnceStep, Plain

LEMMA OnceStop ==
  ASSUME OnceStep, StopBot \/ StopStep \/ UNCHANGED vars
  PROVE  \A q \in Positions : OnceAt(q)'
  <1>1. UNCHANGED <<mem, used, db, closer, hs>>
    BY DEF StopBot, StopStep, StopList, StopDone, StopCancel, vars, life, routines
  <1>2. OldOrders
    <2>1. ASSUME NEW o \in Orders, StopCancel(o)
          PROVE  OldOrders
      <3>1. rec[o].oid \in Orders
        BY <2>1 DEF StopCancel, OnceStep, Plain, CoreInv, Recorded
      <3> QED
        BY <2>1, <3>1, OldOrdersOf DEF StopCancel, OnceStep, Plain
    <2>2. CASE StopBot \/ StopList \/ StopDone \/ UNCHANGED vars
      BY <2>2, OldOrdersOf DEF StopBot, StopList, StopDone, vars, books, OnceStep, Plain
    <2> QED
      BY <2>1, <2>2 DEF StopStep
  <1> QED
    BY <1>1, <1>2, OnceQuiet DEF RecordFits

LEMMA OnceCheck ==
  ASSUME OnceStep, NEW p \in Positions, NEW next, NEW kind, Check(p, next, kind)
  PROVE  \A q \in Positions : OnceAt(q)'
  <1>1. UNCHANGED <<mem, used, db, closer, hs, ex>>
    BY DEF Check, books, life
  <1> QED
    BY <1>1, OnceQuiet, OldOrdersOf DEF RecordFits, OnceStep, Plain

(* An order the bot does not know of.                                      *)
LEMMA OnceUnnoticed ==
  ASSUME OnceStep, NEW side, NEW kind, NEW p, NEW pair, NEW amt,
         Accept(side, kind, p, pair, amt), UNCHANGED <<mem, used, db, closer, rec, hs>>,
         p \in Positions => amt = mem[p].amt /\ (side = "sell" => mem[p].st # "pending")
  PROVE  \A q \in Positions : OnceAt(q)'
  <1> SUFFICES ASSUME NEW q \in Positions PROVE OnceAt(q)'
    OBVIOUS
  <1>1. PICK n : n = NewOrder
    OBVIOUS
  <1>2. IsNew(n, side, p, amt)
    BY <1>1, AcceptIs DEF OnceStep, Plain
  <1>3. \A o \in Orders : ex[o].st = "none" /\ ex'[o].p = q =>
           o = n /\ p = q /\ rec'[o].st = "none"
    BY <1>2, PlainNew DEF IsNew, Indexed
  <1>4. Untouched(q)
    BY <1>2, <1>3 DEF IsNew, Untouched, Stays, NewOrdersFit, RecordFits
  <1> QED
    BY <1>4, OnceFrame DEF ReaderFits, CopyIsOf

-----------------------------------------------------------------------------
(* Steps of runBot that place orders.                                      *)

LEMMA OncePosition ==
  ASSUME OnceStep, NEW p \in Positions, p <= used
  PROVE  /\ Fixed(p) /\ mem[p] \in PositionType /\ mem[p].first \in Orders
         /\ ex[mem[p].first].p = p /\ ex[mem[p].first].st # "none"
         /\ ToldOnce(p) => SoldOnce(p) /\ Works(p)
         /\ mem[p].st \in {"pending", "open", "selling", "closed"}
  <1>1. Fixed(p) /\ (ToldOnce(p) => SoldOnce(p) /\ Works(p))
    BY DEF OnceStep, OnceAt
  <1>2. mem[p].first \in Orders /\ Buys(mem[p].first, p) /\ mem[p].st # "none"
    BY <1>1 DEF Fixed
  <1>3. ex[mem[p].first].st # "none"
    BY <1>2, KnownOrder DEF Buys, OnceStep, Plain, CoreInv
  <1>4. mem[p] \in PositionType
    BY PlainTypes
  <1>5. mem[p].st \in {"pending", "open", "selling", "closed"}
    BY <1>2, <1>4 DEF PositionType
  <1> QED
    BY <1>1, <1>2, <1>3, <1>4, <1>5 DEF Buys

(* Which orders the reader applies.                                        *)
LEMMA KnownWork ==
  ASSUME OnceStep, NEW p \in Positions, ToldOnce(p), About(Ws, p),
         hs[Ws].pc \in {"lookup", "restore", "apply"}
  PROVE  /\ p <= used
         /\ \/ hs[Ws].o = mem[p].first /\ mem[p].st = "pending" /\ ex[hs[Ws].o].side = "buy"
            \/ /\ hs[Ws].o \in KnownSells(p) /\ mem[p].st \in {"selling", "closed"}
               /\ ex[hs[Ws].o].side = "sell"
  <1>1. /\ hs[Ws].o \in Orders /\ ex[hs[Ws].o].st # "none" /\ ex[hs[Ws].o].p = p /\ p <= used
    BY ReaderOrder DEF About
  <1>2. Fixed(p) /\ SoldOnce(p) /\ Works(p)
    BY <1>1, OncePosition
  <1>3. ex[hs[Ws].o].side \in {"buy", "sell"}
    BY <1>1, PlainTypes DEF OrderType, OnceStep, Plain, CoreInv, Books
  <1>4. Indexed(hs[Ws].o)
    BY <1>2 DEF Works
  <1>5. CASE ex[hs[Ws].o].side = "buy"
    <2>1. hs[Ws].o = mem[p].first
      BY <1>1, <1>2, <1>4, <1>5 DEF Fixed, Buys
    <2> QED
      BY <1>1, <1>2, <1>5, <2>1 DEF Works
  <1>6. CASE ex[hs[Ws].o].side = "sell"
    <2>1. hs[Ws].o \in KnownSells(p)
      BY <1>1, <1>4, <1>6 DEF KnownSells, Sells
    <2> QED
      BY <1>1, <1>2, <1>6, <2>1 DEF SoldOnce
  <1> QED
    BY <1>3, <1>5, <1>6

(* Another position than the one an order was accepted for.                *)
LEMMA OnceElsewhere ==
  ASSUME OnceStep, NEW n, NEW side, NEW p, NEW amt, IsNew(n, side, p, amt),
         NEW q \in Positions, q # p, mem'[q] = mem[q], db'[q] = db[q],
         q <= used' => q <= used,
         closer'[q] # "idle" => closer[q] # "idle",
         ReaderFits(q), CopyIsOf(q)
  PROVE  OnceAt(q)'
  <1>1. \A o \in Orders : ex[o].st = "none" => ex'[o].p # q
    BY PlainNew DEF IsNew
  <1>2. Untouched(q)
    BY <1>1 DEF Untouched, Stays, NewOrdersFit, RecordFits
  <1> QED
    BY <1>2, OnceFrame

LEMMA OnceMoves ==
  ASSUME OnceStep, MoveTrade \/ MoveRefused
  PROVE  \A q \in Positions : OnceAt(q)'
  <1>1. PICK p : p = loop.p
    OBVIOUS
  <1>2. /\ p \in Positions /\ p <= used /\ mem[p].first \in Orders /\ Indexed(mem[p].first)
        /\ mem[p] \in PositionType
    BY <1>1, LoopPosition DEF MoveTrade, MoveRefused, LoopAt
  <1>3. CASE MoveRefused
    <2>1. UNCHANGED <<mem, used, db, closer, rec, hs>>
      BY <1>3 DEF MoveRefused, life
    <2>2. CASE UNCHANGED ex
      BY <2>1, <2>2, OnceQuiet, OldOrdersOf DEF RecordFits, OnceStep, Plain
    <2>3. CASE Accept("buy", loop.kind, p, mem[p].pair, mem[p].amt)
      BY <2>1, <2>3, OnceUnnoticed
    <2> QED
      BY <1>1, <1>3, <2>2, <2>3 DEF MoveRefused, books
  <1>4. CASE MoveTrade
    <2>1. PICK n : n = NewOrder
      OBVIOUS
    <2> DEFINE new == [mem[p] EXCEPT !.entry = n, !.kind = loop.kind]
    <2>2. /\ Accept("buy", loop.kind, p, mem[p].pair, mem[p].amt) /\ Track(p, new)
          /\ rec' = [rec EXCEPT ![mem[p].first] = Record(p, n)]
          /\ UNCHANGED <<used, closer, hs>>
      BY <1>1, <1>4, <2>1 DEF MoveTrade, life
    <2>3. IsNew(n, "buy", p, mem[p].amt)
      BY <2>1, <2>2, AcceptIs DEF OnceStep, Plain
    <2>4. /\ mem'[p] = new /\ db'[p] = new
          /\ \A q \in Positions \ {p} : mem'[q] = mem[q] /\ db'[q] = db[q]
      BY <1>2, <2>2, PlainTypes DEF Track
    <2>5. new.st = mem[p].st /\ new.first = mem[p].first /\ new.amt = mem[p].amt
      BY <1>2 DEF PositionType
    <2> HIDE DEF new
    <2>6. ~Indexed(n) /\ ex[n].p # p
      BY <1>2, <2>3, PlainNew DEF IsNew
    <2>7. rec'[n].st = "none"
      BY <1>2, <2>2, <2>3, <2>6, PlainTypes DEF IsNew, Indexed
    <2>8. \A o \in Orders : ex[o].st = "none" /\ ex'[o].p = p => o = n
      BY <1>2, <2>3, PlainNew DEF IsNew
    <2>9. Untouched(p)
      <3>1. NewOrdersFit(p)
        BY <2>3, <2>7, <2>8 DEF NewOrdersFit, IsNew
      <3>2. Stays(p)
        BY <2>2, <2>4, <2>5, <3>1 DEF Stays, RecordFits
      <3>3. ex'[n].side = "buy"
        BY <2>3 DEF IsNew
      <3> QED
        BY <2>2, <2>4, <2>5, <2>8, <3>2, <3>3 DEF Untouched
    <2>10. OnceAt(p)'
      BY <1>2, <2>2, <2>9, OnceFrame DEF ReaderFits, CopyIsOf
    <2>11. ASSUME NEW q \in Positions, q # p
           PROVE  OnceAt(q)'
      BY <2>2, <2>3, <2>4, <2>11, OnceElsewhere DEF ReaderFits, CopyIsOf
    <2> QED
      BY <2>10, <2>11
  <1> QED
    BY <1>3, <1>4

(* A sell order the bot knows of is placed for an open position.           *)
LEMMA OnceSold ==
  ASSUME OnceStep, NEW p \in Positions, p <= used, NEW kind, NEW n, n = NewOrder,
         Accept("sell", kind, p, mem[p].pair, mem[p].amt),
         Track(p, [mem[p] EXCEPT !.st = "selling", !.exit = n]),
         UNCHANGED <<used, closer, told>>,
         ToldOnce(p) => mem[p].st = "open",
         hs'[Ws].pc = "idle" \/ (hs'[Ws] = hs[Ws] /\ ~JustFilled(p))
  PROVE  \A q \in Positions : OnceAt(q)'
  <1> DEFINE new == [mem[p] EXCEPT !.st = "selling", !.exit = n]
  <1>2. Track(p, new)
    OBVIOUS
  <1>4. /\ Fixed(p) /\ mem[p] \in PositionType /\ mem[p].first \in Orders
        /\ ex[mem[p].first].p = p /\ ex[mem[p].first].st # "none"
        /\ ToldOnce(p) => SoldOnce(p) /\ Works(p)
    BY OncePosition
  <1>5. IsNew(n, "sell", p, mem[p].amt)
    BY AcceptIs DEF OnceStep, Plain
  <1>6. /\ mem'[p] = new /\ db'[p] = new
        /\ \A q \in Positions \ {p} : mem'[q] = mem[q] /\ db'[q] = db[q]
    BY <1>2, PlainTypes DEF Track
  <1>7. new.st = "selling" /\ new.first = mem[p].first /\ new.amt = mem[p].amt
    BY <1>4 DEF PositionType
  <1> HIDE DEF new
  <1>8. \A o \in Orders : ex[o].st = "none" /\ ex'[o].p = p => o = n
    BY <1>5, PlainNew DEF IsNew
  <1>9. Fixed(p)'
    <2>1. NewOrdersFit(p)
      BY <1>5, <1>8 DEF NewOrdersFit, IsNew
    <2>2. Stays(p)
      BY <1>6, <1>7, <2>1 DEF Stays, RecordFits
    <2> QED
      BY <2>2, FixedKept DEF CopyIsOf
  <1>10. ASSUME ToldOnce(p)' PROVE SoldOnce(p)' /\ Works(p)'
    <2>1. ToldOnce(p) /\ SoldOnce(p) /\ Works(p) /\ mem[p].st = "open"
      BY <1>4, <1>10, ToldNext
    <2>2. KnownSells(p) = {}
      BY <2>1 DEF SoldOnce
    <2>3. KnownSells(p)' \subseteq {n}
      <3>1. KnownSells(p)' \subseteq Orders
        BY DEF KnownSells
      <3> QED
        BY <1>8, <2>2, <3>1, SalesNext
    <2>4. told'[mem[p].first] = "once" /\ ex'[mem[p].first].st = "filled"
      <3>1. told[mem[p].first] = "once" /\ ex[mem[p].first].st = "filled"
        BY <2>1 DEF SoldOnce
      <3> QED
        BY <1>4, <3>1, PlainOld
    <2>5. SoldOnce(p)'
      BY <1>6, <1>7, <2>3, <2>4 DEF SoldOnce
    <2>6. Works(p)'
      <3> SUFFICES ASSUME About(Ws, p)' PROVE Works(p)'
        BY DEF Works
      <3>0. hs'[Ws] = hs[Ws] /\ ~JustFilled(p)
        BY DEF About
      <3>1. /\ hs[Ws].o \in Orders /\ ex[hs[Ws].o].st # "none" /\ hs[Ws].pc # "idle"
            /\ hs[Ws].pc # "find" => hs[Ws].p = ex[hs[Ws].o].p
        BY <3>0, ReaderOrder DEF About
      <3>2. About(Ws, p)
        BY <3>0, <3>1, PlainOld DEF About
      <3>3. hs[Ws].pc # "sell"
        BY <3>0, <3>1, <3>2, PlainTypes DEF JustFilled, About
      <3>4. hs[Ws].pc \notin {"lookup", "restore", "apply"}
        BY <2>1, <2>2, <3>2, KnownWork
      <3>5. told'[hs[Ws].o] = "once" /\ ex'[hs[Ws].o].st = "filled"
        BY <2>1, <3>1, <3>2, PlainOld DEF Works
      <3>6. ~(hs[Ws].o = mem[p].first /\ hs[Ws].pc \notin {"sell", "book"})
        BY <2>1, <3>2 DEF Works
      <3> QED
        BY <1>6, <1>7, <3>0, <3>3, <3>4, <3>5, <3>6 DEF Works
    <2> QED
      BY <2>5, <2>6
  <1>11. OnceAt(p)'
    BY <1>9, <1>10 DEF OnceAt
  <1>12. ASSUME NEW q \in Positions, q # p
         PROVE  OnceAt(q)'
    BY <1>5, <1>6, <1>12, OnceElsewhere DEF ReaderFits, CopyIsOf
  <1> QED
    BY <1>11, <1>12

LEMMA OnceClose ==
  ASSUME OnceStep, NEW p \in Positions, ClosePosition(p)
  PROVE  \A q \in Positions : OnceAt(q)'
  <1>1. PICK n : n = NewOrder
    OBVIOUS
  <1>2. /\ p \in open /\ mem[p].st = "open" /\ ~JustFilled(p)
        /\ Accept("sell", "market", p, mem[p].pair, mem[p].amt)
        /\ Track(p, [mem[p] EXCEPT !.st = "selling", !.exit = n])
        /\ UNCHANGED <<used, closer, hs, told>>
    BY <1>1 DEF ClosePosition, MayClose, SellAccepted, life, routines, history
  <1>3. p <= used
    BY <1>2, PlainTypes DEF OnceStep, Plain, CoreInv, Types
  <1> QED
    BY <1>1, <1>2, <1>3, OnceSold

LEMMA OnceOpen ==
  ASSUME OnceStep, NEW pair \in Pairs, NEW kind \in {"limit", "market"},
         OpenPosition(pair, kind)
  PROVE  \A q \in Positions : OnceAt(q)'
  <1>1. PICK n : n = NewOrder
    OBVIOUS
  <1>2. PICK p : p = used + 1
    OBVIOUS
  <1>3. PICK size : size = SmallerOf(PositionIDR, bal)
    OBVIOUS
  <1> DEFINE new == [st |-> "pending", pair |-> pair, amt |-> size, kind |-> kind,
                     entry |-> n, first |-> n, exit |-> None]
  <1>4. /\ Accept("buy", kind, p, pair, size) /\ Track(p, new) /\ used' = p
        /\ used < MaxPositions
        /\ UNCHANGED <<closer, hs, told>>
    BY <1>1, <1>2, <1>3 DEF OpenPosition, MayOpen, history, routines
  <1>5. p \in Positions /\ p > used
    BY <1>2, <1>4, PumpAssumption, PlainTypes DEF Positions
  <1>6. IsNew(n, "buy", p, size)
    BY <1>1, <1>4, AcceptIs DEF OnceStep, Plain
  <1>7. /\ mem'[p] = new /\ db'[p] = new
        /\ \A q \in Positions \ {p} : mem'[q] = mem[q] /\ db'[q] = db[q]
    BY <1>4, <1>5, PlainTypes DEF Track
  <1>8. new.st = "pending" /\ new.first = n /\ new.amt = size
    OBVIOUS
  <1> HIDE DEF new
  <1>9. \A o \in Orders : ex[o].p # p
    <2>1. \A o \in Orders : ex[o].p <= used
      BY DEF OnceStep, Plain, CoreInv, Unused
    <2> QED
      BY <1>2, <2>1, PlainTypes
  <1>10. closer[p] = "idle"
    <2>1. closer[p] # "idle" => WasBought(p)
      BY <1>5 DEF OnceStep, Plain, CoreInv, LateWasBought
    <2> QED
      BY <1>9, <2>1 DEF WasBought, Buys
  <1>11. \A o \in Orders : ex'[o].p = p => o = n
    BY <1>6, <1>9 DEF IsNew
  <1>12. n \in Orders /\ ex'[n].p = p /\ ex'[n].side = "buy" /\ ex'[n].amt = size
    BY <1>6 DEF IsNew
  <1>13. ~About(Ws, p)' /\ ~(hs'[Ws].pc = "restore" /\ hs'[Ws].p = p)
    <2>1. CASE hs[Ws].pc = "idle"
      BY <1>4, <2>1 DEF About
    <2>2. CASE hs[Ws].pc # "idle"
      <3>1. /\ hs[Ws].o \in Orders /\ ex[hs[Ws].o].st # "none"
            /\ hs[Ws].pc # "find" => hs[Ws].p = ex[hs[Ws].o].p
        BY <2>2, ReaderOrder
      <3>2. ex'[hs[Ws].o].p # p
        BY <1>9, <3>1, PlainOld
      <3> QED
        BY <1>4, <1>9, <3>1, <3>2 DEF About
    <2> QED
      BY <2>1, <2>2
  <1>14. Fixed(p)'
    BY <1>7, <1>8, <1>11, <1>12, <1>13 DEF Fixed, Buys, IsOf
  <1>15. SoldOnce(p)'
    <2>1. \A o \in Orders : ~(ex'[o].p = p /\ ex'[o].side = "sell")
      BY <1>11, <1>12
    <2>2. KnownSells(p)' = {}
      BY <2>1 DEF KnownSells, Sells
    <2> QED
      BY <1>4, <1>7, <1>8, <1>10, <2>1, <2>2 DEF SoldOnce, Sells
  <1>16. OnceAt(p)'
    BY <1>13, <1>14, <1>15 DEF OnceAt, Works
  <1>17. ASSUME NEW q \in Positions, q # p
         PROVE  OnceAt(q)'
    <2>1. q \in Nat
      BY DEF Positions
    <2>2. q <= used' => q <= used
      BY <1>2, <1>4, <1>17, <2>1, PlainTypes
    <2> QED
      BY <1>4, <1>6, <1>7, <1>17, <2>2, OnceElsewhere DEF ReaderFits, CopyIsOf
  <1> QED
    BY <1>16, <1>17

LEMMA OnceDecide ==
  ASSUME OnceStep, Decide
  PROVE  \A q \in Positions : OnceAt(q)'
  <1>1. ASSUME NEW c \in Pairs, NEW kind \in {"limit", "market"},
               OpenPositionUnnoticed(c, kind)
        PROVE  \A q \in Positions : OnceAt(q)'
    <2>1. UNCHANGED <<mem, used, db, closer, rec, hs>>
      BY <1>1 DEF OpenPositionUnnoticed, routines, life
    <2>2. Accept("buy", kind, None, c, SmallerOf(PositionIDR, bal))
      BY <1>1 DEF OpenPositionUnnoticed
    <2> QED
      BY <2>1, <2>2, OnceUnnoticed, NoneIsNoPosition
  <1>2. ASSUME NEW p \in Positions, ClosePositionUnnoticed(p)
        PROVE  \A q \in Positions : OnceAt(q)'
    <2>1. UNCHANGED <<mem, used, db, closer, rec, hs>> /\ mem[p].st = "open"
      BY <1>2 DEF ClosePositionUnnoticed, MayClose, routines, life
    <2>2. Accept("sell", "market", p, mem[p].pair, mem[p].amt)
      BY <1>2 DEF ClosePositionUnnoticed
    <2> QED
      BY <2>1, <2>2, OnceUnnoticed
  <1>3. ASSUME NEW p \in Positions, FalsePump(p)
        PROVE  \A q \in Positions : OnceAt(q)'
    BY <1>3, OnceCheck DEF FalsePump
  <1>4. ASSUME NEW p \in Positions, NEW kind \in {"limit", "market"}, PriceMoved(p, kind)
        PROVE  \A q \in Positions : OnceAt(q)'
    BY <1>4, OnceCheck DEF PriceMoved
  <1> QED
    BY <1>1, <1>2, <1>3, <1>4, OnceOpen, OnceClose DEF Decide

-----------------------------------------------------------------------------
(* Steps of the reader.                                                    *)

LEMMA OnceReads ==
  ASSUME OnceStep, UNCHANGED <<ex, mem, used, db, closer>>,
         \A q \in Positions : ReaderFits(q) /\ CopyIsOf(q)
  PROVE  \A q \in Positions : OnceAt(q)'
  BY OnceOld, OldOrdersOf DEF RecordFits, OnceStep, Plain

LEMMA OnceTakeFill ==
  ASSUME OnceStep, TakeFill
  PROVE  \A q \in Positions : OnceAt(q)'
  <1>1. UNCHANGED <<ex, mem, used, db, closer>>
    BY DEF TakeFill, life
  <1>2. CASE hs'[Ws] = hs[Ws]
    BY <1>1, <1>2, OnceReads DEF ReaderFits, CopyIsOf
  <1>3. CASE hs'[Ws] # hs[Ws]
    <2>1. PICK o : o = Head(wire).o
      OBVIOUS
    <2>2. up /\ hs'[Ws] = [IdleHandler EXCEPT !.pc = "find", !.o = o] /\ Tell(o)
      BY <1>3, <2>1, PlainTypes DEF TakeFill
    <2>3. hs'[Ws].pc = "find" /\ hs'[Ws].o = o
      BY <2>2 DEF IdleHandler
    <2>4. o \in Orders
      BY <2>1, HeadOf DEF TakeFill, NextIs, OnceStep, Plain
    <2>5. told'[o] = IF told[o] = "no" /\ ex[o].st = "filled" THEN "once" ELSE "wrongly"
      BY <2>2, <2>4, PlainTypes DEF Tell
    <2>6. ASSUME NEW q \in Positions, ToldOnce(q)', About(Ws, q)'
          PROVE  Works(q)'
      <3>1. ex[o].p = q /\ q <= used
        BY <1>1, <2>3, <2>4, <2>6 DEF About, OnceStep, Plain, CoreInv, Unused
      <3>2. told'[o] = "once" /\ told[o] = "no" /\ ex[o].st = "filled"
        BY <1>1, <2>4, <2>5, <2>6, <3>1 DEF ToldOnce
      <3>3. SoldOnce(q) /\ mem[q].first \in Orders
        BY <2>6, <3>1, OncePosition, ToldNext
      <3>4. o = mem[q].first => mem[q].st = "pending"
        BY <3>2, <3>3 DEF SoldOnce
      <3> QED
        BY <1>1, <2>3, <3>2, <3>4 DEF Works
    <2>7. \A q \in Positions : ReaderFits(q)
      BY <2>6 DEF ReaderFits
    <2>8. \A q \in Positions : CopyIsOf(q)
      BY <2>3 DEF CopyIsOf
    <2> QED
      BY <1>1, <2>7, <2>8, OnceReads
  <1> QED
    BY <1>2, <1>3

(* What the reader is told of stays known.                                 *)
LEMMA WorkNext ==
  ASSUME OnceStep, NEW q \in Positions, ToldOnce(q)', hs[Ws].pc # "idle",
         hs'[Ws].o = hs[Ws].o, About(Ws, q)'
  PROVE  /\ About(Ws, q) /\ hs[Ws].o \in Orders /\ q <= used /\ ex[hs[Ws].o].p = q
         /\ Fixed(q) /\ ToldOnce(q) /\ SoldOnce(q) /\ Works(q)
         /\ told'[hs[Ws].o] = "once" /\ ex'[hs[Ws].o].st = "filled"
         /\ Indexed(hs[Ws].o) => rec'[hs[Ws].o].st # "none"
         /\ hs[Ws].pc # "find" => hs[Ws].p = q
  <1>1. /\ hs[Ws].o \in Orders /\ ex[hs[Ws].o].st # "none"
        /\ hs[Ws].pc # "find" => hs[Ws].p = ex[hs[Ws].o].p
        /\ ex[hs[Ws].o].p <= used
    BY ReaderOrder
  <1>2. About(Ws, q) /\ ex[hs[Ws].o].p = q
    BY <1>1, PlainOld DEF About
  <1>3. Fixed(q) /\ ToldOnce(q) /\ SoldOnce(q) /\ Works(q)
    BY <1>1, <1>2, OncePosition, ToldNext
  <1>4. told'[hs[Ws].o] = "once" /\ ex'[hs[Ws].o].st = "filled"
    <2>1. told[hs[Ws].o] = "once" /\ ex[hs[Ws].o].st = "filled"
      BY <1>2, <1>3 DEF Works
    <2> QED
      BY <1>1, <1>2, <2>1, ToldNext, PlainOld
  <1> QED
    BY <1>1, <1>2, <1>3, <1>4, PlainOld

LEMMA Gone ==
  ASSUME OnceStep, NEW p \in Positions,
         NEW pc \in {"idle", "find", "lookup", "restore", "apply", "sell", "book"}
  PROVE  /\ Finish(Ws) => hs'[Ws].pc = "idle"
         /\ Move(Ws, pc, p) => /\ hs'[Ws].pc = pc /\ hs'[Ws].o = hs[Ws].o
                               /\ hs'[Ws].p = p /\ hs'[Ws].copy = hs[Ws].copy
  <1>1. CoreInv /\ Ws \in Handlers
    BY PlainTypes DEF OnceStep, Plain
  <1>2. Finish(Ws) => hs'[Ws].pc = "idle"
    BY <1>1, Finished
  <1>3. Move(Ws, pc, p) => /\ hs'[Ws].pc = pc /\ hs'[Ws].o = hs[Ws].o
                           /\ hs'[Ws].p = p /\ hs'[Ws].copy = hs[Ws].copy
    BY <1>1, Moved
  <1> QED
    BY <1>2, <1>3

LEMMA OnceFind ==
  ASSUME OnceStep, Find(Ws)
  PROVE  \A q \in Positions : OnceAt(q)'
  <1>1. UNCHANGED <<ex, mem, used, db, closer>> /\ hs[Ws].pc = "find"
    BY DEF Find, life, HandlerAt, books
  <1>2. CASE Finish(Ws)
    <2>1. hs'[Ws].pc = "idle"
      BY <1>2, PlainTypes, IdleHandlerType DEF Finish
    <2> QED
      BY <1>1, <2>1, OnceReads DEF ReaderFits, CopyIsOf
  <1>3. CASE ~Finish(Ws)
    <2>1. Indexed(hs[Ws].o)
      BY <1>3 DEF Find, FoundById
    <2>2. \E p \in Positions : Move(Ws, "lookup", p) \/ Move(Ws, "apply", p)
      <3>1. ex[hs[Ws].o].p \in Positions
        BY <1>1, ReaderOrder
      <3>2. pend \cup open \subseteq Positions
        BY PlainTypes DEF OnceStep, Plain, CoreInv, Types
      <3> QED
        BY <1>3, <3>1, <3>2 DEF Find
    <2>3. hs'[Ws].pc \in {"lookup", "apply"} /\ hs'[Ws].o = hs[Ws].o
      BY <2>2, Gone
    <2>4. ASSUME NEW q \in Positions, ToldOnce(q)', About(Ws, q)'
          PROVE  Works(q)'
      <3>1. /\ About(Ws, q) /\ Works(q)
            /\ told'[hs[Ws].o] = "once" /\ ex'[hs[Ws].o].st = "filled"
            /\ rec'[hs[Ws].o].st # "none"
        BY <1>1, <2>1, <2>3, <2>4, WorkNext
      <3>2. hs[Ws].o = mem[q].first => mem[q].st = "pending"
        BY <1>1, <3>1 DEF Works
      <3> QED
        BY <1>1, <2>3, <3>1, <3>2 DEF Works, Indexed
    <2> QED
      BY <1>1, <2>3, <2>4, OnceReads DEF ReaderFits, CopyIsOf
  <1> QED
    BY <1>2, <1>3

LEMMA OnceLookup ==
  ASSUME OnceStep, Lookup(Ws)
  PROVE  \A q \in Positions : OnceAt(q)'
  <1>1. PICK p : p = hs[Ws].p
    OBVIOUS
  <1>2. UNCHANGED <<ex, mem, used, db, closer>> /\ hs[Ws].pc = "lookup"
    BY DEF Lookup, life, HandlerAt, books
  <1>3. CASE Finish(Ws)
    <2>1. hs'[Ws].pc = "idle"
      BY <1>3, PlainTypes, IdleHandlerType DEF Finish
    <2> QED
      BY <1>2, <2>1, OnceReads DEF ReaderFits, CopyIsOf
  <1>4. CASE ~Finish(Ws)
    <2>1. /\ db[p].st \in {"pending", "open", "selling"} /\ rec' = rec
          /\ hs' = [hs EXCEPT ![Ws].pc = "restore", ![Ws].copy = db[p]]
      BY <1>1, <1>4 DEF Lookup
    <2>2. /\ hs'[Ws].pc = "restore" /\ hs'[Ws].copy = db[p] /\ hs'[Ws].o = hs[Ws].o
          /\ hs'[Ws].p = p
      BY <1>1, <2>1, PlainTypes DEF HandlerType
    <2>3. p = ex[hs[Ws].o].p /\ p \in Positions /\ p <= used
      BY <1>1, <1>2, ReaderOrder
    <2>4. Fixed(p)
      BY <2>3, OncePosition
    <2>5. ASSUME NEW q \in Positions, ToldOnce(q)', About(Ws, q)'
          PROVE  Works(q)'
      <3>1. /\ About(Ws, q) /\ SoldOnce(q) /\ Works(q) /\ q = p
            /\ told'[hs[Ws].o] = "once" /\ ex'[hs[Ws].o].st = "filled"
            /\ Indexed(hs[Ws].o) => rec'[hs[Ws].o].st # "none"
        BY <1>1, <1>2, <2>2, <2>5, WorkNext
      <3>2. /\ hs[Ws].o = mem[q].first => mem[q].st = "pending"
            /\ rec'[hs[Ws].o].st # "none"
        BY <1>2, <3>1 DEF Works
      <3>3. db[p].st = "pending" <=> mem[p].st = "pending"
        BY <2>1, <3>1 DEF SoldOnce
      <3>4. KnownSells(p)' = KnownSells(p)
        BY <1>2, <2>1 DEF KnownSells, Sells, Indexed
      <3>5. KnownSells(p) # {} => db[p].st = "selling"
        BY <2>1, <3>1 DEF SoldOnce
      <3> QED
        BY <1>2, <2>2, <3>1, <3>2, <3>3, <3>4, <3>5 DEF Works, Indexed
    <2>6. \A q \in Positions : ReaderFits(q)
      BY <2>5 DEF ReaderFits
    <2>7. \A q \in Positions : CopyIsOf(q)
      BY <1>2, <2>2, <2>4 DEF CopyIsOf, Fixed, IsOf
    <2> QED
      BY <1>2, <2>6, <2>7, OnceReads
  <1> QED
    BY <1>3, <1>4

(* The position the reader works on, and the others.                       *)
LEMMA ReaderWorksOn ==
  ASSUME OnceStep, hs[Ws].pc \notin {"idle", "find"}
  PROVE  /\ hs[Ws].p \in Positions /\ hs[Ws].p <= used /\ hs[Ws].o \in Orders
         /\ ex[hs[Ws].o].p = hs[Ws].p /\ About(Ws, hs[Ws].p) /\ Fixed(hs[Ws].p)
         /\ mem[hs[Ws].p] \in PositionType /\ HandlerOk(Ws)
  <1>1. /\ hs[Ws].p \in Positions /\ hs[Ws].p <= used /\ hs[Ws].o \in Orders
        /\ ex[hs[Ws].o].p = hs[Ws].p
    BY ReaderOrder
  <1>2. HandlerOk(Ws)
    BY PlainTypes DEF OnceStep, Plain, CoreInv, Handling
  <1> QED
    BY <1>1, <1>2, OncePosition DEF About

LEMMA OnceOthers ==
  ASSUME OnceStep, hs[Ws].pc \notin {"idle", "find"}, UNCHANGED <<ex, used>>,
         \A q \in Positions \ {hs[Ws].p} : mem'[q] = mem[q] /\ db'[q] = db[q]
                                             /\ closer'[q] = closer[q],
         hs'[Ws].pc = "idle" \/ hs'[Ws].o = hs[Ws].o, hs'[Ws].pc # "restore",
         NEW q \in Positions, q # hs[Ws].p
  PROVE  OnceAt(q)'
  <1>1. \A o \in Orders : ex[o].st = "none" => ex'[o].p # q
    BY PlainNew
  <1>2. Untouched(q)
    BY <1>1 DEF Untouched, Stays, NewOrdersFit, RecordFits
  <1>3. ReaderFits(q) /\ CopyIsOf(q)
    BY ReaderWorksOn DEF ReaderFits, CopyIsOf, About
  <1> QED
    BY <1>2, <1>3, OnceFrame

(* The position changes; the rest of its invariant is to be shown.         *)
LEMMA OnceChanged ==
  ASSUME OnceStep, NEW p \in Positions, p <= used, UNCHANGED <<ex, used>>,
         mem'[p].first = mem[p].first, mem'[p].amt = mem[p].amt, mem'[p].st # "none",
         db'[p] = mem'[p] \/ db'[p] = db[p], hs'[Ws].pc # "restore",
         ToldOnce(p)' => SoldOnce(p)' /\ Works(p)'
  PROVE  OnceAt(p)'
  <1>1. \A o \in Orders : ex[o].st = "none" => ex'[o].p # p
    BY PlainNew
  <1>2. Stays(p)
    BY <1>1 DEF Stays, NewOrdersFit, RecordFits
  <1>3. Fixed(p)'
    BY <1>2, FixedKept DEF CopyIsOf
  <1> QED
    BY <1>3 DEF OnceAt

(* The orders of a position when the exchange does nothing.                *)
LEMMA SalesSame ==
  ASSUME OnceStep, NEW p \in Positions, UNCHANGED ex
  PROVE  KnownSells(p)' = KnownSells(p)
  <1>1. KnownSells(p)' \subseteq Orders
    BY DEF KnownSells
  <1>2. \A o \in Orders : ex[o].st = "none" => ex'[o].p # p
    BY PlainNew
  <1> QED
    BY <1>1, <1>2, SalesNext

LEMMA OnceRestore ==
  ASSUME OnceStep, RestoreToMemory(Ws)
  PROVE  \A q \in Positions : OnceAt(q)'
  <1>1. PICK p : p = hs[Ws].p
    OBVIOUS
  <1>2. /\ hs[Ws].pc = "restore" /\ mem' = [mem EXCEPT ![p] = hs[Ws].copy]
        /\ hs' = [hs EXCEPT ![Ws].pc = "apply", ![Ws].copy = NoPosition]
        /\ UNCHANGED <<ex, db, used, closer>>
    BY <1>1 DEF RestoreToMemory, HandlerAt, books, life
  <1>3. /\ p \in Positions /\ p <= used /\ ex[hs[Ws].o].p = p /\ About(Ws, p) /\ Fixed(p)
        /\ HandlerOk(Ws)
    BY <1>1, <1>2, ReaderWorksOn
  <1>4. hs[Ws].copy.st \in {"pending", "open", "selling"}
    BY <1>2, <1>3 DEF HandlerOk
  <1>5. hs[Ws].copy.first = mem[p].first /\ hs[Ws].copy.amt = mem[p].amt
    BY <1>1, <1>2, <1>3, <1>4 DEF Fixed, IsOf
  <1>6. /\ mem'[p] = hs[Ws].copy
        /\ \A q \in Positions \ {p} : mem'[q] = mem[q]
    BY <1>2, <1>3, PlainTypes
  <1>7. hs'[Ws].pc = "apply" /\ hs'[Ws].o = hs[Ws].o
    BY <1>2, PlainTypes DEF HandlerType
  <1>8. ASSUME ToldOnce(p)' PROVE SoldOnce(p)' /\ Works(p)'
    <2>1. /\ ToldOnce(p) /\ SoldOnce(p) /\ Works(p)
          /\ told'[hs[Ws].o] = "once" /\ ex'[hs[Ws].o].st = "filled"
          /\ Indexed(hs[Ws].o) => rec'[hs[Ws].o].st # "none"
      BY <1>2, <1>3, <1>7, <1>8, WorkNext DEF About
    <2>2. /\ hs[Ws].copy.st = "pending" <=> mem[p].st = "pending"
          /\ KnownSells(p) # {} => hs[Ws].copy.st = "selling"
          /\ rec'[hs[Ws].o].st # "none"
          /\ hs[Ws].o = mem[p].first => mem[p].st = "pending"
      BY <1>2, <1>3, <2>1 DEF Works
    <2>3. KnownSells(p)' = KnownSells(p)
      BY <1>2, <1>3, SalesSame
    <2>4. mem[p].first \in Orders /\ ex[mem[p].first].p = p
      BY <1>3 DEF Fixed, Buys
    <2>5. told[mem[p].first] = "once" => told'[mem[p].first] = "once"
      BY <1>3, <1>8, <2>4, ToldNext
    <2>6. SoldOnce(p)'
      <3>1. mem'[p].st = "pending" =>
               /\ db'[p].st \in {"pending", "none"} /\ closer'[p] = "idle"
               /\ \A o \in Orders : ~(ex'[o].p = p /\ ex'[o].side = "sell")
        BY <1>2, <1>6, <2>1, <2>2 DEF SoldOnce, Sells
      <3>2. mem'[p].st # "pending" =>
               /\ db'[p].st # "pending"
               /\ told'[mem'[p].first] = "once" /\ ex'[mem'[p].first].st = "filled"
        BY <1>2, <1>5, <1>6, <2>1, <2>2, <2>5 DEF SoldOnce
      <3>3. KnownSells(p)' # {} =>
               /\ mem'[p].st \in {"selling", "closed"}
               /\ db'[p].st \in {"selling", "closed", "none"}
        BY <1>2, <1>6, <2>1, <2>2, <2>3 DEF SoldOnce
      <3>4. \A x, y \in KnownSells(p)' : x = y
        BY <2>1, <2>3 DEF SoldOnce
      <3> QED
        BY <3>1, <3>2, <3>3, <3>4 DEF SoldOnce, Sells
    <2>7. Works(p)'
      BY <1>5, <1>6, <1>7, <2>1, <2>2 DEF Works, Indexed
    <2> QED
      BY <2>6, <2>7
  <1>9. OnceAt(p)'
    BY <1>2, <1>3, <1>4, <1>5, <1>6, <1>7, <1>8, OnceChanged
  <1>10. ASSUME NEW q \in Positions, q # p
         PROVE  OnceAt(q)'
    BY <1>1, <1>2, <1>6, <1>7, <1>10, OnceOthers
  <1> QED
    BY <1>9, <1>10

LEMMA OnceApply ==
  ASSUME OnceStep, ApplyBuy(Ws) \/ ApplySell(Ws)
  PROVE  \A q \in Positions : OnceAt(q)'
  <1>1. PICK p : p = hs[Ws].p
    OBVIOUS
  <1>2. PICK st : st = IF ex[hs[Ws].o].side = "buy" THEN "open" ELSE "closed"
    OBVIOUS
  <1> DEFINE new == [mem[p] EXCEPT !.st = st]
  <1>3. /\ hs[Ws].pc = "apply" /\ Track(p, new)
        /\ UNCHANGED <<ex, used, closer, told>>
        /\ ApplyBuy(Ws) => ex[hs[Ws].o].side = "buy"
                             /\ (Finish(Ws) \/ Move(Ws, "sell", p))
        /\ ApplySell(Ws) => ex[hs[Ws].o].side = "sell" /\ Move(Ws, "book", p)
    BY <1>1, <1>2 DEF ApplyBuy, ApplySell, HandlerAt, books, life, history
  <1>4. /\ p \in Positions /\ p <= used /\ ex[hs[Ws].o].p = p /\ About(Ws, p) /\ Fixed(p)
        /\ hs[Ws].o \in Orders /\ mem[p] \in PositionType
    BY <1>1, <1>3, ReaderWorksOn
  <1>5. new.st = st /\ new.first = mem[p].first /\ new.amt = mem[p].amt
    BY <1>4 DEF PositionType
  <1>6. /\ mem'[p] = new /\ db'[p] = new
        /\ \A q \in Positions \ {p} : mem'[q] = mem[q] /\ db'[q] = db[q]
    BY <1>3, <1>4, PlainTypes DEF Track
  <1> HIDE DEF new
  <1>7. \/ hs'[Ws].pc = "idle"
        \/ hs'[Ws].pc = "sell" /\ hs'[Ws].o = hs[Ws].o /\ st = "open"
        \/ hs'[Ws].pc = "book" /\ hs'[Ws].o = hs[Ws].o
    BY <1>2, <1>3, <1>4, Gone
  <1>8. ASSUME ToldOnce(p)' PROVE SoldOnce(p)' /\ Works(p)'
    <2>1. ToldOnce(p) /\ SoldOnce(p) /\ Works(p)
      BY <1>4, <1>8, OncePosition, ToldNext
    <2>2. \/ hs[Ws].o = mem[p].first /\ mem[p].st = "pending" /\ st = "open"
          \/ /\ hs[Ws].o \in KnownSells(p) /\ mem[p].st \in {"selling", "closed"}
             /\ st = "closed"
      BY <1>2, <1>3, <1>4, <2>1, KnownWork
    <2>3. told[hs[Ws].o] = "once" /\ ex[hs[Ws].o].st = "filled"
      BY <1>4, <2>1 DEF Works
    <2>4. KnownSells(p)' = KnownSells(p)
      BY <1>3, <1>4, SalesSame
    <2>5. st = "open" => KnownSells(p) = {}
      BY <2>1, <2>2 DEF SoldOnce, KnownSells
    <2>6. told[mem[p].first] = "once" /\ ex[mem[p].first].st = "filled"
      BY <2>1, <2>2, <2>3 DEF SoldOnce
    <2>7. \A x, y \in KnownSells(p)' : x = y
      BY <2>1, <2>4 DEF SoldOnce
    <2>8. SoldOnce(p)'
      BY <1>3, <1>5, <1>6, <2>2, <2>4, <2>5, <2>6, <2>7 DEF SoldOnce
    <2>9. Works(p)'
      BY <1>3, <1>5, <1>6, <1>7, <2>3 DEF Works, About
    <2> QED
      BY <2>8, <2>9
  <1>9. OnceAt(p)'
    <2>1. mem'[p].st # "none"
      BY <1>2, <1>5, <1>6
    <2> QED
      BY <1>3, <1>4, <1>5, <1>6, <1>7, <1>8, <2>1, OnceChanged
  <1>10. ASSUME NEW q \in Positions, q # p
         PROVE  OnceAt(q)'
    BY <1>1, <1>3, <1>6, <1>7, <1>10, OnceOthers
  <1> QED
    BY <1>9, <1>10

LEMMA OnceBook ==
  ASSUME OnceStep, BookSell(Ws)
  PROVE  \A q \in Positions : OnceAt(q)'
  <1>1. UNCHANGED <<ex, mem, used, db, closer>> /\ Finish(Ws)
    BY DEF BookSell, Book, books, life
  <1>2. hs'[Ws].pc = "idle"
    BY <1>1, PlainTypes, IdleHandlerType DEF Finish
  <1> QED
    BY <1>1, <1>2, OnceReads DEF ReaderFits, CopyIsOf

LEMMA OnceSell ==
  ASSUME OnceStep, Sell(Ws)
  PROVE  \A q \in Positions : OnceAt(q)'
  <1>1. PICK p : p = hs[Ws].p
    OBVIOUS
  <1>2. PICK n : n = NewOrder
    OBVIOUS
  <1>3. hs[Ws].pc = "sell" /\ Finish(Ws) /\ UNCHANGED <<used, told>>
    BY DEF Sell, HandlerAt, life, history
  <1>4. hs'[Ws].pc = "idle"
    BY <1>3, PlainTypes, IdleHandlerType DEF Finish
  <1>5. p \in Positions /\ p <= used /\ About(Ws, p)
    BY <1>1, <1>3, ReaderWorksOn
  <1>6. ToldOnce(p) => mem[p].st = "open"
    BY <1>3, <1>5, OncePosition DEF Works
  <1>7. CASE /\ Accept("sell", "limit", p, mem[p].pair, mem[p].amt)
             /\ Track(p, [mem[p] EXCEPT !.st = "selling", !.exit = n])
             /\ closer' = closer
    BY <1>2, <1>3, <1>4, <1>5, <1>6, <1>7, OnceSold
  <1>8. CASE UNCHANGED <<ex, mem, db>> /\ closer' \in {closer, [closer EXCEPT ![p] = "check"]}
    <2> SUFFICES ASSUME NEW q \in Positions PROVE OnceAt(q)'
      OBVIOUS
    <2>1. \A o \in Orders : ex[o].st = "none" => ex'[o].p # q
      BY <1>8, PlainNew
    <2>2. ToldOnce(q)' /\ closer'[q] # "idle" => closer[q] # "idle" \/ mem[q].st # "pending"
      BY <1>5, <1>6, <1>8, PlainTypes, ToldNext
    <2>3. Untouched(q)
      BY <1>3, <1>8, <2>1, <2>2 DEF Untouched, Stays, NewOrdersFit, RecordFits
    <2> QED
      BY <1>4, <2>3, OnceFrame DEF ReaderFits, CopyIsOf
  <1>9. CASE /\ Accept("sell", "limit", p, mem[p].pair, mem[p].amt)
             /\ rec' = Marked(rec, RecordOf(hs[Ws].o), "filled")
             /\ UNCHANGED <<mem, db, closer>>
    <2>1. IsNew(n, "sell", p, mem[p].amt)
      BY <1>2, <1>9, AcceptIs DEF OnceStep, Plain
    <2>2. ~Indexed(n)
      BY <2>1, PlainNew DEF IsNew
    <2>3. RecordOf(hs[Ws].o) # None => Indexed(RecordOf(hs[Ws].o))
      BY <1>3, PlainTypes, HandlerFacts DEF OnceStep, Plain
    <2>4. rec'[n].st = "none"
      BY <1>9, <2>1, <2>2, <2>3, PlainTypes DEF Marked, Indexed, IsNew
    <2> SUFFICES ASSUME NEW q \in Positions PROVE OnceAt(q)'
      OBVIOUS
    <2>5. \A o \in Orders : ex[o].st = "none" /\ ex'[o].p = q => o = n /\ q = p
      BY <2>1, PlainNew DEF IsNew
    <2>6. ex'[n].side = "sell" /\ ex'[n].amt = mem[p].amt
      BY <2>1 DEF IsNew
    <2>7. Stays(q)
      BY <1>3, <1>9, <2>5, <2>6 DEF Stays, NewOrdersFit, RecordFits
    <2>8. ToldOnce(q)' => ToldOnce(q)
      BY ToldNext
    <2>9. Untouched(q)
      BY <1>6, <1>9, <2>4, <2>5, <2>7, <2>8 DEF Untouched
    <2> QED
      BY <1>4, <2>9, OnceFrame DEF ReaderFits, CopyIsOf
  <1> QED
    BY <1>1, <1>2, <1>7, <1>8, <1>9 DEF Sell, books

-----------------------------------------------------------------------------
(* All steps.                                                              *)

LEMMA OnceInit == ASSUME Init PROVE OnceInv
  <1>1. CoreInv
    BY CoreInit
  <1>2. NoRestart
    BY NoRestartInit
  <1>3. used = 0
    BY DEF Init
  <1>4. \A p \in Positions : ~(p <= used)
    BY <1>3 DEF Positions
  <1> QED
    BY <1>1, <1>2, <1>4 DEF OnceInv, OnceAt

LEMMA OnceNext ==
  ASSUME OnceStep, MaxStarts = 0, [Next]_vars
  PROVE  \A q \in Positions : OnceAt(q)'
  <1>1. CoreInv /\ NoRestart
    BY DEF OnceStep, Plain
  <1>2. ~Crash /\ ~StartBot
    BY <1>1 DEF Crash, StartBot, NoRestart
  <1>3. ~StartStep
    BY <1>1 DEF StartStep, Started, RestorePending, RestoreOpen, RestoreSelling, Restoring,
       Nothing, NoRestart
  <1>4. \A p \in Positions : ~HandlerStep(p)
    BY <1>1 DEF HandlerStep, Find, Lookup, RestoreToMemory, ApplyBuy, Sell, ApplySell,
       BookSell, HandlerAt, IdleHandler, NoRestart
  <1>5. CASE LoopStep
    BY <1>5, OnceCancel, OnceMoves DEF LoopStep
  <1>6. CASE WsStep
    BY <1>6, OnceTakeFill, OnceCancel, OnceFind, OnceLookup, OnceRestore, OnceApply, OnceSell,
       OnceBook DEF WsStep, HandlerStep
  <1> QED
    BY <1>2, <1>3, <1>4, <1>5, <1>6, OnceExchange, OnceDecide, OnceCloser, OnceStop
       DEF Next, Owner

LEMMA OnceAlways ==
  ASSUME MaxStarts = 0
  PROVE  Spec => []OnceInv
  <1>1. OnceInv /\ [Next]_vars => OnceInv'
    <2> SUFFICES ASSUME OnceInv, [Next]_vars
                 PROVE  OnceInv'
      OBVIOUS
    <2>1. CoreInv /\ NoRestart /\ \A p \in Positions : OnceAt(p)
      BY DEF OnceInv
    <2>2. CoreInv' /\ Keeps
      BY <2>1, CoreNext
    <2>3. HistoryMoves /\ AmountsStay
      BY <2>1, HistoryNext, AmountsNext
    <2>4. NoRestart'
      BY <2>1, <2>2, <2>3, NoRestartNext
    <2>5. OnceStep
      BY <2>1, <2>2, <2>3, <2>4 DEF OnceStep, Plain
    <2>6. \A p \in Positions : OnceAt(p)'
      BY <2>5, OnceNext
    <2> QED
      BY <2>2, <2>4, <2>6 DEF OnceInv
  <1> QED
    BY <1>1, OnceInit, PTL DEF Spec

(* What such a position sold, or may sell, is of one order at most, and    *)
(* its first order bought as much.                                         *)
LEMMA SoldIsBought ==
  ASSUME OnceInv, NEW p \in Positions, ToldOnce(p)
  PROVE  Sold(p) <= Bought(p)
  <1>1. /\ ex \in [Orders -> OrderType] /\ Orders = 1 .. MaxOrders /\ MaxOrders \in Nat
        /\ mem \in [Positions -> PositionType]
    BY PumpAssumption DEF OnceInv, CoreInv, Types, Orders
  <1>2. \A o \in Orders : ex[o].done \in Nat /\ ex[o].amt \in Nat /\ ex[o].done <= ex[o].amt
    BY <1>1 DEF OrderType, OnceInv, CoreInv, Books
  <1>3. PICK f : f = Purchase(p)
    OBVIOUS
  <1>4. PICK g : g = Sale(p)
    OBVIOUS
  <1>5. /\ f \in [1 .. MaxOrders -> Nat]
        /\ \A o \in Orders : f[o] = IF Buys(o, p) THEN ex[o].done ELSE 0
    BY <1>1, <1>2, <1>3 DEF Purchase, Buys
  <1>6. /\ g \in [1 .. MaxOrders -> Nat]
        /\ \A o \in Orders : o \notin KnownSells(p) => g[o] = 0
        /\ \A o \in Orders : g[o] <= ex[o].amt
    <2>1. /\ g \in [1 .. MaxOrders -> Nat]
          /\ \A o \in Orders : ~(Sells(o, p) /\ Indexed(o)) => g[o] = 0
          /\ \A o \in Orders : g[o] <= ex[o].amt
      BY <1>1, <1>2, <1>4 DEF Sale, Sells
    <2> QED
      BY <2>1 DEF KnownSells
  <1>7. Bought(p) = Total(MaxOrders, f) /\ Sold(p) = Total(MaxOrders, g)
    BY <1>3, <1>4 DEF Bought, Sold
  <1>8. CASE KnownSells(p) = {}
    <2>1. Total(MaxOrders, g) = 0
      BY <1>1, <1>6, <1>8, TotalNone
    <2>2. Total(MaxOrders, f) \in Nat
      BY <1>1, <1>5, TotalNat
    <2> QED
      BY <1>7, <2>1, <2>2
  <1>9. CASE KnownSells(p) # {}
    <2>1. PICK x \in KnownSells(p) : TRUE
      BY <1>9
    <2>2. x \in Orders /\ ex[x].p = p
      BY <2>1 DEF KnownSells, Sells
    <2>3. p <= used
      BY <2>2 DEF OnceInv, CoreInv, Unused
    <2>4. Fixed(p) /\ SoldOnce(p)
      BY <2>3 DEF OnceInv, OnceAt
    <2>5. /\ ex[x].amt = mem[p].amt /\ mem[p].first \in Orders /\ Buys(mem[p].first, p)
          /\ ex[mem[p].first].amt = mem[p].amt
      BY <2>2, <2>4 DEF Fixed, Buys
    <2>6. ex[mem[p].first].done = mem[p].amt
      <3>1. mem[p].st # "pending"
        BY <1>9, <2>4 DEF SoldOnce
      <3>2. ex[mem[p].first].st = "filled"
        BY <2>4, <3>1 DEF SoldOnce
      <3> QED
        BY <2>5, <3>2 DEF OnceInv, CoreInv, Books
    <2>7. \A o \in 1 .. MaxOrders : o # x => g[o] = 0
      BY <1>1, <1>6, <2>1, <2>4 DEF SoldOnce
    <2>8. Total(MaxOrders, g) = g[x]
      <3>1. g \in [1 .. MaxOrders -> Int]
        BY <1>6
      <3> QED
        BY <1>1, <2>2, <2>7, <3>1, TotalOne
    <2>9. Total(MaxOrders, f) >= f[mem[p].first] /\ Total(MaxOrders, f) \in Nat
      BY <1>1, <1>5, <2>5, TotalAtLeast
    <2>10. f[mem[p].first] = mem[p].amt
      BY <1>5, <2>5, <2>6
    <2>11. g[x] <= mem[p].amt /\ g[x] \in Nat /\ mem[p].amt \in Nat
      BY <1>1, <1>2, <1>6, <2>2, <2>5
    <2> QED
      BY <1>7, <2>8, <2>9, <2>10, <2>11
  <1> QED
    BY <1>8, <1>9

(* Without a restart, the sell orders the bot knows of for a position      *)
(* never exceed what it bought, although the fill handler and the exit     *)
(* check place them independently: whatever became of other positions, of  *)
(* moved or abandoned orders and of sells the bot does not know of.        *)
THEOREM SellsOnlyWhatItBoughtAlways ==
  ASSUME MaxStarts = 0
  PROVE  Spec => []SellsOnlyWhatItBought
  <1>1. OnceInv => SellsOnlyWhatItBought
    BY SoldIsBought DEF SellsOnlyWhatItBought
  <1> QED
    BY <1>1, OnceAlways, PTL

=============================================================================
