--------------------------- MODULE Copilot_proofs ---------------------------
(* Theorems about Copilot, for every number of trades, orders, clients,    *)
(* coins, refusals and crashes.                                            *)
(*                                                                         *)
(* Four processes hold copies of trade records and write them back whole.  *)
(*  - RecordIInv: what a record says is true because every copy anybody    *)
(*    holds is true of the exchange (Truthful), and what is true of an     *)
(*    exchange stays true: orders are only added, filled and cancelled.    *)
(*  - WatchInv: a fill is reported once, and who places a buy order is     *)
(*    alone with the trade, so a trade that is done leaves the list.       *)
(*  - IndexInv: every writer names the status the record has.              *)
(*  - OfferIInv: the one coin is free and somebody is about to offer it,   *)
(*    or in the one sell order that stands.                                *)
EXTENDS Copilot, FiniteSetTheorems, SequenceTheorems, TLAPS

OrderType == [st : {"none", "open", "filled", "cancelled"}, t : Trades \cup {None},
              side : {"none", "buy", "sell"}, kind : {"limit", "market"}, amt : Nat]
TradeType == [st : Statuses \cup {"none"}, paper : BOOLEAN,
              buy : Orders \cup {None}, sell : Orders \cup {None}]
RequestPcs == {"idle", "create", "record", "link", "debit", "credit", "save", "cancel",
               "cancelled", "uncover", "sell", "sold"}
ReaderPcs == {"idle", "bought", "offer", "record", "link", "watch", "sold", "forget"}
StopPcs == {"idle", "uncover", "sell", "stopped", "forget"}
ProcType == [pc : RequestPcs \cup ReaderPcs \cup StopPcs, t : Trades \cup {None},
             o : Orders \cup {None}, copy : TradeType, idr : Int]

Types ==
    /\ ex \in [Orders -> OrderType] /\ coins \in Nat /\ wire \in Seq(Orders)
    /\ db \in [Trades -> TradeType] /\ idx \in [Statuses -> SUBSET Trades]
    /\ rec \in [Orders -> Trades \cup {None}] /\ paperIDR \in Int
    /\ active \in [Trades -> TradeType]
    /\ req \in [Clients -> ProcType] /\ \A c \in Clients : req[c].pc \in RequestPcs
    /\ ws \in ProcType /\ ws.pc \in ReaderPcs
    /\ sl \in ProcType /\ sl.pc \in StopPcs
    /\ crashes \in Nat /\ refusals \in Nat

(* The exchange numbers its orders from one; a trade has one buy order;    *)
(* only executed limit orders are reported.                                *)
Books ==
    /\ \A o, p \in Orders : o <= p /\ ex[p].st # "none" => ex[o].st # "none"
    /\ \A o \in Orders : ex[o].st = "none" => ex[o] = NoOrder
    /\ \A o \in Orders : ex[o].st # "none" => ex[o].t \in Trades /\ ex[o].side # "none"
    /\ \A o \in Orders : ex[o].side = "buy" => ex[o].kind = "limit" /\ ex[o].amt = 1
    /\ \A o \in Orders : ex[o].kind = "market" => ex[o].st = "filled"
    /\ \A o, p \in Orders :
         ex[o].side = "buy" /\ ex[p].side = "buy" /\ ex[o].t = ex[p].t => o = p
    /\ \A i \in 1 .. Len(wire) : ex[wire[i]].st = "filled" /\ ex[wire[i]].kind = "limit"
    /\ \A o \in Orders : rec[o] # None => ex[o].st # "none" /\ rec[o] = ex[o].t

(* What a copy of the record of t says is true at the exchange and stays   *)
(* so.  Cancelled means that no buy order of the trade can fill any more.  *)
HasBuy(t) == \E o \in Orders : ex[o].side = "buy" /\ ex[o].t = t
Unbuyable(t) == \A o \in Orders :
    ex[o].side = "buy" /\ ex[o].t = t => ex[o].st = "cancelled"
Truthful(t, copy) ==
    /\ copy.st \in {"filled", "completed", "stopped", "error"} => Bought(t)
    /\ copy.st = "completed" => Did(t, "sell", "limit")
    /\ copy.st = "stopped" => Did(t, "sell", "market")
    /\ copy.st = "cancelled" => Unbuyable(t)
    /\ copy.buy # None => ex[copy.buy].side = "buy" /\ ex[copy.buy].t = t
    /\ copy.sell # None => /\ ex[copy.sell].side = "sell" /\ ex[copy.sell].t = t
                           /\ Bought(t)
    /\ copy.paper => ~HasBuy(t)

(* A trade that was never recorded is nobody's; the others are listed.     *)
Known ==
    /\ \A t \in Trades : db[t].st = "none" => db[t] = NoTrade /\ active[t] = NoTrade
    /\ \A t \in Trades : db[t].st # "none" => \E st \in Statuses : t \in idx[st]

(* What a process knows of its trade at each point.                        *)
RequestKnows(r) ==
    /\ r.pc # "idle" => r.t \in Trades /\ Truthful(r.t, r.copy)
    /\ r.pc \notin {"idle", "create"} => db[r.t].st # "none"
    /\ r.pc = "create" => r.copy.st = "none"
    /\ r.pc \in {"record", "link", "cancel"} => r.copy.st = "pending"
    /\ r.pc \in {"create", "record", "link"} =>
         /\ r.copy.sell = None
         /\ r.o # None => ex[r.o].side = "buy" /\ ex[r.o].t = r.t
    /\ r.pc = "cancelled" => Unbuyable(r.t)
    /\ r.pc \in {"uncover", "sell", "sold"} => r.copy.st = "filled"
ReaderKnows(w) ==
    /\ w.pc # "idle" => w.t \in Trades /\ db[w.t].st # "none" /\ Truthful(w.t, w.copy)
    /\ w.pc \in {"bought", "sold"} => Bought(w.t) /\ w.copy.st # "none"
    /\ w.pc \in {"offer", "record", "link", "watch"} => w.copy.st = "filled"
    /\ w.pc = "record" => w.o # None /\ ex[w.o].side = "sell" /\ ex[w.o].t = w.t
    /\ w.pc = "sold" => Did(w.t, "sell", "limit")
StopKnows(s) ==
    /\ s.pc # "idle" => s.t \in Trades /\ db[s.t].st # "none" /\ Truthful(s.t, s.copy)
    /\ s.pc \in {"uncover", "sell"} => s.copy.st = "filled"
    /\ s.pc = "stopped" => s.copy.st = "stopped"

Knowledge ==
    /\ \A t \in Trades : Truthful(t, db[t]) /\ Truthful(t, active[t])
    /\ \A t \in Trades : active[t].st \in {"none", "filled"}
    /\ \A c \in Clients : RequestKnows(req[c])
    /\ ReaderKnows(ws) /\ StopKnows(sl)

RecordIInv == Types /\ Books /\ Known /\ Knowledge

-----------------------------------------------------------------------------
(* What the operators return.                                              *)

(* The next number is free, and the numbers before it are taken.           *)
LEMMA NextNumber ==
  ASSUME Types, Books
  PROVE  /\ NewOrder \in Nat \ {0}
         /\ NewOrder \in Orders => ex[NewOrder].st = "none" /\ ex[NewOrder] = NoOrder
         /\ NewOrder \in Orders =>
              \A o \in Orders : ex[o].st # "none" <=> o < NewOrder
<1> DEFINE S == {o \in Orders : ex[o].st # "none"}
           n == Cardinality(S)
<1>1. MaxOrders \in Nat
  BY CopilotAssumption
<1>2. IsFiniteSet(Orders) /\ S \subseteq Orders
  BY <1>1, FS_Interval DEF Orders
<1>3. IsFiniteSet(S) /\ n \in Nat
  BY <1>2, FS_Subset, FS_CardinalityType
<1>4. NewOrder = n + 1
  BY DEF NewOrder
<1>5. \A o, p \in Orders : o <= p /\ p \in S => o \in S
  BY DEF Books
<1> HIDE DEF n
<1>6. ASSUME n + 1 \in Orders PROVE n + 1 \notin S
  <2> SUFFICES ASSUME n + 1 \in S PROVE FALSE
    OBVIOUS
  <2>1. 1 .. n + 1 \subseteq S
    BY <1>1, <1>3, <1>5, <1>6 DEF Orders
  <2>2. Cardinality(1 .. n + 1) = n + 1
    BY <1>3, FS_Interval
  <2>3. Cardinality(1 .. n + 1) <= Cardinality(S)
    BY ONLY <1>3, <2>1, FS_Subset
  <2> QED
    BY ONLY <1>3, <2>2, <2>3 DEF n
<1>7. ASSUME n + 1 \in Orders PROVE S = 1 .. n
  <2>1. S \subseteq 1 .. n
    BY <1>1, <1>3, <1>5, <1>6, <1>7 DEF Orders
  <2>2. IsFiniteSet(1 .. n) /\ Cardinality(1 .. n) = n
    BY <1>3, FS_Interval
  <2> QED
    BY <2>1, <2>2, FS_Subset DEF n
<1>8. NewOrder \in Orders => ex[NewOrder].st = "none"
  BY <1>4, <1>6 DEF n
<1>9. ASSUME NewOrder \in Orders, NEW o \in Orders
      PROVE  ex[o].st # "none" <=> o < NewOrder
  <2>1. o \in S <=> o \in 1 .. n
    BY <1>4, <1>7, <1>9 DEF n
  <2>2. o \in S <=> ex[o].st # "none"
    OBVIOUS
  <2> QED
    BY <1>1, <1>3, <1>4, <2>1, <2>2 DEF Orders
<1> QED
  BY <1>3, <1>4, <1>8, <1>9 DEF Books

Become(c, r) == req' = [req EXCEPT ![c] = r]

LEMMA IdleType == Idle \in ProcType /\ NoTrade \in TradeType /\ NoOrder \in OrderType
BY DEF Idle, ProcType, NoTrade, TradeType, NoOrder, OrderType, RequestPcs, None

LEMMA Becomes ==
  ASSUME Types, NEW c \in Clients, NEW r \in ProcType, Become(c, r)
  PROVE  /\ req'[c] = r /\ \A d \in Clients : d # c => req'[d] = req[d]
         /\ r.pc \in RequestPcs => /\ req' \in [Clients -> ProcType]
                                   /\ \A d \in Clients : req'[d].pc \in RequestPcs
BY DEF Types, Become


-----------------------------------------------------------------------------
(* Types.                                                                  *)

LEMMA SellTypes ==
  ASSUME Types, Books, NEW t \in Trades, NEW kind \in {"limit", "market"}, SellAll(t, kind)
  PROVE  /\ NewOrder \in Orders /\ ex' \in [Orders -> OrderType] /\ coins' \in Nat
         /\ UNCHANGED <<wire, refusals>>
<1>1. NewOrder \in Orders
  BY DEF SellAll
<1>2. [st |-> IF kind = "market" THEN "filled" ELSE "open", t |-> t,
       side |-> "sell", kind |-> kind, amt |-> coins] \in OrderType
  BY DEF OrderType, Types
<1> QED
  BY <1>1, <1>2 DEF SellAll, Types

LEMMA RefusedTypes ==
  ASSUME Types, SellRefused
  PROVE  UNCHANGED <<ex, coins, wire>> /\ refusals' \in Nat
BY CopilotAssumption DEF SellRefused, exchange, Types

LEMMA CancelTypes ==
  ASSUME Types, NEW o, NEW ok, CancelAnswer(o, ok)
  PROVE  ex' \in [Orders -> OrderType] /\ coins' \in Nat /\ UNCHANGED wire
<1>1. CASE UNCHANGED exchange
  BY <1>1 DEF exchange, Types
<1>2. CASE /\ o \in {p \in Orders : ex[p].st = "open"}
           /\ ex' = [ex EXCEPT ![o].st = "cancelled"]
           /\ coins' = IF ex[o].side = "sell" THEN coins + ex[o].amt ELSE coins
           /\ wire' = wire
  <2>1. ex[o] \in OrderType /\ o \in Orders
    BY <1>2 DEF Types
  <2>2. [ex[o] EXCEPT !.st = "cancelled"] \in OrderType /\ ex[o].amt \in Nat
    BY <2>1 DEF OrderType
  <2>3. ex' = [ex EXCEPT ![o] = [ex[o] EXCEPT !.st = "cancelled"]]
    BY <1>2
  <2> QED
    BY <1>2, <2>1, <2>2, <2>3 DEF Types
<1> QED
  BY <1>1, <1>2 DEF CancelAnswer

LEMMA UpdateTypes ==
  ASSUME Types, NEW t \in Trades, NEW k \in TradeType, NEW old, Update(t, k, old)
  PROVE  db' \in [Trades -> TradeType] /\ idx' \in [Statuses -> SUBSET Trades]
<1>1. db' \in [Trades -> TradeType]
  BY DEF Update, Types
<1>2. CASE old = k.st
  BY <1>1, <1>2 DEF Update, Types
<1>3. CASE old # k.st
  BY <1>1, <1>3 DEF Update, Types
<1> QED
  BY <1>1, <1>2, <1>3

Buys(t) ==
    /\ NewOrder \in Orders
    /\ ex' = [ex EXCEPT ![NewOrder] = [st |-> "open", t |-> t, side |-> "buy",
                                       kind |-> "limit", amt |-> 1]]

(* What a request does to itself.                                          *)
RequestRecord(c, r) ==
    \/ /\ PlaceBuy(c)
       /\ \E t \in Trades \ Taken :
            r = [Idle EXCEPT !.pc = "create", !.t = t, !.o = NewOrder] /\ Buys(t)
    \/ /\ PlacePaperBuy(c)
       /\ \E t \in Trades \ Taken :
            r = [Idle EXCEPT !.pc = "create", !.t = t, !.copy.paper = TRUE]
    \/ /\ CreateTrade(c)
       /\ r = [req[c] EXCEPT !.copy = [req[c].copy EXCEPT !.st = "pending"], !.pc = "record"]
    \/ CreateOrder(c) /\ r = [req[c] EXCEPT !.pc = "link"]
    \/ LinkBuy(c) /\ r \in {[req[c] EXCEPT !.pc = "debit"], Idle}
    \/ ReadPaper(c) /\ \E n \in Int : r = [req[c] EXCEPT !.idr = n, !.pc = "save"]
    \/ SavePaper(c) /\ r = Idle
    \/ \E t \in Trades : /\ CancelBuy(c, t)
                         /\ r = [Idle EXCEPT !.pc = "cancel", !.t = t, !.copy = db[t]]
    \/ CancelAtExchange(c) /\ r \in {[req[c] EXCEPT !.pc = "cancelled"], Idle}
    \/ MarkCancelled(c) /\ r \in {[req[c] EXCEPT !.pc = "credit"], Idle}
    \/ \E t \in Trades : /\ ManualSell(c, t)
                         /\ r = [Idle EXCEPT !.pc = "uncover", !.t = t, !.copy = db[t]]
    \/ ManualCancel(c) /\ r = [req[c] EXCEPT !.pc = "sell"]
    \/ /\ ManualTrade(c) /\ SellAll(req[c].t, "market")
       /\ r = [req[c] EXCEPT !.copy = [req[c].copy EXCEPT !.sell = NewOrder], !.pc = "sold"]
    \/ ManualTrade(c) /\ SellRefused /\ r = Idle
    \/ MarkSold(c) /\ r = Idle

LEMMA RequestMoves ==
  ASSUME Types, NEW c \in Clients, Request(c) \/ RequestStep(c)
  PROVE  \E r \in ProcType : /\ Become(c, r) /\ r.pc \in RequestPcs
                             /\ RequestRecord(c, r)
<1>0. /\ req \in [Clients -> ProcType] /\ req[c] \in ProcType /\ req[c].copy \in TradeType
      /\ db \in [Trades -> TradeType] /\ req[c].idr \in Int /\ paperIDR \in Int
  BY DEF Types, ProcType
<1>1. \A pc \in RequestPcs : /\ [req[c] EXCEPT !.pc = pc] \in ProcType
                             /\ [req[c] EXCEPT !.pc = pc].pc = pc
                             /\ Go(c, pc) => Become(c, [req[c] EXCEPT !.pc = pc])
  BY <1>0 DEF Go, Become, ProcType
<1>2. Idle \in ProcType /\ Idle.pc \in RequestPcs /\ (Return(c) => Become(c, Idle))
  BY IdleType DEF Return, Become, Idle, RequestPcs
<1>3. CASE PlaceBuy(c)
  <2>1. PICK t \in Trades \ Taken : Buys(t) /\ req' = [req EXCEPT ![c] =
            [Idle EXCEPT !.pc = "create", !.t = t, !.o = NewOrder]]
    BY <1>3 DEF PlaceBuy, Buys
  <2> DEFINE r == [Idle EXCEPT !.pc = "create", !.t = t, !.o = NewOrder]
  <2>2. NewOrder \in Orders
    BY <1>3 DEF PlaceBuy
  <2>3. r \in ProcType /\ r.pc \in RequestPcs
    BY <2>2, IdleType DEF ProcType, Idle, RequestPcs
  <2> QED
    BY <1>3, <2>1, <2>3 DEF RequestRecord, Become
<1>4. CASE PlacePaperBuy(c)
  <2>1. PICK t \in Trades \ Taken : req' = [req EXCEPT ![c] =
            [Idle EXCEPT !.pc = "create", !.t = t, !.copy.paper = TRUE]]
    BY <1>4 DEF PlacePaperBuy
  <2> DEFINE r == [Idle EXCEPT !.pc = "create", !.t = t, !.copy.paper = TRUE]
  <2>2. r.pc = "create" /\ "create" \in RequestPcs
    BY DEF Idle, RequestPcs
  <2>3. r \in ProcType
    BY IdleType DEF ProcType, Idle, TradeType, NoTrade, RequestPcs
  <2> QED
    BY <1>4, <2>1, <2>2, <2>3 DEF RequestRecord, Become
<1>5. CASE CreateTrade(c)
  <2> DEFINE k == [req[c].copy EXCEPT !.st = "pending"]
             r == [req[c] EXCEPT !.copy = k, !.pc = "record"]
  <2>1. k \in TradeType
    BY <1>0 DEF TradeType, Statuses
  <2>2. r \in ProcType /\ r.pc = "record"
    BY <1>0, <2>1 DEF ProcType, RequestPcs
  <2>3. Become(c, r)
    BY <1>0, <1>5 DEF CreateTrade, Become
  <2> QED
    BY <1>5, <2>2, <2>3 DEF RequestRecord, RequestPcs
<1>6. CASE CreateOrder(c)
  BY <1>1, <1>6 DEF CreateOrder, RequestRecord, RequestPcs
<1>7. CASE LinkBuy(c)
  BY <1>1, <1>2, <1>7 DEF LinkBuy, RequestRecord, RequestPcs
<1>8. CASE ReadPaper(c)
  <2> DEFINE n == IF At(c, "debit") THEN paperIDR - 1 ELSE paperIDR + 1
             r == [req[c] EXCEPT !.idr = n, !.pc = "save"]
  <2>1. n \in Int
    BY <1>0
  <2>2. r \in ProcType /\ r.pc = "save"
    BY <1>0, <2>1 DEF ProcType, RequestPcs
  <2>3. Become(c, r)
    BY <1>0, <1>8 DEF ReadPaper, Become
  <2> QED
    BY <1>8, <2>1, <2>2, <2>3 DEF RequestRecord, RequestPcs
<1>9. CASE SavePaper(c)
  BY <1>2, <1>9 DEF SavePaper, RequestRecord
<1>10. ASSUME NEW t \in Trades, CancelBuy(c, t)
       PROVE  \E r \in ProcType : Become(c, r) /\ r.pc \in RequestPcs /\ RequestRecord(c, r)
  <2> DEFINE r == [Idle EXCEPT !.pc = "cancel", !.t = t, !.copy = db[t]]
  <2>1. r \in ProcType /\ r.pc = "cancel"
    BY <1>0, IdleType DEF ProcType, Idle, RequestPcs
  <2>2. Become(c, r)
    BY <1>10 DEF CancelBuy, Become
  <2> QED
    BY <1>10, <2>1, <2>2 DEF RequestRecord, RequestPcs
<1>11. CASE CancelAtExchange(c)
  BY <1>1, <1>2, <1>11 DEF CancelAtExchange, RequestRecord, RequestPcs
<1>12. CASE MarkCancelled(c)
  BY <1>1, <1>2, <1>12 DEF MarkCancelled, RequestRecord, RequestPcs
<1>13. ASSUME NEW t \in Trades, ManualSell(c, t)
       PROVE  \E r \in ProcType : Become(c, r) /\ r.pc \in RequestPcs /\ RequestRecord(c, r)
  <2> DEFINE r == [Idle EXCEPT !.pc = "uncover", !.t = t, !.copy = db[t]]
  <2>1. r \in ProcType /\ r.pc = "uncover"
    BY <1>0, IdleType DEF ProcType, Idle, RequestPcs
  <2>2. Become(c, r)
    BY <1>13 DEF ManualSell, Become
  <2> QED
    BY <1>13, <2>1, <2>2 DEF RequestRecord, RequestPcs
<1>14. CASE ManualCancel(c)
  BY <1>1, <1>14 DEF ManualCancel, RequestRecord, RequestPcs
<1>15. CASE ManualTrade(c) /\ SellRefused /\ Return(c)
  BY <1>2, <1>15 DEF RequestRecord
<1>16. CASE /\ ManualTrade(c) /\ SellAll(req[c].t, "market")
            /\ req' = [req EXCEPT ![c].copy.sell = NewOrder, ![c].pc = "sold"]
  <2> DEFINE k == [req[c].copy EXCEPT !.sell = NewOrder]
             r == [req[c] EXCEPT !.copy = k, !.pc = "sold"]
  <2>1. NewOrder \in Orders
    BY <1>16 DEF SellAll
  <2>2. k \in TradeType
    BY <1>0, <2>1 DEF TradeType
  <2>3. r \in ProcType /\ r.pc = "sold"
    BY <1>0, <2>2 DEF ProcType, RequestPcs
  <2>4. Become(c, r)
    BY <1>0, <1>16 DEF Become
  <2> QED
    BY <1>16, <2>3, <2>4 DEF RequestRecord, RequestPcs
<1>17. CASE MarkSold(c)
  BY <1>2, <1>17 DEF MarkSold, RequestRecord
<1>18. CASE ManualTrade(c)
  BY <1>15, <1>16, <1>18 DEF ManualTrade
<1> QED
  BY <1>3, <1>4, <1>5, <1>6, <1>7, <1>8, <1>9, <1>10, <1>11, <1>12, <1>13, <1>14, <1>17,
     <1>18 DEF Request, RequestStep

(* What the reader does to itself.                                         *)
ReaderRecord(w) ==
    \/ /\ TakeFill
       /\ \/ w = Idle
          \/ /\ rec[Head(wire)] # None
             /\ \/ /\ db[rec[Head(wire)]].buy = Head(wire)
                   /\ w = [Idle EXCEPT !.pc = "bought", !.t = rec[Head(wire)],
                                       !.o = Head(wire), !.copy = db[rec[Head(wire)]]]
                \/ /\ db[rec[Head(wire)]].sell = Head(wire)
                   /\ w = [Idle EXCEPT !.pc = "sold", !.t = rec[Head(wire)],
                                       !.o = Head(wire), !.copy = db[rec[Head(wire)]]]
    \/ /\ MarkBought
       /\ w = [ws EXCEPT !.copy = [ws.copy EXCEPT !.st = "filled"], !.pc = "offer"]
    \/ /\ AutoSell
       /\ w = [ws EXCEPT !.o = NewOrder, !.copy = [ws.copy EXCEPT !.sell = NewOrder],
                         !.pc = "record"]
    \/ AutoSellFails /\ w = Idle
    \/ RecordSell /\ w = [ws EXCEPT !.pc = "link"]
    \/ LinkSell /\ w = [ws EXCEPT !.pc = "watch"]
    \/ AddTrade /\ w = Idle
    \/ CompleteTrade /\ w = [ws EXCEPT !.pc = "forget"]
    \/ RemoveTrade /\ w = Idle

LEMMA ReaderMoves ==
  ASSUME Types, WsStep
  PROVE  \E w \in ProcType : ws' = w /\ w.pc \in ReaderPcs /\ ReaderRecord(w)
<1>0. ws \in ProcType /\ ws.copy \in TradeType /\ db \in [Trades -> TradeType]
  BY DEF Types, ProcType
<1>1. \A pc \in ReaderPcs : /\ [ws EXCEPT !.pc = pc] \in ProcType
                            /\ [ws EXCEPT !.pc = pc].pc = pc
  BY <1>0 DEF ProcType
<1>2. Idle \in ProcType /\ Idle.pc \in ReaderPcs
  BY IdleType DEF Idle, ReaderPcs
<1>3. CASE TakeFill
  <2> DEFINE o == Head(wire)
             t == rec[o]
             W(pc) == [Idle EXCEPT !.pc = pc, !.t = t, !.o = o, !.copy = db[t]]
  <2>1. o \in Orders
    BY <1>3 DEF TakeFill, Types
  <2>2. CASE ws' = Idle
    BY <1>2, <1>3, <2>2 DEF ReaderRecord
  <2>3. CASE /\ rec[o] # None
             /\ \/ ws' = W("bought") /\ db[t].buy = o
                \/ ws' = W("sold") /\ db[t].sell = o
    <3>1. t \in Trades
      BY <2>1, <2>3 DEF Types
    <3>2. \A pc \in ReaderPcs : W(pc) \in ProcType /\ W(pc).pc = pc
      BY <1>0, <2>1, <3>1, IdleType DEF ProcType, Idle
    <3> QED
      BY <1>3, <2>3, <3>2 DEF ReaderRecord, ReaderPcs
  <2> HIDE DEF o, t
  <2>4. \/ ws' = Idle
        \/ /\ rec[o] # None
           /\ \/ ws' = W("bought") /\ db[t].buy = o
              \/ ws' = W("sold") /\ db[t].sell = o
    <3>1. ws' = IF rec[o] = None \/ ~Recognised THEN Idle
                ELSE IF db[t].buy = o THEN W("bought")
                ELSE IF db[t].sell = o THEN W("sold") ELSE Idle
      BY <1>3 DEF TakeFill, t, o
    <3> HIDE DEF W
    <3> QED
      BY <3>1
  <2> QED
    BY <2>2, <2>3, <2>4
<1>4. CASE MarkBought
  <2> DEFINE k == [ws.copy EXCEPT !.st = "filled"]
             w == [ws EXCEPT !.copy = k, !.pc = "offer"]
  <2>1. k \in TradeType
    BY <1>0 DEF TradeType, Statuses
  <2>2. w \in ProcType /\ w.pc = "offer"
    BY <1>0, <2>1 DEF ProcType, ReaderPcs
  <2>3. ws' = w
    BY <1>4 DEF MarkBought
  <2> QED
    BY <1>4, <2>2, <2>3 DEF ReaderRecord, ReaderPcs
<1>5. CASE AutoSell
  <2> DEFINE k == [ws.copy EXCEPT !.sell = NewOrder]
             w == [ws EXCEPT !.o = NewOrder, !.copy = k, !.pc = "record"]
  <2>1. NewOrder \in Orders
    BY <1>5 DEF AutoSell, SellAll
  <2>2. k \in TradeType
    BY <1>0, <2>1 DEF TradeType
  <2>3. w \in ProcType /\ w.pc = "record"
    BY <1>0, <2>1, <2>2 DEF ProcType, ReaderPcs
  <2>4. ws' = w
    BY <1>0, <1>5 DEF AutoSell
  <2> QED
    BY <1>5, <2>3, <2>4 DEF ReaderRecord, ReaderPcs
<1>6. CASE AutoSellFails
  BY <1>2, <1>6 DEF AutoSellFails, ReaderRecord
<1>7. CASE RecordSell
  BY <1>1, <1>7 DEF RecordSell, WsGo, ReaderRecord, ReaderPcs
<1>8. CASE LinkSell
  BY <1>1, <1>8 DEF LinkSell, WsGo, ReaderRecord, ReaderPcs
<1>9. CASE AddTrade
  BY <1>2, <1>9 DEF AddTrade, ReaderRecord
<1>10. CASE CompleteTrade
  BY <1>1, <1>10 DEF CompleteTrade, WsGo, ReaderRecord, ReaderPcs
<1>11. CASE RemoveTrade
  BY <1>2, <1>11 DEF RemoveTrade, ReaderRecord
<1> QED
  BY <1>3, <1>4, <1>5, <1>6, <1>7, <1>8, <1>9, <1>10, <1>11 DEF WsStep

(* What the loop of the stop-loss monitor does to itself.                  *)
StopRecord(s) ==
    \/ \E t \in Trades : /\ StopLossHit(t)
                         /\ s = [Idle EXCEPT !.pc = "uncover", !.t = t, !.copy = active[t]]
    \/ StopCancel /\ s = [sl EXCEPT !.pc = "sell"]
    \/ /\ StopSell /\ SellAll(sl.t, "market")
       /\ s = [sl EXCEPT !.copy = [sl.copy EXCEPT !.sell = NewOrder, !.st = "stopped"],
                         !.pc = "stopped"]
    \/ StopSell /\ SellRefused /\ s = Idle
    \/ MarkStopped /\ s = [sl EXCEPT !.pc = "forget"]
    \/ StopForget /\ s = Idle

LEMMA StopMoves ==
  ASSUME Types, StopLossStep \/ \E t \in Trades : StopLossHit(t)
  PROVE  \E s \in ProcType : sl' = s /\ s.pc \in StopPcs /\ StopRecord(s)
<1>0. sl \in ProcType /\ sl.copy \in TradeType /\ active \in [Trades -> TradeType]
  BY DEF Types, ProcType
<1>1. \A pc \in StopPcs : /\ [sl EXCEPT !.pc = pc] \in ProcType
                          /\ [sl EXCEPT !.pc = pc].pc = pc
  BY <1>0 DEF ProcType
<1>2. Idle \in ProcType /\ Idle.pc \in StopPcs
  BY IdleType DEF Idle, StopPcs
<1>3. ASSUME NEW t \in Trades, StopLossHit(t)
      PROVE  \E s \in ProcType : sl' = s /\ s.pc \in StopPcs /\ StopRecord(s)
  <2> DEFINE s == [Idle EXCEPT !.pc = "uncover", !.t = t, !.copy = active[t]]
  <2>1. s \in ProcType /\ s.pc = "uncover"
    BY <1>0, IdleType DEF ProcType, Idle, StopPcs
  <2>2. sl' = s
    BY <1>3 DEF StopLossHit
  <2> QED
    BY <1>3, <2>1, <2>2 DEF StopRecord, StopPcs
<1>4. CASE StopCancel
  BY <1>1, <1>4 DEF StopCancel, StopRecord, StopPcs
<1>5. CASE StopSell /\ SellRefused /\ sl' = Idle
  BY <1>2, <1>5 DEF StopRecord
<1>6. CASE /\ StopSell /\ SellAll(sl.t, "market")
           /\ sl' = [sl EXCEPT !.copy.sell = NewOrder, !.copy.st = "stopped", !.pc = "stopped"]
  <2> DEFINE k == [sl.copy EXCEPT !.sell = NewOrder, !.st = "stopped"]
             s == [sl EXCEPT !.copy = k, !.pc = "stopped"]
  <2>1. NewOrder \in Orders
    BY <1>6 DEF SellAll
  <2>2. k \in TradeType
    BY <1>0, <2>1 DEF TradeType, Statuses
  <2>3. s \in ProcType /\ s.pc = "stopped"
    BY <1>0, <2>2 DEF ProcType, StopPcs
  <2>4. sl' = s
    BY <1>0, <1>6
  <2> QED
    BY <1>6, <2>3, <2>4 DEF StopRecord, StopPcs
<1>7. CASE MarkStopped
  BY <1>1, <1>7 DEF MarkStopped, StopRecord, StopPcs
<1>8. CASE StopForget
  BY <1>2, <1>8 DEF StopForget, StopRecord
<1> QED
  BY <1>3, <1>4, <1>5, <1>6, <1>7, <1>8 DEF StopLossStep, StopSell

LEMMA TypesRequest ==
  ASSUME RecordIInv, NEW c \in Clients, Request(c) \/ RequestStep(c)
  PROVE  Types' /\ UNCHANGED <<ws, sl, active, crashes>>
<1>0. Types /\ Books /\ RequestKnows(req[c])
  BY DEF RecordIInv, Knowledge
<1>1. PICK r \in ProcType : Become(c, r) /\ r.pc \in RequestPcs
  BY <1>0, RequestMoves
<1>2. req' \in [Clients -> ProcType] /\ \A d \in Clients : req'[d].pc \in RequestPcs
  BY <1>0, <1>1, Becomes
<1>3. UNCHANGED <<ws, sl, active, crashes>>
  BY DEF Request, RequestStep, PlaceBuy, PlacePaperBuy, CancelBuy, ManualSell, CreateTrade,
         CreateOrder, LinkBuy, ReadPaper, SavePaper, CancelAtExchange, MarkCancelled,
         ManualCancel, ManualTrade, MarkSold, bounds
<1>4. /\ req[c] \in ProcType /\ req[c].copy \in TradeType /\ req[c].idr \in Int
      /\ req[c].o \in Orders \cup {None} /\ (req[c].pc # "idle" => req[c].t \in Trades)
  BY <1>0 DEF Types, ProcType, RequestKnows
<1>5. ex' \in [Orders -> OrderType] /\ coins' \in Nat /\ wire' \in Seq(Orders)
      /\ refusals' \in Nat
  <2>1. CASE PlaceBuy(c)
    <3>1. NewOrder \in Orders /\ UNCHANGED <<coins, wire, refusals>>
      BY <2>1 DEF PlaceBuy, bounds
    <3>2. PICK t \in Trades : ex' = [ex EXCEPT ![NewOrder] =
              [st |-> "open", t |-> t, side |-> "buy", kind |-> "limit", amt |-> 1]]
      BY <2>1 DEF PlaceBuy
    <3>3. [st |-> "open", t |-> t, side |-> "buy", kind |-> "limit", amt |-> 1] \in OrderType
      BY DEF OrderType
    <3> QED
      BY <1>0, <3>1, <3>2, <3>3 DEF Types
  <2>2. CASE CancelAtExchange(c) \/ ManualCancel(c)
    <3>1. UNCHANGED refusals
      BY <2>2 DEF CancelAtExchange, ManualCancel, bounds
    <3>2. CASE UNCHANGED exchange
      BY <1>0, <3>1, <3>2 DEF exchange, Types
    <3>3. CASE \E o, ok : CancelAnswer(o, ok)
      BY <1>0, <3>1, <3>3, CancelTypes DEF Types
    <3> QED
      BY <2>2, <3>2, <3>3 DEF CancelAtExchange, ManualCancel
  <2>3. CASE ManualTrade(c)
    <3>1. req[c].t \in Trades
      BY <1>4, <2>3 DEF ManualTrade, At
    <3>2. CASE SellAll(req[c].t, "market")
      BY <1>0, <3>1, <3>2, SellTypes DEF Types
    <3>3. CASE SellRefused
      BY <1>0, <3>3, RefusedTypes DEF Types
    <3> QED
      BY <2>3, <3>2, <3>3 DEF ManualTrade
  <2>4. CASE UNCHANGED <<exchange, refusals>>
    BY <1>0, <2>4 DEF exchange, Types
  <2> QED
    BY <2>1, <2>2, <2>3, <2>4
    DEF Request, RequestStep, PlacePaperBuy, CancelBuy, ManualSell, CreateTrade,
        CreateOrder, LinkBuy, ReadPaper, SavePaper, MarkCancelled, MarkSold, bounds
<1>6. db' \in [Trades -> TradeType] /\ idx' \in [Statuses -> SUBSET Trades]
  <2>1. CASE CreateTrade(c)
    <3>1. req[c].t \in Trades
      BY <1>4, <2>1 DEF CreateTrade, At
    <3>2. [req[c].copy EXCEPT !.st = "pending"] \in TradeType
      BY <1>4 DEF TradeType, Statuses
    <3> QED
      BY <1>0, <2>1, <3>1, <3>2 DEF CreateTrade, Types
  <2>2. CASE LinkBuy(c) \/ MarkCancelled(c) \/ MarkSold(c)
    <3>1. req[c].t \in Trades
      BY <1>4, <2>2 DEF LinkBuy, MarkCancelled, MarkSold, At
    <3>2. /\ [req[c].copy EXCEPT !.buy = req[c].o] \in TradeType
          /\ [req[c].copy EXCEPT !.st = "cancelled"] \in TradeType
      BY <1>4 DEF TradeType, Statuses
    <3>3. \E k \in TradeType, old \in {"pending", "filled"} : Update(req[c].t, k, old)
      BY <1>4, <2>2, <3>2 DEF LinkBuy, MarkCancelled, MarkSold
    <3> QED
      BY <1>0, <3>1, <3>3, UpdateTypes
  <2>3. CASE UNCHANGED <<db, idx>>
    BY <1>0, <2>3 DEF Types
  <2> QED
    BY <2>1, <2>2, <2>3
    DEF Request, RequestStep, PlaceBuy, PlacePaperBuy, CancelBuy, ManualSell, CreateOrder,
        ReadPaper, SavePaper, CancelAtExchange, ManualCancel, ManualTrade, redis
<1>7. rec' \in [Orders -> Trades \cup {None}] /\ paperIDR' \in Int
  <2>1. CASE CreateOrder(c)
    <3>1. req[c].t \in Trades
      BY <1>4, <2>1 DEF CreateOrder, At
    <3> QED
      BY <1>0, <1>4, <2>1, <3>1 DEF CreateOrder, Types
  <2>2. CASE SavePaper(c)
    BY <1>0, <1>4, <2>2 DEF SavePaper, Types
  <2>3. CASE UNCHANGED <<rec, paperIDR>>
    BY <1>0, <2>3 DEF Types
  <2> QED
    BY <2>1, <2>2, <2>3
    DEF Request, RequestStep, PlaceBuy, PlacePaperBuy, CancelBuy, ManualSell, CreateTrade,
        LinkBuy, MarkCancelled, MarkSold, ReadPaper, CancelAtExchange, ManualCancel,
        ManualTrade, redis
<1> QED
  BY <1>0, <1>2, <1>3, <1>5, <1>6, <1>7 DEF Types

LEMMA TypesReader ==
  ASSUME RecordIInv, WsStep
  PROVE  Types' /\ UNCHANGED <<req, sl, crashes, paperIDR>>
<1>0. Types /\ Books /\ ReaderKnows(ws)
  BY DEF RecordIInv, Knowledge
<1>1. ws' \in ProcType /\ ws'.pc \in ReaderPcs
  BY <1>0, ReaderMoves
<1>2. UNCHANGED <<req, sl, crashes, paperIDR>>
  BY DEF WsStep, TakeFill, MarkBought, AutoSell, AutoSellFails, RecordSell, LinkSell,
         AddTrade, CompleteTrade, RemoveTrade, redis, bounds
<1>4. /\ ws \in ProcType /\ ws.copy \in TradeType
      /\ ws.o \in Orders \cup {None} /\ (ws.pc # "idle" => ws.t \in Trades)
  BY <1>0 DEF Types, ProcType, ReaderKnows
<1>5. ex' \in [Orders -> OrderType] /\ coins' \in Nat /\ wire' \in Seq(Orders)
      /\ refusals' \in Nat
  <2>1. CASE TakeFill
    BY <1>0, <2>1 DEF TakeFill, Types, bounds
  <2>2. CASE AutoSell
    <3>1. ws.t \in Trades /\ SellAll(ws.t, "limit")
      BY <1>4, <2>2 DEF AutoSell, WsAt
    <3> QED
      BY <1>0, <3>1, SellTypes DEF Types
  <2>3. CASE AutoSellFails
    BY <1>0, <2>3, RefusedTypes DEF AutoSellFails, Types
  <2>4. CASE UNCHANGED <<exchange, refusals>>
    BY <1>0, <2>4 DEF exchange, Types
  <2> QED
    BY <2>1, <2>2, <2>3, <2>4
    DEF WsStep, MarkBought, RecordSell, LinkSell, AddTrade, CompleteTrade, RemoveTrade,
        bounds
<1>6. db' \in [Trades -> TradeType] /\ idx' \in [Statuses -> SUBSET Trades]
  <2>1. CASE MarkBought \/ AutoSellFails \/ LinkSell \/ CompleteTrade
    <3>1. ws.t \in Trades
      BY <1>4, <2>1 DEF MarkBought, AutoSellFails, LinkSell, CompleteTrade, WsAt
    <3>2. \A st \in Statuses : [ws.copy EXCEPT !.st = st] \in TradeType
      BY <1>4 DEF TradeType
    <3>3. {"filled", "error", "completed"} \subseteq Statuses
      BY DEF Statuses
    <3>4. \E k \in TradeType : \E old : Update(ws.t, k, old)
      BY <1>4, <2>1, <3>2, <3>3 DEF MarkBought, AutoSellFails, LinkSell, CompleteTrade
    <3> QED
      BY <1>0, <3>1, <3>4, UpdateTypes
  <2>2. CASE UNCHANGED <<db, idx>>
    BY <1>0, <2>2 DEF Types
  <2> QED
    BY <2>1, <2>2 DEF WsStep, TakeFill, AutoSell, RecordSell, AddTrade, RemoveTrade, redis
<1>7. rec' \in [Orders -> Trades \cup {None}]
  <2>1. CASE RecordSell
    <3>1. ws.t \in Trades
      BY <1>4, <2>1 DEF RecordSell, WsAt
    <3> QED
      BY <1>0, <1>4, <2>1, <3>1 DEF RecordSell, Types
  <2>2. CASE UNCHANGED rec
    BY <1>0, <2>2 DEF Types
  <2> QED
    BY <2>1, <2>2
    DEF WsStep, TakeFill, MarkBought, AutoSell, AutoSellFails, LinkSell, AddTrade,
        CompleteTrade, RemoveTrade, redis
<1>8. active' \in [Trades -> TradeType]
  <2>1. CASE AddTrade \/ RemoveTrade
    <3>1. ws.t \in Trades
      BY <1>4, <2>1 DEF AddTrade, RemoveTrade, WsAt
    <3> QED
      BY <1>0, <1>4, <2>1, <3>1, IdleType DEF AddTrade, RemoveTrade, Types
  <2>2. CASE UNCHANGED active
    BY <1>0, <2>2 DEF Types
  <2> QED
    BY <2>1, <2>2
    DEF WsStep, TakeFill, MarkBought, AutoSell, AutoSellFails, RecordSell, LinkSell,
        CompleteTrade
<1> QED
  BY <1>0, <1>1, <1>2, <1>5, <1>6, <1>7, <1>8 DEF Types

LEMMA TypesStop ==
  ASSUME RecordIInv, StopLossStep \/ \E t \in Trades : StopLossHit(t)
  PROVE  Types' /\ UNCHANGED <<req, ws, rec, crashes, paperIDR>>
<1>0. Types /\ Books /\ StopKnows(sl)
  BY DEF RecordIInv, Knowledge
<1>1. sl' \in ProcType /\ sl'.pc \in StopPcs
  BY <1>0, StopMoves
<1>2. UNCHANGED <<req, ws, rec, crashes, paperIDR>>
  BY DEF StopLossStep, StopLossHit, StopCancel, StopSell, MarkStopped, StopForget, redis,
         bounds
<1>4. sl.copy \in TradeType /\ (sl.pc # "idle" => sl.t \in Trades)
  BY <1>0 DEF Types, ProcType, StopKnows
<1>5. ex' \in [Orders -> OrderType] /\ coins' \in Nat /\ wire' \in Seq(Orders)
      /\ refusals' \in Nat
  <2>1. CASE StopCancel
    BY <1>0, <2>1, CancelTypes DEF StopCancel, Types, bounds
  <2>2. CASE StopSell
    <3>1. sl.t \in Trades
      BY <1>4, <2>2 DEF StopSell, SlAt
    <3>2. CASE SellAll(sl.t, "market")
      BY <1>0, <3>1, <3>2, SellTypes DEF Types
    <3>3. CASE SellRefused
      BY <1>0, <3>3, RefusedTypes DEF Types
    <3> QED
      BY <2>2, <3>2, <3>3 DEF StopSell
  <2>3. CASE UNCHANGED <<exchange, refusals>>
    BY <1>0, <2>3 DEF exchange, Types
  <2> QED
    BY <2>1, <2>2, <2>3 DEF StopLossStep, StopLossHit, MarkStopped, StopForget, bounds
<1>6. db' \in [Trades -> TradeType] /\ idx' \in [Statuses -> SUBSET Trades]
  <2>1. CASE MarkStopped
    <3>1. sl.t \in Trades
      BY <1>4, <2>1 DEF MarkStopped, SlAt
    <3> QED
      BY <1>0, <1>4, <2>1, <3>1, UpdateTypes DEF MarkStopped
  <2>2. CASE UNCHANGED <<db, idx>>
    BY <1>0, <2>2 DEF Types
  <2> QED
    BY <2>1, <2>2 DEF StopLossStep, StopLossHit, StopCancel, StopSell, StopForget, redis
<1>8. active' \in [Trades -> TradeType]
  BY <1>0, IdleType
  DEF StopLossStep, StopLossHit, StopCancel, StopSell, MarkStopped, StopForget, Types
<1> QED
  BY <1>0, <1>1, <1>2, <1>5, <1>6, <1>8 DEF Types

LEMMA FillTypes ==
  ASSUME Types, NEW o \in Orders, ExFill(o)
  PROVE  Types' /\ UNCHANGED <<db, idx, rec, paperIDR, active, req, ws, sl, bounds>>
<1>1. ex[o] \in OrderType /\ [ex[o] EXCEPT !.st = "filled"] \in OrderType
      /\ ex[o].amt \in Nat
  BY DEF Types, OrderType
<1>2. ex' = [ex EXCEPT ![o] = [ex[o] EXCEPT !.st = "filled"]]
  BY DEF ExFill
<1>3. ex' \in [Orders -> OrderType] /\ coins' \in Nat /\ wire' \in Seq(Orders)
  BY <1>1, <1>2 DEF ExFill, Types
<1> QED
  BY <1>3 DEF ExFill, Types, redis, procs, bounds

LEMMA CrashTypes ==
  ASSUME Types, Crash
  PROVE  Types' /\ UNCHANGED <<ex, coins, db, idx, rec, paperIDR, refusals>>
<1>1. "idle" \in RequestPcs /\ "idle" \in ReaderPcs /\ "idle" \in StopPcs /\ Idle.pc = "idle"
  BY DEF RequestPcs, ReaderPcs, StopPcs, Idle
<1>2. /\ req' \in [Clients -> ProcType] /\ \A c \in Clients : req'[c].pc \in RequestPcs
      /\ active' \in [Trades -> TradeType] /\ wire' \in Seq(Orders)
      /\ ws' = Idle /\ sl' = Idle /\ crashes' \in Nat
  BY <1>1, IdleType DEF Crash, Types
<1> QED
  BY <1>1, <1>2, IdleType DEF Crash, Types, redis

LEMMA TypesNext ==
  ASSUME RecordIInv, [Next]_vars
  PROVE  Types'
<1>0. Types
  BY DEF RecordIInv
<1>1. CASE UNCHANGED vars
  BY <1>0, <1>1 DEF vars, exchange, redis, procs, bounds, Types
<1> QED
  BY <1>0, <1>1, TypesRequest, TypesReader, TypesStop, FillTypes, CrashTypes DEF Next

-----------------------------------------------------------------------------
(* The exchange moves on: what is filled or cancelled stays so.            *)

CancelsAt(o) == /\ o \in Orders /\ ex[o].st = "open"
                /\ ex' = [ex EXCEPT ![o].st = "cancelled"] /\ wire' = wire

LEMMA ExchangeMoves ==
  ASSUME RecordIInv, [Next]_vars
  PROVE  \/ ex' = ex /\ \/ wire' = wire
                        \/ wire # <<>> /\ wire' = Tail(wire)
                        \/ wire' = <<>>
         \/ \E o \in Orders : ExFill(o)
         \/ \E o \in Orders : CancelsAt(o)
         \/ \E t \in Trades, kind \in {"limit", "market"} : SellAll(t, kind) /\ Bought(t)
         \/ \E c \in Clients : PlaceBuy(c)
<1>0. Types /\ Knowledge
  BY DEF RecordIInv
<1>1. CASE UNCHANGED exchange
  BY <1>1 DEF exchange
<1>2. ASSUME NEW o, NEW ok, CancelAnswer(o, ok)
      PROVE  UNCHANGED exchange \/ \E p \in Orders : CancelsAt(p)
  BY <1>2 DEF CancelAnswer, CancelsAt
<1>3. SellRefused => UNCHANGED exchange
  BY DEF SellRefused
<1>4. ASSUME NEW c \in Clients, Request(c) \/ RequestStep(c)
      PROVE  \/ UNCHANGED exchange \/ PlaceBuy(c) \/ \E o, ok : CancelAnswer(o, ok)
             \/ ManualTrade(c)
  BY <1>4
  DEF Request, RequestStep, PlacePaperBuy, CancelBuy, ManualSell, CreateTrade,
      CreateOrder, LinkBuy, ReadPaper, SavePaper, CancelAtExchange, MarkCancelled,
      ManualCancel, MarkSold
<1>5. ASSUME NEW c \in Clients, ManualTrade(c)
      PROVE  SellRefused \/ (req[c].t \in Trades /\ Bought(req[c].t)
                             /\ SellAll(req[c].t, "market"))
  <2>1. RequestKnows(req[c]) /\ req[c].pc = "sell"
    BY <1>0, <1>5 DEF Knowledge, ManualTrade, At
  <2>2. req[c].t \in Trades /\ Bought(req[c].t)
    BY <2>1 DEF RequestKnows, Truthful
  <2> QED
    BY <1>5, <2>2 DEF ManualTrade
<1>6. ASSUME WsStep
      PROVE  \/ UNCHANGED exchange \/ TakeFill \/ AutoSell
  BY <1>3, <1>6 DEF WsStep, MarkBought, AutoSellFails, RecordSell, LinkSell, AddTrade,
                    CompleteTrade, RemoveTrade
<1>7. ASSUME AutoSell PROVE ws.t \in Trades /\ Bought(ws.t) /\ SellAll(ws.t, "limit")
  <2>1. ReaderKnows(ws) /\ ws.pc = "offer"
    BY <1>0, <1>7 DEF Knowledge, AutoSell, WsAt
  <2>2. ws.t \in Trades /\ Bought(ws.t)
    BY <2>1 DEF ReaderKnows, Truthful
  <2> QED
    BY <1>7, <2>2 DEF AutoSell
<1>8. ASSUME StopLossStep \/ \E t \in Trades : StopLossHit(t)
      PROVE  \/ UNCHANGED exchange \/ \E o, ok : CancelAnswer(o, ok)
             \/ StopSell
  BY <1>8 DEF StopLossStep, StopLossHit, StopCancel, MarkStopped, StopForget
<1>9. ASSUME StopSell
      PROVE  SellRefused \/ (sl.t \in Trades /\ Bought(sl.t) /\ SellAll(sl.t, "market"))
  <2>1. StopKnows(sl) /\ sl.pc = "sell"
    BY <1>0, <1>9 DEF Knowledge, StopSell, SlAt
  <2>2. sl.t \in Trades /\ Bought(sl.t)
    BY <2>1 DEF StopKnows, Truthful
  <2> QED
    BY <1>9, <2>2 DEF StopSell
<1>10. ASSUME TakeFill PROVE ex' = ex /\ wire # <<>> /\ wire' = Tail(wire)
  BY <1>10 DEF TakeFill
<1>11. ASSUME Crash PROVE ex' = ex /\ wire' = <<>>
  BY <1>11 DEF Crash
<1>12. CASE UNCHANGED vars
  BY <1>12 DEF vars, exchange
<1> QED
  BY <1>1, <1>2, <1>3, <1>4, <1>5, <1>6, <1>7, <1>8, <1>9, <1>10, <1>11, <1>12 DEF Next

Onward ==
    /\ \A o \in Orders : ex[o].st # "none" =>
         /\ ex'[o].st # "none" /\ ex'[o].t = ex[o].t /\ ex'[o].side = ex[o].side
         /\ ex'[o].kind = ex[o].kind /\ ex'[o].amt = ex[o].amt
    /\ \A o \in Orders : ex[o].st \in {"filled", "cancelled"} => ex'[o].st = ex[o].st
NoNewBuy(t) == \A o \in Orders :
    ex'[o].side = "buy" /\ ex'[o].t = t => ex[o].side = "buy" /\ ex[o].t = t

(* A new order takes a free number.                                        *)
LEMMA AddsOrder ==
  ASSUME Types, Books, NewOrder \in Orders, NEW r \in OrderType, r.st # "none",
         ex' = [ex EXCEPT ![NewOrder] = r]
  PROVE  /\ Onward
         /\ \A t \in Trades : (r.side = "buy" /\ r.t = t) \/ NoNewBuy(t)
         /\ ex'[NewOrder] = r
         /\ \A o \in Orders : o # NewOrder => ex'[o] = ex[o]
         /\ \A o, p \in Orders : o <= p /\ ex'[p].st # "none" => ex'[o].st # "none"
<1>1. /\ ex'[NewOrder] = r /\ \A o \in Orders : o # NewOrder => ex'[o] = ex[o]
  BY DEF Types
<1>2. ex[NewOrder].st = "none" /\ \A o \in Orders : ex[o].st # "none" <=> o < NewOrder
  BY NextNumber
<1>3. ASSUME NEW o \in Orders, NEW p \in Orders, o <= p, ex'[p].st # "none"
      PROVE  ex'[o].st # "none"
  <2>1. p <= NewOrder /\ o \in Nat /\ p \in Nat /\ NewOrder \in Nat
    BY <1>1, <1>2, <1>3, NextNumber DEF Orders
  <2> QED
    BY <1>1, <1>2, <1>3, <2>1
<1> HIDE DEF Books
<1> QED
  BY <1>1, <1>2, <1>3 DEF Onward, NoNewBuy

LEMMA MovesOn ==
  ASSUME RecordIInv, [Next]_vars
  PROVE  /\ Onward
         /\ \A t \in Trades : NoNewBuy(t) \/ \E c \in Clients : PlaceBuy(c) /\ t \notin Taken
<1>0. Types /\ Books
  BY DEF RecordIInv
<1>1. CASE ex' = ex
  BY <1>1 DEF Onward, NoNewBuy
<1>2. CASE \E o \in Orders : ExFill(o) \/ CancelsAt(o)
  <2>1. PICK o \in Orders : ExFill(o) \/ CancelsAt(o)
    BY <1>2
  <2>2. \E st : ex' = [ex EXCEPT ![o] = [ex[o] EXCEPT !.st = st]] /\ st # "none"
    BY <2>1 DEF ExFill, CancelsAt
  <2>3. ex[o].st = "open" /\ ex[o] \in OrderType
    BY <1>0, <2>1 DEF ExFill, CancelsAt, Types
  <2>4. \A p \in Orders : p # o => ex'[p] = ex[p]
    BY <1>0, <2>2 DEF Types
  <2>5. /\ ex'[o].st # "none" /\ ex'[o].t = ex[o].t /\ ex'[o].side = ex[o].side
        /\ ex'[o].kind = ex[o].kind /\ ex'[o].amt = ex[o].amt
    BY <1>0, <2>2, <2>3 DEF Types, OrderType
  <2> QED
    BY <2>3, <2>4, <2>5 DEF Onward, NoNewBuy
<1>3. ASSUME NEW t \in Trades, NEW kind \in {"limit", "market"}, SellAll(t, kind)
      PROVE  Onward /\ \A u \in Trades : NoNewBuy(u)
  <2> DEFINE r == [st |-> IF kind = "market" THEN "filled" ELSE "open", t |-> t,
                   side |-> "sell", kind |-> kind, amt |-> coins]
  <2>1. r \in OrderType /\ r.st # "none" /\ r.side = "sell"
    BY <1>0 DEF OrderType, Types
  <2>2. NewOrder \in Orders /\ ex' = [ex EXCEPT ![NewOrder] = r]
    BY <1>3 DEF SellAll
  <2> HIDE DEF r
  <2> QED
    BY <1>0, <2>1, <2>2, AddsOrder
<1>4. ASSUME NEW c \in Clients, PlaceBuy(c)
      PROVE  Onward /\ \A u \in Trades : NoNewBuy(u) \/ u \notin Taken
  <2>1. PICK t \in Trades \ Taken : ex' = [ex EXCEPT ![NewOrder] =
            [st |-> "open", t |-> t, side |-> "buy", kind |-> "limit", amt |-> 1]]
    BY <1>4 DEF PlaceBuy
  <2> DEFINE r == [st |-> "open", t |-> t, side |-> "buy", kind |-> "limit", amt |-> 1]
  <2>2. r \in OrderType /\ r.st # "none" /\ r.t = t
    BY DEF OrderType
  <2>3. NewOrder \in Orders /\ ex' = [ex EXCEPT ![NewOrder] = r]
    BY <1>4, <2>1 DEF PlaceBuy
  <2> HIDE DEF r
  <2> QED
    BY <1>0, <2>2, <2>3, AddsOrder
<1> QED
  BY <1>1, <1>2, <1>3, <1>4, ExchangeMoves

(* What a copy says stays true.                                            *)
LEMMA TruthStays ==
  ASSUME Books, Onward, NEW t \in Trades, NoNewBuy(t)
  PROVE  /\ Bought(t) => Bought(t)'
         /\ \A side, kind : Did(t, side, kind) => Did(t, side, kind)'
         /\ Unbuyable(t) => Unbuyable(t)'
         /\ ~HasBuy(t) => (~HasBuy(t))'
         /\ \A k \in TradeType : Truthful(t, k) => Truthful(t, k)'
<1>1. \A side, kind : Did(t, side, kind) => Did(t, side, kind)'
  BY DEF Onward, Did
<1>2. Bought(t) => Bought(t)'
  BY <1>1 DEF Bought
<1>3. Unbuyable(t) => Unbuyable(t)'
  BY DEF Onward, NoNewBuy, Unbuyable
<1>4. ~HasBuy(t) => (~HasBuy(t))'
  BY DEF NoNewBuy, HasBuy
<1>5. ASSUME NEW k \in TradeType, Truthful(t, k)
      PROVE  Truthful(t, k)'
  <2>1. k.buy \in Orders \cup {None} /\ k.sell \in Orders \cup {None}
    BY DEF TradeType
  <2>2. ASSUME NEW o \in Orders, ex[o].side \in {"buy", "sell"}
        PROVE  ex'[o].side = ex[o].side /\ ex'[o].t = ex[o].t
    BY <2>2 DEF Onward, Books, NoOrder
  <2>3. k.buy # None => ex'[k.buy].side = "buy" /\ ex'[k.buy].t = t
    BY <1>5, <2>1, <2>2 DEF Truthful
  <2>4. k.sell # None => /\ ex'[k.sell].side = "sell" /\ ex'[k.sell].t = t
                         /\ Bought(t)'
    BY <1>2, <1>5, <2>1, <2>2 DEF Truthful
  <2> QED
    BY <1>1, <1>2, <1>3, <1>4, <1>5, <2>3, <2>4 DEF Truthful
<1> QED
  BY <1>1, <1>2, <1>3, <1>4, <1>5

-----------------------------------------------------------------------------
(* The exchange's books and the order records.                             *)

LEMMA RecordsMove ==
  ASSUME RecordIInv, [Next]_vars
  PROVE  \/ rec' = rec
         \/ \E o \in Orders, t \in Trades :
              rec' = [rec EXCEPT ![o] = t] /\ ex[o].side # "none" /\ ex[o].t = t
<1>0. Types /\ Knowledge
  BY DEF RecordIInv
<1>1. ASSUME NEW c \in Clients, CreateOrder(c), rec' # rec
      PROVE  \E o \in Orders, t \in Trades :
               rec' = [rec EXCEPT ![o] = t] /\ ex[o].side # "none" /\ ex[o].t = t
  <2>1. RequestKnows(req[c]) /\ req[c].pc = "record" /\ req[c].o \in Orders \cup {None}
    BY <1>0, <1>1 DEF Knowledge, CreateOrder, At, Types, ProcType
  <2>2. req[c].o # None /\ rec' = [rec EXCEPT ![req[c].o] = req[c].t]
    BY <1>1 DEF CreateOrder
  <2>3. ex[req[c].o].side = "buy" /\ ex[req[c].o].t = req[c].t /\ req[c].t \in Trades
    BY <2>1, <2>2 DEF RequestKnows
  <2> QED
    BY <2>1, <2>2, <2>3
<1>2. ASSUME RecordSell
      PROVE  \E o \in Orders, t \in Trades :
               rec' = [rec EXCEPT ![o] = t] /\ ex[o].side # "none" /\ ex[o].t = t
  <2>1. ReaderKnows(ws) /\ ws.pc = "record" /\ ws.o \in Orders \cup {None}
    BY <1>0, <1>2 DEF Knowledge, RecordSell, WsAt, Types, ProcType
  <2>2. ws.o # None /\ ex[ws.o].side = "sell" /\ ex[ws.o].t = ws.t /\ ws.t \in Trades
    BY <2>1 DEF ReaderKnows
  <2> QED
    BY <1>2, <2>1, <2>2 DEF RecordSell
<1>3. ASSUME NEW c \in Clients, Request(c) \/ RequestStep(c) PROVE rec' = rec \/ CreateOrder(c)
  BY <1>3
  DEF Request, RequestStep, PlaceBuy, PlacePaperBuy, CancelBuy, ManualSell, CreateTrade,
      LinkBuy, MarkCancelled, MarkSold, ReadPaper, SavePaper, CancelAtExchange,
      ManualCancel, ManualTrade, redis
<1>4. ASSUME WsStep PROVE rec' = rec \/ RecordSell
  BY <1>4
  DEF WsStep, TakeFill, MarkBought, AutoSell, AutoSellFails, LinkSell, AddTrade,
      CompleteTrade, RemoveTrade, redis
<1>5. ASSUME StopLossStep \/ \E t \in Trades : StopLossHit(t) PROVE rec' = rec
  BY <1>5, TypesStop
<1>6. ASSUME NEW o \in Orders, ExFill(o) PROVE rec' = rec
  BY <1>6 DEF ExFill, redis
<1>7. Crash => rec' = rec
  BY DEF Crash, redis
<1>8. UNCHANGED vars => rec' = rec
  BY DEF vars, redis
<1> QED
  BY <1>1, <1>2, <1>3, <1>4, <1>5, <1>6, <1>7, <1>8 DEF Next

(* The parts of Books that are about orders alone.                         *)
OrderBooks ==
    /\ \A o, p \in Orders : o <= p /\ ex[p].st # "none" => ex[o].st # "none"
    /\ \A o \in Orders : ex[o].st = "none" => ex[o] = NoOrder
    /\ \A o \in Orders : ex[o].st # "none" => ex[o].t \in Trades /\ ex[o].side # "none"
    /\ \A o \in Orders : ex[o].side = "buy" => ex[o].kind = "limit" /\ ex[o].amt = 1
    /\ \A o \in Orders : ex[o].kind = "market" => ex[o].st = "filled"
    /\ \A o, p \in Orders :
         ex[o].side = "buy" /\ ex[p].side = "buy" /\ ex[o].t = ex[p].t => o = p

LEMMA OrderBooksStay ==
  ASSUME OrderBooks, Types, Types', NEW o \in Orders, ex[o].st = "open",
         NEW st \in {"filled", "cancelled"}, ex' = [ex EXCEPT ![o].st = st]
  PROVE  OrderBooks'
<1>1. ex[o] \in OrderType /\ ex' = [ex EXCEPT ![o] = [ex[o] EXCEPT !.st = st]]
  BY DEF Types
<1>2. /\ ex'[o].st = st /\ ex'[o].t = ex[o].t /\ ex'[o].side = ex[o].side
      /\ ex'[o].kind = ex[o].kind /\ ex'[o].amt = ex[o].amt
      /\ \A p \in Orders : p # o => ex'[p] = ex[p]
  BY <1>1 DEF Types, OrderType
<1> HIDE DEF OrderType
<1>3. ex[o].kind # "market"
  BY DEF OrderBooks
<1>4. \A p, q \in Orders : p <= q /\ ex'[q].st # "none" => ex'[p].st # "none"
  BY <1>2 DEF OrderBooks
<1>5. \A p, q \in Orders :
        ex'[p].side = "buy" /\ ex'[q].side = "buy" /\ ex'[p].t = ex'[q].t => p = q
  <2>1. \A p \in Orders : ex'[p].side = ex[p].side /\ ex'[p].t = ex[p].t
    BY <1>2
  <2> QED
    BY <2>1 DEF OrderBooks
<1>6. \A p \in Orders : ex'[p].st = "none" => ex'[p] = NoOrder
  BY <1>2 DEF OrderBooks
<1>7. \A p \in Orders :
        /\ ex'[p].st # "none" => ex'[p].t \in Trades /\ ex'[p].side # "none"
        /\ ex'[p].side = "buy" => ex'[p].kind = "limit" /\ ex'[p].amt = 1
        /\ ex'[p].kind = "market" => ex'[p].st = "filled"
  BY <1>2, <1>3 DEF OrderBooks
<1> QED
  BY <1>4, <1>5, <1>6, <1>7 DEF OrderBooks

LEMMA OrderBooksAdd ==
  ASSUME Types, Books, NewOrder \in Orders, NEW r \in OrderType,
         ex' = [ex EXCEPT ![NewOrder] = r],
         r.st # "none", r.t \in Trades, r.side # "none",
         r.side = "buy" => /\ r.kind = "limit" /\ r.amt = 1
                           /\ \A o \in Orders : ex[o].t # r.t,
         r.kind = "market" => r.st = "filled"
  PROVE  OrderBooks'
<1>1. /\ ex'[NewOrder] = r /\ \A o \in Orders : o # NewOrder => ex'[o] = ex[o]
      /\ \A o, p \in Orders : o <= p /\ ex'[p].st # "none" => ex'[o].st # "none"
  BY AddsOrder
<1>2. \A o \in Orders : ex'[o].st = "none" => ex'[o] = NoOrder
  BY <1>1 DEF Books
<1>3. \A o \in Orders :
        /\ ex'[o].st # "none" => ex'[o].t \in Trades /\ ex'[o].side # "none"
        /\ ex'[o].side = "buy" => ex'[o].kind = "limit" /\ ex'[o].amt = 1
        /\ ex'[o].kind = "market" => ex'[o].st = "filled"
  BY <1>1 DEF Books
<1>4. ASSUME NEW o \in Orders, NEW p \in Orders, ex'[o].side = "buy", ex'[p].side = "buy",
             ex'[o].t = ex'[p].t
      PROVE  o = p
  BY <1>1, <1>4 DEF Books
<1> QED
  BY <1>1, <1>2, <1>3, <1>4 DEF OrderBooks

LEMMA OrderBooksNext ==
  ASSUME RecordIInv, [Next]_vars, Types'
  PROVE  OrderBooks'
<1>0. Types /\ Books /\ OrderBooks
  BY DEF RecordIInv, Books, OrderBooks
<1>1. CASE ex' = ex
  BY <1>0, <1>1 DEF OrderBooks
<1>2. ASSUME NEW o \in Orders, ExFill(o) \/ CancelsAt(o) PROVE OrderBooks'
  BY <1>0, <1>2, OrderBooksStay DEF ExFill, CancelsAt
<1>3. ASSUME NEW t \in Trades, NEW kind \in {"limit", "market"}, SellAll(t, kind)
      PROVE  OrderBooks'
  <2> DEFINE r == [st |-> IF kind = "market" THEN "filled" ELSE "open", t |-> t,
                   side |-> "sell", kind |-> kind, amt |-> coins]
  <2>1. /\ r \in OrderType /\ r.st # "none" /\ r.side = "sell" /\ r.t = t /\ r.kind = kind
        /\ kind = "market" => r.st = "filled"
    BY <1>0 DEF OrderType, Types
  <2>2. NewOrder \in Orders /\ ex' = [ex EXCEPT ![NewOrder] = r]
    BY <1>3 DEF SellAll
  <2> HIDE DEF r
  <2> QED
    BY <1>0, <2>1, <2>2, OrderBooksAdd
<1>4. ASSUME NEW c \in Clients, PlaceBuy(c) PROVE OrderBooks'
  <2>1. PICK t \in Trades \ Taken : ex' = [ex EXCEPT ![NewOrder] =
            [st |-> "open", t |-> t, side |-> "buy", kind |-> "limit", amt |-> 1]]
    BY <1>4 DEF PlaceBuy
  <2> DEFINE r == [st |-> "open", t |-> t, side |-> "buy", kind |-> "limit", amt |-> 1]
  <2>2. /\ r \in OrderType /\ r.st # "none" /\ r.t = t /\ r.side = "buy"
        /\ r.kind = "limit" /\ r.amt = 1
    BY DEF OrderType
  <2>3. NewOrder \in Orders /\ ex' = [ex EXCEPT ![NewOrder] = r]
    BY <1>4, <2>1 DEF PlaceBuy
  <2>4. \A o \in Orders : ex[o].t # t
    BY <2>1 DEF Taken
  <2> HIDE DEF r
  <2> QED
    BY <1>0, <2>2, <2>3, <2>4, OrderBooksAdd
<1> QED
  BY <1>1, <1>2, <1>3, <1>4, ExchangeMoves

LEMMA BooksNext ==
  ASSUME RecordIInv, [Next]_vars, Types'
  PROVE  Books'
<1>0. Types /\ Books /\ Onward /\ OrderBooks'
  BY MovesOn, OrderBooksNext DEF RecordIInv
<1>1. \A i \in 1 .. Len(wire') : ex'[wire'[i]].st = "filled" /\ ex'[wire'[i]].kind = "limit"
  <2>0. /\ wire \in Seq(Orders) /\ wire' \in Seq(Orders)
        /\ \A i \in 1 .. Len(wire) : /\ ex'[wire[i]].st = "filled"
                                     /\ ex'[wire[i]].kind = "limit"
    <3> SUFFICES ASSUME NEW i \in 1 .. Len(wire)
                 PROVE  ex'[wire[i]].st = "filled" /\ ex'[wire[i]].kind = "limit"
      BY <1>0 DEF Types
    <3>1. wire[i] \in Orders
      BY <1>0 DEF Types
    <3>2. ex[wire[i]].st = "filled" /\ ex[wire[i]].kind = "limit"
      BY <1>0 DEF Books
    <3> QED
      BY <1>0, <3>1, <3>2 DEF Onward
  <2>1. CASE wire' = wire
    BY <2>0, <2>1
  <2>2. CASE wire # <<>> /\ wire' = Tail(wire)
    BY <2>0, <2>2
  <2>3. CASE wire' = <<>>
    BY <2>3
  <2>4. ASSUME NEW o \in Orders, ExFill(o)
        PROVE  \A i \in 1 .. Len(wire') : /\ ex'[wire'[i]].st = "filled"
                                          /\ ex'[wire'[i]].kind = "limit"
    <3>1. ex[o] \in OrderType /\ ex[o].kind # "market" /\ ex[o].st = "open"
      BY <1>0, <2>4 DEF ExFill, Books, Types
    <3>2. ex'[o].st = "filled" /\ ex'[o].kind = "limit"
      BY <1>0, <2>4, <3>1 DEF ExFill, OrderType, Types
    <3>3. wire' = Append(wire, o)
      BY <2>4 DEF ExFill
    <3> QED
      BY <2>0, <3>2, <3>3
  <2>5. ASSUME NEW o \in Orders, CancelsAt(o) PROVE wire' = wire
    BY <2>5 DEF CancelsAt
  <2>6. ASSUME NEW t, NEW kind, SellAll(t, kind) PROVE wire' = wire
    BY <2>6 DEF SellAll
  <2>7. ASSUME NEW c \in Clients, PlaceBuy(c) PROVE wire' = wire
    BY <2>7 DEF PlaceBuy
  <2> QED
    BY <2>1, <2>2, <2>3, <2>4, <2>5, <2>6, <2>7, ExchangeMoves
<1>2. ASSUME NEW o \in Orders, rec'[o] # None
      PROVE  ex'[o].st # "none" /\ rec'[o] = ex'[o].t
  <2>1. ex[o].st # "none" /\ rec'[o] = ex[o].t
    <3>1. CASE rec' = rec
      BY <1>0, <1>2, <3>1 DEF Books
    <3>2. ASSUME NEW p \in Orders, NEW t \in Trades, rec' = [rec EXCEPT ![p] = t],
                 ex[p].side # "none", ex[p].t = t
          PROVE  ex[o].st # "none" /\ rec'[o] = ex[o].t
      <4>1. ex[p].st # "none"
        BY <1>0, <3>2 DEF Books, NoOrder
      <4> QED
        BY <1>0, <1>2, <3>2, <4>1 DEF Books, Types
    <3> QED
      BY <3>1, <3>2, RecordsMove
  <2> QED
    BY <1>0, <2>1 DEF Onward
<1> QED
  BY <1>0, <1>1, <1>2 DEF Books, OrderBooks

-----------------------------------------------------------------------------
(* What is written is true.                                                *)

Writes(t, k) ==
    /\ db' = [db EXCEPT ![t] = k] /\ k.st \in Statuses /\ Truthful(t, k) /\ ex' = ex
    /\ \/ db[t].st # "none" /\ \E old : Update(t, k, old)
       \/ idx' = [idx EXCEPT !["pending"] = @ \cup {t}] /\ k.st = "pending"

LEMMA RequestWrites ==
  ASSUME RecordIInv, NEW c \in Clients, Request(c) \/ RequestStep(c)
  PROVE  UNCHANGED <<db, idx>> \/ \E k \in TradeType : req[c].t \in Trades /\ Writes(req[c].t, k)
<1>0. Types /\ RequestKnows(req[c]) /\ req[c].copy \in TradeType
      /\ req[c].o \in Orders \cup {None}
  BY DEF RecordIInv, Knowledge, Types, ProcType
<1> DEFINE t == req[c].t  copy == req[c].copy
<1>1. CASE CreateTrade(c)
  <2> DEFINE k == [copy EXCEPT !.st = "pending"]
  <2>1. req[c].pc = "create" /\ ex' = ex
    BY <1>1 DEF CreateTrade, At, exchange
  <2>2. /\ k \in TradeType /\ k.st = "pending" /\ "pending" \in Statuses
        /\ k.paper = copy.paper /\ k.buy = copy.buy /\ k.sell = copy.sell
    BY <1>0 DEF TradeType, Statuses
  <2>3. t \in Trades /\ Truthful(t, copy)
    BY <1>0, <2>1 DEF RequestKnows
  <2>4. db' = [db EXCEPT ![t] = k] /\ idx' = [idx EXCEPT !["pending"] = @ \cup {t}]
    BY <1>1 DEF CreateTrade
  <2> HIDE DEF k
  <2>5. Truthful(t, k)
    BY <2>2, <2>3 DEF Truthful
  <2> QED
    BY <2>1, <2>2, <2>3, <2>4, <2>5 DEF Writes
<1>2. CASE LinkBuy(c)
  <2> DEFINE k == [copy EXCEPT !.buy = req[c].o]
  <2>1. req[c].pc = "link" /\ ex' = ex /\ Update(t, k, "pending")
    BY <1>2 DEF LinkBuy, At, exchange
  <2>2. /\ k \in TradeType /\ "pending" \in Statuses
        /\ k.st = copy.st /\ k.paper = copy.paper /\ k.buy = req[c].o /\ k.sell = copy.sell
    BY <1>0 DEF TradeType, Statuses
  <2>3. /\ t \in Trades /\ Truthful(t, copy) /\ db[t].st # "none" /\ copy.st = "pending"
        /\ req[c].o # None => ex[req[c].o].side = "buy" /\ ex[req[c].o].t = t
    BY <1>0, <2>1 DEF RequestKnows
  <2> HIDE DEF k
  <2>4. Truthful(t, k)
    BY <2>2, <2>3 DEF Truthful
  <2> QED
    BY <2>1, <2>2, <2>3, <2>4 DEF Writes, Update
<1>3. CASE MarkCancelled(c)
  <2> DEFINE k == [copy EXCEPT !.st = "cancelled"]
  <2>1. req[c].pc = "cancelled" /\ ex' = ex /\ Update(t, k, "pending")
    BY <1>3 DEF MarkCancelled, At, exchange
  <2>2. /\ k \in TradeType /\ k.st = "cancelled" /\ "cancelled" \in Statuses
        /\ k.paper = copy.paper /\ k.buy = copy.buy /\ k.sell = copy.sell
    BY <1>0 DEF TradeType, Statuses
  <2>3. t \in Trades /\ Truthful(t, copy) /\ db[t].st # "none" /\ Unbuyable(t)
    BY <1>0, <2>1 DEF RequestKnows
  <2> HIDE DEF k
  <2>4. Truthful(t, k)
    BY <2>2, <2>3 DEF Truthful
  <2> QED
    BY <2>1, <2>2, <2>3, <2>4 DEF Writes, Update
<1>4. CASE MarkSold(c)
  <2>1. req[c].pc = "sold" /\ ex' = ex /\ Update(t, copy, "filled")
    BY <1>4 DEF MarkSold, At, exchange
  <2>2. t \in Trades /\ Truthful(t, copy) /\ db[t].st # "none" /\ copy.st = "filled"
    BY <1>0, <2>1 DEF RequestKnows
  <2> QED
    BY <1>0, <2>1, <2>2 DEF Writes, Update, Statuses
<1>5. CASE UNCHANGED <<db, idx>>
  BY <1>5
<1> QED
  BY <1>1, <1>2, <1>3, <1>4, <1>5
  DEF Request, RequestStep, PlaceBuy, PlacePaperBuy, CancelBuy, ManualSell, CreateOrder,
      ReadPaper, SavePaper, CancelAtExchange, ManualCancel, ManualTrade, redis

LEMMA ReaderWrites ==
  ASSUME RecordIInv, WsStep
  PROVE  UNCHANGED <<db, idx>> \/ \E k \in TradeType : ws.t \in Trades /\ Writes(ws.t, k)
<1>0. Types /\ ReaderKnows(ws) /\ ws.copy \in TradeType
  BY DEF RecordIInv, Knowledge, Types, ProcType
<1> DEFINE t == ws.t  copy == ws.copy
<1>1. ASSUME NEW st \in {"filled", "error", "completed"}, NEW old, ws.pc # "idle",
             Update(t, [copy EXCEPT !.st = st], old), ex' = ex, Bought(t),
             st = "completed" => Did(t, "sell", "limit")
      PROVE  \E k \in TradeType : t \in Trades /\ Writes(t, k)
  <2> DEFINE k == [copy EXCEPT !.st = st]
  <2>1. /\ k \in TradeType /\ k.st = st /\ st \in Statuses
        /\ k.paper = copy.paper /\ k.buy = copy.buy /\ k.sell = copy.sell
    BY <1>0 DEF TradeType, Statuses
  <2>2. t \in Trades /\ Truthful(t, copy) /\ db[t].st # "none"
    BY <1>0, <1>1 DEF ReaderKnows
  <2>3. Update(t, k, old)
    BY <1>1
  <2> HIDE DEF k
  <2>4. Truthful(t, k)
    BY <1>1, <2>1, <2>2 DEF Truthful
  <2> QED
    BY <1>1, <2>1, <2>2, <2>3, <2>4 DEF Writes, Update
<1>2. CASE MarkBought
  <2>1. ws.pc = "bought" /\ ex' = ex /\ Update(t, [copy EXCEPT !.st = "filled"], copy.st)
    BY <1>2 DEF MarkBought, WsAt, exchange
  <2>2. Bought(t)
    BY <1>0, <2>1 DEF ReaderKnows
  <2> QED
    BY <1>1, <2>1, <2>2
<1>3. CASE AutoSellFails
  <2>1. ws.pc = "offer" /\ ex' = ex /\ Update(t, [copy EXCEPT !.st = "error"], "filled")
    BY <1>3 DEF AutoSellFails, SellRefused, WsAt, exchange
  <2>2. Bought(t)
    BY <1>0, <2>1 DEF ReaderKnows, Truthful
  <2> QED
    BY <1>1, <2>1, <2>2
<1>4. CASE LinkSell
  <2>1. ws.pc = "link" /\ ex' = ex /\ Update(t, copy, "filled")
    BY <1>4 DEF LinkSell, WsAt, exchange
  <2>2. t \in Trades /\ Truthful(t, copy) /\ db[t].st # "none" /\ copy.st = "filled"
    BY <1>0, <2>1 DEF ReaderKnows
  <2> QED
    BY <1>0, <2>1, <2>2 DEF Writes, Update, Statuses
<1>5. CASE CompleteTrade
  <2>1. ws.pc = "sold" /\ ex' = ex /\ Update(t, [copy EXCEPT !.st = "completed"], copy.st)
    BY <1>5 DEF CompleteTrade, WsAt, exchange
  <2>2. Bought(t) /\ Did(t, "sell", "limit")
    BY <1>0, <2>1 DEF ReaderKnows
  <2> QED
    BY <1>1, <2>1, <2>2
<1>6. CASE UNCHANGED <<db, idx>>
  BY <1>6
<1> QED
  BY <1>2, <1>3, <1>4, <1>5, <1>6
  DEF WsStep, TakeFill, AutoSell, RecordSell, AddTrade, RemoveTrade, redis

LEMMA StopWrites ==
  ASSUME RecordIInv, StopLossStep \/ \E t \in Trades : StopLossHit(t)
  PROVE  UNCHANGED <<db, idx>> \/ \E k \in TradeType : sl.t \in Trades /\ Writes(sl.t, k)
<1>0. Types /\ StopKnows(sl) /\ sl.copy \in TradeType
  BY DEF RecordIInv, Knowledge, Types, ProcType
<1>1. CASE MarkStopped
  <2>1. sl.pc = "stopped" /\ ex' = ex /\ Update(sl.t, sl.copy, "filled")
    BY <1>1 DEF MarkStopped, SlAt, exchange
  <2>2. /\ sl.t \in Trades /\ Truthful(sl.t, sl.copy) /\ db[sl.t].st # "none"
        /\ sl.copy.st = "stopped"
    BY <1>0, <2>1 DEF StopKnows
  <2> QED
    BY <1>0, <2>1, <2>2 DEF Writes, Update, Statuses
<1> QED
  BY <1>1 DEF StopLossStep, StopLossHit, StopCancel, StopSell, StopForget, redis

LEMMA RecordsWritten ==
  ASSUME RecordIInv, [Next]_vars
  PROVE  UNCHANGED <<db, idx>> \/ \E t \in Trades, k \in TradeType : Writes(t, k)
<1>1. ASSUME NEW o \in Orders, ExFill(o) PROVE UNCHANGED <<db, idx>>
  BY <1>1 DEF ExFill, redis
<1>2. Crash \/ UNCHANGED vars => UNCHANGED <<db, idx>>
  BY DEF Crash, vars, redis
<1> QED
  BY <1>1, <1>2, RequestWrites, ReaderWrites, StopWrites DEF Next

LEMMA WriteKept ==
  ASSUME Types, Known, NEW t \in Trades, NEW k \in TradeType, Writes(t, k)
  PROVE  /\ db'[t] = k /\ \A u \in Trades : u # t => db'[u] = db[u]
         /\ \E st \in Statuses : t \in idx'[st]
         /\ \A u \in Trades : u # t /\ (\E st \in Statuses : u \in idx[st]) =>
              \E st \in Statuses : u \in idx'[st]
         /\ db'[t].st # "none"
<1>1. db'[t] = k /\ \A u \in Trades : u # t => db'[u] = db[u]
  BY DEF Types, Writes
<1>2. k.st # "none"
  BY DEF Writes, Statuses
<1>3. CASE idx' = [idx EXCEPT !["pending"] = @ \cup {t}] /\ k.st = "pending"
  BY <1>1, <1>2, <1>3 DEF Types, Statuses
<1>4. ASSUME NEW old, Update(t, k, old), old # k.st
      PROVE  /\ t \in idx'[k.st]
             /\ \A u \in Trades, st \in Statuses : u # t /\ u \in idx[st] => u \in idx'[st]
  BY <1>4 DEF Update, Types, Writes
<1>5. ASSUME NEW old, Update(t, k, old), old = k.st, db[t].st # "none"
      PROVE  idx' = idx /\ \E st \in Statuses : t \in idx[st]
  BY <1>5 DEF Update, Known
<1>6. k.st \in Statuses
  BY DEF Writes
<1>7. CASE db[t].st # "none" /\ \E old : Update(t, k, old)
  <2>1. PICK old : Update(t, k, old)
    BY <1>7
  <2>2. CASE old = k.st
    BY <1>1, <1>2, <1>5, <1>7, <2>1, <2>2
  <2>3. CASE old # k.st
    BY <1>1, <1>2, <1>4, <1>6, <2>1, <2>3
  <2> QED
    BY <2>2, <2>3
<1> QED
  BY <1>3, <1>7 DEF Writes

-----------------------------------------------------------------------------
(* What the processes know.                                                *)

(* Facts of the world a step ends in, seen from a process that it does not *)
(* move.                                                                   *)
Remembers ==
    /\ Onward /\ Books
    /\ \A t \in Trades : db[t].st # "none" => db'[t].st # "none"

LEMMA RequestStays ==
  ASSUME Remembers, NEW r \in ProcType, RequestKnows(r), r.pc # "idle" => NoNewBuy(r.t)
  PROVE  RequestKnows(r)'
<1>0. r.copy \in TradeType /\ r.o \in Orders \cup {None}
  BY DEF ProcType
<1>1. CASE r.pc = "idle"
  BY <1>1 DEF RequestKnows
<1>2. CASE r.pc # "idle"
  <2>1. r.t \in Trades /\ Truthful(r.t, r.copy) /\ NoNewBuy(r.t)
    BY <1>2 DEF RequestKnows
  <2>2. /\ Truthful(r.t, r.copy)' /\ (Unbuyable(r.t) => Unbuyable(r.t)')
    BY ONLY <1>0, <2>1, Remembers, TruthStays DEF Remembers
  <2>3. r.o # None /\ ex[r.o].side = "buy" => ex'[r.o].side = "buy" /\ ex'[r.o].t = ex[r.o].t
    BY <1>0 DEF Remembers, Onward, Books, NoOrder
  <2> QED
    BY <1>2, <2>1, <2>2, <2>3 DEF RequestKnows, Remembers
<1> QED
  BY <1>1, <1>2

LEMMA ReaderStays ==
  ASSUME Remembers, NEW w \in ProcType, ReaderKnows(w), w.pc # "idle" => NoNewBuy(w.t)
  PROVE  ReaderKnows(w)'
<1>0. w.copy \in TradeType /\ w.o \in Orders \cup {None}
  BY DEF ProcType
<1>1. CASE w.pc = "idle"
  BY <1>1 DEF ReaderKnows
<1>2. CASE w.pc # "idle"
  <2>1. w.t \in Trades /\ Truthful(w.t, w.copy) /\ NoNewBuy(w.t)
    BY <1>2 DEF ReaderKnows
  <2>2. /\ Truthful(w.t, w.copy)' /\ (Bought(w.t) => Bought(w.t)')
        /\ (Did(w.t, "sell", "limit") => Did(w.t, "sell", "limit")')
    BY ONLY <1>0, <2>1, Remembers, TruthStays DEF Remembers
  <2>3. w.o # None /\ ex[w.o].side = "sell" =>
          ex'[w.o].side = "sell" /\ ex'[w.o].t = ex[w.o].t
    BY <1>0 DEF Remembers, Onward, Books, NoOrder
  <2> QED
    BY <1>2, <2>1, <2>2, <2>3 DEF ReaderKnows, Remembers
<1> QED
  BY <1>1, <1>2

LEMMA StopStays ==
  ASSUME Remembers, NEW s \in ProcType, StopKnows(s), s.pc # "idle" => NoNewBuy(s.t)
  PROVE  StopKnows(s)'
<1>0. s.copy \in TradeType
  BY DEF ProcType
<1>1. CASE s.pc = "idle"
  BY <1>1 DEF StopKnows
<1>2. CASE s.pc # "idle"
  <2>1. s.t \in Trades /\ Truthful(s.t, s.copy) /\ NoNewBuy(s.t)
    BY <1>2 DEF StopKnows
  <2>2. Truthful(s.t, s.copy)'
    BY ONLY <1>0, <2>1, Remembers, TruthStays DEF Remembers
  <2> QED
    BY <1>2, <2>1, <2>2 DEF StopKnows, Remembers
<1> QED
  BY <1>1, <1>2

(* A step remembers the world, and a new buy order is for a trade that is  *)
(* nobody's.                                                               *)
LEMMA StepRemembers ==
  ASSUME RecordIInv, [Next]_vars
  PROVE  /\ Remembers
         /\ \A t \in Trades : db[t].st # "none" => NoNewBuy(t)
         /\ \A c \in Clients : req[c].pc # "idle" => NoNewBuy(req[c].t)
<1>0. Types /\ Books /\ Known /\ Knowledge
  BY DEF RecordIInv
<1>1. \A t \in Trades : db[t].st # "none" => db'[t].st # "none"
  <2>1. CASE UNCHANGED <<db, idx>>
    BY <2>1
  <2>2. ASSUME NEW t \in Trades, NEW k \in TradeType, Writes(t, k)
        PROVE  \A u \in Trades : db[u].st # "none" => db'[u].st # "none"
    BY <1>0, <2>2, WriteKept
  <2> QED
    BY <2>1, <2>2, RecordsWritten
<1>2. \A t \in Trades : t \in Taken => NoNewBuy(t)
  BY MovesOn
<1>3. \A t \in Trades : db[t].st # "none" => t \in Taken
  BY DEF Taken, Created
<1>4. \A c \in Clients : req[c].pc # "idle" => req[c].t \in Trades /\ req[c].t \in Taken
  BY <1>0 DEF Taken, Knowledge, RequestKnows
<1> QED
  BY <1>0, <1>1, <1>2, <1>3, <1>4, MovesOn DEF Remembers

-----------------------------------------------------------------------------
(* The step, for what is recorded and watched.                             *)

(* Only a trade with a record becomes watched.                             *)
LEMMA ActiveMoves ==
  ASSUME RecordIInv, [Next]_vars, NEW t \in Trades
  PROVE  \/ active'[t] \in {active[t], NoTrade}
         \/ /\ db[t].st # "none" /\ ws.copy \in TradeType /\ ws.copy.st = "filled"
            /\ Truthful(t, ws.copy) /\ active'[t] = ws.copy
<1>0. Types /\ ReaderKnows(ws) /\ active \in [Trades -> TradeType]
      /\ ws.copy \in TradeType
  BY DEF RecordIInv, Knowledge, Types, ProcType
<1>1. CASE AddTrade
  <2>1. ws.pc = "watch" /\ active' = [active EXCEPT ![ws.t] = ws.copy]
    BY <1>1 DEF AddTrade, WsAt
  <2>2. /\ ws.t \in Trades /\ db[ws.t].st # "none" /\ Truthful(ws.t, ws.copy)
        /\ ws.copy.st = "filled"
    BY <1>0, <2>1 DEF ReaderKnows
  <2> QED
    BY <1>0, <2>1, <2>2
<1>2. CASE \E u : active' = [active EXCEPT ![u] = NoTrade]
  BY <1>0, <1>2
<1>3. CASE active' = active
  BY <1>3
<1>4. CASE Crash
  BY <1>4 DEF Crash
<1>5. WsStep => AddTrade \/ RemoveTrade \/ active' = active
  BY DEF WsStep, TakeFill, MarkBought, AutoSell, AutoSellFails, RecordSell, LinkSell,
         CompleteTrade
<1>6. StopLossStep \/ (\E u \in Trades : StopLossHit(u)) => StopForget \/ active' = active
  BY DEF StopLossStep, StopLossHit, StopCancel, StopSell, MarkStopped
<1>7. ASSUME NEW c \in Clients, Request(c) \/ RequestStep(c) PROVE active' = active
  BY <1>7, TypesRequest
<1>8. ASSUME NEW o \in Orders, ExFill(o) PROVE active' = active
  BY <1>8 DEF ExFill
<1>9. UNCHANGED vars => active' = active
  BY DEF vars
<1> QED
  BY <1>1, <1>2, <1>3, <1>4, <1>5, <1>6, <1>7, <1>8, <1>9
  DEF Next, RemoveTrade, StopForget

LEMMA KnownNext ==
  ASSUME RecordIInv, [Next]_vars
  PROVE  Known'
<1>0. Types /\ Known /\ Remembers
  BY StepRemembers DEF RecordIInv
<1>1. ASSUME NEW u \in Trades, NEW k \in TradeType, Writes(u, k), NEW t \in Trades
      PROVE  /\ db'[t].st = "none" => db'[t] = db[t] /\ db[t].st = "none"
             /\ db'[t].st # "none" => \E st \in Statuses : t \in idx'[st]
  BY <1>0, <1>1, WriteKept DEF Known
<1>2. ASSUME NEW t \in Trades
      PROVE  /\ db'[t].st = "none" => db'[t] = NoTrade
             /\ db'[t].st # "none" => \E st \in Statuses : t \in idx'[st]
  <2>1. CASE UNCHANGED <<db, idx>>
    BY <1>0, <2>1 DEF Known
  <2> QED
    BY <1>0, <1>1, <2>1, RecordsWritten DEF Known
<1>3. ASSUME NEW t \in Trades, db'[t].st = "none" PROVE active'[t] = NoTrade
  <2>1. db[t].st = "none"
    BY <1>0, <1>3 DEF Remembers
  <2> QED
    BY <1>0, <2>1, ActiveMoves DEF Known
<1> QED
  BY <1>2, <1>3 DEF Known

LEMMA NobodysTruth ==
  ASSUME NEW t
  PROVE  Truthful(t, NoTrade) /\ Truthful(t, NoTrade)'
BY DEF Truthful, NoTrade, None

(* What was true of a trade with a record is true after the step.          *)
LEMMA TruthKept ==
  ASSUME RecordIInv, [Next]_vars, NEW t \in Trades, NEW k \in TradeType,
         Truthful(t, k), k = NoTrade \/ db[t].st # "none"
  PROVE  Truthful(t, k)'
<1>1. CASE k = NoTrade
  BY <1>1, NobodysTruth
<1>2. CASE db[t].st # "none"
  <2>1. Books /\ Onward /\ NoNewBuy(t)
    BY <1>2, StepRemembers DEF Remembers
  <2> QED
    BY ONLY <2>1, TruthStays, k \in TradeType, t \in Trades, Truthful(t, k)
<1> QED
  BY <1>1, <1>2

LEMMA RecordsStayTrue ==
  ASSUME RecordIInv, [Next]_vars, NEW t \in Trades
  PROVE  Truthful(t, db[t])' /\ Truthful(t, active[t])' /\ active'[t].st \in {"none", "filled"}
<1>0. /\ Types /\ Known /\ Knowledge /\ db[t] \in TradeType /\ active[t] \in TradeType
      /\ Truthful(t, db[t]) /\ Truthful(t, active[t])
      /\ db[t].st = "none" => db[t] = NoTrade /\ active[t] = NoTrade
      /\ active[t].st \in {"none", "filled"}
  BY DEF RecordIInv, Types, Knowledge, Known
<1>1. PICK k \in TradeType : k = db[t]
  BY <1>0
<1>2. Truthful(t, k)'
  <2>1. Truthful(t, k) /\ (k = NoTrade \/ db[t].st # "none")
    BY <1>0, <1>1
  <2> QED
    BY ONLY <2>1, TruthKept, RecordIInv, [Next]_vars, k \in TradeType, t \in Trades
<1>3. Truthful(t, db[t])'
  <2>1. CASE db'[t] = db[t]
    BY <1>1, <1>2, <2>1 DEF Truthful
  <2>2. CASE db'[t] # db[t]
    <3>1. PICK u \in Trades, n \in TradeType : Writes(u, n)
      BY <2>2, RecordsWritten
    <3>2. u = t /\ db'[t] = n /\ Truthful(t, n) /\ ex' = ex
      BY <1>0, <2>2, <3>1, WriteKept DEF Writes
    <3> QED
      BY <3>2 DEF Truthful, Did, Bought, Unbuyable, HasBuy
  <2> QED
    BY <2>1, <2>2
<1>4. PICK a \in TradeType : a = active[t]
  BY <1>0
<1>5. Truthful(t, a)'
  <2>1. Truthful(t, a) /\ (a = NoTrade \/ db[t].st # "none")
    BY <1>0, <1>4
  <2> QED
    BY ONLY <2>1, TruthKept, RecordIInv, [Next]_vars, a \in TradeType, t \in Trades
<1>6. Truthful(t, active[t])' /\ active'[t].st \in {"none", "filled"}
  <2>1. CASE active'[t] = active[t]
    BY <1>0, <1>4, <1>5, <2>1 DEF Truthful
  <2>2. CASE active'[t] = NoTrade
    BY <2>2, NobodysTruth DEF Truthful, NoTrade
  <2>3. CASE active'[t] \notin {active[t], NoTrade}
    <3>1. PICK n \in TradeType : n = ws.copy
      BY <2>3, ActiveMoves
    <3>2. db[t].st # "none" /\ n.st = "filled" /\ Truthful(t, n) /\ active'[t] = n
      BY <2>3, <3>1, ActiveMoves
    <3>3. Truthful(t, n)'
      BY ONLY <3>2, TruthKept, RecordIInv, [Next]_vars, n \in TradeType, t \in Trades
    <3> QED
      BY <3>2, <3>3 DEF Truthful
  <2> QED
    BY <2>1, <2>2, <2>3
<1> QED
  BY <1>3, <1>6

-----------------------------------------------------------------------------
(* The step, for what the processes know.                                  *)

LEMMA SoldKnown ==
  ASSUME Types, Books, NEW t \in Trades, NEW kind \in {"limit", "market"},
         SellAll(t, kind)
  PROVE  /\ NewOrder \in Orders /\ ex'[NewOrder].side = "sell" /\ ex'[NewOrder].t = t
         /\ kind = "market" => Did(t, "sell", "market")'
<1> DEFINE r == [st |-> IF kind = "market" THEN "filled" ELSE "open", t |-> t,
                 side |-> "sell", kind |-> kind, amt |-> coins]
<1>1. NewOrder \in Orders /\ ex' = [ex EXCEPT ![NewOrder] = r]
  BY DEF SellAll
<1>2. PICK n \in Orders : n = NewOrder
  BY <1>1
<1>3. ex'[n] = r
  BY <1>1, <1>2 DEF Types
<1> QED
  BY <1>2, <1>3 DEF Did

LEMMA RequestLearns ==
  ASSUME RecordIInv, [Next]_vars, Books', NEW c \in Clients,
         Request(c) \/ RequestStep(c), NEW r \in ProcType, RequestRecord(c, r), Become(c, r)
  PROVE  RequestKnows(r)'
<1>0. /\ Types /\ Books /\ Knowledge /\ Remembers
      /\ req[c] \in ProcType /\ RequestKnows(req[c])
      /\ req[c].pc # "idle" => NoNewBuy(req[c].t)
  BY StepRemembers DEF RecordIInv, Types, Knowledge
<1>1. PICK q \in ProcType : q = req[c]
  BY <1>0
<1>2. /\ q.copy \in TradeType /\ q.t \in Trades \cup {None} /\ q.o \in Orders \cup {None}
      /\ RequestKnows(q) /\ RequestKnows(q)'
  <2>1. RequestKnows(q) /\ (q.pc # "idle" => NoNewBuy(q.t))
    BY <1>0, <1>1
  <2>2. RequestKnows(q)'
    BY ONLY <1>0, <2>1, RequestStays, q \in ProcType
  <2> QED
    BY <2>1, <2>2 DEF ProcType
<1>3. CASE r = Idle
  BY <1>3 DEF RequestKnows, Idle
<1>4. ASSUME NEW t \in Trades, Buys(t),
             r = [Idle EXCEPT !.pc = "create", !.t = t, !.o = NewOrder]
      PROVE  RequestKnows(r)'
  <2>1. PICK n \in Orders : n = NewOrder
    BY <1>4 DEF Buys
  <2>2. ex'[n].side = "buy" /\ ex'[n].t = t
    BY <1>0, <1>4, <2>1 DEF Buys, Types
  <2>3. r.pc = "create" /\ r.t = t /\ r.o = n /\ r.copy = NoTrade
    BY <1>4, <2>1 DEF Idle
  <2>4. Truthful(t, NoTrade)'
    BY NobodysTruth
  <2> QED
    BY <2>2, <2>3, <2>4 DEF RequestKnows, NoTrade, None
<1>5. ASSUME NEW t \in Trades \ Taken, ex' = ex,
             r = [Idle EXCEPT !.pc = "create", !.t = t, !.copy.paper = TRUE]
      PROVE  RequestKnows(r)'
  <2>1. ~HasBuy(t)'
    BY <1>5 DEF HasBuy, Taken
  <2>2. r.pc = "create" /\ r.t = t /\ r.o = None /\ r.copy = [NoTrade EXCEPT !.paper = TRUE]
    BY <1>5 DEF Idle
  <2>3. /\ r.copy.st = "none" /\ r.copy.buy = None /\ r.copy.sell = None
    BY <2>2 DEF NoTrade
  <2>4. Truthful(t, r.copy)'
    BY <2>1, <2>3 DEF Truthful
  <2> QED
    BY <2>2, <2>3, <2>4 DEF RequestKnows
<1>6. CASE /\ CreateTrade(c)
           /\ r = [q EXCEPT !.copy = [q.copy EXCEPT !.st = "pending"], !.pc = "record"]
  <2>1. q.pc = "create"
    BY <1>1, <1>6 DEF CreateTrade, At
  <2>2. /\ r.pc = "record" /\ r.t = q.t /\ r.o = q.o
        /\ r.copy = [q.copy EXCEPT !.st = "pending"]
    BY <1>6 DEF ProcType
  <2>3. /\ r.copy.st = "pending" /\ r.copy.paper = q.copy.paper
        /\ r.copy.buy = q.copy.buy /\ r.copy.sell = q.copy.sell
    BY <1>2, <2>2 DEF TradeType
  <2>4. q.t \in Trades /\ Truthful(q.t, q.copy)' /\ q.copy.sell = None
        /\ (q.o # None => ex'[q.o].side = "buy" /\ ex'[q.o].t = q.t)
    BY <1>2, <2>1 DEF RequestKnows
  <2>5. Truthful(q.t, r.copy)'
    BY <2>3, <2>4 DEF Truthful
  <2>6. db'[q.t].st # "none"
    BY <1>0, <1>1, <1>6, <2>4 DEF CreateTrade, Types, TradeType
  <2> QED
    BY <2>2, <2>3, <2>4, <2>5, <2>6 DEF RequestKnows
<1>7. CASE CreateOrder(c) /\ r = [q EXCEPT !.pc = "link"]
  <2>1. q.pc = "record"
    BY <1>1, <1>7 DEF CreateOrder, At
  <2>2. r.pc = "link" /\ r.t = q.t /\ r.o = q.o /\ r.copy = q.copy
    BY <1>7 DEF ProcType
  <2> QED
    BY <1>2, <2>1, <2>2 DEF RequestKnows
<1>8. ASSUME NEW pc \in {"debit", "credit", "save"}, q.pc \notin {"idle", "create"},
             r.pc = pc, r.t = q.t, r.copy = q.copy
      PROVE  RequestKnows(r)'
  BY <1>2, <1>8 DEF RequestKnows
<1>9. ASSUME NEW t \in Trades, ex' = ex, db' = db, NEW pc \in {"cancel", "uncover"},
             db[t].st = IF pc = "cancel" THEN "pending" ELSE "filled",
             r = [Idle EXCEPT !.pc = pc, !.t = t, !.copy = db[t]]
      PROVE  RequestKnows(r)'
  <2>1. r.pc = pc /\ r.t = t /\ r.o = None /\ r.copy = db'[t]
    BY <1>9 DEF Idle
  <2>2. Truthful(t, db[t])'
    BY RecordsStayTrue
  <2>3. Truthful(t, r.copy)'
    BY <2>1, <2>2 DEF Truthful
  <2> QED
    BY <1>9, <2>1, <2>3 DEF RequestKnows
<1>10. CASE CancelAtExchange(c) /\ r = [q EXCEPT !.pc = "cancelled"] /\ req'[c] = r
  <2>1. q.pc = "cancel" /\ Idle.pc # "cancelled"
    BY <1>1, <1>10 DEF CancelAtExchange, At, Idle
  <2>2. r.pc = "cancelled" /\ r.t = q.t /\ r.copy = q.copy
    BY <1>10 DEF ProcType
  <2>3. q.t \in Trades /\ Truthful(q.t, q.copy)' /\ db'[q.t].st # "none"
    BY <1>2, <2>1 DEF RequestKnows
  <2>4. Return(c) => req'[c] = Idle
    BY <1>0 DEF Return, Types
  <2>5. q.copy.paper \/ CancelAnswer(q.copy.buy, TRUE)
    BY <1>1, <1>10, <2>1, <2>2, <2>4 DEF CancelAtExchange
  <2>6. CASE q.copy.paper
    <3>1. Unbuyable(q.t)'
      BY <2>3, <2>6 DEF Truthful, HasBuy, Unbuyable
    <3> QED
      BY <2>2, <2>3, <3>1 DEF RequestKnows
  <2>7. CASE CancelAnswer(q.copy.buy, TRUE)
    <3>1. q.copy.buy \in Orders /\ ex'[q.copy.buy].st = "cancelled"
      BY <1>0, <2>7 DEF CancelAnswer, Types, OrderType
    <3>2. q.copy.buy # None
      BY <3>1, CopilotAssumption DEF Orders, None
    <3>3. ex'[q.copy.buy].side = "buy" /\ ex'[q.copy.buy].t = q.t
      BY <2>3, <3>2 DEF Truthful
    <3>4. Unbuyable(q.t)'
      BY <3>1, <3>3 DEF Unbuyable, Books
    <3> QED
      BY <2>2, <2>3, <3>4 DEF RequestKnows
  <2> QED
    BY <2>5, <2>6, <2>7
<1>11. CASE ManualCancel(c) /\ r = [q EXCEPT !.pc = "sell"]
  <2>1. q.pc = "uncover"
    BY <1>1, <1>11 DEF ManualCancel, At
  <2>2. r.pc = "sell" /\ r.t = q.t /\ r.o = q.o /\ r.copy = q.copy
    BY <1>11 DEF ProcType
  <2> QED
    BY <1>2, <2>1, <2>2 DEF RequestKnows
<1>12. CASE /\ ManualTrade(c) /\ SellAll(q.t, "market")
            /\ r = [q EXCEPT !.copy = [q.copy EXCEPT !.sell = NewOrder], !.pc = "sold"]
  <2>1. q.pc = "sell"
    BY <1>1, <1>12 DEF ManualTrade, At
  <2>2. q.t \in Trades /\ Truthful(q.t, q.copy)' /\ db'[q.t].st # "none"
        /\ q.copy.st = "filled"
    BY <1>2, <2>1 DEF RequestKnows
  <2>3. PICK n \in Orders : n = NewOrder
    BY <1>0, <1>12, <2>2, SoldKnown
  <2>4. ex'[n].side = "sell" /\ ex'[n].t = q.t
    BY <1>0, <1>12, <2>2, <2>3, SoldKnown
  <2>5. r.pc = "sold" /\ r.t = q.t /\ r.copy = [q.copy EXCEPT !.sell = n]
    BY <1>12, <2>3 DEF ProcType
  <2>6. /\ r.copy.st = q.copy.st /\ r.copy.paper = q.copy.paper
        /\ r.copy.buy = q.copy.buy /\ r.copy.sell = n
    BY <1>2, <2>5 DEF TradeType
  <2>7. Truthful(q.t, r.copy)'
    BY <2>2, <2>4, <2>6 DEF Truthful
  <2> QED
    BY <2>2, <2>5, <2>6, <2>7 DEF RequestKnows
<1>13. req'[c] = r
  BY <1>0, Becomes
<1>14. CASE LinkBuy(c) /\ r = [q EXCEPT !.pc = "debit"]
  <2>1. q.pc = "link" /\ r.pc = "debit" /\ r.t = q.t /\ r.copy = q.copy
    BY <1>1, <1>14 DEF LinkBuy, At, ProcType
  <2> QED
    BY <1>8, <2>1
<1>15. ASSUME NEW n \in Int, ReadPaper(c), r = [q EXCEPT !.idr = n, !.pc = "save"]
       PROVE  RequestKnows(r)'
  <2>1. q.pc \in {"debit", "credit"} /\ r.pc = "save" /\ r.t = q.t /\ r.copy = q.copy
    BY <1>1, <1>15 DEF ReadPaper, ProcType
  <2> QED
    BY <1>8, <2>1
<1>16. CASE MarkCancelled(c) /\ r = [q EXCEPT !.pc = "credit"]
  <2>1. q.pc = "cancelled" /\ r.pc = "credit" /\ r.t = q.t /\ r.copy = q.copy
    BY <1>1, <1>16 DEF MarkCancelled, At, ProcType
  <2> QED
    BY <1>8, <2>1
<1>17. PlacePaperBuy(c) => ex' = ex
  BY DEF PlacePaperBuy, exchange
<1>18. ASSUME NEW t \in Trades, CancelBuy(c, t),
              r = [Idle EXCEPT !.pc = "cancel", !.t = t, !.copy = db[t]]
       PROVE  RequestKnows(r)'
  BY <1>9, <1>18 DEF CancelBuy, exchange, redis
<1>19. ASSUME NEW t \in Trades, ManualSell(c, t),
              r = [Idle EXCEPT !.pc = "uncover", !.t = t, !.copy = db[t]]
       PROVE  RequestKnows(r)'
  BY <1>9, <1>19 DEF ManualSell, exchange, redis
<1> HIDE DEF Become
<1> QED
  BY <1>1, <1>3, <1>4, <1>5, <1>6, <1>7, <1>10, <1>11, <1>12, <1>13, <1>14, <1>15, <1>16,
     <1>17, <1>18, <1>19 DEF RequestRecord

LEMMA ReaderLearns ==
  ASSUME RecordIInv, [Next]_vars, NEW w \in ProcType, ReaderRecord(w)
  PROVE  ReaderKnows(w)'
<1>0. /\ Types /\ Books /\ Knowledge /\ Remembers
      /\ ws \in ProcType /\ ReaderKnows(ws)
      /\ \A t \in Trades : db[t].st # "none" => NoNewBuy(t)
  BY StepRemembers DEF RecordIInv, Types, Knowledge
<1>1. PICK q \in ProcType : q = ws
  BY <1>0
<1>2. /\ q.copy \in TradeType /\ q.t \in Trades \cup {None} /\ q.o \in Orders \cup {None}
      /\ ReaderKnows(q) /\ ReaderKnows(q)'
  <2>1. ReaderKnows(q) /\ (q.pc # "idle" => NoNewBuy(q.t))
    BY <1>0, <1>1 DEF ReaderKnows
  <2>2. ReaderKnows(q)'
    BY ONLY <1>0, <2>1, ReaderStays, q \in ProcType
  <2> QED
    BY <2>1, <2>2 DEF ProcType
<1>3. CASE w = Idle
  BY <1>3 DEF ReaderKnows, Idle
<1>4. ASSUME TakeFill, NEW pc \in {"bought", "sold"}, rec[Head(wire)] # None,
             pc = "bought" => db[rec[Head(wire)]].buy = Head(wire),
             pc = "sold" => db[rec[Head(wire)]].sell = Head(wire),
             w = [Idle EXCEPT !.pc = pc, !.t = rec[Head(wire)],
                              !.o = Head(wire), !.copy = db[rec[Head(wire)]]]
      PROVE  ReaderKnows(w)'
  <2>1. wire # <<>> /\ wire \in Seq(Orders) /\ ex' = ex /\ db' = db
    BY <1>0, <1>4 DEF TakeFill, redis, Types
  <2>2. Head(wire) \in Orders /\ Head(wire) = wire[1] /\ 1 \in 1 .. Len(wire)
    BY <2>1
  <2>3. PICK o \in Orders : o = Head(wire)
    BY <2>2
  <2>4. ex[o].st = "filled" /\ ex[o].kind = "limit" /\ rec[o] = ex[o].t /\ rec[o] \in Trades
    BY <1>0, <1>4, <2>2, <2>3 DEF Books, Types
  <2>5. PICK t \in Trades : t = rec[o]
    BY <2>4
  <2>6. PICK k \in TradeType : k = db[t]
    BY <1>0 DEF Types
  <2>7. w.pc = pc /\ w.t = t /\ w.o = o /\ w.copy = k
    BY <1>4, <2>3, <2>5, <2>6 DEF Idle
  <2>8. Truthful(t, k) /\ (k.st = "none" => k = NoTrade) /\ o # None
    BY <1>0, <2>6, CopilotAssumption DEF Knowledge, RecordIInv, Known, Orders, None
  <2>9. /\ pc = "bought" => k.buy = o /\ ex[o].side = "buy"
        /\ pc = "sold" => k.sell = o /\ ex[o].side = "sell"
    BY <1>4, <2>3, <2>5, <2>6, <2>8 DEF Truthful
  <2>10. /\ Bought(t) /\ k.st # "none" /\ (pc = "sold" => Did(t, "sell", "limit"))
    <3>1. CASE pc = "bought"
      BY <2>4, <2>5, <2>8, <2>9, <3>1 DEF Did, Bought, NoTrade
    <3>2. CASE pc = "sold"
      BY <2>4, <2>5, <2>8, <2>9, <3>2 DEF Did, NoTrade, Truthful
    <3> QED
      BY <3>1, <3>2
  <2>11. /\ Truthful(t, k)' /\ Bought(t)' /\ db'[t].st # "none"
         /\ (pc = "sold" => Did(t, "sell", "limit")')
    BY <2>1, <2>6, <2>8, <2>10 DEF Truthful, Did, Bought, Unbuyable, HasBuy
  <2> QED
    BY <2>7, <2>10, <2>11 DEF ReaderKnows
<1>5. CASE MarkBought /\ w = [q EXCEPT !.copy = [q.copy EXCEPT !.st = "filled"], !.pc = "offer"]
  <2>1. q.pc = "bought"
    BY <1>1, <1>5 DEF MarkBought, WsAt
  <2>2. w.pc = "offer" /\ w.t = q.t /\ w.copy = [q.copy EXCEPT !.st = "filled"]
    BY <1>5 DEF ProcType
  <2>3. /\ w.copy.st = "filled" /\ w.copy.paper = q.copy.paper
        /\ w.copy.buy = q.copy.buy /\ w.copy.sell = q.copy.sell
    BY <1>2, <2>2 DEF TradeType
  <2>4. q.t \in Trades /\ Truthful(q.t, q.copy)' /\ db'[q.t].st # "none" /\ Bought(q.t)'
    BY <1>2, <2>1 DEF ReaderKnows
  <2>5. Truthful(q.t, w.copy)'
    BY <2>3, <2>4 DEF Truthful
  <2> QED
    BY <2>2, <2>3, <2>4, <2>5 DEF ReaderKnows
<1>6. CASE /\ AutoSell
           /\ w = [q EXCEPT !.o = NewOrder, !.copy = [q.copy EXCEPT !.sell = NewOrder],
                            !.pc = "record"]
  <2>1. q.pc = "offer" /\ SellAll(q.t, "limit")
    BY <1>1, <1>6 DEF AutoSell, WsAt
  <2>2. /\ q.t \in Trades /\ Truthful(q.t, q.copy)' /\ db'[q.t].st # "none"
        /\ q.copy.st = "filled"
    BY <1>2, <2>1 DEF ReaderKnows
  <2>3. PICK n \in Orders : n = NewOrder
    BY <1>0, <2>1, <2>2, SoldKnown
  <2>4. ex'[n].side = "sell" /\ ex'[n].t = q.t /\ n # None
    BY <1>0, <2>1, <2>2, <2>3, SoldKnown, CopilotAssumption DEF Orders, None
  <2>5. w.pc = "record" /\ w.t = q.t /\ w.o = n /\ w.copy = [q.copy EXCEPT !.sell = n]
    BY <1>6, <2>3 DEF ProcType
  <2>6. /\ w.copy.st = q.copy.st /\ w.copy.paper = q.copy.paper
        /\ w.copy.buy = q.copy.buy /\ w.copy.sell = n
    BY <1>2, <2>5 DEF TradeType
  <2>7. Truthful(q.t, w.copy)'
    BY <2>2, <2>4, <2>6 DEF Truthful
  <2> QED
    BY <2>2, <2>4, <2>5, <2>6, <2>7 DEF ReaderKnows
<1>7. ASSUME NEW pc \in {"link", "watch", "forget"}, q.pc # "idle",
             pc # "forget" => q.copy.st = "filled", w = [q EXCEPT !.pc = pc]
      PROVE  ReaderKnows(w)'
  <2>1. w.pc = pc /\ w.t = q.t /\ w.copy = q.copy
    BY <1>7 DEF ProcType
  <2> QED
    BY <1>2, <1>7, <2>1 DEF ReaderKnows
<1>8. CASE RecordSell /\ w = [q EXCEPT !.pc = "link"]
  <2>1. q.pc = "record"
    BY <1>1, <1>8 DEF RecordSell, WsAt
  <2> QED
    BY <1>2, <1>7, <1>8, <2>1 DEF ReaderKnows
<1>9. CASE LinkSell /\ w = [q EXCEPT !.pc = "watch"]
  <2>1. q.pc = "link"
    BY <1>1, <1>9 DEF LinkSell, WsAt
  <2> QED
    BY <1>2, <1>7, <1>9, <2>1 DEF ReaderKnows
<1>10. CASE CompleteTrade /\ w = [q EXCEPT !.pc = "forget"]
  <2>1. q.pc = "sold"
    BY <1>1, <1>10 DEF CompleteTrade, WsAt
  <2> QED
    BY <1>7, <1>10, <2>1
<1> QED
  BY <1>1, <1>3, <1>4, <1>5, <1>6, <1>8, <1>9, <1>10 DEF ReaderRecord

LEMMA StopLearns ==
  ASSUME RecordIInv, [Next]_vars, NEW s \in ProcType, StopRecord(s)
  PROVE  StopKnows(s)'
<1>0. /\ Types /\ Books /\ Known /\ Knowledge /\ Remembers
      /\ sl \in ProcType /\ StopKnows(sl)
      /\ \A t \in Trades : db[t].st # "none" => NoNewBuy(t)
  BY StepRemembers DEF RecordIInv, Types, Knowledge
<1>1. PICK q \in ProcType : q = sl
  BY <1>0
<1>2. /\ q.copy \in TradeType /\ q.t \in Trades \cup {None} /\ q.o \in Orders \cup {None}
      /\ StopKnows(q) /\ StopKnows(q)'
  <2>1. StopKnows(q) /\ (q.pc # "idle" => NoNewBuy(q.t))
    BY <1>0, <1>1 DEF StopKnows
  <2>2. StopKnows(q)'
    BY ONLY <1>0, <2>1, StopStays, q \in ProcType
  <2> QED
    BY <2>1, <2>2 DEF ProcType
<1>3. CASE s = Idle
  BY <1>3 DEF StopKnows, Idle
<1>4. ASSUME NEW t \in Trades, StopLossHit(t),
             s = [Idle EXCEPT !.pc = "uncover", !.t = t, !.copy = active[t]]
      PROVE  StopKnows(s)'
  <2>1. active[t].st # "none" /\ ex' = ex /\ db' = db
    BY <1>4 DEF StopLossHit, exchange, redis
  <2>2. PICK k \in TradeType : k = active[t]
    BY <1>0 DEF Types
  <2>3. Truthful(t, k) /\ k.st = "filled" /\ db[t].st # "none"
    BY <1>0, <2>1, <2>2 DEF Knowledge, Known, NoTrade
  <2>4. s.pc = "uncover" /\ s.t = t /\ s.copy = k
    BY <1>4, <2>2 DEF Idle
  <2>5. Truthful(t, k)'
    BY <2>1, <2>3 DEF Truthful, Did, Bought, Unbuyable, HasBuy
  <2> QED
    BY <2>1, <2>3, <2>4, <2>5 DEF StopKnows
<1>5. CASE StopCancel /\ s = [q EXCEPT !.pc = "sell"]
  <2>1. q.pc = "uncover" /\ s.pc = "sell" /\ s.t = q.t /\ s.copy = q.copy
    BY <1>1, <1>5 DEF StopCancel, SlAt, ProcType
  <2> QED
    BY <1>2, <2>1 DEF StopKnows
<1>6. CASE /\ StopSell /\ SellAll(q.t, "market")
           /\ s = [q EXCEPT !.copy = [q.copy EXCEPT !.sell = NewOrder, !.st = "stopped"],
                            !.pc = "stopped"]
  <2>1. q.pc = "sell"
    BY <1>1, <1>6 DEF StopSell, SlAt
  <2>2. /\ q.t \in Trades /\ Truthful(q.t, q.copy)' /\ db'[q.t].st # "none"
        /\ q.copy.st = "filled"
    BY <1>2, <2>1 DEF StopKnows
  <2>3. PICK n \in Orders : n = NewOrder
    BY <1>0, <1>6, <2>2, SoldKnown
  <2>4. ex'[n].side = "sell" /\ ex'[n].t = q.t /\ Did(q.t, "sell", "market")'
    BY <1>0, <1>6, <2>2, <2>3, SoldKnown
  <2>5. s.pc = "stopped" /\ s.t = q.t /\ s.copy = [q.copy EXCEPT !.sell = n, !.st = "stopped"]
    BY <1>6, <2>3 DEF ProcType
  <2>6. /\ s.copy.st = "stopped" /\ s.copy.paper = q.copy.paper
        /\ s.copy.buy = q.copy.buy /\ s.copy.sell = n
    BY <1>2, <2>5 DEF TradeType
  <2>7. Truthful(q.t, s.copy)'
    BY <2>2, <2>4, <2>6 DEF Truthful
  <2> QED
    BY <2>2, <2>5, <2>6, <2>7 DEF StopKnows
<1>7. CASE MarkStopped /\ s = [q EXCEPT !.pc = "forget"]
  <2>1. q.pc = "stopped" /\ s.pc = "forget" /\ s.t = q.t /\ s.copy = q.copy
    BY <1>1, <1>7 DEF MarkStopped, SlAt, ProcType
  <2> QED
    BY <1>2, <2>1 DEF StopKnows
<1> QED
  BY <1>1, <1>3, <1>4, <1>5, <1>6, <1>7 DEF StopRecord

LEMMA KnowledgeNext ==
  ASSUME RecordIInv, [Next]_vars, Types', Books'
  PROVE  Knowledge'
<1>0. /\ Types /\ Knowledge /\ Remembers
      /\ \A t \in Trades : db[t].st # "none" => NoNewBuy(t)
      /\ \A c \in Clients : req[c].pc # "idle" => NoNewBuy(req[c].t)
  BY StepRemembers DEF RecordIInv
<1>1. /\ \A t \in Trades : Truthful(t, db[t])' /\ Truthful(t, active[t])'
      /\ \A t \in Trades : active'[t].st \in {"none", "filled"}
  BY RecordsStayTrue
<1>2. RequestKnows(Idle)' /\ ReaderKnows(Idle)' /\ StopKnows(Idle)'
  BY DEF RequestKnows, ReaderKnows, StopKnows, Idle
<1>3. ASSUME NEW c \in Clients, req'[c] = req[c] PROVE RequestKnows(req[c])'
  <2>1. PICK r \in ProcType : r = req[c]
    BY <1>0 DEF Types
  <2>2. RequestKnows(r) /\ (r.pc # "idle" => NoNewBuy(r.t))
    BY <1>0, <2>1 DEF Knowledge
  <2>3. RequestKnows(r)'
    BY ONLY <1>0, <2>2, RequestStays, r \in ProcType
  <2> QED
    BY <1>3, <2>1, <2>3 DEF RequestKnows
<1>4. ASSUME ws' = ws PROVE ReaderKnows(ws)'
  <2>1. PICK w \in ProcType : w = ws
    BY <1>0 DEF Types
  <2>2. ReaderKnows(w) /\ (w.pc # "idle" => NoNewBuy(w.t))
    BY <1>0, <2>1 DEF Knowledge, ReaderKnows
  <2>3. ReaderKnows(w)'
    BY ONLY <1>0, <2>2, ReaderStays, w \in ProcType
  <2> QED
    BY <1>4, <2>1, <2>3 DEF ReaderKnows
<1>5. ASSUME sl' = sl PROVE StopKnows(sl)'
  <2>1. PICK s \in ProcType : s = sl
    BY <1>0 DEF Types
  <2>2. StopKnows(s) /\ (s.pc # "idle" => NoNewBuy(s.t))
    BY <1>0, <2>1 DEF Knowledge, StopKnows
  <2>3. StopKnows(s)'
    BY ONLY <1>0, <2>2, StopStays, s \in ProcType
  <2> QED
    BY <1>5, <2>1, <2>3 DEF StopKnows
<1>6. \A c \in Clients : RequestKnows(req[c])'
  <2>1. CASE req' = req
    BY <1>3, <2>1
  <2>2. ASSUME NEW c \in Clients, Request(c) \/ RequestStep(c)
        PROVE  \A d \in Clients : RequestKnows(req[d])'
    <3>1. PICK r \in ProcType : Become(c, r) /\ RequestRecord(c, r)
      BY <1>0, <2>2, RequestMoves
    <3>2. req'[c] = r /\ \A d \in Clients : d # c => req'[d] = req[d]
      BY ONLY <1>0, <3>1, Becomes, c \in Clients, r \in ProcType
    <3>3. RequestKnows(r)'
      BY <2>2, <3>1, RequestLearns
    <3>4. RequestKnows(req[c])'
      BY <3>2, <3>3 DEF RequestKnows
    <3> QED
      BY <1>3, <3>2, <3>4
  <2>3. CASE Crash
    <3>1. \A c \in Clients : req'[c] = Idle
      BY <2>3 DEF Crash
    <3> QED
      BY <1>2, <3>1 DEF RequestKnows
  <2>4. (\E o \in Orders : ExFill(o)) \/ UNCHANGED vars => req' = req
    BY DEF ExFill, vars, procs
  <2> QED
    BY <2>1, <2>2, <2>3, <2>4, TypesReader, TypesStop DEF Next
<1>7. ReaderKnows(ws)'
  <2>1. CASE WsStep
    <3>1. PICK w \in ProcType : ws' = w /\ ReaderRecord(w)
      BY <1>0, <2>1, ReaderMoves
    <3>2. ReaderKnows(w)'
      BY <3>1, ReaderLearns
    <3> QED
      BY <3>1, <3>2 DEF ReaderKnows
  <2>2. CASE Crash
    <3>1. ws' = Idle
      BY <2>2 DEF Crash
    <3> QED
      BY <1>2, <3>1 DEF ReaderKnows
  <2>3. (\E o \in Orders : ExFill(o)) \/ UNCHANGED vars => ws' = ws
    BY DEF ExFill, vars, procs
  <2> QED
    BY <1>4, <2>1, <2>2, <2>3, TypesRequest, TypesStop DEF Next
<1>8. StopKnows(sl)'
  <2>1. CASE StopLossStep \/ \E t \in Trades : StopLossHit(t)
    <3>1. PICK s \in ProcType : sl' = s /\ StopRecord(s)
      BY <1>0, <2>1, StopMoves
    <3>2. StopKnows(s)'
      BY <3>1, StopLearns
    <3> QED
      BY <3>1, <3>2 DEF StopKnows
  <2>2. CASE Crash
    <3>1. sl' = Idle
      BY <2>2 DEF Crash
    <3> QED
      BY <1>2, <3>1 DEF StopKnows
  <2>3. (\E o \in Orders : ExFill(o)) \/ UNCHANGED vars => sl' = sl
    BY DEF ExFill, vars, procs
  <2> QED
    BY <1>5, <2>1, <2>2, <2>3, TypesRequest, TypesReader DEF Next
<1> QED
  BY <1>1, <1>6, <1>7, <1>8 DEF Knowledge

LEMMA RecordInit == Init => RecordIInv
<1> SUFFICES ASSUME Init PROVE RecordIInv
  OBVIOUS
<1>1. Types
  <2>1. "idle" \in RequestPcs /\ "idle" \in ReaderPcs /\ "idle" \in StopPcs
        /\ Idle.pc = "idle"
    BY DEF RequestPcs, ReaderPcs, StopPcs, Idle
  <2> QED
    BY <2>1, IdleType, CopilotAssumption DEF Init, Types
<1>2. \A o \in Orders : ex[o] = NoOrder /\ rec[o] = None
  BY DEF Init
<1>3. wire = <<>> /\ Len(wire) = 0
  BY DEF Init
<1>4. Books
  BY <1>2, <1>3 DEF Books, NoOrder
<1>5. Known
  BY DEF Init, Known, NoTrade
<1>6. Knowledge
  <2>1. /\ \A t \in Trades : db[t] = NoTrade /\ active[t] = NoTrade
        /\ \A c \in Clients : req[c] = Idle
        /\ ws = Idle /\ sl = Idle
    BY DEF Init
  <2>2. RequestKnows(Idle) /\ ReaderKnows(Idle) /\ StopKnows(Idle)
    BY DEF RequestKnows, ReaderKnows, StopKnows, Idle
  <2>3. NoTrade.st = "none"
    BY DEF NoTrade
  <2> QED
    BY <2>1, <2>2, <2>3, NobodysTruth DEF Knowledge
<1> QED
  BY <1>1, <1>4, <1>5, <1>6 DEF RecordIInv

LEMMA RecordNext == RecordIInv /\ [Next]_vars => RecordIInv'
BY TypesNext, BooksNext, KnownNext, KnowledgeNext DEF RecordIInv

LEMMA RecordStrong == RecordIInv => RecordInv
<1> SUFFICES ASSUME RecordIInv PROVE RecordInv
  OBVIOUS
<1>0. Types /\ Books /\ Known /\ Knowledge
  BY DEF RecordIInv
<1>1. \A t \in Trades : db[t] \in TradeType
  BY <1>0 DEF Types
<1>2. TypeOK
  BY <1>0, <1>1 DEF TypeOK, TradeType, Books, Known, Types
<1>3. ASSUME NEW t \in Trades, Unbuyable(t) PROVE ~Bought(t)
  BY <1>3 DEF Unbuyable, Bought, Did
<1>4. RecordIsTrue
  BY <1>0, <1>3 DEF RecordIsTrue, Knowledge, Truthful
<1> QED
  BY <1>2, <1>4 DEF RecordInv

(* Whatever blind writes of whole records overtake each other, what a      *)
(* trade's record says is true at the exchange, and the trade is listed.   *)
THEOREM RecordsAreTrue == Spec => []RecordInv
<1>1. Spec => []RecordIInv
  BY RecordInit, RecordNext, PTL DEF Spec
<1> QED
  BY <1>1, RecordStrong, PTL

-----------------------------------------------------------------------------
(* Who is watched.  Who places an order for a trade is alone with it until *)
(* the trade names the order; the fill of a buy order is reported once,    *)
(* and until it is the trade is neither offered nor watched.               *)
Building(c) == req[c].pc \in {"create", "record", "link"}
LeftAlone(c, t) ==
    /\ db[t].buy = None /\ db[t].sell = None
    /\ db[t].st \in {"none", "pending", "cancelled"}
    /\ active[t].st = "none"
    /\ ws.pc # "idle" => ws.t # t
    /\ sl.pc # "idle" => sl.t # t
    /\ \A d \in Clients \ {c} : req[d].pc # "idle" /\ req[d].t = t =>
         /\ req[d].pc \in {"cancel", "cancelled", "credit", "save"}
         /\ req[d].copy.buy = None /\ req[d].copy.sell = None
OnlyBuilder ==
    \A c \in Clients : Building(c) => req[c].copy.buy = None /\ LeftAlone(c, req[c].t)

Selling == {"offer", "record", "link", "watch"}
OnWire(o) == \E i \in 1 .. Len(wire) : wire[i] = o
BuyOf(o, t) == ex[o].side = "buy" /\ ex[o].t = t
AtExchange(t) == \E o \in Orders : BuyOf(o, t) /\ (ex[o].st = "open" \/ OnWire(o))
ToCome(t) == AtExchange(t) \/ (ws.pc = "bought" /\ ws.t = t)
Expects(t) ==
    /\ db[t].st \in {"none", "pending"} /\ db[t].sell = None
    /\ active[t].st = "none"
    /\ ws.pc \in Selling \cup {"sold", "forget"} => ws.t # t
    /\ sl.pc # "idle" => sl.t # t
    /\ \A c \in Clients : req[c].pc \in {"uncover", "sell", "sold"} => req[c].t # t
Once == \A i, j \in 1 .. Len(wire) : wire[i] = wire[j] => i = j
TakenOnce == ws.pc = "bought" => \A o \in Orders : BuyOf(o, ws.t) =>
                 ex[o].st = "filled" /\ ~OnWire(o)
Expected == \A t \in Trades : ToCome(t) => Expects(t)

(* A watched trade is filled, or its sale failed, unless who has ended it  *)
(* is about to take it off the list.                                       *)
SellsBought == ws.pc \in Selling => /\ db[ws.t].st \in {"filled", "error"}
                                    /\ active[ws.t].st = "none"
                                    /\ sl.pc # "idle" => sl.t # ws.t
Watched == \A t \in Trades : active[t].st # "none" =>
    \/ db[t].st \in {"filled", "error"}
    \/ ws.pc = "forget" /\ ws.t = t
    \/ sl.pc = "forget" /\ sl.t = t

WatchInv == OnlyBuilder /\ Once /\ TakenOnce /\ Expected /\ SellsBought /\ Watched

(* The ways of a step: where each process goes, who writes a record, what  *)
(* becomes watched.                                                        *)
RequestPairs == {<<"create", "record">>, <<"record", "link">>, <<"link", "debit">>,
    <<"debit", "save">>, <<"credit", "save">>, <<"cancel", "cancelled">>,
    <<"cancelled", "credit">>, <<"uncover", "sell">>, <<"sell", "sold">>}
RequestWay(q, r) ==
    \/ r = q \/ r.pc = "idle"
    \/ r.pc = "create" /\ r.t \in Trades \ Taken /\ r.copy.buy = None
    \/ r.pc = "cancel" /\ r.t \in Trades /\ db[r.t].st = "pending" /\ r.copy = db[r.t]
    \/ r.pc = "uncover" /\ r.t \in Trades /\ db[r.t].st = "filled" /\ r.copy = db[r.t]
    \/ /\ <<q.pc, r.pc>> \in RequestPairs /\ r.t = q.t
       /\ r.copy.buy = q.copy.buy /\ r.copy.paper = q.copy.paper
       /\ r.pc = "sold" \/ r.copy.sell = q.copy.sell
ReaderPairs == {<<"bought", "offer">>, <<"offer", "record">>, <<"record", "link">>,
    <<"link", "watch">>, <<"sold", "forget">>}
ReaderWay(q, w) ==
    \/ w = q \/ w.pc = "idle"
    \/ /\ w.pc \in {"bought", "sold"} /\ TakeFill /\ w.t = rec[Head(wire)] /\ w.t \in Trades
       /\ w.copy = db[w.t]
       /\ w.pc = "bought" => db[w.t].buy = Head(wire)
       /\ w.pc = "sold" => db[w.t].sell = Head(wire)
    \/ /\ <<q.pc, w.pc>> \in ReaderPairs /\ w.t = q.t /\ w.copy.paper = q.copy.paper
       /\ w.pc = "record" \/ w.copy.sell = q.copy.sell
StopPairs == {<<"uncover", "sell">>, <<"sell", "stopped">>, <<"stopped", "forget">>}
StopWay(q, s) ==
    \/ s = q \/ s.pc = "idle"
    \/ s.pc = "uncover" /\ s.t \in Trades /\ active[s.t].st # "none" /\ s.copy = active[s.t]
    \/ /\ <<q.pc, s.pc>> \in StopPairs /\ s.t = q.t
       /\ s.pc = "stopped" \/ s.copy.sell = q.copy.sell

LEMMA RequestWays ==
  ASSUME Types, NEW c \in Clients, NEW r \in ProcType, RequestRecord(c, r)
  PROVE  RequestWay(req[c], r)
<1>1. PICK q \in ProcType : q = req[c]
  BY DEF Types
<1>2. q.copy \in TradeType
  BY DEF ProcType
<1>3. Idle.pc = "idle" /\ NoTrade.buy = None
  BY DEF Idle, NoTrade
<1>4. ASSUME NEW t \in Trades \ Taken,
             \/ r = [Idle EXCEPT !.pc = "create", !.t = t, !.o = NewOrder]
             \/ r = [Idle EXCEPT !.pc = "create", !.t = t, !.copy.paper = TRUE]
      PROVE  RequestWay(q, r)
  <2>1. CASE r = [Idle EXCEPT !.pc = "create", !.t = t, !.o = NewOrder]
    BY <2>1 DEF Idle, NoTrade, RequestWay
  <2>2. CASE r = [Idle EXCEPT !.pc = "create", !.t = t, !.copy.paper = TRUE]
    <3>1. r.pc = "create" /\ r.t = t /\ r.copy = [NoTrade EXCEPT !.paper = TRUE]
      BY <2>2 DEF Idle
    <3> QED
      BY <3>1 DEF NoTrade, RequestWay
  <2> QED
    BY <1>4, <2>1, <2>2
<1>5. ASSUME NEW t \in Trades, NEW pc \in {"cancel", "uncover"},
             db[t].st = IF pc = "cancel" THEN "pending" ELSE "filled",
             r = [Idle EXCEPT !.pc = pc, !.t = t, !.copy = db[t]]
      PROVE  RequestWay(q, r)
  <2>1. r.pc = pc /\ r.t = t /\ r.copy = db[t]
    BY <1>5 DEF Idle
  <2> QED
    BY <1>5, <2>1 DEF RequestWay
<1>6. ASSUME NEW pc, <<q.pc, pc>> \in RequestPairs, r = [q EXCEPT !.pc = pc]
      PROVE  RequestWay(q, r)
  <2>1. r.pc = pc /\ r.t = q.t /\ r.copy = q.copy
    BY <1>6 DEF ProcType
  <2> QED
    BY <1>6, <2>1 DEF RequestWay
<1>7. ASSUME q.pc = "create",
             r = [q EXCEPT !.copy = [q.copy EXCEPT !.st = "pending"], !.pc = "record"]
      PROVE  RequestWay(q, r)
  <2>1. r.pc = "record" /\ r.t = q.t /\ r.copy = [q.copy EXCEPT !.st = "pending"]
    BY <1>7 DEF ProcType
  <2>2. r.copy.buy = q.copy.buy /\ r.copy.sell = q.copy.sell /\ r.copy.paper = q.copy.paper
    BY <1>2, <2>1 DEF TradeType
  <2> QED
    BY <1>7, <2>1, <2>2 DEF RequestWay, RequestPairs
<1>8. ASSUME q.pc = "sell",
             r = [q EXCEPT !.copy = [q.copy EXCEPT !.sell = NewOrder], !.pc = "sold"]
      PROVE  RequestWay(q, r)
  <2>1. r.pc = "sold" /\ r.t = q.t /\ r.copy = [q.copy EXCEPT !.sell = NewOrder]
    BY <1>8 DEF ProcType
  <2>2. r.copy.buy = q.copy.buy /\ r.copy.paper = q.copy.paper
    BY <1>2, <2>1 DEF TradeType
  <2> QED
    BY <1>8, <2>1, <2>2 DEF RequestWay, RequestPairs
<1>9. ASSUME NEW n \in Int, ReadPaper(c), r = [q EXCEPT !.idr = n, !.pc = "save"]
      PROVE  RequestWay(q, r)
  <2>1. r.pc = "save" /\ r.t = q.t /\ r.copy = q.copy
    BY <1>9 DEF ProcType
  <2>2. q.pc \in {"debit", "credit"}
    BY <1>1, <1>9 DEF ReadPaper
  <2> QED
    BY <2>1, <2>2 DEF RequestWay, RequestPairs
<1>10. r = Idle => RequestWay(q, r)
  BY <1>3 DEF RequestWay
<1>11. /\ CreateTrade(c) => q.pc = "create"
       /\ CreateOrder(c) => <<q.pc, "link">> \in RequestPairs
       /\ LinkBuy(c) => <<q.pc, "debit">> \in RequestPairs
       /\ CancelAtExchange(c) => <<q.pc, "cancelled">> \in RequestPairs
       /\ MarkCancelled(c) => <<q.pc, "credit">> \in RequestPairs
       /\ ManualCancel(c) => <<q.pc, "sell">> \in RequestPairs
       /\ ManualTrade(c) => q.pc = "sell"
       /\ \A t : CancelBuy(c, t) => db[t].st = "pending"
       /\ \A t : ManualSell(c, t) => db[t].st = "filled"
  BY <1>1 DEF CreateTrade, CreateOrder, LinkBuy, CancelAtExchange, MarkCancelled,
              ManualCancel, ManualTrade, CancelBuy, ManualSell, At, RequestPairs
<1>12. RequestWay(q, r)
  BY <1>1, <1>4, <1>5, <1>6, <1>7, <1>8, <1>9, <1>10, <1>11 DEF RequestRecord
<1> QED
  BY <1>1, <1>12

LEMMA ReaderWays ==
  ASSUME Types, NEW w \in ProcType, ReaderRecord(w)
  PROVE  ReaderWay(ws, w)
<1>1. PICK q \in ProcType : q = ws
  BY DEF Types
<1>2. w = Idle => ReaderWay(q, w)
  BY DEF ReaderWay, Idle
<1>3. ASSUME TakeFill, NEW pc \in {"bought", "sold"}, rec[Head(wire)] # None,
             pc = "bought" => db[rec[Head(wire)]].buy = Head(wire),
             pc = "sold" => db[rec[Head(wire)]].sell = Head(wire),
             w = [Idle EXCEPT !.pc = pc, !.t = rec[Head(wire)],
                              !.o = Head(wire), !.copy = db[rec[Head(wire)]]]
      PROVE  ReaderWay(q, w)
  <2>1. w.pc = pc /\ w.t = rec[Head(wire)] /\ w.copy = db[w.t]
    BY <1>3 DEF Idle
  <2>2. Head(wire) \in Orders
    BY <1>3 DEF TakeFill, Types
  <2>3. rec[Head(wire)] \in Trades
    BY <1>3, <2>2 DEF Types
  <2> QED
    BY <1>3, <2>1, <2>3 DEF ReaderWay
<1>4. ASSUME NEW pc, <<q.pc, pc>> \in ReaderPairs, NEW k \in TradeType, NEW o,
             k.paper = q.copy.paper, pc = "record" \/ k.sell = q.copy.sell,
             \/ w = [q EXCEPT !.pc = pc] /\ k = q.copy
             \/ w = [q EXCEPT !.copy = k, !.pc = pc]
             \/ w = [q EXCEPT !.o = o, !.copy = k, !.pc = pc]
      PROVE  ReaderWay(q, w)
  <2>1. w.pc = pc /\ w.t = q.t /\ w.copy = k
    BY <1>4 DEF ProcType
  <2> QED
    BY <1>4, <2>1 DEF ReaderWay
<1>5. q.copy \in TradeType
  BY DEF ProcType
<1>6. ASSUME MarkBought, w = [q EXCEPT !.copy = [q.copy EXCEPT !.st = "filled"], !.pc = "offer"]
      PROVE  ReaderWay(q, w)
  <2> DEFINE k == [q.copy EXCEPT !.st = "filled"]
  <2>1. k \in TradeType /\ k.paper = q.copy.paper /\ k.sell = q.copy.sell
    BY <1>5 DEF TradeType, Statuses
  <2>2. <<q.pc, "offer">> \in ReaderPairs
    BY <1>1, <1>6 DEF MarkBought, WsAt, ReaderPairs
  <2> HIDE DEF k
  <2> QED
    BY <1>4, <1>6, <2>1, <2>2 DEF k
<1>7. ASSUME AutoSell,
             w = [q EXCEPT !.o = NewOrder, !.copy = [q.copy EXCEPT !.sell = NewOrder],
                           !.pc = "record"]
      PROVE  ReaderWay(q, w)
  <2> DEFINE k == [q.copy EXCEPT !.sell = NewOrder]
  <2>1. NewOrder \in Orders
    BY <1>7 DEF AutoSell, SellAll
  <2>2. k \in TradeType /\ k.paper = q.copy.paper
    BY <1>5, <2>1 DEF TradeType
  <2>3. <<q.pc, "record">> \in ReaderPairs
    BY <1>1, <1>7 DEF AutoSell, WsAt, ReaderPairs
  <2> HIDE DEF k
  <2> QED
    BY <1>4, <1>7, <2>2, <2>3 DEF k
<1>8. /\ RecordSell => <<q.pc, "link">> \in ReaderPairs
      /\ LinkSell => <<q.pc, "watch">> \in ReaderPairs
      /\ CompleteTrade => <<q.pc, "forget">> \in ReaderPairs
  BY <1>1 DEF RecordSell, LinkSell, CompleteTrade, WsAt, ReaderPairs
<1>9. ASSUME NEW pc, <<q.pc, pc>> \in ReaderPairs, w = [q EXCEPT !.pc = pc]
       PROVE  ReaderWay(q, w)
  BY <1>4, <1>5, <1>9
<1>10. ReaderWay(q, w)
  BY <1>1, <1>2, <1>3, <1>6, <1>7, <1>8, <1>9 DEF ReaderRecord
<1> QED
  BY <1>1, <1>10

LEMMA StopWays ==
  ASSUME Types, NEW s \in ProcType, StopRecord(s)
  PROVE  StopWay(sl, s)
<1>1. PICK q \in ProcType : q = sl
  BY DEF Types
<1>2. s = Idle => StopWay(q, s)
  BY DEF StopWay, Idle
<1>3. ASSUME NEW t \in Trades, StopLossHit(t),
             s = [Idle EXCEPT !.pc = "uncover", !.t = t, !.copy = active[t]]
      PROVE  StopWay(q, s)
  <2>1. s.pc = "uncover" /\ s.t = t /\ s.copy = active[t]
    BY <1>3 DEF Idle
  <2> QED
    BY <1>3, <2>1 DEF StopWay, StopLossHit
<1>4. ASSUME NEW pc, <<q.pc, pc>> \in StopPairs, NEW k,
             \/ s = [q EXCEPT !.pc = pc] /\ k = q.copy
             \/ s = [q EXCEPT !.copy = k, !.pc = pc] /\ pc = "stopped"
      PROVE  StopWay(q, s)
  <2>1. s.pc = pc /\ s.t = q.t /\ s.copy = k
    BY <1>4 DEF ProcType
  <2> QED
    BY <1>4, <2>1 DEF StopWay
<1>5. /\ StopCancel => <<q.pc, "sell">> \in StopPairs
      /\ StopSell => <<q.pc, "stopped">> \in StopPairs
      /\ MarkStopped => <<q.pc, "forget">> \in StopPairs
  BY <1>1 DEF StopCancel, StopSell, MarkStopped, SlAt, StopPairs
<1>6. StopWay(q, s)
  BY <1>1, <1>2, <1>3, <1>4, <1>5 DEF StopRecord
<1> QED
  BY <1>1, <1>6

LEMMA Ways ==
  ASSUME RecordIInv, [Next]_vars
  PROVE  /\ \A c \in Clients : RequestWay(req[c], req'[c])
         /\ ReaderWay(ws, ws') /\ StopWay(sl, sl')
<1>0. Types
  BY DEF RecordIInv
<1>1. Idle.pc = "idle"
  BY DEF Idle
<1>2. \A c \in Clients : RequestWay(req[c], req'[c])
  <2>1. CASE req' = req
    BY <2>1 DEF RequestWay
  <2>2. ASSUME NEW c \in Clients, Request(c) \/ RequestStep(c)
        PROVE  \A d \in Clients : RequestWay(req[d], req'[d])
    <3>1. PICK r \in ProcType : Become(c, r) /\ RequestRecord(c, r)
      BY <1>0, <2>2, RequestMoves
    <3>2. req'[c] = r /\ \A d \in Clients : d # c => req'[d] = req[d]
      BY ONLY <1>0, <3>1, Becomes, c \in Clients, r \in ProcType
    <3>3. RequestWay(req[c], r)
      BY <1>0, <3>1, RequestWays
    <3> QED
      BY <3>2, <3>3 DEF RequestWay
  <2>3. CASE Crash
    BY <1>1, <2>3 DEF Crash, RequestWay
  <2>4. (\E o \in Orders : ExFill(o)) \/ UNCHANGED vars => req' = req
    BY DEF ExFill, vars, procs
  <2> QED
    BY <2>1, <2>2, <2>3, <2>4, TypesReader, TypesStop DEF Next
<1>3. ReaderWay(ws, ws')
  <2>1. CASE WsStep
    BY <1>0, <2>1, ReaderMoves, ReaderWays
  <2>2. CASE Crash
    BY <1>1, <2>2 DEF Crash, ReaderWay
  <2>3. CASE ws' = ws
    BY <2>3 DEF ReaderWay
  <2>4. (\E o \in Orders : ExFill(o)) \/ UNCHANGED vars => ws' = ws
    BY DEF ExFill, vars, procs
  <2> QED
    BY <2>1, <2>2, <2>3, <2>4, TypesRequest, TypesStop DEF Next
<1>4. StopWay(sl, sl')
  <2>1. CASE StopLossStep \/ \E t \in Trades : StopLossHit(t)
    BY <1>0, <2>1, StopMoves, StopWays
  <2>2. CASE Crash
    BY <1>1, <2>2 DEF Crash, StopWay
  <2>3. CASE sl' = sl
    BY <2>3 DEF StopWay
  <2>4. (\E o \in Orders : ExFill(o)) \/ UNCHANGED vars => sl' = sl
    BY DEF ExFill, vars, procs
  <2> QED
    BY <2>1, <2>2, <2>3, <2>4, TypesRequest, TypesReader DEF Next
<1> QED
  BY <1>2, <1>3, <1>4

(* Who writes a record, and which status the writer takes it to have.      *)
WrittenByRequest(c, t) ==
    /\ req[c].t = t /\ db'[t].paper = req[c].copy.paper
    /\ \/ /\ req[c].pc = "create" /\ req'[c].pc = "record"
          /\ db' = [db EXCEPT ![t] = db'[t]] /\ idx' = [idx EXCEPT !["pending"] = @ \cup {t}]
          /\ db'[t].st = "pending" /\ db'[t].buy = req[c].copy.buy /\ db'[t].sell = None
       \/ /\ req[c].pc = "link" /\ req'[c].pc \in {"debit", "idle"}
          /\ Update(t, db'[t], "pending") /\ db'[t].st = "pending" /\ db'[t].sell = None
       \/ /\ req[c].pc = "cancelled" /\ Unbuyable(t) /\ req'[c].pc \in {"credit", "idle"}
          /\ Update(t, db'[t], "pending") /\ db'[t].st = "cancelled"
          /\ db'[t].buy = req[c].copy.buy /\ db'[t].sell = req[c].copy.sell
       \/ /\ req[c].pc = "sold" /\ req[c].copy.st = "filled" /\ req'[c].pc = "idle"
          /\ Update(t, db'[t], "filled") /\ db'[t] = req[c].copy
WrittenByReader(t) ==
    /\ ws.t = t /\ db'[t].paper = ws.copy.paper
    /\ \/ /\ ws.pc = "bought" /\ ws'.pc = "offer"
          /\ Update(t, db'[t], ws.copy.st) /\ db'[t].st = "filled"
       \/ /\ ws.pc = "offer" /\ ws'.pc = "idle"
          /\ Update(t, db'[t], "filled") /\ db'[t].st = "error"
       \/ /\ ws.pc = "link" /\ ws'.pc = "watch" /\ ws.copy.st = "filled"
          /\ Update(t, db'[t], "filled") /\ db'[t] = ws.copy
       \/ /\ ws.pc = "sold" /\ ws'.pc = "forget" /\ ws'.t = t
          /\ Update(t, db'[t], ws.copy.st) /\ db'[t].st = "completed"
WrittenByStop(t) ==
    /\ sl.t = t /\ sl.pc = "stopped" /\ sl'.pc = "forget" /\ sl'.t = t
    /\ Update(t, db'[t], "filled") /\ db'[t].st = "stopped"
Written(t) ==
    (\E c \in Clients : WrittenByRequest(c, t)) \/ WrittenByReader(t) \/ WrittenByStop(t)

LEMMA UpdateOf ==
  ASSUME Types, NEW t \in Trades, NEW k \in TradeType, NEW old, Update(t, k, old)
  PROVE  db'[t] = k /\ Update(t, db'[t], old)
<1>1. db'[t] = k
  BY DEF Update, Types
<1> QED
  BY <1>1

LEMMA RequestWriter ==
  ASSUME RecordIInv, NEW c \in Clients, Request(c) \/ RequestStep(c)
  PROVE  UNCHANGED <<db, idx>> \/ (req[c].t \in Trades /\ WrittenByRequest(c, req[c].t))
<1>0. /\ Types /\ Knowledge /\ Idle.pc = "idle"
      /\ req \in [Clients -> ProcType] /\ req[c] \in ProcType /\ req[c].copy \in TradeType
      /\ req[c].o \in Orders \cup {None} /\ RequestKnows(req[c])
  BY DEF RecordIInv, Types, ProcType, Knowledge, Idle
<1>1. PICK q \in ProcType : q = req[c]
  BY <1>0
<1>2. q.pc # "idle" => q.t \in Trades
  BY <1>0, <1>1 DEF RequestKnows
<1>3. CASE CreateTrade(c)
  <2> DEFINE k == [q.copy EXCEPT !.st = "pending"]
  <2>1. q.pc = "create" /\ db' = [db EXCEPT ![q.t] = k]
        /\ idx' = [idx EXCEPT !["pending"] = @ \cup {q.t}]
    BY <1>1, <1>3 DEF CreateTrade, At
  <2>2. db'[q.t] = k
    BY <1>0, <1>2, <2>1 DEF Types
  <2>3. k.st = "pending" /\ k.buy = q.copy.buy /\ k.sell = q.copy.sell /\ k.paper = q.copy.paper
    BY <1>0, <1>1 DEF TradeType
  <2>4. q.copy.sell = None
    BY <1>0, <1>1, <2>1 DEF RequestKnows
  <2>5. req'[c].pc = "record"
    BY <1>0, <1>3 DEF CreateTrade, ProcType
  <2> HIDE DEF k
  <2>6. db' = [db EXCEPT ![q.t] = db'[q.t]]
    BY <2>1, <2>2
  <2>7. WrittenByRequest(c, q.t)
    BY <1>1, <2>1, <2>2, <2>3, <2>4, <2>5, <2>6 DEF WrittenByRequest
  <2> QED
    BY <1>1, <1>2, <2>1, <2>7
<1>4. CASE LinkBuy(c)
  <2> DEFINE k == [q.copy EXCEPT !.buy = q.o]
  <2>1. q.pc = "link" /\ Update(q.t, k, "pending")
    BY <1>1, <1>4 DEF LinkBuy, At
  <2>2. /\ k.st = q.copy.st /\ k.sell = q.copy.sell /\ k.paper = q.copy.paper
        /\ k \in TradeType
    BY <1>0, <1>1 DEF TradeType
  <2> HIDE DEF k
  <2>3. db'[q.t] = k /\ Update(q.t, db'[q.t], "pending")
    BY <1>0, <1>2, <2>1, <2>2, UpdateOf
  <2>4. q.copy.sell = None /\ q.copy.st = "pending"
    BY <1>0, <1>1, <2>1 DEF RequestKnows
  <2>5. req'[c].pc \in {"debit", "idle"}
    BY <1>0, <1>4 DEF LinkBuy, Go, Return, ProcType
  <2>6. WrittenByRequest(c, q.t)
    BY <1>1, <2>1, <2>2, <2>3, <2>4, <2>5 DEF WrittenByRequest
  <2> QED
    BY <1>1, <1>2, <2>1, <2>6
<1>5. CASE MarkCancelled(c)
  <2> DEFINE k == [q.copy EXCEPT !.st = "cancelled"]
  <2>1. q.pc = "cancelled" /\ Update(q.t, k, "pending")
    BY <1>1, <1>5 DEF MarkCancelled, At
  <2>2. /\ k.st = "cancelled" /\ k.buy = q.copy.buy /\ k.sell = q.copy.sell
        /\ k.paper = q.copy.paper /\ k \in TradeType
    BY <1>0, <1>1 DEF TradeType, Statuses
  <2> HIDE DEF k
  <2>3. db'[q.t] = k /\ Update(q.t, db'[q.t], "pending")
    BY <1>0, <1>2, <2>1, <2>2, UpdateOf
  <2>4. Unbuyable(q.t)
    BY <1>0, <1>1, <2>1 DEF RequestKnows
  <2>5. req'[c].pc \in {"credit", "idle"}
    BY <1>0, <1>5 DEF MarkCancelled, Go, Return, ProcType
  <2>6. WrittenByRequest(c, q.t)
    BY <1>1, <2>1, <2>2, <2>3, <2>4, <2>5 DEF WrittenByRequest
  <2> QED
    BY <1>1, <1>2, <2>1, <2>6
<1>6. CASE MarkSold(c)
  <2>1. q.pc = "sold" /\ Update(q.t, q.copy, "filled") /\ q.copy \in TradeType
    BY <1>0, <1>1, <1>6 DEF MarkSold, At
  <2>2. db'[q.t] = q.copy /\ Update(q.t, db'[q.t], "filled")
    BY <1>0, <1>2, <2>1, UpdateOf
  <2>3. q.copy.st = "filled" /\ req'[c].pc = "idle"
    BY <1>0, <1>1, <1>6, <2>1 DEF RequestKnows, MarkSold, Return
  <2>4. WrittenByRequest(c, q.t)
    BY <1>1, <2>1, <2>2, <2>3 DEF WrittenByRequest
  <2> QED
    BY <1>1, <1>2, <2>1, <2>4
<1>7. CASE UNCHANGED <<db, idx>>
  BY <1>7
<1> QED
  BY <1>3, <1>4, <1>5, <1>6, <1>7
  DEF Request, RequestStep, PlaceBuy, PlacePaperBuy, CancelBuy, ManualSell, CreateOrder,
      ReadPaper, SavePaper, CancelAtExchange, ManualCancel, ManualTrade, redis

LEMMA ReaderWriter ==
  ASSUME RecordIInv, WsStep
  PROVE  UNCHANGED <<db, idx>> \/ (ws.t \in Trades /\ WrittenByReader(ws.t))
<1>0. /\ Types /\ Idle.pc = "idle"
      /\ ws \in ProcType /\ ws.copy \in TradeType /\ ReaderKnows(ws)
  BY DEF RecordIInv, Types, ProcType, Knowledge, Idle
<1>1. ws.pc # "idle" => ws.t \in Trades
  BY <1>0 DEF ReaderKnows
<1>2. ASSUME ws.pc # "idle", NEW st \in Statuses, NEW old,
             Update(ws.t, [ws.copy EXCEPT !.st = st], old)
      PROVE  /\ db'[ws.t].st = st /\ db'[ws.t].paper = ws.copy.paper
             /\ Update(ws.t, db'[ws.t], old)
  <2> DEFINE k == [ws.copy EXCEPT !.st = st]
  <2>1. k.st = st /\ k.paper = ws.copy.paper /\ k \in TradeType /\ Update(ws.t, k, old)
    BY <1>0, <1>2 DEF TradeType
  <2> HIDE DEF k
  <2> QED
    BY <1>0, <1>1, <1>2, <2>1, UpdateOf
<1>3. CASE MarkBought
  BY <1>0, <1>1, <1>2, <1>3 DEF MarkBought, WrittenByReader, WsAt, ProcType, Statuses
<1>4. CASE AutoSellFails
  BY <1>0, <1>1, <1>2, <1>4 DEF AutoSellFails, WrittenByReader, WsAt, Statuses
<1>5. CASE LinkSell
  <2>1. ws.pc = "link" /\ Update(ws.t, ws.copy, "filled") /\ ws'.pc = "watch"
    BY <1>0, <1>5 DEF LinkSell, WsAt, WsGo, ProcType
  <2>2. db'[ws.t] = ws.copy /\ Update(ws.t, db'[ws.t], "filled")
    BY <1>0, <1>1, <2>1, UpdateOf
  <2> QED
    BY <1>0, <1>1, <2>1, <2>2 DEF WrittenByReader, ReaderKnows
<1>6. CASE CompleteTrade
  BY <1>0, <1>1, <1>2, <1>6 DEF CompleteTrade, WrittenByReader, WsAt, WsGo, ProcType, Statuses
<1>7. CASE UNCHANGED <<db, idx>>
  BY <1>7
<1> QED
  BY <1>3, <1>4, <1>5, <1>6, <1>7
  DEF WsStep, TakeFill, AutoSell, RecordSell, AddTrade, RemoveTrade, redis

LEMMA StopWriter ==
  ASSUME RecordIInv, StopLossStep \/ \E u \in Trades : StopLossHit(u)
  PROVE  UNCHANGED <<db, idx>> \/ (sl.t \in Trades /\ WrittenByStop(sl.t))
<1>0. Types /\ sl \in ProcType /\ sl.copy \in TradeType /\ StopKnows(sl)
  BY DEF RecordIInv, Types, ProcType, Knowledge
<1>1. CASE MarkStopped
  <2>1. sl.pc = "stopped" /\ Update(sl.t, sl.copy, "filled") /\ sl' = [sl EXCEPT !.pc = "forget"]
    BY <1>1 DEF MarkStopped, SlAt
  <2>2. sl.t \in Trades /\ sl.copy.st = "stopped" /\ sl'.pc = "forget" /\ sl'.t = sl.t
    BY <1>0, <2>1 DEF StopKnows, ProcType
  <2>3. db'[sl.t] = sl.copy /\ Update(sl.t, db'[sl.t], "filled")
    BY <1>0, <2>1, <2>2, UpdateOf
  <2> QED
    BY <2>1, <2>2, <2>3 DEF WrittenByStop
<1> QED
  BY <1>1 DEF StopLossStep, StopLossHit, StopCancel, StopSell, StopForget, redis

LEMMA SomeWriter ==
  ASSUME RecordIInv, [Next]_vars
  PROVE  UNCHANGED <<db, idx>> \/ \E t \in Trades : Written(t)
<1>1. (\E o \in Orders : ExFill(o)) \/ Crash \/ UNCHANGED vars => UNCHANGED <<db, idx>>
  BY DEF ExFill, Crash, vars, redis
<1> QED
  BY <1>1, RequestWriter, ReaderWriter, StopWriter DEF Next, Written

LEMMA WrittenAlone ==
  ASSUME Types, NEW t \in Trades, Written(t), NEW u \in Trades, u # t
  PROVE  db'[u] = db[u]
<1>1. \/ db' = [db EXCEPT ![t] = db'[t]]
      \/ \E old : Update(t, db'[t], old)
  BY DEF Written, WrittenByRequest, WrittenByReader, WrittenByStop
<1>2. db' = [db EXCEPT ![t] = db'[t]]
  BY <1>1 DEF Update
<1> QED
  BY <1>2 DEF Types

LEMMA Writers ==
  ASSUME RecordIInv, [Next]_vars, NEW t \in Trades, db'[t] # db[t]
  PROVE  \/ \E c \in Clients : WrittenByRequest(c, t)
         \/ WrittenByReader(t) \/ WrittenByStop(t)
<1>1. PICK u \in Trades : Written(u)
  BY SomeWriter
<1>2. u = t
  BY <1>1, WrittenAlone DEF RecordIInv
<1> QED
  BY <1>1, <1>2 DEF Written

(* Who is put on the list of watched trades.                               *)
LEMMA Watchers ==
  ASSUME RecordIInv, [Next]_vars, NEW t \in Trades, active'[t].st # "none"
  PROVE  \/ active'[t] = active[t] /\ ~(ws.pc = "forget" /\ ws.t = t /\ ws' # ws)
            /\ ~(sl.pc = "forget" /\ sl.t = t /\ sl' # sl)
         \/ ws.pc = "watch" /\ ws.t = t /\ db' = db
<1>0. Types /\ NoTrade.st = "none"
  BY DEF RecordIInv, NoTrade
<1>1. CASE AddTrade
  <2>1. /\ ws.pc = "watch" /\ active' = [active EXCEPT ![ws.t] = ws.copy]
        /\ db' = db /\ sl' = sl
    BY <1>1 DEF AddTrade, WsAt, redis
  <2> QED
    BY <1>0, <2>1 DEF Types
<1>2. CASE RemoveTrade
  <2>1. /\ active' = [active EXCEPT ![ws.t] = NoTrade] /\ sl' = sl
    BY <1>2 DEF RemoveTrade
  <2>2. ws.t # t /\ active'[t] = active[t]
    BY <1>0, <2>1 DEF Types
  <2> QED
    BY <2>1, <2>2
<1>3. CASE StopForget
  <2>1. /\ active' = [active EXCEPT ![sl.t] = NoTrade] /\ ws' = ws
    BY <1>3 DEF StopForget
  <2>2. sl.t # t /\ active'[t] = active[t]
    BY <1>0, <2>1 DEF Types
  <2> QED
    BY <2>1, <2>2
<1>4. CASE Crash
  BY <1>0, <1>4 DEF Crash
<1>5. WsStep => \/ AddTrade \/ RemoveTrade
                \/ ws.pc # "forget" /\ active' = active /\ sl' = sl
  BY DEF WsStep, TakeFill, MarkBought, AutoSell, AutoSellFails, RecordSell, LinkSell,
         CompleteTrade, WsAt
<1>6. StopLossStep \/ (\E u \in Trades : StopLossHit(u)) =>
        \/ StopForget
        \/ sl.pc # "forget" /\ active' = active /\ ws' = ws
  BY DEF StopLossStep, StopLossHit, StopCancel, StopSell, MarkStopped, SlAt
<1>7. ASSUME NEW c \in Clients, Request(c) \/ RequestStep(c)
      PROVE  active' = active /\ ws' = ws /\ sl' = sl
  BY <1>7, TypesRequest
<1>8. (\E o \in Orders : ExFill(o)) \/ UNCHANGED vars => active' = active /\ ws' = ws /\ sl' = sl
  BY DEF ExFill, vars, procs
<1> QED
  BY <1>1, <1>2, <1>3, <1>4, <1>5, <1>6, <1>7, <1>8 DEF Next

(* Messages are added for orders that just filled, and taken in order.     *)
LEMMA WireMoves ==
  ASSUME RecordIInv, [Next]_vars
  PROVE  /\ \A o \in Orders : OnWire(o)' => OnWire(o) \/ ex[o].st = "open"
         /\ Once => Once'
         /\ Once /\ TakeFill => \E o \in Orders : o = Head(wire) /\ OnWire(o) /\ ~OnWire(o)'
<1>0. Types /\ Books /\ wire \in Seq(Orders)
  BY DEF RecordIInv, Types
<1>1. wire' = wire \/ wire' = <<>> => (\A o \in Orders : OnWire(o)' => OnWire(o)) /\ (Once => Once')
  BY DEF OnWire, Once
<1>3. ASSUME wire # <<>>, wire' = Tail(wire)
      PROVE  /\ \A o \in Orders : OnWire(o)' => OnWire(o)
             /\ Once => Once'
             /\ Once => \E o \in Orders : o = Head(wire) /\ OnWire(o) /\ ~OnWire(o)'
  <2>1. /\ Len(wire) \in Nat /\ Len(wire) > 0 /\ Len(wire') = Len(wire) - 1
        /\ \A i \in 1 .. Len(wire') : wire'[i] = wire[i + 1]
        /\ Head(wire) = wire[1] /\ 1 \in 1 .. Len(wire) /\ wire[1] \in Orders
    BY <1>0, <1>3
  <2>2. \A i \in 1 .. Len(wire') : i + 1 \in 1 .. Len(wire) /\ i + 1 # 1
    BY <2>1
  <2>3. \A o \in Orders : OnWire(o)' => OnWire(o)
    BY <2>1, <2>2 DEF OnWire
  <2>4. Once => Once'
    <3> SUFFICES ASSUME Once, NEW i \in 1 .. Len(wire'), NEW j \in 1 .. Len(wire'),
                        wire'[i] = wire'[j]
                 PROVE  i = j
      BY DEF Once
    <3>1. i + 1 = j + 1
      BY <2>1, <2>2 DEF Once
    <3> QED
      BY <3>1
  <2>5. PICK o \in Orders : o = Head(wire)
    BY <2>1
  <2>6. OnWire(o) /\ (Once => ~OnWire(o)')
    BY <2>1, <2>2, <2>5 DEF OnWire, Once
  <2> QED
    BY <2>3, <2>4, <2>5, <2>6
<1>4. ASSUME NEW o \in Orders, ExFill(o)
      PROVE  /\ \A p \in Orders : OnWire(p)' => OnWire(p) \/ p = o
             /\ Once => Once'
  <2>1. ex[o].st = "open" /\ wire' = Append(wire, o)
    BY <1>4 DEF ExFill
  <2>2. \A i \in 1 .. Len(wire) : wire[i] # o
    BY <1>0, <2>1 DEF Books
  <2>3. /\ Len(wire) \in Nat /\ Len(wire') = Len(wire) + 1 /\ wire'[Len(wire) + 1] = o
        /\ \A i \in 1 .. Len(wire) : wire'[i] = wire[i]
        /\ \A i \in 1 .. Len(wire') : i \in 1 .. Len(wire) \/ i = Len(wire) + 1
    BY <1>0, <2>1
  <2> QED
    BY <2>2, <2>3 DEF OnWire, Once
<1>5. \/ wire' = wire \/ wire' = <<>> \/ (wire # <<>> /\ wire' = Tail(wire))
      \/ \E o \in Orders : ExFill(o)
  BY ExchangeMoves DEF CancelsAt, SellAll, PlaceBuy
<1>6. TakeFill => wire # <<>> /\ wire' = Tail(wire)
  BY DEF TakeFill
<1>7. ASSUME NEW o \in Orders, ExFill(o) PROVE ex[o].st = "open"
  BY <1>7 DEF ExFill
<1> QED
  BY <1>1, <1>3, <1>4, <1>5, <1>6, <1>7

(* An open order was open before, or is new and for a trade that is        *)
(* nobody's.                                                               *)
LEMMA OpenMoves ==
  ASSUME RecordIInv, [Next]_vars, NEW o \in Orders, NEW t \in Trades, BuyOf(o, t)'
  PROVE  \/ BuyOf(o, t) /\ (ex'[o].st = "open" => ex[o].st = "open")
         \/ t \notin Taken
<1>1. Books /\ Onward /\ (NoNewBuy(t) \/ t \notin Taken)
  BY MovesOn DEF RecordIInv
<1>2. CASE NoNewBuy(t)
  <2>1. BuyOf(o, t)
    BY <1>2 DEF NoNewBuy, BuyOf
  <2>2. ex[o].st # "none"
    BY <1>1, <2>1 DEF Books, BuyOf, NoOrder
  <2>3. ex[o].st \in {"open", "filled", "cancelled"}
    BY <2>2 DEF RecordIInv, Types, OrderType
  <2> QED
    BY <1>1, <2>1, <2>3 DEF Onward
<1> QED
  BY <1>1, <1>2

LEMMA BuysMove ==
  ASSUME RecordIInv, [Next]_vars, NEW t \in Trades
  PROVE  AtExchange(t)' => AtExchange(t) \/ t \notin Taken
<1> SUFFICES ASSUME AtExchange(t)', t \in Taken PROVE AtExchange(t)
  OBVIOUS
<1>1. PICK o \in Orders : BuyOf(o, t)' /\ (ex'[o].st = "open" \/ OnWire(o)')
  BY DEF AtExchange
<1>2. BuyOf(o, t) /\ (ex'[o].st = "open" => ex[o].st = "open")
  BY <1>1, OpenMoves
<1>3. OnWire(o)' => OnWire(o) \/ ex[o].st = "open"
  BY WireMoves
<1> QED
  BY <1>1, <1>2, <1>3 DEF AtExchange

(* Nobody has to do with a trade that is nobody's.                         *)
LEMMA Nobodys ==
  ASSUME RecordIInv, NEW t \in Trades, t \notin Taken
  PROVE  /\ db[t] = NoTrade /\ active[t] = NoTrade
         /\ \A c \in Clients : req[c].t # t
         /\ ws.pc # "idle" => ws.t # t
         /\ sl.pc # "idle" => sl.t # t
         /\ Expects(t)
<1>1. Known /\ ReaderKnows(ws) /\ StopKnows(sl)
  BY DEF RecordIInv, Knowledge
<1>2. db[t].st = "none" /\ \A c \in Clients : req[c].t # t
  BY DEF Taken, Created
<1>3. /\ db[t] = NoTrade /\ active[t] = NoTrade
      /\ ws.pc # "idle" => ws.t # t
      /\ sl.pc # "idle" => sl.t # t
  BY <1>1, <1>2 DEF Known, ReaderKnows, StopKnows
<1> QED
  BY <1>2, <1>3 DEF Expects, NoTrade, Selling, None

(* The message that is taken.                                              *)
LEMMA FillTaken ==
  ASSUME RecordIInv, [Next]_vars, TakeFill, NEW t \in Trades, ws'.t = t, ws'.pc # "idle",
         Once
  PROVE  /\ ws'.pc = "bought" =>
              /\ AtExchange(t)
              /\ \A o \in Orders : BuyOf(o, t)' => ex'[o].st = "filled" /\ ~OnWire(o)'
         /\ ws'.pc = "sold" => db[t].sell # None
<1>0. Types /\ Books /\ Truthful(t, db[t])
  BY DEF RecordIInv, Knowledge
<1>1. ex' = ex
  BY DEF TakeFill
<1>2. PICK p \in Orders : p = Head(wire) /\ OnWire(p) /\ ~OnWire(p)'
  BY WireMoves
<1>3. /\ ws'.pc = "bought" => db[t].buy = p
      /\ ws'.pc = "sold" => db[t].sell = p
  <2>1. \/ ws' = Idle
        \/ ws'.pc = "bought" /\ ws'.t = rec[p] /\ db[rec[p]].buy = p
        \/ ws'.pc = "sold" /\ ws'.t = rec[p] /\ db[rec[p]].sell = p
    BY <1>2 DEF TakeFill, Idle
  <2> QED
    BY <2>1 DEF Idle
<1>4. p # None
  BY CopilotAssumption DEF Orders, None
<1>5. ASSUME ws'.pc = "bought"
      PROVE  BuyOf(p, t) /\ ex[p].st = "filled" /\ \A o \in Orders : BuyOf(o, t)' => o = p
  <2>1. BuyOf(p, t)
    BY <1>0, <1>3, <1>4, <1>5 DEF Truthful, BuyOf
  <2>2. ex[p].st = "filled"
    BY <1>0, <1>1, <1>2 DEF OnWire, Books
  <2>3. \A o \in Orders : BuyOf(o, t)' => o = p
    BY <1>0, <1>1, <2>1 DEF BuyOf, Books
  <2> QED
    BY <2>1, <2>2, <2>3
<1> QED
  BY <1>1, <1>2, <1>3, <1>4, <1>5 DEF AtExchange

LEMMA OneRequest ==
  ASSUME RecordIInv, [Next]_vars, NEW c \in Clients, NEW d \in Clients, c # d,
         req'[c] # req[c], req'[c].pc # "idle"
  PROVE  req'[d] = req[d]
<1>0. Types /\ Idle.pc = "idle"
  BY DEF RecordIInv, Idle
<1>1. ~Crash
  BY <1>0 DEF Crash
<1>2. req' # req => \E e \in Clients : Request(e) \/ RequestStep(e)
  BY <1>1, TypesReader, TypesStop DEF Next, ExFill, vars, procs
<1>3. PICK e \in Clients : Request(e) \/ RequestStep(e)
  BY <1>2
<1>4. PICK r \in ProcType : Become(e, r)
  BY <1>0, <1>3, RequestMoves
<1>5. \A a \in Clients : a # e => req'[a] = req[a]
  BY ONLY <1>0, <1>4, Becomes, e \in Clients, r \in ProcType
<1> QED
  BY <1>5

LEMMA HeadIsOrder ==
  ASSUME RecordIInv, TakeFill
  PROVE  Head(wire) \in Orders /\ Head(wire) # None
<1>1. Head(wire) \in Orders
  BY DEF RecordIInv, Types, TakeFill
<1> QED
  BY <1>1, CopilotAssumption DEF Orders, None

LEMMA OnlyBuilderNext ==
  ASSUME RecordIInv, WatchInv, [Next]_vars
  PROVE  OnlyBuilder'
<1> SUFFICES ASSUME NEW c \in Clients, Building(c)'
             PROVE  req'[c].copy.buy = None /\ LeftAlone(c, req[c].t)'
  BY DEF OnlyBuilder
<1>0. /\ OnlyBuilder /\ Types
      /\ \A d \in Clients : RequestWay(req[d], req'[d])
      /\ ReaderWay(ws, ws') /\ StopWay(sl, sl')
  BY Ways DEF RecordIInv, WatchInv
<1>1. PICK r \in ProcType : r = req'[c]
  BY TypesNext DEF Types
<1>2. r.pc \in {"create", "record", "link"}
  BY <1>1 DEF Building
<1>3. /\ r.copy.buy = None
      /\ \/ /\ r.t \in Trades \ Taken /\ req'[c] # req[c]
         \/ /\ Building(c) /\ req[c].t = r.t /\ LeftAlone(c, r.t)
            /\ req[c].copy.buy = None /\ req[c].t \in Trades
  <2>1. CASE r = req[c]
    <3>1. Building(c)
      BY <1>2, <2>1 DEF Building
    <3>2. RequestKnows(req[c])
      BY DEF RecordIInv, Knowledge
    <3> QED
      BY <1>0, <2>1, <3>1, <3>2 DEF OnlyBuilder, RequestKnows, Building
  <2>2. CASE r.pc = "create" /\ r.t \in Trades \ Taken /\ r.copy.buy = None
    BY <1>1, <2>2 DEF Taken
  <2>3. CASE /\ <<req[c].pc, r.pc>> \in RequestPairs /\ r.t = req[c].t
             /\ r.copy.buy = req[c].copy.buy
    <3>1. Building(c)
      BY <1>2, <2>3 DEF Building, RequestPairs
    <3>2. RequestKnows(req[c])
      BY DEF RecordIInv, Knowledge
    <3> QED
      BY <1>0, <2>3, <3>1, <3>2 DEF OnlyBuilder, RequestKnows, Building
  <2>4. RequestWay(req[c], r)
    BY <1>0, <1>1
  <2> QED
    BY <1>2, <2>1, <2>2, <2>3, <2>4 DEF RequestWay
<1>4. PICK t \in Trades : t = r.t
  BY <1>3
<1>5. /\ db[t].buy = None /\ db[t].sell = None
      /\ db[t].st \in {"none", "pending", "cancelled"}
      /\ active[t].st = "none"
      /\ ws.pc # "idle" => ws.t # t
      /\ sl.pc # "idle" => sl.t # t
  <2>1. CASE t \notin Taken
    BY <2>1, Nobodys DEF NoTrade
  <2> QED
    BY <1>3, <1>4, <2>1 DEF LeftAlone
<1>6. /\ db'[t].buy = None /\ db'[t].sell = None
      /\ db'[t].st \in {"none", "pending", "cancelled"}
  <2>1. CASE db'[t] = db[t]
    BY <1>5, <2>1
  <2>2. ASSUME NEW d \in Clients, WrittenByRequest(d, t)
        PROVE  /\ db'[t].buy = None /\ db'[t].sell = None
               /\ db'[t].st \in {"none", "pending", "cancelled"}
    <3>1. req[d].t = t /\ t \in Taken
      BY <2>2 DEF WrittenByRequest, Taken
    <3>2. LeftAlone(c, t) /\ req[c].copy.buy = None /\ req[c].t = t /\ Building(c)
      BY <1>3, <1>4, <3>1
    <3>3. CASE d = c
      BY <1>1, <1>2, <2>2, <3>2, <3>3 DEF WrittenByRequest, Building
    <3>4. CASE d # c
      <4>1. req[d].pc # "idle"
        BY <2>2 DEF WrittenByRequest
      <4>2. /\ req[d].pc \in {"cancel", "cancelled", "credit", "save"}
            /\ req[d].copy.buy = None /\ req[d].copy.sell = None
        BY <3>1, <3>2, <3>4, <4>1 DEF LeftAlone
      <4> QED
        BY <2>2, <4>2 DEF WrittenByRequest
    <3> QED
      BY <3>3, <3>4
  <2>3. ~WrittenByReader(t) /\ ~WrittenByStop(t)
    BY <1>5 DEF WrittenByReader, WrittenByStop
  <2> QED
    BY <2>1, <2>2, <2>3, Writers
<1>7. active'[t].st = "none"
  BY <1>5, Watchers
<1>8. ws'.pc # "idle" => ws'.t # t
  BY <1>0, <1>5, HeadIsOrder DEF ReaderWay, ReaderPairs
<1>9. sl'.pc # "idle" => sl'.t # t
  BY <1>0, <1>5 DEF StopWay, StopPairs
<1>10. ASSUME NEW d \in Clients \ {c}, req'[d].pc # "idle", req'[d].t = t
       PROVE  /\ req'[d].pc \in {"cancel", "cancelled", "credit", "save"}
              /\ req'[d].copy.buy = None /\ req'[d].copy.sell = None
  <2>1. PICK p \in ProcType : p = req'[d]
    BY TypesNext DEF Types
  <2>2. PICK q \in ProcType : q = req[d]
    BY <1>0 DEF Types
  <2>3. RequestWay(q, p) /\ p.t = t /\ p.pc # "idle"
    BY <1>0, <1>10, <2>1, <2>2
  <2>4. /\ p.pc # "uncover"
        /\ p.pc = "cancel" /\ p.copy = db[t] => p.copy.buy = None /\ p.copy.sell = None
    <3>2. p.pc = "uncover" => p = q \/ db[t].st = "filled"
      BY <2>3 DEF RequestWay, RequestPairs
    <3>3. p = q /\ p.pc = "uncover" => FALSE
      <4>1. p = q => t \in Taken
        BY <2>2, <2>3 DEF Taken
      <4>2. p = q => LeftAlone(c, t)
        BY <1>3, <1>4, <4>1
      <4> QED
        BY <2>2, <2>3, <4>2 DEF LeftAlone
    <3> QED
      BY <1>5, <3>2, <3>3
  <2>5. CASE q.t = t /\ q.pc # "idle"
    <3>1. t \in Taken
      BY <2>2, <2>5 DEF Taken
    <3>2. LeftAlone(c, t)
      BY <1>3, <1>4, <3>1
    <3>3. /\ q.pc \in {"cancel", "cancelled", "credit", "save"}
          /\ q.copy.buy = None /\ q.copy.sell = None
      BY <2>2, <2>5, <3>2 DEF LeftAlone
    <3>4. p.pc # "create" \/ p = q
      BY <2>3, <3>1 DEF RequestWay, RequestPairs
    <3> QED
      BY <2>1, <2>3, <2>4, <3>1, <3>3, <3>4 DEF RequestWay, RequestPairs
  <2>6. CASE ~(q.t = t /\ q.pc # "idle")
    <3>1. p # q
      BY <2>3, <2>6
    <3>2. /\ p.pc \in {"create", "cancel"}
          /\ p.pc = "cancel" => db[t].st = "pending" /\ p.copy = db[t]
          /\ p.pc = "create" => t \notin Taken
      BY <2>3, <2>4, <2>6, <3>1 DEF RequestWay, RequestPairs
    <3>3. p.pc # "create"
      <4>1. SUFFICES ASSUME p.pc = "create" PROVE FALSE
        OBVIOUS
      <4>2. req'[c] # req[c]
        BY <1>3, <1>4, <3>2, <4>1 DEF Taken
      <4>3. req'[c].pc # "idle"
        BY <1>1, <1>2
      <4>4. req'[d] = req[d]
        BY <4>2, <4>3, OneRequest
      <4> QED
        BY <2>1, <2>2, <3>1, <4>4
    <3> QED
      BY <2>1, <2>4, <3>2, <3>3
  <2> QED
    BY <2>5, <2>6
<1> QED
  BY <1>1, <1>3, <1>4, <1>6, <1>7, <1>8, <1>9, <1>10 DEF LeftAlone

(* What is to come of a bought trade was to come before, or the trade is   *)
(* nobody's yet.                                                           *)
LEMMA Comes ==
  ASSUME RecordIInv, WatchInv, [Next]_vars, NEW t \in Trades, ToCome(t)'
  PROVE  ToCome(t) \/ t \notin Taken
<1>0. /\ Once /\ ReaderWay(ws, ws')
  BY Ways DEF WatchInv
<1>1. AtExchange(t)' => AtExchange(t) \/ t \notin Taken
  BY BuysMove
<1>2. ASSUME ws'.pc = "bought", ws'.t = t PROVE ToCome(t)
  <2>1. CASE ws' = ws
    BY <1>2, <2>1 DEF ToCome
  <2>2. CASE TakeFill
    BY <1>0, <1>2, <2>2, FillTaken DEF ToCome
  <2> QED
    BY <1>0, <1>2, <2>1, <2>2 DEF ReaderWay, ReaderPairs
<1> QED
  BY <1>1, <1>2 DEF ToCome

LEMMA ExpectedNext ==
  ASSUME RecordIInv, WatchInv, [Next]_vars
  PROVE  Expected'
<1> SUFFICES ASSUME NEW t \in Trades, ToCome(t)' PROVE Expects(t)'
  BY DEF Expected
<1>0. /\ Expected /\ Once /\ TakenOnce /\ Types /\ Books /\ Knowledge
      /\ \A d \in Clients : RequestWay(req[d], req'[d])
      /\ ReaderWay(ws, ws') /\ StopWay(sl, sl')
  BY Ways DEF RecordIInv, WatchInv
<1>1. ASSUME AtExchange(t)' PROVE AtExchange(t) \/ t \notin Taken
  BY <1>1, BuysMove
<1>3. ToCome(t) \/ t \notin Taken
  BY Comes
<1>4. Expects(t)
  BY <1>0, <1>3, Nobodys DEF Expected
<1>6. ws.t = t /\ ws.pc = "bought" => ws' = ws \/ ws'.pc = "idle"
  <2> SUFFICES ASSUME ws.t = t, ws.pc = "bought", ws' # ws, ws'.pc # "idle"
               PROVE  FALSE
    OBVIOUS
  <2>1. ws'.pc = "offer" \/ TakeFill
    BY <1>0 DEF ReaderWay, ReaderPairs
  <2>2. ~TakeFill
    BY DEF TakeFill, WsAt
  <2>3. AtExchange(t)' /\ t \in Taken
    <3>1. t \in Taken
      BY <1>4, Nobodys
    <3> QED
      BY <2>1, <2>2, <3>1 DEF ToCome
  <2>4. AtExchange(t)
    BY <1>1, <2>3
  <2> QED
    BY <1>0, <2>4 DEF TakenOnce, AtExchange
<1>7. db'[t].st \in {"none", "pending"} /\ db'[t].sell = None
  <2>1. CASE db'[t] = db[t]
    BY <1>4, <2>1 DEF Expects
  <2>2. ASSUME NEW d \in Clients, WrittenByRequest(d, t)
        PROVE  db'[t].st \in {"none", "pending"} /\ db'[t].sell = None
    <3>1. t \in Taken /\ req[d].pc # "sold"
      BY <1>4, <2>2 DEF WrittenByRequest, Taken, Expects
    <3>2. ~Unbuyable(t)
      <4>1. CASE AtExchange(t)
        BY <1>0, <4>1 DEF AtExchange, BuyOf, OnWire, Books, Unbuyable
      <4>2. CASE ws.pc = "bought" /\ ws.t = t
        BY <1>0, <4>2 DEF Knowledge, ReaderKnows, Bought, Did, Unbuyable
      <4> QED
        BY <1>3, <3>1, <4>1, <4>2 DEF ToCome
    <3> QED
      BY <2>2, <3>1, <3>2 DEF WrittenByRequest
  <2>3. ~WrittenByReader(t)
    BY <1>4, <1>6 DEF WrittenByReader, Expects, Selling
  <2>4. ~WrittenByStop(t)
    BY <1>4 DEF WrittenByStop, Expects
  <2> QED
    BY <2>1, <2>2, <2>3, <2>4, Writers
<1>8. active'[t].st = "none"
  BY <1>4, Watchers DEF Expects, Selling
<1>9. ws'.pc \in Selling \cup {"sold", "forget"} => ws'.t # t
  BY <1>0, <1>4, <1>6, HeadIsOrder DEF ReaderWay, ReaderPairs, Expects, Selling
<1>10. sl'.pc # "idle" => sl'.t # t
  BY <1>0, <1>4 DEF StopWay, StopPairs, Expects
<1>11. ASSUME NEW c \in Clients, req'[c].pc \in {"uncover", "sell", "sold"}
       PROVE  req'[c].t # t
  BY <1>0, <1>4, <1>11 DEF RequestWay, RequestPairs, Expects
<1> QED
  BY <1>7, <1>8, <1>9, <1>10, <1>11 DEF Expects

LEMMA TakenOnceNext ==
  ASSUME RecordIInv, WatchInv, [Next]_vars
  PROVE  TakenOnce' /\ Once'
<1>0. /\ Once /\ TakenOnce /\ Types /\ Knowledge /\ ReaderWay(ws, ws')
  BY Ways DEF RecordIInv, WatchInv
<1>1. Once'
  BY <1>0, WireMoves
<1>2. ASSUME ws'.pc = "bought", NEW o \in Orders, BuyOf(o, ws.t)'
      PROVE  ex'[o].st = "filled" /\ ~OnWire(o)'
  <2>1. CASE ws' = ws
    <3>1. PICK t \in Trades : t = ws.t /\ db[t].st # "none"
      BY <1>0, <1>2, <2>1 DEF Knowledge, ReaderKnows
    <3>2. BuyOf(o, t)'
      BY <1>2, <2>1, <3>1 DEF BuyOf
    <3>3. BuyOf(o, t)
      BY <3>1, <3>2, OpenMoves DEF Taken, Created
    <3>4. ex[o].st = "filled" /\ ~OnWire(o)
      BY <1>0, <1>2, <2>1, <3>1, <3>3 DEF TakenOnce
    <3> QED
      BY <3>4, MovesOn, WireMoves DEF Onward
  <2>2. CASE TakeFill
    <3>1. ws'.t \in Trades
      BY <1>0, <1>2, <2>2 DEF ReaderWay, ReaderPairs, TakeFill, WsAt
    <3>2. PICK t \in Trades : t = ws'.t
      BY <3>1
    <3>3. BuyOf(o, t)'
      BY <1>2, <3>2 DEF BuyOf
    <3> QED
      BY <1>0, <1>2, <2>2, <3>2, <3>3, FillTaken
  <2> QED
    BY <1>0, <1>2, <2>1, <2>2 DEF ReaderWay, ReaderPairs
<1> QED
  BY <1>1, <1>2 DEF TakenOnce

LEMMA SellsBoughtNext ==
  ASSUME RecordIInv, WatchInv, [Next]_vars
  PROVE  SellsBought'
<1> SUFFICES ASSUME ws'.pc \in Selling
             PROVE  /\ db'[ws'.t].st \in {"filled", "error"} /\ active'[ws'.t].st = "none"
                    /\ sl'.pc # "idle" => sl'.t # ws'.t
  BY DEF SellsBought
<1>0. /\ OnlyBuilder /\ Expected /\ SellsBought /\ Types /\ Knowledge
      /\ ReaderWay(ws, ws') /\ StopWay(sl, sl')
  BY Ways DEF RecordIInv, WatchInv
<1>1. ws' = ws \/ (<<ws.pc, ws'.pc>> \in ReaderPairs /\ ws'.t = ws.t)
  BY <1>0 DEF ReaderWay, Selling
<1>2. ws.pc \in Selling \cup {"bought"} /\ ws'.t = ws.t
  BY <1>1 DEF ReaderPairs, Selling
<1>3. PICK t \in Trades : t = ws.t
  BY <1>0, <1>2 DEF Knowledge, ReaderKnows, Selling
<1>4. /\ active[t].st = "none" /\ (sl.pc # "idle" => sl.t # t)
      /\ ws.pc = "bought" \/ db[t].st \in {"filled", "error"}
      /\ Bought(t)
  <2>1. CASE ws.pc = "bought"
    BY <1>0, <1>3, <2>1 DEF Expected, ToCome, Expects, Knowledge, ReaderKnows
  <2>2. CASE ws.pc \in Selling
    BY <1>0, <1>3, <2>2 DEF SellsBought, Knowledge, ReaderKnows, Selling, Truthful
  <2> QED
    BY <1>2, <2>1, <2>2
<1>5. db'[t].st \in {"filled", "error"}
  <2>1. CASE db'[t] = db[t]
    <3>1. CASE ws.pc = "bought"
      <4>1. MarkBought \/ Crash
        <5>1. ws' # ws
          BY <3>1 DEF Selling
        <5>2. WsStep => MarkBought
          BY <3>1 DEF WsStep, TakeFill, AutoSell, AutoSellFails, RecordSell, LinkSell,
                      AddTrade, CompleteTrade, RemoveTrade, WsAt
        <5> QED
          BY <5>1, <5>2, TypesRequest, TypesStop DEF Next, ExFill, vars, procs
      <4>2. ~Crash
        BY <1>2, <3>1 DEF Crash, Idle, Selling
      <4>3. db'[t] = [ws.copy EXCEPT !.st = "filled"]
        BY <1>0, <1>3, <4>1, <4>2 DEF MarkBought, Update, Types
      <4>4. ws.copy \in TradeType
        BY <1>0 DEF Types, ProcType
      <4> QED
        BY <4>3, <4>4 DEF TradeType
    <3> QED
      BY <1>4, <2>1, <3>1
  <2>2. ASSUME NEW d \in Clients, WrittenByRequest(d, t)
        PROVE  db'[t].st \in {"filled", "error"}
    <3>1. ~Unbuyable(t)
      BY <1>4 DEF Bought, Did, Unbuyable
    <3>2. ~Building(d)
      BY <1>0, <1>2, <1>3, <2>2 DEF OnlyBuilder, LeftAlone, WrittenByRequest, Selling
    <3> QED
      BY <2>2, <3>1, <3>2 DEF WrittenByRequest, Building
  <2>3. WrittenByReader(t) => db'[t].st \in {"filled", "error"}
    BY DEF WrittenByReader, Selling
  <2>4. ~WrittenByStop(t)
    BY <1>4 DEF WrittenByStop
  <2> QED
    BY <2>1, <2>2, <2>3, <2>4, Writers
<1>6. active'[t].st = "none"
  <2>1. SUFFICES ASSUME active'[t].st # "none" PROVE FALSE
    OBVIOUS
  <2>2. ws.pc = "watch" /\ active' # active
    BY <1>4, <2>1, Watchers
  <2>3. AddTrade
    <3>1. WsStep => AddTrade
      BY <2>2 DEF WsStep, TakeFill, MarkBought, AutoSell, AutoSellFails, RecordSell, LinkSell,
                  CompleteTrade, RemoveTrade, WsAt
    <3>2. ~Crash
      BY <2>1 DEF Crash, NoTrade
    <3>3. StopLossStep \/ (\E u \in Trades : StopLossHit(u)) => active'[t] \in {active[t], NoTrade}
      BY <1>0 DEF StopLossStep, StopLossHit, StopCancel, StopSell, MarkStopped, StopForget, Types
    <3>4. active'[t] # NoTrade
      BY <2>1 DEF NoTrade
    <3> QED
      BY <1>4, <2>1, <2>2, <3>1, <3>2, <3>3, <3>4, TypesRequest DEF Next, ExFill, vars
  <2> QED
    BY <2>3 DEF AddTrade, Idle, Selling
<1>7. sl'.pc # "idle" => sl'.t # t
  BY <1>0, <1>4 DEF StopWay, StopPairs
<1> QED
  BY <1>2, <1>3, <1>5, <1>6, <1>7

LEMMA WatchedNext ==
  ASSUME RecordIInv, WatchInv, [Next]_vars
  PROVE  Watched'
<1> SUFFICES ASSUME NEW t \in Trades, active'[t].st # "none"
             PROVE  \/ db'[t].st \in {"filled", "error"}
                    \/ ws'.pc = "forget" /\ ws'.t = t
                    \/ sl'.pc = "forget" /\ sl'.t = t
  BY DEF Watched
<1>0. /\ OnlyBuilder /\ SellsBought /\ Watched /\ Types /\ Knowledge
      /\ ReaderWay(ws, ws') /\ StopWay(sl, sl')
  BY Ways DEF RecordIInv, WatchInv
<1>1. CASE ws.pc = "watch" /\ ws.t = t /\ db' = db
  BY <1>0, <1>1 DEF SellsBought, Selling
<1>2. CASE /\ active'[t] = active[t] /\ ~(ws.pc = "forget" /\ ws.t = t /\ ws' # ws)
           /\ ~(sl.pc = "forget" /\ sl.t = t /\ sl' # sl)
  <2>1. CASE db'[t] = db[t]
    BY <1>0, <1>2, <2>1 DEF Watched
  <2>2. ASSUME NEW d \in Clients, WrittenByRequest(d, t)
        PROVE  db'[t].st = "filled"
    <3>1. ~Unbuyable(t)
      <4>1. Truthful(t, active[t]) /\ active[t].st = "filled"
        BY <1>0, <1>2 DEF Knowledge
      <4> QED
        BY <4>1 DEF Truthful, Bought, Did, Unbuyable
    <3>2. ~Building(d)
      BY <1>0, <1>2, <2>2 DEF OnlyBuilder, LeftAlone, WrittenByRequest
    <3> QED
      BY <2>2, <3>1, <3>2 DEF WrittenByRequest, Building
  <2>3. WrittenByReader(t) => \/ db'[t].st \in {"filled", "error"}
                              \/ ws'.pc = "forget" /\ ws'.t = t
    BY DEF WrittenByReader
  <2> QED
    BY <2>1, <2>2, <2>3, Writers DEF WrittenByStop
<1> QED
  BY <1>1, <1>2, Watchers

LEMMA WatchInit == Init => WatchInv
<1> SUFFICES ASSUME Init PROVE WatchInv
  OBVIOUS
<1>1. /\ Idle.pc = "idle" /\ NoTrade.st = "none" /\ NoOrder.side = "none"
      /\ wire = <<>> /\ Len(wire) = 0
  BY DEF Init, Idle, NoTrade, NoOrder
<1> QED
  BY <1>1
  DEF Init, WatchInv, OnlyBuilder, Building, Once, TakenOnce, Expected, ToCome, AtExchange,
      BuyOf, SellsBought, Selling, Watched

(* Once everything is handled, no trade that is done is watched: the stop  *)
(* loss does not sell for it, whatever crashed or raced.                   *)
THEOREM DoneIsLeftAlone == Spec => []DoneIsNotWatched
<1>1. RecordIInv /\ WatchInv /\ [Next]_vars => RecordIInv' /\ WatchInv'
  BY RecordNext, OnlyBuilderNext, ExpectedNext, TakenOnceNext, SellsBoughtNext, WatchedNext
  DEF WatchInv
<1>2. RecordIInv /\ WatchInv => DoneIsNotWatched
  BY DEF WatchInv, Watched, DoneIsNotWatched, Quiet, WsAt, SlAt
<1> QED
  BY <1>1, <1>2, RecordInit, WatchInit, PTL DEF Spec

-----------------------------------------------------------------------------
(* The status index.  Every writer names the status it has read; while     *)
(* nothing crashes and nobody sells at the market, what it has read is     *)
(* still so when it writes.                                                *)
Listed ==
    \A t \in Trades : \A st \in Statuses :
        \/ db[t].st # "none" /\ db[t].paper
        \/ t \in idx[st] <=> st = db[t].st
SamePaper ==
    /\ ws.pc # "idle" => ws.copy.paper = db[ws.t].paper
    /\ \A c \in Clients : req[c].pc \notin {"idle", "create"} =>
         req[c].copy.paper = db[req[c].t].paper
ReaderIsFresh ==
    /\ ws.pc \in {"bought", "sold"} => ws.copy.st = db[ws.t].st
    /\ ws.pc = "bought" => ws.copy.st = "pending"
    /\ ws.pc \in Selling => db[ws.t].st = "filled"
RequestIsFresh(c) ==
    /\ req[c].pc = "create" => db[req[c].t].st = "none"
    /\ req[c].pc \in {"record", "link", "cancelled"} /\ ~req[c].copy.paper =>
         db[req[c].t].st = "pending"
    /\ req[c].pc = "cancelled" /\ ~req[c].copy.paper =>
         /\ req[c].copy.buy # None
         /\ \A d \in Clients \ {c} : ~(req[d].pc = "cancelled" /\ req[d].t = req[c].t)
NobodySold == sl.pc # "stopped" /\ \A c \in Clients : req[c].pc # "sold"
Indexed ==
    Listed /\ SamePaper /\ ReaderIsFresh /\ NobodySold /\ \A c \in Clients : RequestIsFresh(c)

Orderly == crashes = 0 /\ refusals = 0 /\ SoldByLimit
IndexInv == Orderly => Indexed


-----------------------------------------------------------------------------
(* What the processes do at the exchange.                                  *)
LEMMA RequestDeeds ==
  ASSUME RecordIInv, [Next]_vars, NEW c \in Clients, req'[c] # req[c], req'[c].pc # "idle"
  PROVE  /\ req'[c].pc = "cancelled" =>
              /\ req[c].pc = "cancel"
              /\ req[c].copy.paper \/ (req[c].copy.buy \in Orders /\ ex[req[c].copy.buy].st = "open")
         /\ req'[c].pc \in {"link", "cancelled"} => db' = db
         /\ req'[c].pc = "record" =>
              db'[req[c].t].st = "pending" /\ db'[req[c].t].paper = req[c].copy.paper
         /\ req'[c].pc = "sold" =>
              /\ req[c].pc = "sell" /\ SellAll(req[c].t, "market")
              /\ req'[c].copy.sell = NewOrder /\ req'[c].t = req[c].t
<1>0. Types /\ Idle.pc = "idle"
  BY DEF RecordIInv, Idle
<1>1. ~Crash
  BY <1>0 DEF Crash
<1>2. req' # req => \E e \in Clients : Request(e) \/ RequestStep(e)
  BY <1>1, TypesReader, TypesStop DEF Next, ExFill, vars, procs
<1>3. PICK e \in Clients : Request(e) \/ RequestStep(e)
  BY <1>2
<1>4. PICK r \in ProcType : Become(e, r) /\ RequestRecord(e, r)
  BY <1>0, <1>3, RequestMoves
<1>5. e = c /\ r = req'[c]
  BY ONLY <1>0, <1>4, Becomes, e \in Clients, r \in ProcType, c \in Clients, req'[c] # req[c]
<1>6. PICK q \in ProcType : q = req[c]
  BY <1>0 DEF Types
<1>7. RequestWay(q, r) /\ r # q /\ r.pc # "idle"
  BY <1>5, <1>6, Ways
<1>8. ASSUME r.pc = "cancelled"
      PROVE  /\ q.pc = "cancel" /\ db' = db
             /\ q.copy.paper \/ (q.copy.buy \in Orders /\ ex[q.copy.buy].st = "open")
  <2>1. q.pc = "cancel"
    BY <1>7, <1>8 DEF RequestWay, RequestPairs
  <2>2. CancelAtExchange(c)
    BY <1>3, <1>5, <1>6, <1>7, <1>8, <2>1
    DEF Request, RequestStep, PlaceBuy, PlacePaperBuy, CancelBuy, ManualSell, CreateTrade,
        CreateOrder, LinkBuy, ReadPaper, SavePaper, MarkCancelled, ManualCancel, ManualTrade,
        MarkSold, At
  <2>3. ~Return(c)
    BY <1>0, <1>5, <1>7 DEF Return, Types
  <2> QED
    BY <1>6, <2>1, <2>2, <2>3 DEF CancelAtExchange, CancelAnswer, redis
<1>9. ASSUME r.pc = "sold"
      PROVE  /\ q.pc = "sell" /\ SellAll(q.t, "market")
             /\ r.copy.sell = NewOrder /\ r.t = q.t
  <2>1. q.pc = "sell" /\ r.t = q.t
    BY <1>7, <1>9 DEF RequestWay, RequestPairs
  <2>2. ManualTrade(c)
    BY <1>3, <1>5, <1>6, <2>1
    DEF Request, RequestStep, PlaceBuy, PlacePaperBuy, CancelBuy, ManualSell, CreateTrade,
        CreateOrder, LinkBuy, ReadPaper, SavePaper, CancelAtExchange, MarkCancelled,
        ManualCancel, MarkSold, At
  <2>3. ~Return(c)
    BY <1>0, <1>5, <1>7 DEF Return, Types
  <2>4. SellAll(q.t, "market") /\ req' = [req EXCEPT ![c].copy.sell = NewOrder, ![c].pc = "sold"]
    BY <1>6, <2>2, <2>3 DEF ManualTrade
  <2>5. r.copy.sell = NewOrder
    <3>1. r.copy = [q.copy EXCEPT !.sell = NewOrder]
      BY <1>0, <1>5, <1>6, <2>4 DEF Types, ProcType
    <3> QED
      BY <3>1 DEF ProcType, TradeType
  <2> QED
    BY <2>1, <2>4, <2>5
<1>10. ASSUME r.pc = "link" PROVE db' = db
  <2>1. q.pc = "record"
    BY <1>7, <1>10 DEF RequestWay, RequestPairs
  <2>2. CreateOrder(c)
    BY <1>3, <1>5, <1>6, <2>1
    DEF Request, RequestStep, PlaceBuy, PlacePaperBuy, CancelBuy, ManualSell, CreateTrade,
        LinkBuy, ReadPaper, SavePaper, CancelAtExchange, MarkCancelled, ManualCancel,
        ManualTrade, MarkSold, At
  <2> QED
    BY <2>2 DEF CreateOrder
<1>11. ASSUME r.pc = "record"
       PROVE  db'[q.t].st = "pending" /\ db'[q.t].paper = q.copy.paper
  <2>1. q.pc = "create"
    BY <1>7, <1>11 DEF RequestWay, RequestPairs
  <2>2. CreateTrade(c)
    BY <1>3, <1>5, <1>6, <2>1
    DEF Request, RequestStep, PlaceBuy, PlacePaperBuy, CancelBuy, ManualSell, CreateOrder,
        LinkBuy, ReadPaper, SavePaper, CancelAtExchange, MarkCancelled, ManualCancel,
        ManualTrade, MarkSold, At
  <2>3. q.t \in Trades
    BY <1>6, <2>1 DEF RecordIInv, Knowledge, RequestKnows
  <2>4. db'[q.t] = [q.copy EXCEPT !.st = "pending"] /\ q.copy \in TradeType
    BY <1>0, <1>6, <2>2, <2>3 DEF CreateTrade, Types, ProcType
  <2> QED
    BY <2>4 DEF TradeType
<1> QED
  BY <1>5, <1>6, <1>8, <1>9, <1>10, <1>11

LEMMA ReaderDeeds ==
  ASSUME RecordIInv, [Next]_vars, ws' # ws, ws'.pc # "idle"
  PROVE  /\ ws'.pc = "record" =>
              /\ ws.pc = "offer" /\ SellAll(ws.t, "limit")
              /\ ws'.copy.sell = NewOrder /\ ws'.t = ws.t
         /\ UNCHANGED <<req, sl>>
<1>0. Types /\ Idle.pc = "idle" /\ ReaderWay(ws, ws')
  BY Ways DEF RecordIInv, Idle
<1>1. ~Crash
  BY <1>0 DEF Crash
<1>2. WsStep
  BY <1>1, TypesRequest, TypesStop DEF Next, ExFill, vars, procs
<1>3. ASSUME ws'.pc = "record"
      PROVE  /\ ws.pc = "offer" /\ SellAll(ws.t, "limit")
             /\ ws'.copy.sell = NewOrder /\ ws'.t = ws.t
  <2>1. ws.pc = "offer"
    BY <1>0, <1>3 DEF ReaderWay, ReaderPairs
  <2>2. AutoSell
    BY <1>0, <1>2, <1>3, <2>1
    DEF WsStep, TakeFill, MarkBought, AutoSellFails, RecordSell, LinkSell,
        AddTrade, CompleteTrade, RemoveTrade, WsAt
  <2>3. ws \in ProcType /\ ws.copy \in TradeType
    BY <1>0 DEF Types, ProcType
  <2>4. ws'.copy = [ws.copy EXCEPT !.sell = NewOrder] /\ ws'.t = ws.t
    BY <2>2, <2>3 DEF AutoSell, ProcType
  <2> QED
    BY <2>1, <2>2, <2>3, <2>4 DEF AutoSell, TradeType
<1> QED
  BY <1>2, <1>3, TypesReader

LEMMA StopDeeds ==
  ASSUME RecordIInv, [Next]_vars, sl' # sl, sl'.pc # "idle"
  PROVE  /\ sl'.pc = "stopped" =>
              /\ sl.pc = "sell" /\ SellAll(sl.t, "market")
              /\ sl'.copy.sell = NewOrder /\ sl'.t = sl.t
         /\ UNCHANGED <<req, ws>>
<1>0. Types /\ Idle.pc = "idle" /\ StopWay(sl, sl')
  BY Ways DEF RecordIInv, Idle
<1>1. ~Crash
  BY <1>0 DEF Crash
<1>2. StopLossStep \/ \E t \in Trades : StopLossHit(t)
  BY <1>1, TypesRequest, TypesReader DEF Next, ExFill, vars, procs
<1>3. ASSUME sl'.pc = "stopped"
      PROVE  /\ sl.pc = "sell" /\ SellAll(sl.t, "market")
             /\ sl'.copy.sell = NewOrder /\ sl'.t = sl.t
  <2>1. sl.pc = "sell"
    BY <1>0, <1>3 DEF StopWay, StopPairs
  <2>2. StopSell
    BY <1>2, <2>1 DEF StopLossStep, StopLossHit, StopCancel, MarkStopped, StopForget, SlAt
  <2>3. sl \in ProcType /\ sl.copy \in TradeType
    BY <1>0 DEF Types, ProcType
  <2>4. /\ SellAll(sl.t, "market")
        /\ sl' = [sl EXCEPT !.copy.sell = NewOrder, !.copy.st = "stopped", !.pc = "stopped"]
    BY <1>0, <1>3, <2>2 DEF StopSell
  <2>5. sl'.copy = [sl.copy EXCEPT !.sell = NewOrder, !.st = "stopped"] /\ sl'.t = sl.t
    BY <2>3, <2>4 DEF ProcType
  <2> QED
    BY <2>1, <2>3, <2>4, <2>5 DEF TradeType
<1> QED
  BY <1>2, <1>3, TypesStop

(* A disturbance is not undone, and a market order stays one.              *)
LEMMA DisturbanceStays ==
  ASSUME RecordIInv, [Next]_vars
  PROVE  /\ crashes' = 0 => crashes = 0 /\ ~Crash
         /\ refusals' = 0 => refusals = 0
         /\ SoldByLimit' => SoldByLimit
<1>0. Types /\ Books /\ Onward
  BY MovesOn DEF RecordIInv
<1>1. crashes' = crashes \/ crashes' = crashes + 1
  BY TypesRequest, TypesReader, TypesStop DEF Next, ExFill, Crash, vars, bounds
<1>2. crashes' = 0 => crashes = 0 /\ ~Crash
  BY <1>0, <1>1 DEF Types, Crash
<1>3. SellRefused => refusals' = refusals \/ refusals' # 0
  BY <1>0, CopilotAssumption DEF SellRefused, Types
<1>4. \/ refusals' = refusals \/ refusals' # 0
  BY <1>3
  DEF Next, ExFill, Crash, vars, bounds, SellAll,
      Request, RequestStep, PlaceBuy, PlacePaperBuy, CancelBuy, ManualSell, CreateTrade,
      CreateOrder, LinkBuy, ReadPaper, SavePaper, CancelAtExchange, MarkCancelled,
      ManualCancel, ManualTrade, MarkSold,
      WsStep, TakeFill, MarkBought, AutoSell, AutoSellFails, RecordSell, LinkSell,
      AddTrade, CompleteTrade, RemoveTrade,
      StopLossStep, StopLossHit, StopCancel, StopSell, MarkStopped, StopForget
<1>5. SoldByLimit' => SoldByLimit
  BY <1>0 DEF SoldByLimit, Onward, Books, NoOrder
<1> QED
  BY <1>2, <1>4, <1>5

LEMMA NoMarketSale ==
  ASSUME RecordIInv, [Next]_vars, SoldByLimit', NEW t \in Trades
  PROVE  ~SellAll(t, "market")
<1>1. Types /\ Books
  BY DEF RecordIInv
<1>2. SellAll(t, "market") => Did(t, "sell", "market")'
  BY <1>1, SoldKnown
<1> QED
  BY <1>2 DEF Did, SoldByLimit

(* Every writer names the status that the record has.                      *)
LEMMA TrueStatus ==
  ASSUME RecordIInv, WatchInv, Indexed, NEW t \in Trades, Written(t)
  PROVE  \/ /\ db[t].st = "none" /\ db'[t].st = "pending"
            /\ db' = [db EXCEPT ![t] = db'[t]] /\ idx' = [idx EXCEPT !["pending"] = @ \cup {t}]
         \/ /\ db[t].st # "none" /\ db'[t].st # "none" /\ db'[t].paper = db[t].paper
            /\ \E old : Update(t, db'[t], old) /\ (db[t].paper \/ old = db[t].st)
<1>0. /\ SamePaper /\ ReaderIsFresh /\ NobodySold /\ \A c \in Clients : RequestIsFresh(c)
      /\ Knowledge
  BY DEF Indexed, RecordIInv
<1>1. ASSUME NEW c \in Clients, WrittenByRequest(c, t), req[c].pc = "create"
      PROVE  /\ db[t].st = "none" /\ db'[t].st = "pending"
             /\ db' = [db EXCEPT ![t] = db'[t]] /\ idx' = [idx EXCEPT !["pending"] = @ \cup {t}]
  BY <1>0, <1>1 DEF WrittenByRequest, RequestIsFresh
<1>2. ASSUME NEW c \in Clients, WrittenByRequest(c, t), req[c].pc # "create"
      PROVE  /\ db[t].st # "none" /\ db'[t].st # "none" /\ db'[t].paper = db[t].paper
             /\ \E old : Update(t, db'[t], old) /\ (db[t].paper \/ old = db[t].st)
  <2>1. /\ req[c].t = t /\ req[c].pc \in {"link", "cancelled"}
        /\ Update(t, db'[t], "pending") /\ db'[t].st # "none"
        /\ db'[t].paper = req[c].copy.paper
    BY <1>0, <1>2 DEF WrittenByRequest, NobodySold
  <2>2. db[t].st # "none" /\ req[c].copy.paper = db[t].paper
    BY <1>0, <2>1 DEF Knowledge, RequestKnows, SamePaper
  <2>3. db[t].paper \/ db[t].st = "pending"
    BY <1>0, <2>1, <2>2 DEF RequestIsFresh
  <2> QED
    BY <2>1, <2>2, <2>3
<1>3. ASSUME WrittenByReader(t)
      PROVE  /\ db[t].st # "none" /\ db'[t].st # "none" /\ db'[t].paper = db[t].paper
             /\ \E old : Update(t, db'[t], old) /\ (db[t].paper \/ old = db[t].st)
  <2>1. /\ ws.t = t /\ ws.pc \in {"bought", "offer", "link", "sold"}
        /\ db'[t].st # "none" /\ db'[t].paper = ws.copy.paper
        /\ Update(t, db'[t], IF ws.pc \in {"bought", "sold"} THEN ws.copy.st ELSE "filled")
    BY <1>3 DEF WrittenByReader
  <2>2. db[t].st # "none" /\ ws.copy.paper = db[t].paper
    BY <1>0, <2>1 DEF Knowledge, ReaderKnows, SamePaper
  <2>3. (IF ws.pc \in {"bought", "sold"} THEN ws.copy.st ELSE "filled") = db[t].st
    BY <1>0, <2>1 DEF ReaderIsFresh, Selling
  <2> QED
    BY <2>1, <2>2, <2>3
<1>4. ~WrittenByStop(t)
  BY <1>0 DEF WrittenByStop, NobodySold
<1> QED
  BY <1>1, <1>2, <1>3, <1>4 DEF Written

LEMMA ListedNext ==
  ASSUME RecordIInv, WatchInv, Indexed, [Next]_vars
  PROVE  /\ Listed'
         /\ \A t \in Trades : db[t].st # "none" => db'[t].paper = db[t].paper
<1>0. Types /\ Listed
  BY DEF RecordIInv, Indexed
<1>1. CASE UNCHANGED <<db, idx>>
  BY <1>0, <1>1 DEF Listed
<1>2. ASSUME NEW t \in Trades, Written(t)
      PROVE  Listed' /\ \A u \in Trades : db[u].st # "none" => db'[u].paper = db[u].paper
  <2>1. PICK k \in TradeType : k = db'[t]
    BY TypesNext DEF Types
  <2>2. \A u \in Trades : u # t => db'[u] = db[u]
    BY <1>0, <1>2, WrittenAlone
  <2>3. CASE /\ db[t].st = "none" /\ db'[t].st = "pending"
             /\ idx' = [idx EXCEPT !["pending"] = @ \cup {t}]
    <3>1. \A u \in Trades, st \in Statuses :
            u \in idx'[st] <=> u \in idx[st] \/ (u = t /\ st = "pending")
      BY <1>0, <2>3 DEF Types
    <3>2. \A st \in Statuses : t \notin idx[st]
      BY <1>0, <2>3 DEF Listed, Statuses
    <3> QED
      BY <1>0, <2>2, <2>3, <3>1, <3>2 DEF Listed
  <2>4. ASSUME db[t].st # "none", k.st # "none", k.paper = db[t].paper,
               NEW old, Update(t, k, old), db[t].paper \/ old = db[t].st
        PROVE  Listed' /\ \A u \in Trades : db[u].st # "none" => db'[u].paper = db[u].paper
    <3>1. db[t].st \in Statuses /\ k.st \in Statuses
      BY <1>0, <2>1, <2>4 DEF Types, TradeType
    <3>2. \A u \in Trades, st \in Statuses : u # t => (u \in idx'[st] <=> u \in idx[st])
      BY <1>0, <2>4 DEF Update, Types
    <3>3. ASSUME ~db[t].paper, NEW st \in Statuses PROVE t \in idx'[st] <=> st = k.st
      <4>1. t \in idx[st] <=> st = db[t].st
        BY <1>0, <3>3 DEF Listed
      <4> QED
        BY <1>0, <2>4, <3>1, <3>3, <4>1 DEF Update, Types
    <3> QED
      BY <1>0, <2>1, <2>2, <2>4, <3>2, <3>3 DEF Listed
  <2> QED
    BY <1>2, <2>1, <2>3, <2>4, TrueStatus, <2>2
<1> QED
  BY <1>1, <1>2, SomeWriter

LEMMA SamePaperNext ==
  ASSUME RecordIInv, WatchInv, Indexed, [Next]_vars
  PROVE  SamePaper'
<1>0. /\ SamePaper /\ Knowledge
      /\ \A t \in Trades : db[t].st # "none" => db'[t].paper = db[t].paper
      /\ \A d \in Clients : RequestWay(req[d], req'[d])
      /\ ReaderWay(ws, ws')
  BY Ways, ListedNext DEF RecordIInv, Indexed
<1>1. ASSUME ws'.pc # "idle" PROVE ws'.copy.paper = db'[ws'.t].paper
  <2>1. CASE TakeFill /\ ws'.copy = db[ws'.t]
    BY <2>1 DEF TakeFill, redis
  <2>2. CASE ws' = ws \/ (<<ws.pc, ws'.pc>> \in ReaderPairs /\ ws'.t = ws.t
                          /\ ws'.copy.paper = ws.copy.paper)
    <3>1. ws.pc # "idle" /\ ws'.t = ws.t /\ ws'.copy.paper = ws.copy.paper
      BY <1>1, <2>2 DEF ReaderPairs
    <3> QED
      BY <1>0, <3>1 DEF SamePaper, Knowledge, ReaderKnows
  <2> QED
    BY <1>0, <1>1, <2>1, <2>2 DEF ReaderWay
<1>2. ASSUME NEW c \in Clients, req'[c].pc \notin {"idle", "create"}
      PROVE  req'[c].copy.paper = db'[req'[c].t].paper
  <2>1. RequestKnows(req[c])
    BY <1>0 DEF Knowledge
  <2>2. CASE req'[c] = req[c]
    BY <1>0, <1>2, <2>1, <2>2 DEF SamePaper, RequestKnows
  <2>3. CASE req'[c].t \in Trades /\ db[req'[c].t].st # "none" /\ req'[c].copy = db[req'[c].t]
    BY <1>0, <2>3
  <2>4. CASE /\ <<req[c].pc, req'[c].pc>> \in RequestPairs /\ req'[c].t = req[c].t
             /\ req'[c].copy.paper = req[c].copy.paper /\ req[c].pc # "create"
    <3>1. req[c].pc \notin {"idle", "create"}
      BY <2>4 DEF RequestPairs
    <3> QED
      BY <1>0, <2>1, <2>4, <3>1 DEF SamePaper, RequestKnows
  <2>5. CASE /\ <<req[c].pc, req'[c].pc>> \in RequestPairs /\ req'[c].t = req[c].t
             /\ req'[c].copy.paper = req[c].copy.paper /\ req[c].pc = "create"
    <3>1. req'[c].pc = "record" /\ req'[c] # req[c]
      BY <2>5 DEF RequestPairs
    <3> QED
      BY <2>5, <3>1, RequestDeeds
  <2> QED
    BY <1>0, <1>2, <2>2, <2>3, <2>4, <2>5 DEF RequestWay
<1> QED
  BY <1>1, <1>2 DEF SamePaper

LEMMA NobodySoldNext ==
  ASSUME RecordIInv, Indexed, SoldByLimit', [Next]_vars
  PROVE  NobodySold'
<1>0. /\ NobodySold /\ Knowledge
      /\ \A t \in Trades : ~SellAll(t, "market")
  BY NoMarketSale DEF Indexed, RecordIInv
<1>1. sl'.pc # "stopped"
  <2>1. SUFFICES ASSUME sl'.pc = "stopped" PROVE FALSE
    OBVIOUS
  <2>2. sl' # sl
    BY <1>0, <2>1 DEF NobodySold
  <2>3. sl.pc = "sell" /\ SellAll(sl.t, "market")
    BY <2>1, <2>2, StopDeeds
  <2> QED
    BY <1>0, <2>3 DEF Knowledge, StopKnows
<1>2. ASSUME NEW c \in Clients, req'[c].pc = "sold" PROVE FALSE
  <2>1. req'[c] # req[c]
    BY <1>0, <1>2 DEF NobodySold
  <2>2. req[c].pc = "sell" /\ SellAll(req[c].t, "market")
    BY <1>2, <2>1, RequestDeeds
  <2> QED
    BY <1>0, <2>2 DEF Knowledge, RequestKnows
<1> QED
  BY <1>1, <1>2 DEF NobodySold

(* The record of a bought trade is written by the reader only.             *)
LEMMA ReaderWritesBought ==
  ASSUME RecordIInv, WatchInv, Indexed, [Next]_vars, NEW t \in Trades, Bought(t),
         ws.pc # "idle", ws.t = t, db'[t] # db[t]
  PROVE  WrittenByReader(t)
<1>0. OnlyBuilder /\ NobodySold
  BY DEF WatchInv, Indexed
<1>1. ~Unbuyable(t)
  BY DEF Bought, Did, Unbuyable
<1>2. ASSUME NEW d \in Clients PROVE ~WrittenByRequest(d, t)
  <2>1. req[d].t = t => ~Building(d)
    BY <1>0 DEF OnlyBuilder, LeftAlone
  <2> QED
    BY <1>0, <1>1, <2>1 DEF WrittenByRequest, Building, NobodySold
<1> QED
  BY <1>0, <1>2, Writers DEF WrittenByStop, NobodySold

LEMMA ReaderIsFreshNext ==
  ASSUME RecordIInv, WatchInv, Indexed, [Next]_vars
  PROVE  ReaderIsFresh'
<1>0. /\ ReaderIsFresh /\ Knowledge /\ Known /\ Types /\ ReaderWay(ws, ws')
      /\ Expected /\ Once
  BY Ways DEF Indexed, RecordIInv, WatchInv
<1>1. ASSUME ws'.pc \in {"bought", "sold"}
      PROVE  /\ ws'.copy.st = db'[ws'.t].st
             /\ ws'.pc = "bought" => ws'.copy.st = "pending"
  <2>1. CASE ws' = ws
    <3>1. PICK t \in Trades : t = ws.t /\ Bought(t)
      BY <1>0, <1>1, <2>1 DEF Knowledge, ReaderKnows
    <3>2. db'[t] = db[t]
      BY <1>1, <2>1, <3>1, ReaderWritesBought DEF WrittenByReader
    <3> QED
      BY <1>0, <1>1, <2>1, <3>1, <3>2 DEF ReaderIsFresh
  <2>2. CASE /\ TakeFill /\ ws'.copy = db[ws'.t] /\ ws'.t \in Trades
             /\ ws'.pc = "bought" => db[ws'.t].buy = Head(wire)
    <3>1. db' = db
      BY <2>2 DEF TakeFill, redis
    <3>2. ASSUME ws'.pc = "bought" PROVE db[ws'.t].st = "pending"
      <4>1. PICK t \in Trades : t = ws'.t
        BY <2>2
      <4>2. AtExchange(t)
        BY <1>0, <1>1, <2>2, <3>2, <4>1, FillTaken
      <4>3. db[t].st \in {"none", "pending"}
        BY <1>0, <4>2 DEF Expected, ToCome, Expects
      <4>4. db[t].buy # None
        BY <2>2, <3>2, <4>1, HeadIsOrder
      <4>5. db[t].st # "none"
        BY <1>0, <4>4 DEF Known, NoTrade
      <4> QED
        BY <4>1, <4>3, <4>5
    <3> QED
      BY <2>2, <3>1, <3>2
  <2> QED
    BY <1>0, <1>1, <2>1, <2>2 DEF ReaderWay, ReaderPairs
<1>2. ASSUME ws'.pc \in Selling PROVE db'[ws'.t].st = "filled"
  <2>1. ws' = ws \/ (<<ws.pc, ws'.pc>> \in ReaderPairs /\ ws'.t = ws.t)
    BY <1>0, <1>2 DEF ReaderWay, Selling
  <2>2. ws'.t = ws.t /\ ws.pc \in Selling \cup {"bought"}
    BY <1>2, <2>1 DEF ReaderPairs, Selling
  <2>3. PICK t \in Trades : t = ws.t /\ Bought(t)
    BY <1>0, <2>2 DEF Knowledge, ReaderKnows, Selling, Truthful
  <2>4. CASE db'[t] # db[t]
    <3>1. WrittenByReader(t)
      BY <2>2, <2>3, <2>4, ReaderWritesBought DEF Selling
    <3> QED
      BY <1>2, <2>2, <2>3, <3>1 DEF WrittenByReader, Selling
  <2>5. CASE ws.pc \in Selling
    BY <1>0, <2>2, <2>3, <2>4, <2>5 DEF ReaderIsFresh
  <2>6. CASE ws.pc = "bought"
    <3>1. db'[t].st \in {"filled", "error"}
      BY <1>2, <2>2, <2>3, SellsBoughtNext DEF SellsBought
    <3>2. db[t].st = "pending"
      BY <1>0, <2>3, <2>6 DEF ReaderIsFresh
    <3> QED
      BY <2>2, <2>3, <2>4, <3>1, <3>2
  <2> QED
    BY <2>2, <2>5, <2>6
<1> QED
  BY <1>1, <1>2 DEF ReaderIsFresh

LEMMA RequestIsFreshNext ==
  ASSUME RecordIInv, WatchInv, Indexed, [Next]_vars, NEW c \in Clients
  PROVE  RequestIsFresh(c)'
<1>0. /\ SamePaper /\ ReaderIsFresh /\ NobodySold /\ \A d \in Clients : RequestIsFresh(d)
      /\ Knowledge /\ Known /\ Books /\ OnlyBuilder /\ Expected
      /\ \A d \in Clients : RequestWay(req[d], req'[d])
  BY Ways DEF Indexed, RecordIInv, WatchInv
<1>1. ASSUME NEW d \in Clients, req[d].pc = "cancelled"
      PROVE  req[d].t \in Trades /\ Unbuyable(req[d].t) /\ ~Bought(req[d].t)
             /\ db[req[d].t].st # "none"
  BY <1>0, <1>1 DEF Knowledge, RequestKnows, Unbuyable, Bought, Did
(* A request that goes to the exchange finds the order open.               *)
<1>2. ASSUME NEW d \in Clients, req'[d].pc = "cancelled", req'[d] # req[d],
             ~req'[d].copy.paper
      PROVE  /\ req[d].pc = "cancel" /\ req'[d].t = req[d].t /\ req[d].t \in Trades
             /\ req'[d].copy.buy # None /\ ~Unbuyable(req[d].t) /\ db' = db
             /\ db[req[d].t].st = "pending"
             /\ req[d].copy.paper = req'[d].copy.paper
  <2>1. /\ req[d].pc = "cancel" /\ db' = db
        /\ req[d].copy.paper \/ (req[d].copy.buy \in Orders /\ ex[req[d].copy.buy].st = "open")
    BY <1>2, RequestDeeds
  <2>2. /\ req'[d].t = req[d].t /\ req'[d].copy.buy = req[d].copy.buy
        /\ req'[d].copy.paper = req[d].copy.paper
    BY <1>0, <1>2, <2>1 DEF RequestWay
  <2>3. PICK t \in Trades : t = req[d].t /\ Truthful(t, req[d].copy) /\ db[t].st # "none"
    BY <1>0, <2>1 DEF Knowledge, RequestKnows
  <2>4. PICK o \in Orders : o = req[d].copy.buy /\ ex[o].st = "open"
    BY <1>2, <2>1, <2>2
  <2>5. o # None
    BY CopilotAssumption DEF Orders, None
  <2>6. BuyOf(o, t)
    BY <2>3, <2>4, <2>5 DEF Truthful, BuyOf
  <2>7. ToCome(t) /\ ~Unbuyable(t)
    BY <2>4, <2>6 DEF ToCome, AtExchange, Unbuyable, BuyOf
  <2>8. db[t].st = "pending"
    BY <1>0, <2>3, <2>7 DEF Expected, Expects
  <2> QED
    BY <2>1, <2>2, <2>3, <2>4, <2>5, <2>7, <2>8
<1>3. ASSUME req'[c].pc = "create" PROVE db'[req'[c].t].st = "none"
  <2>1. CASE req'[c] = req[c]
    <3>1. PICK t \in Trades : t = req[c].t /\ db[t].st = "none"
      BY <1>0, <1>3, <2>1 DEF RequestIsFresh, Knowledge, RequestKnows
    <3>2. ASSUME NEW d \in Clients PROVE ~WrittenByRequest(d, t)
      <4>1. CASE d = c
        BY <1>3, <2>1, <4>1 DEF WrittenByRequest
      <4>2. CASE d # c
        <5>1. LeftAlone(c, t)
          BY <1>0, <1>3, <2>1, <3>1 DEF OnlyBuilder, Building
        <5>2. req[d].t = t => req[d].pc # "create"
          BY <4>2, <5>1 DEF LeftAlone
        <5> QED
          BY <1>0, <3>1, <5>2 DEF WrittenByRequest, Knowledge, RequestKnows
      <4> QED
        BY <4>1, <4>2
    <3>3. ~WrittenByReader(t) /\ ~WrittenByStop(t)
      BY <1>0, <3>1 DEF WrittenByReader, WrittenByStop, Knowledge, ReaderKnows, StopKnows
    <3> QED
      BY <2>1, <3>1, <3>2, <3>3, Writers
  <2>2. CASE req'[c].t \in Trades \ Taken
    <3>1. PICK t \in Trades \ Taken : t = req'[c].t
      BY <2>2
    <3>2. /\ db[t].st = "none" /\ \A d \in Clients : req[d].t # t
          /\ ~WrittenByReader(t) /\ ~WrittenByStop(t)
      BY <3>1, Nobodys DEF NoTrade, WrittenByReader, WrittenByStop
    <3> QED
      BY <3>1, <3>2, Writers DEF WrittenByRequest
  <2> QED
    BY <1>0, <1>3, <2>1, <2>2 DEF RequestWay, RequestPairs
<1>4. ASSUME req'[c].pc \in {"record", "link", "cancelled"}, ~req'[c].copy.paper
      PROVE  db'[req'[c].t].st = "pending"
  <2>1. CASE req'[c] = req[c]
    <3>1. PICK t \in Trades : t = req[c].t /\ db[t].st = "pending"
      BY <1>0, <1>4, <2>1 DEF RequestIsFresh, Knowledge, RequestKnows
    <3>2. ASSUME NEW d \in Clients, WrittenByRequest(d, t) PROVE db'[t].st = "pending"
      <4>1. CASE req[d].pc # "cancelled"
        BY <1>0, <3>2, <4>1 DEF WrittenByRequest, NobodySold
      <4>2. CASE req[d].pc = "cancelled"
        <5>1. d # c /\ req[d].t = t
          BY <1>4, <2>1, <3>2, <4>2 DEF WrittenByRequest
        <5>2. ~req[d].copy.paper
          BY <1>0, <1>4, <2>1, <3>1, <4>2, <5>1 DEF SamePaper
        <5>3. req[d].copy.buy # None
          BY <1>0, <4>2, <5>2 DEF RequestIsFresh
        <5>4. ~Building(c)
          BY <1>0, <3>1, <4>2, <5>1, <5>3 DEF OnlyBuilder, LeftAlone
        <5>5. req[c].pc = "cancelled"
          BY <1>4, <2>1, <5>4 DEF Building
        <5> QED
          BY <1>0, <1>4, <2>1, <3>1, <4>2, <5>1, <5>5 DEF RequestIsFresh
      <4> QED
        BY <4>1, <4>2
    <3>3. ~WrittenByReader(t) /\ ~WrittenByStop(t)
      <4>1. WrittenByReader(t) => Bought(t)
        BY <1>0 DEF WrittenByReader, Knowledge, ReaderKnows, Truthful
      <4>2. Building(c) => ~WrittenByReader(t)
        BY <1>0, <3>1 DEF OnlyBuilder, LeftAlone, WrittenByReader
      <4>3. req[c].pc = "cancelled" => ~Bought(t)
        BY <1>1, <3>1
      <4> QED
        BY <1>0, <1>4, <2>1, <4>1, <4>2, <4>3 DEF Building, WrittenByStop, NobodySold
    <3> QED
      BY <2>1, <3>1, <3>2, <3>3, Writers
  <2>2. CASE req'[c] # req[c] /\ req'[c].pc = "cancelled"
    BY <1>2, <1>4, <2>2
  <2>3. CASE req'[c] # req[c] /\ req'[c].pc = "record"
    <3>1. req'[c].t = req[c].t /\ db'[req[c].t].st = "pending"
      BY <1>0, <2>3, RequestDeeds DEF RequestWay
    <3> QED
      BY <3>1
  <2>4. CASE req'[c] # req[c] /\ req'[c].pc = "link"
    <3>1. /\ db' = db /\ req'[c].t = req[c].t /\ req[c].pc = "record"
          /\ req'[c].copy.paper = req[c].copy.paper
      BY <1>0, <2>4, RequestDeeds DEF RequestWay, RequestPairs
    <3> QED
      BY <1>0, <1>4, <3>1 DEF RequestIsFresh
  <2> QED
    BY <1>4, <2>1, <2>2, <2>3, <2>4
<1>5. ASSUME req'[c].pc = "cancelled", ~req'[c].copy.paper
      PROVE  /\ req'[c].copy.buy # None
             /\ \A d \in Clients \ {c} : ~(req'[d].pc = "cancelled" /\ req'[d].t = req'[c].t)
  <2>1. req'[c].copy.buy # None
    BY <1>0, <1>2, <1>5 DEF RequestIsFresh
  <2>2. SUFFICES ASSUME NEW d \in Clients \ {c}, req'[d].pc = "cancelled",
                        req'[d].t = req'[c].t
                 PROVE  FALSE
    BY <2>1
  <2>3. CASE req'[c] = req[c] /\ req'[d] = req[d]
    BY <1>0, <1>5, <2>2, <2>3 DEF RequestIsFresh
  <2>4. CASE req'[c] # req[c]
    <3>1. req'[d] = req[d]
      BY <1>5, <2>4, OneRequest
    <3> QED
      BY <1>1, <1>2, <1>5, <2>2, <2>4, <3>1
  <2>5. CASE req'[c] = req[c] /\ req'[d] # req[d]
    <3>1. req[d].pc = "cancel" /\ req'[d].t = req[d].t /\ req'[d].copy.paper = req[d].copy.paper
      <4>1. req[d].pc = "cancel"
        BY <2>2, <2>5, RequestDeeds
      <4> QED
        BY <1>0, <2>2, <2>5, <4>1 DEF RequestWay
    <3>2. ~req'[d].copy.paper
      BY <1>0, <1>5, <2>2, <2>5, <3>1 DEF SamePaper
    <3> QED
      BY <1>1, <1>2, <1>5, <2>2, <2>5, <3>2
  <2> QED
    BY <2>3, <2>4, <2>5
<1> QED
  BY <1>3, <1>4, <1>5 DEF RequestIsFresh

LEMMA IndexInit == Init => IndexInv
<1> SUFFICES ASSUME Init PROVE Indexed
  BY DEF IndexInv
<1>1. Idle.pc = "idle" /\ NoTrade.st = "none"
  BY DEF Idle, NoTrade
<1> QED
  BY <1>1
  DEF Init, Indexed, Listed, SamePaper, ReaderIsFresh, RequestIsFresh, NobodySold, Selling,
      Statuses

LEMMA IndexNext ==
  ASSUME RecordIInv, WatchInv, IndexInv, [Next]_vars
  PROVE  IndexInv'
<1> SUFFICES ASSUME Orderly' PROVE Indexed'
  BY DEF IndexInv
<1>1. Indexed /\ SoldByLimit'
  BY DisturbanceStays DEF Orderly, IndexInv
<1>2. Listed' /\ SamePaper' /\ ReaderIsFresh' /\ NobodySold'
  BY <1>1, ListedNext, SamePaperNext, ReaderIsFreshNext, NobodySoldNext
<1>3. \A c \in Clients : RequestIsFresh(c)'
  BY <1>1, RequestIsFreshNext
<1> QED
  BY <1>2, <1>3 DEF Indexed

LEMMA WatchNext == RecordIInv /\ WatchInv /\ [Next]_vars => RecordIInv' /\ WatchInv'
BY RecordNext, OnlyBuilderNext, ExpectedNext, TakenOnceNext, SellsBoughtNext, WatchedNext
DEF WatchInv

(* A live trade is in the index of its status and in no other, although    *)
(* every writer names the status it read when it began.                    *)
THEOREM StatusIndexIsRight == Spec => []IndexMatches
<1>1. RecordIInv /\ WatchInv /\ IndexInv => IndexMatches
  BY DEF IndexInv, Orderly, Undisturbed, Indexed, Listed, IndexMatches, Created
<1> QED
  BY <1>1, RecordInit, WatchInit, IndexInit, WatchNext, IndexNext, PTL DEF Spec

(* Whether one of the account's coins is offered.  Of the one bought trade *)
(* of an undisturbed account the coin is free or in one sell order;        *)
(* somebody is about to offer a free coin, and who has placed the sell     *)
(* order is about to write it into the record.                             *)
SoldIsBought == \A o \in Orders : ex[o].side = "sell" => Bought(ex[o].t)
NotYetSold == \A t \in Trades : ToCome(t) =>
    \A o \in Orders : ex[o].t = t => ex[o].side # "sell"
Live(o) == ex[o].side = "sell" /\ ex[o].st \in {"open", "filled"}
NoneLive == \A o \in Orders : ~Live(o)
Seller(t) ==
    \/ ws.pc = "offer" /\ ws.t = t
    \/ \E c \in Clients : req[c].pc = "sell" /\ req[c].t = t
    \/ sl.pc = "sell" /\ sl.t = t
ReaderRecords(o) == ws.pc \in {"record", "link"} /\ ws.copy.sell = o
RequestRecords(c, o) == req[c].pc = "sold" /\ req[c].copy.sell = o
StopRecords(o) == sl.pc = "stopped" /\ sl.copy.sell = o
Recording(o) ==
    ReaderRecords(o) \/ StopRecords(o) \/ \E c \in Clients : RequestRecords(c, o)
CoinAccounts ==
    /\ coins \in {0, 1}
    /\ \A o \in Orders : ex[o].side = "sell" => ex[o].amt = 1
    /\ coins = 1 => NoneLive /\ \E t \in Trades : Bought(t)
    /\ \A t \in Trades : Bought(t) /\ NoneLive => coins = 1
    /\ \A o, p \in Orders : Live(o) /\ Live(p) => o = p
Recorders ==
    /\ ws.pc \in {"record", "link"} =>
         /\ ws.copy.sell \in Orders /\ Live(ws.copy.sell)
         /\ \A t \in Trades : db[t].sell # ws.copy.sell
         /\ \A c \in Clients : req[c].pc = "uncover" => req[c].copy.sell # ws.copy.sell
         /\ \A c \in Clients : req[c].pc # "sold"
         /\ sl.pc # "stopped"
    /\ \A c \in Clients : req[c].pc = "sold" =>
         req[c].copy.sell \in Orders /\ Live(req[c].copy.sell) /\ ex[req[c].copy.sell].st = "filled"
    /\ sl.pc = "stopped" =>
         sl.copy.sell \in Orders /\ Live(sl.copy.sell) /\ ex[sl.copy.sell].st = "filled"
Offered ==
    \A t \in Trades : db[t].st = "filled" =>
        /\ coins = 1 => Seller(t)
        /\ \A o \in Orders : Live(o) => db[t].sell = o \/ Recording(o)
OfferInv == Undisturbed => CoinAccounts /\ Recorders /\ Offered

(* How the coin moves.                                                     *)
Keeps == ex' = ex /\ coins' = coins
Withdraws(o) ==
    /\ ex[o].side = "buy" /\ ex[o].st = "open"
    /\ ex' = [ex EXCEPT ![o].st = "cancelled"] /\ coins' = coins /\ db' = db
Uncovers(o) ==
    /\ ex[o].side = "sell" /\ ex[o].st = "open"
    /\ ex' = [ex EXCEPT ![o].st = "cancelled"] /\ coins' = coins + ex[o].amt /\ db' = db
    /\ Seller(ex[o].t)'
    /\ \/ \E c \in Clients : req[c].pc = "uncover" /\ req[c].copy.sell = o
       \/ sl.pc = "uncover" /\ sl.copy.sell = o /\ sl.t = ex[o].t
Sells(t, kind) ==
    /\ SellAll(t, kind) /\ Bought(t) /\ Seller(t) /\ db' = db
    /\ \E o \in Orders : o = NewOrder /\ Recording(o)'

LEMMA CancelTrades ==
  ASSUME Types, NEW o, NEW ok, CancelAnswer(o, ok)
  PROVE  \/ Keeps
         \/ /\ o \in Orders /\ ex[o].st = "open" /\ ex' = [ex EXCEPT ![o].st = "cancelled"]
            /\ coins' = IF ex[o].side = "sell" THEN coins + ex[o].amt ELSE coins
BY DEF CancelAnswer, Keeps, exchange

LEMMA RequestTrades ==
  ASSUME RecordIInv, NEW c \in Clients, Request(c) \/ RequestStep(c)
  PROVE  \/ Keeps \/ PlaceBuy(c)
         \/ \E o \in Orders : Withdraws(o) \/ Uncovers(o)
         \/ \E t \in Trades, kind \in {"limit", "market"} : Sells(t, kind)
<1>0. Types /\ RequestKnows(req[c]) /\ req[c] \in ProcType /\ req[c].copy \in TradeType
      /\ req \in [Clients -> ProcType] /\ 0 \notin Orders
  BY DEF RecordIInv, Types, Knowledge, ProcType, Orders
<1>1. CASE CancelAtExchange(c)
  <2>1. PICK ok \in BOOLEAN : CancelAnswer(req[c].copy.buy, ok) \/ UNCHANGED exchange
    BY <1>1 DEF CancelAtExchange
  <2>2. req[c].pc = "cancel" /\ db' = db
    BY <1>1 DEF CancelAtExchange, At, redis
  <2>3. req[c].copy.buy \in Orders => ex[req[c].copy.buy].side = "buy"
    BY <1>0, <2>2 DEF RequestKnows, Truthful, None
  <2> QED
    BY <1>0, <2>1, <2>2, <2>3, CancelTrades DEF Keeps, exchange, Withdraws
<1>2. CASE ManualCancel(c)
  <2>1. PICK ok \in BOOLEAN : CancelAnswer(req[c].copy.sell, ok)
    BY <1>2 DEF ManualCancel
  <2>2. req[c].pc = "uncover" /\ db' = db /\ req' = [req EXCEPT ![c].pc = "sell"]
    BY <1>2 DEF ManualCancel, At, redis, Go
  <2>3. req[c].copy.sell \in Orders =>
          ex[req[c].copy.sell].side = "sell" /\ ex[req[c].copy.sell].t = req[c].t
    BY <1>0, <2>2 DEF RequestKnows, Truthful, None
  <2>4. req'[c].pc = "sell" /\ req'[c].t = req[c].t
    BY <1>0, <2>2 DEF ProcType
  <2>5. ASSUME NEW o \in Orders, o = req[c].copy.sell, ex[o].st = "open",
               ex' = [ex EXCEPT ![o].st = "cancelled"],
               coins' = IF ex[o].side = "sell" THEN coins + ex[o].amt ELSE coins
        PROVE  Uncovers(o)
    <3>1. ex[o].side = "sell" /\ ex[o].t = req[c].t
      BY <2>3, <2>5
    <3>2. ex[o] \in OrderType
      BY <1>0 DEF Types
    <3>3. ex'[o].t = req[c].t
      BY <1>0, <2>5, <3>1, <3>2 DEF Types, OrderType
    <3>4. Seller(ex[o].t)'
      BY <2>4, <3>3 DEF Seller
    <3> QED
      BY <2>2, <2>5, <3>1, <3>4 DEF Uncovers
  <2> QED
    BY <1>0, <2>1, <2>5, CancelTrades
<1>3. CASE ManualTrade(c)
  <2>1. SellRefused => Keeps
    BY DEF SellRefused, Keeps, exchange
  <2>2. ASSUME SellAll(req[c].t, "market"), ~SellRefused PROVE Sells(req[c].t, "market")
    <3>1. PICK o \in Orders : o = NewOrder
      BY <2>2 DEF SellAll
    <3>2. req'= [req EXCEPT ![c].copy.sell = o, ![c].pc = "sold"]
          /\ req[c].pc = "sell" /\ db' = db
      BY <1>3, <2>2, <3>1 DEF ManualTrade, At, redis
    <3>3. req'[c].pc = "sold" /\ req'[c].copy.sell = o
      BY <1>0, <3>2 DEF ProcType, TradeType
    <3>4. Recording(o)'
      BY <3>3 DEF Recording, RequestRecords
    <3>5. Bought(req[c].t)
      BY <1>0, <3>2 DEF RequestKnows, Truthful
    <3> QED
      BY <2>2, <3>1, <3>2, <3>4, <3>5 DEF Sells, Seller
  <2>3. req[c].t \in Trades
    BY <1>0, <1>3 DEF ManualTrade, At, RequestKnows
  <2> QED
    BY <1>3, <2>1, <2>2, <2>3 DEF ManualTrade
<1> QED
  BY <1>1, <1>2, <1>3
  DEF Request, RequestStep, PlacePaperBuy, CancelBuy, ManualSell, CreateTrade,
      CreateOrder, LinkBuy, ReadPaper, SavePaper, MarkCancelled, MarkSold, Keeps, exchange

LEMMA ReaderTrades ==
  ASSUME RecordIInv, WsStep
  PROVE  Keeps \/ \E t \in Trades, kind \in {"limit", "market"} : Sells(t, kind)
<1>0. Types /\ ReaderKnows(ws) /\ ws \in ProcType /\ ws.copy \in TradeType
  BY DEF RecordIInv, Types, Knowledge, ProcType
<1>1. CASE AutoSell
  <2>1. PICK o \in Orders : o = NewOrder
    BY <1>1 DEF AutoSell, SellAll
  <2>2. /\ ws.pc = "offer" /\ SellAll(ws.t, "limit") /\ db' = db
        /\ ws' = [ws EXCEPT !.o = o, !.copy.sell = o, !.pc = "record"]
    BY <1>1, <2>1 DEF AutoSell, WsAt, redis
  <2>3. ws'.pc = "record" /\ ws'.copy.sell = o
    BY <1>0, <2>2 DEF ProcType, TradeType
  <2>4. Recording(o)'
    BY <2>3 DEF Recording, ReaderRecords
  <2>5. ws.t \in Trades /\ Bought(ws.t)
    BY <1>0, <2>2 DEF ReaderKnows, Truthful
  <2> QED
    BY <2>1, <2>2, <2>4, <2>5 DEF Sells, Seller
<1>2. SellRefused => Keeps
  BY DEF SellRefused, Keeps, exchange
<1> QED
  BY <1>1, <1>2 DEF WsStep, TakeFill, MarkBought, AutoSellFails, RecordSell, LinkSell, AddTrade,
                    CompleteTrade, RemoveTrade, Keeps, exchange

LEMMA StopTrades ==
  ASSUME RecordIInv, StopLossStep \/ \E t \in Trades : StopLossHit(t)
  PROVE  \/ Keeps
         \/ \E o \in Orders : Uncovers(o)
         \/ \E t \in Trades, kind \in {"limit", "market"} : Sells(t, kind)
<1>0. Types /\ StopKnows(sl) /\ sl \in ProcType /\ sl.copy \in TradeType /\ 0 \notin Orders
  BY DEF RecordIInv, Types, Knowledge, ProcType, Orders
<1>1. CASE StopCancel
  <2>1. PICK ok \in BOOLEAN : CancelAnswer(sl.copy.sell, ok)
    BY <1>1 DEF StopCancel
  <2>2. sl.pc = "uncover" /\ db' = db /\ sl' = [sl EXCEPT !.pc = "sell"]
    BY <1>1 DEF StopCancel, SlAt, redis
  <2>3. sl.copy.sell \in Orders =>
          ex[sl.copy.sell].side = "sell" /\ ex[sl.copy.sell].t = sl.t
    BY <1>0, <2>2 DEF StopKnows, Truthful, None
  <2>4. sl'.pc = "sell" /\ sl'.t = sl.t
    BY <1>0, <2>2 DEF ProcType
  <2>5. ASSUME NEW o \in Orders, o = sl.copy.sell, ex[o].st = "open",
               ex' = [ex EXCEPT ![o].st = "cancelled"],
               coins' = IF ex[o].side = "sell" THEN coins + ex[o].amt ELSE coins
        PROVE  Uncovers(o)
    <3>1. ex[o].side = "sell" /\ ex[o].t = sl.t
      BY <2>3, <2>5
    <3>2. ex[o] \in OrderType
      BY <1>0 DEF Types
    <3>3. ex'[o].t = sl.t
      BY <1>0, <2>5, <3>1, <3>2 DEF Types, OrderType
    <3>4. Seller(ex[o].t)'
      BY <2>4, <3>3 DEF Seller
    <3> QED
      BY <2>2, <2>5, <3>1, <3>4 DEF Uncovers
  <2> QED
    BY <1>0, <2>1, <2>5, CancelTrades
<1>2. CASE StopSell
  <2>1. SellRefused => Keeps
    BY DEF SellRefused, Keeps, exchange
  <2>2. ASSUME SellAll(sl.t, "market"), ~SellRefused PROVE Sells(sl.t, "market")
    <3>1. PICK o \in Orders : o = NewOrder
      BY <2>2 DEF SellAll
    <3>2. /\ sl' = [sl EXCEPT !.copy.sell = o, !.copy.st = "stopped", !.pc = "stopped"]
          /\ sl.pc = "sell" /\ db' = db
      BY <1>2, <2>2, <3>1 DEF StopSell, SlAt, redis
    <3>3. sl'.pc = "stopped" /\ sl'.copy.sell = o
      BY <1>0, <3>2 DEF ProcType, TradeType
    <3>4. Recording(o)'
      BY <3>3 DEF Recording, StopRecords
    <3>5. Bought(sl.t)
      BY <1>0, <3>2 DEF StopKnows, Truthful
    <3> QED
      BY <2>2, <3>1, <3>2, <3>4, <3>5 DEF Sells, Seller
  <2>3. sl.t \in Trades
    BY <1>0, <1>2 DEF StopSell, SlAt, StopKnows
  <2> QED
    BY <1>2, <2>1, <2>2, <2>3 DEF StopSell
<1> QED
  BY <1>1, <1>2 DEF StopLossStep, StopLossHit, MarkStopped, StopForget, Keeps, exchange

LEMMA Trading ==
  ASSUME RecordIInv, [Next]_vars
  PROVE  \/ Keeps
         \/ \E o \in Orders : ExFill(o) \/ Withdraws(o) \/ Uncovers(o)
         \/ \E c \in Clients : PlaceBuy(c)
         \/ \E t \in Trades, kind \in {"limit", "market"} : Sells(t, kind)
<1>1. Crash \/ UNCHANGED vars => Keeps
  BY DEF Crash, vars, exchange, Keeps
<1> QED
  BY <1>1, RequestTrades, ReaderTrades, StopTrades DEF Next

LEMMA AtMostOne ==
  ASSUME NEW S, S \subseteq Trades, Cardinality(S) <= 1, NEW t \in S, NEW u \in S
  PROVE  t = u
<1>1. SUFFICES ASSUME t # u PROVE FALSE
  OBVIOUS
<1>2. IsFiniteSet(Trades)
  BY CopilotAssumption, FS_Interval DEF Trades
<1>3. IsFiniteSet(S) /\ Cardinality(S) \in Nat
  BY <1>2, FS_Subset, FS_CardinalityType
<1>4. {t, u} \subseteq S /\ Cardinality({t, u}) = 2
  <2>1. Cardinality({t}) = 1 /\ IsFiniteSet({t})
    BY FS_Singleton
  <2>2. {t, u} = {t} \cup {u} /\ u \notin {t}
    BY <1>1
  <2>3. Cardinality({t} \cup {u}) = Cardinality({t}) + 1
    BY <2>1, <2>2, FS_AddElement
  <2> QED
    BY <2>1, <2>2, <2>3
<1>5. Cardinality({t, u}) <= Cardinality(S)
  BY ONLY <1>3, <1>4, FS_Subset
<1> QED
  BY <1>3, <1>4, <1>5

(* Who is undisturbed always was; at most one trade is bought.             *)
LEMMA Undisturbing ==
  ASSUME RecordIInv, [Next]_vars, Undisturbed'
  PROVE  /\ Undisturbed /\ ~Crash /\ refusals' = 0
         /\ \A t, u \in Trades : Bought(t)' /\ Bought(u)' => t = u
         /\ \A t \in Trades : Bought(t) => Bought(t)'
<1>1. ASSUME NEW t \in Trades, Bought(t) PROVE Bought(t)'
  <2>1. t \in Taken
    BY <1>1 DEF Bought, Did, Taken
  <2> QED
    BY <1>1, <2>1, MovesOn, TruthStays DEF RecordIInv
<1>2. \A t, u \in Trades : Bought(t)' /\ Bought(u)' => t = u
  <2> DEFINE S == {t \in Trades : Bought(t)'}
  <2>1. Cardinality(S) <= 1 /\ S \subseteq Trades
    BY DEF Undisturbed, Alone
  <2> HIDE DEF S
  <2>2. \A t, u \in S : t = u
    BY <2>1, AtMostOne
  <2> QED
    BY <2>2 DEF S
<1>3. Alone
  <2> DEFINE S == {t \in Trades : Bought(t)'}
             R == {t \in Trades : Bought(t)}
  <2>1. Cardinality(S) <= 1 /\ UserCoins = 0
    BY DEF Undisturbed, Alone
  <2>2. R \subseteq S
    BY <1>1
  <2>3. IsFiniteSet(S)
    <3>1. IsFiniteSet(Trades) /\ S \subseteq Trades
      BY CopilotAssumption, FS_Interval DEF Trades
    <3> HIDE DEF S
    <3> QED
      BY <3>1, FS_Subset
  <2>4. Cardinality(R) <= 1
    <3> HIDE DEF S, R
    <3>1. IsFiniteSet(R) /\ Cardinality(R) <= Cardinality(S)
      BY <2>2, <2>3, FS_Subset
    <3>2. Cardinality(R) \in Nat /\ Cardinality(S) \in Nat
      BY <2>3, <3>1, FS_CardinalityType
    <3> QED
      BY <2>1, <3>1, <3>2
  <2> QED
    BY <2>1, <2>4 DEF Alone
<1> QED
  BY <1>1, <1>2, <1>3, DisturbanceStays DEF Undisturbed

LEMMA NewSale ==
  ASSUME Types, Books, NEW t, NEW kind \in {"limit", "market"}, SellAll(t, kind),
         NEW o \in Orders, o = NewOrder
  PROVE  /\ ex[o] = NoOrder
         /\ ex'[o].side = "sell" /\ ex'[o].t = t /\ ex'[o].amt = coins
         /\ ex'[o].st \in {"open", "filled"} /\ (kind = "market" => ex'[o].st = "filled")
         /\ \A p \in Orders : p # o => ex'[p] = ex[p]
BY NextNumber DEF SellAll, Types

(* Sell orders are placed by sales only.                                   *)
LEMMA SellSides ==
  ASSUME RecordIInv, [Next]_vars, NEW o \in Orders, ex'[o].side = "sell"
  PROVE  \/ ex[o].side = "sell" /\ ex'[o].t = ex[o].t /\ ex'[o].amt = ex[o].amt
         \/ \E t \in Trades, kind \in {"limit", "market"} :
              Sells(t, kind) /\ o = NewOrder /\ ex'[o].t = t /\ ex'[o].amt = coins
<1>0. Types /\ Books /\ Onward
  BY MovesOn DEF RecordIInv
<1>1. CASE ex[o].st # "none"
  BY <1>0, <1>1 DEF Onward
<1>2. CASE ex[o].st = "none"
  <2>1. ex[o].side = "none"
    BY <1>0, <1>2 DEF Books, NoOrder
  <2>2. ~Keeps
    BY <2>1 DEF Keeps
  <2>3. \A p \in Orders : ~(ExFill(p) \/ Withdraws(p) \/ Uncovers(p))
    <3> SUFFICES ASSUME NEW p \in Orders, ex[p].st = "open", NEW st,
                        ex' = [ex EXCEPT ![p].st = st]
                 PROVE  FALSE
      BY DEF ExFill, Withdraws, Uncovers
    <3>1. p # o
      BY <1>2
    <3>2. ex'[o] = ex[o]
      BY <1>0, <3>1 DEF Types
    <3> QED
      BY <2>1, <3>2
  <2>4. ASSUME NEW c \in Clients, PlaceBuy(c) PROVE FALSE
    <3>1. ex'[o].side = "buy" \/ ex'[o] = ex[o]
      BY <1>0, <2>4 DEF PlaceBuy, Types
    <3> QED
      BY <2>1, <3>1
  <2>5. PICK t \in Trades, kind \in {"limit", "market"} : Sells(t, kind)
    BY <2>2, <2>3, <2>4, Trading
  <2>6. PICK p \in Orders : p = NewOrder
    BY <2>5 DEF Sells
  <2>7. /\ ex'[p].t = t /\ ex'[p].amt = coins /\ \A q \in Orders : q # p => ex'[q] = ex[q]
    BY <1>0, <2>5, <2>6, NewSale DEF Sells
  <2>8. p = o
    BY <2>1, <2>7
  <2> QED
    BY <2>5, <2>6, <2>7, <2>8
<1> QED
  BY <1>1, <1>2

LEMMA SoldIsBoughtNext ==
  ASSUME RecordIInv, [Next]_vars, SoldIsBought
  PROVE  SoldIsBought'
<1> SUFFICES ASSUME NEW o \in Orders, ex'[o].side = "sell" PROVE Bought(ex[o].t)'
  BY DEF SoldIsBought
<1>1. PICK t \in Trades : t = ex'[o].t /\ Bought(t)
  <2>1. CASE ex[o].side = "sell" /\ ex'[o].t = ex[o].t
    <3>1. ex[o].t \in Trades
      BY <2>1 DEF RecordIInv, Books, NoOrder
    <3> QED
      BY <2>1, <3>1 DEF SoldIsBought
  <2> QED
    BY <2>1, SellSides DEF Sells
<1>2. t \in Taken
  BY <1>1 DEF Bought, Did, Taken
<1>3. Bought(t)'
  BY <1>1, <1>2, MovesOn, TruthStays DEF RecordIInv
<1> QED
  BY <1>1, <1>3 DEF Bought, Did

LEMMA NotYetSoldNext ==
  ASSUME RecordIInv, WatchInv, [Next]_vars, NotYetSold
  PROVE  NotYetSold'
<1> SUFFICES ASSUME NEW t \in Trades, ToCome(t)', NEW o \in Orders, ex'[o].t = t,
                    ex'[o].side = "sell"
             PROVE  FALSE
  BY DEF NotYetSold
<1>1. ToCome(t) \/ t \notin Taken
  BY Comes
<1>2. Expects(t)
  BY <1>1, Nobodys DEF WatchInv, Expected
<1>3. CASE ex[o].side = "sell" /\ ex'[o].t = ex[o].t
  <2>1. t \in Taken
    BY <1>3 DEF Taken
  <2> QED
    BY <1>1, <1>3, <2>1 DEF NotYetSold
<1>4. CASE \E kind : Sells(t, kind)
  BY <1>2, <1>4 DEF Sells, Seller, Expects, Selling
<1> QED
  BY <1>3, <1>4, SellSides

(* An order that fills, or is cancelled, is otherwise what it was.         *)
LEMMA Restated ==
  ASSUME Types, NEW o \in Orders, ex[o].st = "open", NEW st \in {"filled", "cancelled"},
         ex' = [ex EXCEPT ![o].st = st]
  PROVE  /\ \A p \in Orders : p # o => ex'[p] = ex[p]
         /\ ex'[o].st = st /\ ex'[o].t = ex[o].t /\ ex'[o].side = ex[o].side
         /\ ex'[o].kind = ex[o].kind /\ ex'[o].amt = ex[o].amt
<1>1. ex[o] \in OrderType
  BY DEF Types
<1> QED
  BY <1>1 DEF Types, OrderType

(* A purchase is the only one, and its coin is free.                       *)
LEMMA CoinBought ==
  ASSUME RecordIInv, [Next]_vars, Undisturbed', SoldIsBought, CoinAccounts,
         NEW o \in Orders, ExFill(o), ex[o].side = "buy"
  PROVE  /\ \A t \in Trades : ~Bought(t)
         /\ coins = 0 /\ coins' = 1 /\ NoneLive /\ NoneLive' /\ Bought(ex[o].t)'
<1>0. Types /\ Books
  BY DEF RecordIInv
<1>1. ex[o].st = "open" /\ ex' = [ex EXCEPT ![o].st = "filled"] /\ coins' = coins + ex[o].amt
  BY DEF ExFill
<1>2. ex[o].amt = 1 /\ ex[o].kind = "limit"
  BY <1>0 DEF Books
<1>3. PICK t \in Trades : t = ex[o].t
  BY <1>0, <1>1 DEF Books
<1>4. /\ \A p \in Orders : p # o => ex'[p] = ex[p]
      /\ ex'[o].st = "filled" /\ ex'[o].t = t /\ ex'[o].side = "buy" /\ ex'[o].kind = "limit"
  BY <1>0, <1>1, <1>2, <1>3, Restated
<1>5. Bought(t)'
  BY <1>4 DEF Bought, Did
<1>6. ~Bought(t)
  BY <1>0, <1>1, <1>3 DEF Bought, Did, Books
<1>7. \A u \in Trades : ~Bought(u)
  BY <1>5, <1>6, Undisturbing
<1>8. \A p \in Orders : ex[p].side # "sell"
  <2> SUFFICES ASSUME NEW p \in Orders, ex[p].side = "sell" PROVE FALSE
    OBVIOUS
  <2>1. ex[p].t \in Trades
    BY <1>0 DEF Books, NoOrder
  <2> QED
    BY <1>7, <2>1 DEF SoldIsBought
<1>9. coins = 0
  BY <1>7 DEF CoinAccounts
<1>10. \A p \in Orders : ex'[p].side # "sell"
  BY <1>4, <1>8
<1> QED
  BY <1>1, <1>2, <1>3, <1>5, <1>7, <1>8, <1>9, <1>10 DEF NoneLive, Live, Bought, Did

LEMMA CoinNext ==
  ASSUME RecordIInv, [Next]_vars, Undisturbed', SoldIsBought, CoinAccounts
  PROVE  CoinAccounts'
<1>0. /\ Types /\ Books /\ Onward /\ SoldIsBought'
      /\ \A t \in Trades : Bought(t) => Bought(t)'
  BY MovesOn, SoldIsBoughtNext, Undisturbing DEF RecordIInv
<1>1. ASSUME \A o \in Orders : ex'[o].side = "sell" =>
               ex[o].side = "sell" /\ ex'[o].amt = ex[o].amt,
             \A o \in Orders : Live(o)' <=> Live(o),
             \A t \in Trades : Bought(t)' => Bought(t),
             coins' = coins
      PROVE  CoinAccounts'
  <2>1. NoneLive' <=> NoneLive
    BY <1>1 DEF NoneLive
  <2>2. \A o \in Orders : ex'[o].side = "sell" => ex'[o].amt = 1
    BY <1>1 DEF CoinAccounts
  <2>3. \A t \in Trades : Bought(t)' /\ NoneLive' => coins' = 1
    BY <1>1, <2>1 DEF CoinAccounts
  <2>4. coins' = 1 => NoneLive' /\ \E t \in Trades : Bought(t)'
    BY <1>0, <1>1, <2>1 DEF CoinAccounts
  <2>5. \A o, p \in Orders : Live(o)' /\ Live(p)' => o = p
    BY <1>1 DEF CoinAccounts
  <2>6. coins' \in {0, 1}
    BY <1>1 DEF CoinAccounts
  <2> QED
    BY <2>2, <2>3, <2>4, <2>5, <2>6 DEF CoinAccounts
<1>2. CASE Keeps
  BY <1>1, <1>2 DEF Keeps, Live, Bought, Did
<1>3. ASSUME NEW o \in Orders, ExFill(o) PROVE CoinAccounts'
  <2>1. ex[o].st = "open" /\ ex' = [ex EXCEPT ![o].st = "filled"]
        /\ coins' = IF ex[o].side = "buy" THEN coins + ex[o].amt ELSE coins
    BY <1>3 DEF ExFill
  <2>2. /\ \A p \in Orders : p # o => ex'[p] = ex[p]
        /\ ex'[o].st = "filled" /\ ex'[o].t = ex[o].t /\ ex'[o].side = ex[o].side
        /\ ex'[o].kind = ex[o].kind /\ ex'[o].amt = ex[o].amt
    BY <1>0, <2>1, Restated
  <2>3. CASE ex[o].side = "buy"
    <3>1. coins' = 1 /\ NoneLive' /\ Bought(ex[o].t)'
      BY <1>3, <2>3, CoinBought
    <3>2. \A p \in Orders : ex'[p].side = "sell" => ex'[p].amt = 1
      BY <2>2, <2>3 DEF CoinAccounts
    <3>3. PICK t \in Trades : t = ex[o].t
      BY <1>0, <2>1 DEF Books
    <3>4. Bought(t)'
      BY <2>2, <3>1, <3>3 DEF Bought, Did
    <3> QED
      BY <3>1, <3>2, <3>4 DEF CoinAccounts, NoneLive
  <2>4. CASE ex[o].side # "buy"
    <3>1. coins' = coins
      BY <2>1, <2>4
    <3>2. \A p \in Orders : ex'[p].side = "sell" => ex[p].side = "sell" /\ ex'[p].amt = ex[p].amt
      BY <2>2
    <3>3. \A p \in Orders : Live(p)' <=> Live(p)
      BY <2>1, <2>2 DEF Live
    <3>4. \A t \in Trades : Bought(t)' => Bought(t)
      BY <2>2, <2>4 DEF Bought, Did
    <3> QED
      BY <1>1, <3>1, <3>2, <3>3, <3>4
  <2> QED
    BY <2>3, <2>4
<1>4. ASSUME NEW o \in Orders, Withdraws(o) PROVE CoinAccounts'
  <2>1. ex[o].side = "buy" /\ ex[o].st = "open" /\ coins' = coins
        /\ ex' = [ex EXCEPT ![o].st = "cancelled"]
    BY <1>4 DEF Withdraws
  <2>2. /\ \A p \in Orders : p # o => ex'[p] = ex[p]
        /\ ex'[o].st = "cancelled" /\ ex'[o].side = "buy"
    BY <1>0, <2>1, Restated
  <2>3. \A p \in Orders : Live(p)' <=> Live(p)
    BY <2>1, <2>2 DEF Live
  <2>4. \A t \in Trades : Bought(t)' => Bought(t)
    BY <2>2 DEF Bought, Did
  <2>5. \A p \in Orders : ex'[p].side = "sell" => ex[p].side = "sell" /\ ex'[p].amt = ex[p].amt
    BY <2>2
  <2> QED
    BY <1>1, <2>1, <2>3, <2>4, <2>5
<1>5. ASSUME NEW o \in Orders, Uncovers(o) PROVE CoinAccounts'
  <2>1. /\ ex[o].side = "sell" /\ ex[o].st = "open" /\ coins' = coins + ex[o].amt
        /\ ex' = [ex EXCEPT ![o].st = "cancelled"]
    BY <1>5 DEF Uncovers
  <2>2. /\ \A p \in Orders : p # o => ex'[p] = ex[p]
        /\ ex'[o].st = "cancelled" /\ ex'[o].side = "sell" /\ ex'[o].amt = ex[o].amt
    BY <1>0, <2>1, Restated
  <2>3. Live(o) /\ ex[o].amt = 1
    BY <2>1 DEF Live, CoinAccounts
  <2>4. coins = 0 /\ coins' = 1
    BY <2>1, <2>3 DEF CoinAccounts, NoneLive
  <2>5. NoneLive'
    BY <2>2, <2>3 DEF NoneLive, Live, CoinAccounts
  <2>6. \A p \in Orders : ex'[p].side = "sell" => ex'[p].amt = 1
    BY <2>1, <2>2 DEF CoinAccounts
  <2>7. ex[o].t \in Trades /\ Bought(ex[o].t)
    BY <1>0, <2>1 DEF Books, SoldIsBought
  <2>8. \E t \in Trades : Bought(t)'
    BY <1>0, <2>7
  <2> QED
    BY <2>4, <2>5, <2>6, <2>8 DEF CoinAccounts, NoneLive
<1>6. ASSUME NEW c \in Clients, PlaceBuy(c) PROVE CoinAccounts'
  <2>1. PICK n \in Orders : n = NewOrder
    BY <1>6 DEF PlaceBuy
  <2>2. PICK t \in Trades : ex' = [ex EXCEPT ![n] =
            [st |-> "open", t |-> t, side |-> "buy", kind |-> "limit", amt |-> 1]]
    BY <1>6, <2>1 DEF PlaceBuy
  <2>3. /\ \A p \in Orders : p # n => ex'[p] = ex[p]
        /\ ex'[n].st = "open" /\ ex'[n].side = "buy"
    BY <1>0, <2>2 DEF Types
  <2>4. ex[n].st = "none"
    BY <1>0, <2>1, NextNumber
  <2>5. \A p \in Orders : Live(p)' <=> Live(p)
    BY <2>3, <2>4 DEF Live
  <2>6. \A u \in Trades : Bought(u)' => Bought(u)
    BY <2>3 DEF Bought, Did
  <2>7. coins' = coins
    BY <1>6 DEF PlaceBuy
  <2>8. \A p \in Orders : ex'[p].side = "sell" => ex[p].side = "sell" /\ ex'[p].amt = ex[p].amt
    BY <2>3
  <2> QED
    BY <1>1, <2>5, <2>6, <2>7, <2>8
<1>7. ASSUME NEW t \in Trades, NEW kind \in {"limit", "market"}, Sells(t, kind)
      PROVE  CoinAccounts'
  <2>1. PICK n \in Orders : n = NewOrder
    BY <1>7 DEF Sells
  <2>2. SellAll(t, kind) /\ coins' = 0 /\ coins > 0
    BY <1>7 DEF Sells, SellAll
  <2>3. coins = 1 /\ NoneLive
    BY <2>2 DEF CoinAccounts
  <2>4. /\ ex'[n].side = "sell" /\ ex'[n].amt = 1 /\ ex'[n].st \in {"open", "filled"}
        /\ \A p \in Orders : p # n => ex'[p] = ex[p]
    BY <1>0, <2>1, <2>2, <2>3, NewSale
  <2>5. Live(n)' /\ \A p \in Orders : Live(p)' => p = n
    BY <2>3, <2>4 DEF Live, NoneLive
  <2>6. \A p \in Orders : ex'[p].side = "sell" => ex'[p].amt = 1
    BY <2>4 DEF CoinAccounts
  <2> QED
    BY <2>2, <2>5, <2>6 DEF CoinAccounts, NoneLive
<1> QED
  BY <1>2, <1>3, <1>4, <1>5, <1>6, <1>7, Trading

(* Only a cancellation takes a sell order back.                            *)
LEMMA LiveStays ==
  ASSUME RecordIInv, [Next]_vars, NEW o \in Orders, Live(o)
  PROVE  Uncovers(o) \/ (Live(o)' /\ (ex[o].st = "filled" => ex'[o].st = "filled"))
<1>0. Types /\ Books /\ Onward
  BY MovesOn DEF RecordIInv
<1>1. ex'[o].side = "sell" /\ (ex[o].st = "filled" => ex'[o].st = "filled")
  BY <1>0 DEF Onward, Live
<1>2. CASE ex[o].st = "filled"
  BY <1>1, <1>2 DEF Live
<1>3. CASE ex[o].st = "open"
  <2>1. CASE Keeps
    BY <1>1, <1>3, <2>1 DEF Keeps, Live
  <2>2. ASSUME NEW p \in Orders, ExFill(p) \/ Withdraws(p) \/ (Uncovers(p) /\ p # o)
        PROVE  ex'[o].st \in {"open", "filled"}
    <3>1. CASE ExFill(p)
      <4>1. ex[p].st = "open" /\ ex' = [ex EXCEPT ![p].st = "filled"]
        BY <3>1 DEF ExFill
      <4>2. ex'[p].st = "filled" /\ \A q \in Orders : q # p => ex'[q] = ex[q]
        BY <1>0, <4>1, Restated
      <4> QED
        BY <1>3, <4>2
    <3>2. CASE Withdraws(p) \/ (Uncovers(p) /\ p # o)
      <4>1. ex[p].st = "open" /\ ex' = [ex EXCEPT ![p].st = "cancelled"] /\ p # o
        BY <3>2 DEF Withdraws, Uncovers, Live
      <4>2. \A q \in Orders : q # p => ex'[q] = ex[q]
        BY <1>0, <4>1, Restated
      <4> QED
        BY <1>3, <4>1, <4>2
    <3> QED
      BY <2>2, <3>1, <3>2
  <2>3. ASSUME NEW c \in Clients, PlaceBuy(c) PROVE ex'[o] = ex[o]
    <3>1. PICK n \in Orders : n = NewOrder
      BY <2>3 DEF PlaceBuy
    <3>2. n # o
      BY <1>0, <1>3, <3>1, NextNumber
    <3> QED
      BY <1>0, <2>3, <3>1, <3>2 DEF PlaceBuy, Types
  <2>4. ASSUME NEW t \in Trades, NEW kind \in {"limit", "market"}, Sells(t, kind)
        PROVE  ex'[o] = ex[o]
    <3>1. PICK n \in Orders : n = NewOrder
      BY <2>4 DEF Sells
    <3>2. n # o
      BY <1>0, <1>3, <3>1, NextNumber
    <3> QED
      BY <1>0, <2>4, <3>1, <3>2, NewSale DEF Sells
  <2> QED
    BY <1>1, <1>3, <2>1, <2>2, <2>3, <2>4, Trading DEF Live
<1> QED
  BY <1>2, <1>3 DEF Live

(* While a sell order stands no other is placed.                           *)
LEMMA NoSecondSale ==
  ASSUME RecordIInv, CoinAccounts, NEW o \in Orders, Live(o), NEW t, NEW kind
  PROVE  ~SellAll(t, kind)
BY DEF CoinAccounts, NoneLive, SellAll

(* The record is written with another sell order only by who has placed    *)
(* one, and of a trade whose coin is sold nobody takes the order away.     *)
LEMMA ReaderRecordsNext ==
  ASSUME RecordIInv, WatchInv, [Next]_vars, CoinAccounts, Recorders,
         ws.pc \in {"record", "link"}, ws'.pc \in {"record", "link"},
         ws'.copy.sell = ws.copy.sell
  PROVE  /\ ws'.copy.sell \in Orders /\ Live(ws.copy.sell)'
         /\ \A t \in Trades : db'[t].sell # ws'.copy.sell
         /\ \A c \in Clients : req'[c].pc = "uncover" => req'[c].copy.sell # ws'.copy.sell
         /\ \A c \in Clients : req'[c].pc # "sold"
         /\ sl'.pc # "stopped"
<1>0. /\ SellsBought /\ Knowledge
      /\ \A d \in Clients : RequestWay(req[d], req'[d])
  BY Ways DEF WatchInv, RecordIInv
<1>1. PICK o \in Orders : o = ws.copy.sell /\ Live(o)
  BY DEF Recorders
<1>2. o # None
  BY CopilotAssumption DEF Orders, None
<1>3. ~Uncovers(o)
  <2>1. ex[o].t = ws.t
    BY <1>0, <1>1, <1>2 DEF Knowledge, ReaderKnows, Truthful
  <2> QED
    BY <1>0, <1>1, <2>1 DEF Uncovers, Recorders, SellsBought, Selling
<1>4. Live(o)'
  BY <1>1, <1>3, LiveStays
<1>5. \A t \in Trades : db'[t].sell # o
  <2> SUFFICES ASSUME NEW t \in Trades, db'[t].sell = o, db'[t] # db[t] PROVE FALSE
    BY <1>1 DEF Recorders
  <2>1. ASSUME NEW c \in Clients, WrittenByRequest(c, t) PROVE FALSE
    <3>1. req[c].pc = "cancelled" /\ req[c].copy.sell = o /\ Unbuyable(t) /\ req[c].t = t
      BY <1>2, <2>1 DEF WrittenByRequest, Recorders
    <3>2. Bought(t)
      BY <1>0, <1>2, <3>1 DEF Knowledge, RequestKnows, Truthful
    <3> QED
      BY <3>1, <3>2 DEF Bought, Did, Unbuyable
  <2>2. ~WrittenByReader(t) /\ ~WrittenByStop(t)
    BY DEF WrittenByReader, WrittenByStop, Recorders
  <2> QED
    BY <2>1, <2>2, Writers
<1>6. ASSUME NEW c \in Clients, req'[c].pc = "uncover" PROVE req'[c].copy.sell # o
  BY <1>0, <1>1, <1>6 DEF RequestWay, RequestPairs, Recorders
<1>7. ASSUME NEW c \in Clients PROVE req'[c].pc # "sold"
  BY <1>1, NoSecondSale, RequestDeeds DEF Recorders
<1>8. sl'.pc # "stopped"
  BY <1>1, NoSecondSale, StopDeeds DEF Recorders
<1>9. Live(ws.copy.sell)'
  <2>1. ws.copy.sell' = ws.copy.sell
    OBVIOUS
  <2> QED
    BY <1>1, <1>4, <2>1 DEF Live
<1> QED
  BY <1>1, <1>5, <1>6, <1>7, <1>8, <1>9

LEMMA ReaderRecordsFirst ==
  ASSUME RecordIInv, WatchInv, [Next]_vars, CoinAccounts, Recorders,
         ws' # ws, ws'.pc = "record"
  PROVE  /\ ws'.copy.sell \in Orders /\ Live(ws.copy.sell)'
         /\ \A t \in Trades : db'[t].sell # ws'.copy.sell
         /\ \A c \in Clients : req'[c].pc = "uncover" => req'[c].copy.sell # ws'.copy.sell
         /\ \A c \in Clients : req'[c].pc # "sold"
         /\ sl'.pc # "stopped"
<1>0. Types /\ Books /\ Knowledge
  BY DEF RecordIInv
<1>1. /\ SellAll(ws.t, "limit") /\ ws'.copy.sell = NewOrder /\ UNCHANGED <<req, sl>>
  BY ReaderDeeds
<1>2. PICK o \in Orders : o = NewOrder
  BY <1>1 DEF SellAll
<1>3. ex[o] = NoOrder /\ ex'[o].side = "sell" /\ ex'[o].st \in {"open", "filled"}
  BY <1>0, <1>1, <1>2, NewSale
<1>4. o # None /\ ex[o].side # "sell"
  BY <1>3, CopilotAssumption DEF Orders, None, NoOrder
<1>5. NoneLive
  <2>1. coins > 0
    BY <1>1 DEF SellAll
  <2> QED
    BY <2>1 DEF CoinAccounts
<1>6. \A t \in Trades : db[t].sell # o
  BY <1>0, <1>4 DEF Knowledge, Truthful
<1>7. db' = db
  <2>1. ws.pc = "offer"
    BY ReaderDeeds
  <2>2. ASSUME NEW t \in Trades PROVE db'[t] = db[t]
    <3>1. \A c \in Clients : ~WrittenByRequest(c, t)
      BY <1>1 DEF WrittenByRequest
    <3>2. ~WrittenByReader(t) /\ ~WrittenByStop(t)
      BY <1>1, <2>1 DEF WrittenByReader, WrittenByStop
    <3> QED
      BY <3>1, <3>2, Writers
  <2> QED
    BY <2>2, TypesNext, <1>0 DEF Types
<1>8. \A c \in Clients : req[c].pc = "uncover" => req[c].copy.sell # o
  BY <1>0, <1>4 DEF Knowledge, RequestKnows, Truthful
<1>9. (\A c \in Clients : req[c].pc # "sold") /\ sl.pc # "stopped"
  BY <1>5 DEF Recorders, NoneLive
<1>10. Live(ws.copy.sell)'
  BY <1>1, <1>2, <1>3 DEF Live
<1> QED
  BY <1>1, <1>2, <1>6, <1>7, <1>8, <1>9, <1>10

LEMMA RecordersNext ==
  ASSUME RecordIInv, WatchInv, [Next]_vars, CoinAccounts, Recorders
  PROVE  Recorders'
<1>0. Types /\ Books /\ ReaderWay(ws, ws')
  BY Ways DEF RecordIInv
<1>1. ASSUME ws'.pc \in {"record", "link"}
      PROVE  /\ ws'.copy.sell \in Orders /\ Live(ws.copy.sell)'
             /\ \A t \in Trades : db'[t].sell # ws'.copy.sell
             /\ \A c \in Clients : req'[c].pc = "uncover" => req'[c].copy.sell # ws'.copy.sell
             /\ \A c \in Clients : req'[c].pc # "sold"
             /\ sl'.pc # "stopped"
  <2>1. CASE ws' = ws
    BY <1>1, <2>1, ReaderRecordsNext
  <2>2. CASE ws' # ws /\ ws'.pc = "record"
    BY <2>2, ReaderRecordsFirst
  <2>3. CASE ws' # ws /\ ws'.pc = "link"
    <3>1. ws.pc = "record" /\ ws'.copy.sell = ws.copy.sell
      BY <1>0, <2>3 DEF ReaderWay, ReaderPairs
    <3> QED
      BY <1>1, <3>1, ReaderRecordsNext
  <2> QED
    BY <1>1, <2>1, <2>2, <2>3
<1>2. ASSUME NEW o \in Orders, Live(o), ex[o].st = "filled"
      PROVE  Live(o)' /\ ex'[o].st = "filled"
  BY <1>2, LiveStays DEF Uncovers
<1>3. ASSUME NEW t, SellAll(t, "market"), NEW o \in Orders, o = NewOrder
      PROVE  Live(o)' /\ ex'[o].st = "filled"
  BY <1>0, <1>3, NewSale DEF Live
<1>4. ASSUME NEW c \in Clients, req'[c].pc = "sold"
      PROVE  req'[c].copy.sell \in Orders /\ Live(req[c].copy.sell)'
             /\ ex'[req'[c].copy.sell].st = "filled"
  <2>1. PICK o \in Orders : o = req'[c].copy.sell /\ Live(o)' /\ ex'[o].st = "filled"
    <3>1. CASE req'[c] = req[c]
      BY <1>2, <1>4, <3>1 DEF Recorders
    <3>2. CASE req'[c] # req[c]
      BY <1>3, <1>4, <3>2, RequestDeeds DEF SellAll
    <3> QED
      BY <3>1, <3>2
  <2> QED
    BY <2>1 DEF Live
<1>5. ASSUME sl'.pc = "stopped"
      PROVE  sl'.copy.sell \in Orders /\ Live(sl.copy.sell)' /\ ex'[sl'.copy.sell].st = "filled"
  <2>1. PICK o \in Orders : o = sl'.copy.sell /\ Live(o)' /\ ex'[o].st = "filled"
    <3>1. CASE sl' = sl
      BY <1>2, <1>5, <3>1 DEF Recorders
    <3>2. CASE sl' # sl
      BY <1>3, <1>5, <3>2, StopDeeds DEF SellAll
    <3> QED
      BY <3>1, <3>2
  <2> QED
    BY <2>1 DEF Live
<1> QED
  BY <1>1, <1>4, <1>5 DEF Recorders

(* Who has placed a sell order goes on until it is in the record.          *)
LEMMA RecordingEnds ==
  ASSUME RecordIInv, [Next]_vars, ~Crash, NEW o \in Orders, Recording(o)
  PROVE  \/ Recording(o)'
         \/ \E t \in Trades : Bought(t) /\ (db'[t].sell = o \/ db'[t].st = "stopped")
<1>0. /\ Types /\ Knowledge /\ o # None
      /\ ws \in ProcType /\ ws.copy \in TradeType /\ sl \in ProcType /\ sl.copy \in TradeType
  BY CopilotAssumption DEF RecordIInv, Types, ProcType, Orders, None
<1>1. ASSUME ReaderRecords(o)
      PROVE  \/ ReaderRecords(o)'
             \/ \E t \in Trades : Bought(t) /\ db'[t].sell = o
  <2>1. /\ ws.pc \in {"record", "link"} /\ ws.copy.sell = o
        /\ ws.t \in Trades /\ Bought(ws.t)
    BY <1>0, <1>1 DEF ReaderRecords, Knowledge, ReaderKnows, Truthful
  <2>2. CASE ws' = ws
    BY <1>1, <2>2 DEF ReaderRecords
  <2>3. CASE RecordSell
    <3>1. ws'.pc = "link" /\ ws'.copy = ws.copy
      BY <1>0, <2>3 DEF RecordSell, WsGo, ProcType
    <3> QED
      BY <2>1, <3>1 DEF ReaderRecords
  <2>4. CASE LinkSell
    <3>1. db'[ws.t] = ws.copy
      BY <1>0, <2>1, <2>4 DEF LinkSell, Update, Types
    <3> QED
      BY <2>1, <3>1
  <2>5. WsStep => RecordSell \/ LinkSell
    BY <2>1 DEF WsStep, TakeFill, MarkBought, AutoSell, AutoSellFails, AddTrade,
                CompleteTrade, RemoveTrade, WsAt
  <2> QED
    BY <2>2, <2>3, <2>4, <2>5, TypesRequest, TypesStop DEF Next, ExFill, vars, procs
<1>2. ASSUME StopRecords(o)
      PROVE  \/ StopRecords(o)'
             \/ \E t \in Trades : Bought(t) /\ db'[t].st = "stopped"
  <2>1. /\ sl.pc = "stopped" /\ sl.copy.st = "stopped" /\ sl.t \in Trades /\ Bought(sl.t)
    BY <1>0, <1>2 DEF StopRecords, Knowledge, StopKnows, Truthful
  <2>2. CASE sl' = sl
    BY <1>2, <2>2 DEF StopRecords
  <2>3. CASE MarkStopped
    <3>1. db'[sl.t] = sl.copy
      BY <1>0, <2>1, <2>3 DEF MarkStopped, Update, Types
    <3> QED
      BY <2>1, <3>1
  <2>4. StopLossStep \/ (\E t \in Trades : StopLossHit(t)) => MarkStopped
    BY <2>1 DEF StopLossStep, StopLossHit, StopCancel, StopSell, StopForget, SlAt
  <2> QED
    BY <2>2, <2>3, <2>4, TypesRequest, TypesReader DEF Next, ExFill, vars, procs
<1>3. ASSUME NEW c \in Clients, RequestRecords(c, o)
      PROVE  \/ RequestRecords(c, o)'
             \/ \E t \in Trades : Bought(t) /\ db'[t].sell = o
  <2>1. /\ req[c].pc = "sold" /\ req[c].copy.sell = o
        /\ req[c].t \in Trades /\ Bought(req[c].t)
    BY <1>0, <1>3 DEF RequestRecords, Knowledge, RequestKnows, Truthful
  <2>2. CASE req'[c] = req[c]
    BY <1>3, <2>2 DEF RequestRecords
  <2>3. CASE MarkSold(c)
    <3>1. db'[req[c].t] = req[c].copy
      BY <1>0, <2>1, <2>3 DEF MarkSold, Update, Types
    <3> QED
      BY <2>1, <3>1
  <2>4. ASSUME NEW d \in Clients, Request(d) \/ RequestStep(d)
        PROVE  req'[c] = req[c] \/ MarkSold(c)
    <3>1. CASE d = c
      BY <2>1, <2>4, <3>1
      DEF Request, RequestStep, PlaceBuy, PlacePaperBuy, CancelBuy, ManualSell, CreateTrade,
          CreateOrder, LinkBuy, ReadPaper, SavePaper, CancelAtExchange, MarkCancelled,
          ManualCancel, ManualTrade, At
    <3>2. CASE d # c
      <4>1. PICK r \in ProcType : Become(d, r)
        BY <1>0, <2>4, RequestMoves
      <4> QED
        BY ONLY <1>0, <3>2, <4>1, Becomes, c \in Clients, d \in Clients, r \in ProcType
    <3> QED
      BY <3>1, <3>2
  <2> QED
    BY <2>2, <2>3, <2>4, TypesReader, TypesStop DEF Next, ExFill, vars, procs
<1> QED
  BY <1>1, <1>2, <1>3 DEF Recording

(* Who is about to offer a free coin gives up only when refused.           *)
LEMMA SellersStay ==
  ASSUME RecordIInv, [Next]_vars, ~Crash, refusals' = 0, coins = 1, coins' = 1,
         NEW t \in Trades, Seller(t)
  PROVE  Seller(t)'
<1>0. Types /\ ws \in ProcType /\ sl \in ProcType
  BY DEF RecordIInv, Types
<1>1. ~SellRefused
  BY <1>0, CopilotAssumption DEF SellRefused, Types
<1>2. \A u, kind : ~SellAll(u, kind)
  BY DEF SellAll
<1>3. ASSUME ws.pc = "offer" PROVE ws' = ws
  <2>1. ~WsStep
    BY <1>1, <1>2, <1>3 DEF WsStep, TakeFill, MarkBought, AutoSell, AutoSellFails, RecordSell,
                            LinkSell, AddTrade, CompleteTrade, RemoveTrade, WsAt
  <2> QED
    BY <2>1, TypesRequest, TypesStop DEF Next, ExFill, vars, procs
<1>4. ASSUME sl.pc = "sell" PROVE sl' = sl
  <2>1. ~(StopLossStep \/ \E u \in Trades : StopLossHit(u))
    BY <1>1, <1>2, <1>4 DEF StopLossStep, StopLossHit, StopCancel, StopSell, MarkStopped,
                            StopForget, SlAt
  <2> QED
    BY <2>1, TypesRequest, TypesReader DEF Next, ExFill, vars, procs
<1>5. ASSUME NEW c \in Clients, req[c].pc = "sell" PROVE req'[c] = req[c]
  <2>1. ASSUME NEW d \in Clients, Request(d) \/ RequestStep(d) PROVE req'[c] = req[c]
    <3>1. d # c
      BY <1>1, <1>2, <1>5, <2>1
      DEF Request, RequestStep, PlaceBuy, PlacePaperBuy, CancelBuy, ManualSell, CreateTrade,
          CreateOrder, LinkBuy, ReadPaper, SavePaper, CancelAtExchange, MarkCancelled,
          ManualCancel, ManualTrade, MarkSold, At
    <3>2. PICK r \in ProcType : Become(d, r)
      BY <1>0, <2>1, RequestMoves
    <3> QED
      BY ONLY <1>0, <3>1, <3>2, Becomes, c \in Clients, d \in Clients, r \in ProcType
  <2> QED
    BY <2>1, TypesReader, TypesStop DEF Next, ExFill, vars, procs
<1> QED
  BY <1>3, <1>4, <1>5 DEF Seller

(* Who writes "filled" into a record.                                      *)
LEMMA FilledBy ==
  ASSUME RecordIInv, [Next]_vars, NEW t \in Trades, db'[t] # db[t], db'[t].st = "filled"
  PROVE  \/ \E c \in Clients : req[c].pc = "sold" /\ db'[t] = req[c].copy
         \/ ws.pc = "bought" /\ ws.t = t /\ ws'.pc = "offer" /\ ws'.t = t
         \/ ws.pc = "link" /\ db'[t] = ws.copy
<1>1. ReaderWay(ws, ws')
  BY Ways
<1>2. ws.pc = "bought" /\ ws'.pc = "offer" => ws'.t = ws.t
  BY <1>1 DEF ReaderWay
<1> QED
  BY <1>2, Writers DEF WrittenByRequest, WrittenByReader, WrittenByStop

LEMMA FreeCoinNext ==
  ASSUME RecordIInv, WatchInv, [Next]_vars, Undisturbed',
         SoldIsBought, CoinAccounts, Recorders, Offered,
         NEW t \in Trades, db'[t].st = "filled", coins' = 1
  PROVE  Seller(t)'
<1>0. /\ Types /\ Books /\ Knowledge
      /\ ~Crash /\ refusals' = 0
      /\ \A u, v \in Trades : Bought(u)' /\ Bought(v)' => u = v
      /\ \A u \in Trades : Bought(u) => Bought(u)'
  BY Undisturbing DEF RecordIInv
<1>1. CASE coins = 1
  <2>1. NoneLive
    BY <1>1 DEF CoinAccounts
  <2>2. CASE db'[t] = db[t]
    <3>1. Seller(t)
      BY <1>1, <2>2 DEF Offered
    <3> QED
      BY <1>0, <1>1, <3>1, SellersStay
  <2>3. CASE db'[t] # db[t]
    <3>1. \/ \E c \in Clients : req[c].pc = "sold"
          \/ ws.pc = "link"
          \/ ws'.pc = "offer" /\ ws'.t = t
      BY <2>3, FilledBy
    <3> QED
      BY <2>1, <3>1 DEF Recorders, NoneLive, Seller
  <2> QED
    BY <2>2, <2>3
<1>2. CASE coins = 0
  <2>1. ~Keeps /\ (\A c \in Clients : ~PlaceBuy(c)) /\ \A o \in Orders : ~Withdraws(o)
    BY <1>2 DEF Keeps, PlaceBuy, Withdraws
  <2>2. \A u, kind : ~Sells(u, kind)
    BY <1>2 DEF Sells, SellAll
  <2>3. ASSUME NEW o \in Orders, ExFill(o) PROVE FALSE
    <3>1. ex[o].side = "buy" /\ db' = db
      BY <1>2, <2>3 DEF ExFill, redis
    <3>2. ~Bought(t)
      BY <2>3, <3>1, CoinBought
    <3> QED
      BY <1>0, <3>1, <3>2 DEF Knowledge, Truthful
  <2>4. ASSUME NEW o \in Orders, Uncovers(o) PROVE Seller(t)'
    <3>1. /\ ex[o].side = "sell" /\ ex[o].st = "open" /\ db' = db /\ Seller(ex[o].t)'
          /\ ex' = [ex EXCEPT ![o].st = "cancelled"]
      BY <2>4 DEF Uncovers
    <3>2. ex'[o].t = ex[o].t
      BY <1>0, <3>1, Restated
    <3>3. ex[o].t \in Trades /\ Bought(ex[o].t)
      BY <1>0, <3>1 DEF Books, SoldIsBought
    <3>4. Bought(t)
      BY <1>0, <3>1 DEF Knowledge, Truthful
    <3>5. ex[o].t = t
      BY <1>0, <3>3, <3>4
    <3> QED
      BY <3>1, <3>2, <3>5 DEF Seller
  <2> QED
    BY <2>1, <2>2, <2>3, <2>4, Trading
<1> QED
  BY <1>1, <1>2 DEF CoinAccounts

LEMMA LiveOrderNext ==
  ASSUME RecordIInv, WatchInv, [Next]_vars, Undisturbed',
         SoldIsBought, NotYetSold, CoinAccounts, Recorders, Offered,
         NEW t \in Trades, db'[t].st = "filled", NEW o \in Orders, Live(o)'
  PROVE  db'[t].sell = o \/ Recording(o)'
<1>0. /\ Types /\ Books /\ Onward /\ RecordIInv'
      /\ ~Crash /\ refusals' = 0
      /\ \A u, v \in Trades : Bought(u)' /\ Bought(v)' => u = v
      /\ \A u \in Trades : Bought(u) => Bought(u)'
  BY Undisturbing, MovesOn, RecordNext DEF RecordIInv
<1>1. Bought(t)'
  BY <1>0 DEF RecordIInv, Knowledge, Truthful
<1>2. CASE ~Live(o)
  <2>1. ex'[o].side = "sell" /\ ex'[o].st \in {"open", "filled"}
    BY DEF Live
  <2>2. ex[o].side # "sell"
    <3> SUFFICES ASSUME ex[o].side = "sell" PROVE FALSE
      OBVIOUS
    <3>1. ex[o].st \in {"none", "cancelled"}
      BY <1>0, <1>2 DEF Live, Types, OrderType
    <3>2. ex[o].st # "none"
      BY <1>0 DEF Books, NoOrder
    <3> QED
      BY <1>0, <2>1, <3>1, <3>2 DEF Onward
  <2>3. PICK u \in Trades, kind \in {"limit", "market"} : Sells(u, kind) /\ o = NewOrder
    BY <2>1, <2>2, SellSides
  <2>4. PICK p \in Orders : p = NewOrder /\ Recording(p)'
    BY <2>3 DEF Sells
  <2> QED
    BY <2>3, <2>4
<1>3. CASE Live(o) /\ Recording(o)
  BY <1>0, <1>1, <1>3, RecordingEnds
<1>4. CASE Live(o) /\ ~Recording(o)
  <2>1. CASE db'[t] = db[t]
    BY <1>4, <2>1 DEF Offered
  <2>2. CASE db'[t] # db[t]
    <3>1. ~(ws.pc = "bought" /\ ws.t = t)
      <4> SUFFICES ASSUME ws.pc = "bought", ws.t = t PROVE FALSE
        OBVIOUS
      <4>1. ex[o].t \in Trades /\ Bought(ex[o].t)
        BY <1>0, <1>4 DEF Live, SoldIsBought, Books, NoOrder
      <4>2. ex[o].t = t
        BY <1>0, <1>1, <4>1
      <4> QED
        BY <1>4, <4>2 DEF NotYetSold, ToCome, Live
    <3>2. ASSUME NEW c \in Clients, req[c].pc = "sold", db'[t] = req[c].copy
          PROVE  db'[t].sell = o
      BY <1>4, <3>2 DEF Recorders, CoinAccounts
    <3>3. ws.pc = "link" /\ db'[t] = ws.copy => db'[t].sell = o
      BY <1>4 DEF Recorders, CoinAccounts
    <3> QED
      BY <2>2, <3>1, <3>2, <3>3, FilledBy
  <2> QED
    BY <2>1, <2>2
<1> QED
  BY <1>2, <1>3, <1>4

OfferIInv == SoldIsBought /\ NotYetSold /\ OfferInv

LEMMA OfferInit == Init => OfferIInv
<1> SUFFICES ASSUME Init PROVE OfferIInv
  OBVIOUS
<1>1. /\ \A o \in Orders : ex[o].side = "none" /\ ex[o].st = "none"
      /\ \A t \in Trades : ~Bought(t) /\ db[t].st = "none"
      /\ ws.pc = "idle" /\ sl.pc = "idle" /\ \A c \in Clients : req[c].pc = "idle"
  BY DEF Init, NoOrder, Idle, NoTrade, Bought, Did
<1>2. Undisturbed => coins = 0
  BY DEF Init, Undisturbed, Alone
<1> QED
  BY <1>1, <1>2
  DEF OfferIInv, SoldIsBought, NotYetSold, OfferInv, CoinAccounts, NoneLive, Live,
      Recorders, Offered

LEMMA OfferNext ==
  ASSUME RecordIInv, WatchInv, OfferIInv, [Next]_vars
  PROVE  OfferIInv'
<1>0. SoldIsBought /\ NotYetSold
  BY DEF OfferIInv
<1>1. ASSUME Undisturbed' PROVE (CoinAccounts /\ Recorders /\ Offered)'
  <2>1. CoinAccounts /\ Recorders /\ Offered
    BY <1>1, Undisturbing DEF OfferIInv, OfferInv
  <2>2. CoinAccounts' /\ Recorders'
    BY <1>0, <1>1, <2>1, CoinNext, RecordersNext
  <2>3. Offered'
    BY <1>0, <1>1, <2>1, FreeCoinNext, LiveOrderNext DEF Offered
  <2> QED
    BY <2>2, <2>3
<1> QED
  BY <1>0, <1>1, SoldIsBoughtNext, NotYetSoldNext DEF OfferIInv, OfferInv

(* Once everything is handled, no trade that is done is watched, whatever  *)
(* crashed or raced, and the coin of an undisturbed filled trade is        *)
(* offered, or sold, by the order the record names.                        *)
THEOREM TradesSettle == Spec => []SettledTrades
<1>1. RecordIInv /\ OfferIInv => FilledIsOffered
  <2> SUFFICES ASSUME RecordIInv, OfferIInv, Undisturbed, Quiet,
                      NEW t \in Trades, db[t].st = "filled"
               PROVE  db[t].sell # None /\ ex[db[t].sell].st \in {"open", "filled"}
    BY DEF FilledIsOffered
  <2>1. CoinAccounts /\ Offered /\ Bought(t)
    BY DEF OfferIInv, OfferInv, RecordIInv, Knowledge, Truthful
  <2>2. /\ ws.pc = "idle" /\ sl.pc = "idle" /\ \A c \in Clients : req[c].pc = "idle"
    BY DEF Quiet, WsAt, SlAt, At
  <2>3. ~Seller(t) /\ \A o \in Orders : ~Recording(o)
    BY <2>2 DEF Seller, Recording, ReaderRecords, RequestRecords, StopRecords
  <2>4. PICK o \in Orders : Live(o)
    BY <2>1, <2>3 DEF Offered, CoinAccounts, NoneLive
  <2>5. db[t].sell = o /\ o # None
    BY <2>1, <2>3, <2>4, CopilotAssumption DEF Offered, Orders, None
  <2> QED
    BY <2>4, <2>5 DEF Live
<1> QED
  BY <1>1, DoneIsLeftAlone, RecordInit, WatchInit, WatchNext, OfferInit, OfferNext, PTL
  DEF Spec, SettledTrades

=============================================================================
