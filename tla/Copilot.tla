------------------------------- MODULE Copilot -------------------------------
(***************************************************************************)
(* Copilot trades of one user in one pair: the API's operations            *)
(* (copilot_service.go), the order monitor that hears of fills             *)
(* (order_monitor.go), the automatic sell order and the stop-loss monitor  *)
(* (stop_loss_monitor.go), wired together by main.go.                      *)
(*                                                                         *)
(* A trade is bought with a limit order, sold automatically once that      *)
(* fills, by hand, or by the stop loss.  Every operation reads the trade   *)
(* record, works with its copy and writes the whole copy back; nothing     *)
(* locks a trade.  Every buy order is for one coin; a sell order is for    *)
(* all coins of the account.                                               *)
(***************************************************************************)
EXTENDS Integers, Sequences, FiniteSets

CONSTANTS
    MaxTrades,     \* bound: trades created
    MaxOrders,     \* bound: orders the exchange accepts
    Clients,       \* API requests that may be in progress at once
    UserCoins,     \* coins the user had before
    PaperIDR,      \* the user's paper balance, in orders it is good for
    MaxCrashes,    \* bound
    MaxRefusals,   \* bound: sell orders refused although the coins are there
    Recognised     \* the exchange reports fills with the number Trade answered
                   \* as order id and "filled" as status

ASSUME CopilotAssumption ==
    /\ {MaxTrades, MaxOrders, UserCoins, PaperIDR, MaxCrashes} \subseteq Nat
    /\ MaxRefusals \in Nat \ {0}
    /\ Recognised \in BOOLEAN

Trades == 1 .. MaxTrades
Orders == 1 .. MaxOrders
None == 0
Statuses == {"pending", "filled", "completed", "cancelled", "stopped", "error"}

VARIABLES
    ex,          \* the exchange's orders
    coins,       \* coins of the pair free in the account
    wire,        \* private WebSocket messages not yet handled
    db,          \* trade records
    idx,         \* TradesByStatus: status -> trades
    rec,         \* order records, by the exchange's number: the trade or None
    paperIDR,    \* the record of the user's paper balance
    active,      \* StopLossMonitor.activeTrades: trade -> the object, or NoTrade
    req,         \* the API request each client has in progress
    ws,          \* the reader of the private WebSocket
    sl,          \* the loop of the stop-loss monitor
    crashes, refusals

exchange == <<ex, coins, wire>>
redis == <<db, idx, rec, paperIDR>>
procs == <<req, ws, sl>>
bounds == <<crashes, refusals>>
vars == <<exchange, redis, active, procs, bounds>>

NoTrade == [st |-> "none", paper |-> FALSE, buy |-> None, sell |-> None]
NoOrder == [st |-> "none", t |-> None, side |-> "none", kind |-> "limit", amt |-> 0]
Idle == [pc |-> "idle", t |-> None, o |-> None, copy |-> NoTrade, idr |-> 0]

Init ==
    /\ ex = [o \in Orders |-> NoOrder]
    /\ coins = UserCoins
    /\ wire = <<>>
    /\ db = [t \in Trades |-> NoTrade]
    /\ idx = [st \in Statuses |-> {}]
    /\ rec = [o \in Orders |-> None]
    /\ paperIDR = PaperIDR
    /\ active = [t \in Trades |-> NoTrade]
    /\ req = [c \in Clients |-> Idle]
    /\ ws = Idle /\ sl = Idle
    /\ crashes = 0 /\ refusals = 0

-----------------------------------------------------------------------------
(* The exchange.                                                           *)

NewOrder == Cardinality({o \in Orders : ex[o].st # "none"}) + 1

ExFill(o) ==
    /\ ex[o].st = "open"
    /\ ex' = [ex EXCEPT ![o].st = "filled"]
    /\ coins' = IF ex[o].side = "buy" THEN coins + ex[o].amt ELSE coins
    /\ wire' = Append(wire, o)
    /\ UNCHANGED <<redis, active, procs, bounds>>

CancelAnswer(o, ok) ==
    \/ /\ ok /\ o \in {p \in Orders : ex[p].st = "open"}
       /\ ex' = [ex EXCEPT ![o].st = "cancelled"]
       /\ coins' = IF ex[o].side = "sell" THEN coins + ex[o].amt ELSE coins
       /\ wire' = wire
    \/ /\ ~ok /\ o \notin {p \in Orders : ex[p].st = "open"}
       /\ UNCHANGED exchange

(* GetInfo and Trade: all coins of the account are offered, or sold.  The  *)
(* fill of a market sell is not on the wire: such orders have no record,   *)
(* and the monitor drops messages about orders it has no record of.        *)
SellAll(t, kind) ==
    /\ coins > 0 /\ NewOrder \in Orders
    /\ ex' = [ex EXCEPT ![NewOrder] =
         [st |-> IF kind = "market" THEN "filled" ELSE "open", t |-> t,
          side |-> "sell", kind |-> kind, amt |-> coins]]
    /\ coins' = 0
    /\ UNCHANGED <<wire, refusals>>
(* Refused without coins; with coins, MaxRefusals times, and once the     *)
(* bound on orders is reached.                                             *)
SellRefused ==
    /\ \/ coins = 0 /\ refusals' = refusals
       \/ coins > 0 /\ refusals < MaxRefusals /\ refusals' = refusals + 1
       \/ coins > 0 /\ NewOrder \notin Orders /\ refusals' = MaxRefusals
    /\ UNCHANGED exchange

(* Mutant: the index is not moved.                                         *)
UpdateRecordOnly(t, copy, old) ==
    /\ db' = [db EXCEPT ![t] = copy]
    /\ idx' = idx

(* TradeRepository.Update: the whole record, and the status index, moved   *)
(* from the status the caller names.                                       *)
Update(t, copy, old) ==
    /\ db' = [db EXCEPT ![t] = copy]
    /\ idx' = IF old = copy.st THEN idx
              ELSE [idx EXCEPT ![old] = @ \ {t}, ![copy.st] = @ \cup {t}]

-----------------------------------------------------------------------------
(* API requests.                                                           *)

At(c, pc) == req[c].pc = pc
Go(c, pc) == req' = [req EXCEPT ![c].pc = pc]
Return(c) == req' = [req EXCEPT ![c] = Idle]
Created == {t \in Trades : db[t].st # "none"}
Taken == Created \cup {req[c].t : c \in Clients} \cup {ex[o].t : o \in Orders}

(* PlaceBuyOrder, live: the order is placed before anything is recorded.   *)
PlaceBuy(c) ==
    \E t \in Trades \ Taken :
    /\ At(c, "idle")
    /\ \A u \in Trades \ Taken : t <= u
    /\ NewOrder \in Orders
    /\ ex' = [ex EXCEPT ![NewOrder] = [st |-> "open", t |-> t, side |-> "buy",
                                       kind |-> "limit", amt |-> 1]]
    /\ req' = [req EXCEPT ![c] = [Idle EXCEPT !.pc = "create", !.t = t, !.o = NewOrder]]
    /\ UNCHANGED <<coins, wire, redis, active, ws, sl, bounds>>

(* On paper nothing happens at the exchange; the order gets a number.      *)
PlacePaperBuy(c) ==
    \E t \in Trades \ Taken :
    /\ At(c, "idle")
    /\ \A u \in Trades \ Taken : t <= u
    /\ paperIDR > 0
    /\ req' = [req EXCEPT ![c] = [Idle EXCEPT !.pc = "create", !.t = t,
                                              !.copy.paper = TRUE]]
    /\ UNCHANGED <<exchange, redis, active, ws, sl, bounds>>

CreateTrade(c) ==
    LET trade == [req[c].copy EXCEPT !.st = "pending"] IN
    /\ At(c, "create")
    /\ db' = [db EXCEPT ![req[c].t] = trade]
    /\ idx' = [idx EXCEPT !["pending"] = @ \cup {req[c].t}]
    /\ req' = [req EXCEPT ![c].copy = trade, ![c].pc = "record"]
    /\ UNCHANGED <<exchange, rec, paperIDR, active, ws, sl, bounds>>

CreateOrder(c) ==
    /\ At(c, "record")
    /\ rec' = IF req[c].o = None THEN rec ELSE [rec EXCEPT ![req[c].o] = req[c].t]
    /\ Go(c, "link")
    /\ UNCHANGED <<exchange, db, idx, paperIDR, active, ws, sl, bounds>>

LinkBuy(c) ==
    LET trade == [req[c].copy EXCEPT !.buy = req[c].o] IN
    /\ At(c, "link")
    /\ Update(req[c].t, trade, "pending")
    /\ IF trade.paper THEN Go(c, "debit") ELSE Return(c)
    /\ UNCHANGED <<exchange, rec, paperIDR, active, ws, sl, bounds>>

(* The paper balance is read, then written.                                *)
ReadPaper(c) ==
    /\ req[c].pc \in {"debit", "credit"}
    /\ req' = [req EXCEPT ![c].idr = IF At(c, "debit") THEN paperIDR - 1 ELSE paperIDR + 1,
                          ![c].pc = "save"]
    /\ UNCHANGED <<exchange, redis, active, ws, sl, bounds>>
SavePaper(c) ==
    /\ At(c, "save")
    /\ paperIDR' = req[c].idr
    /\ Return(c)
    /\ UNCHANGED <<exchange, db, idx, rec, active, ws, sl, bounds>>

(* CancelBuyOrder.                                                         *)
CancelBuy(c, t) ==
    /\ At(c, "idle") /\ db[t].st = "pending"
    /\ req' = [req EXCEPT ![c] = [Idle EXCEPT !.pc = "cancel", !.t = t, !.copy = db[t]]]
    /\ UNCHANGED <<exchange, redis, active, ws, sl, bounds>>

(* Mutant: a refused cancellation goes through.                            *)
CancelWhateverAnswer(c) ==
    /\ At(c, "cancel")
    /\ \E ok \in BOOLEAN :
         \/ req[c].copy.paper /\ ok /\ UNCHANGED exchange
         \/ ~req[c].copy.paper /\ CancelAnswer(req[c].copy.buy, ok)
    /\ Go(c, "cancelled")
    /\ UNCHANGED <<redis, active, ws, sl, bounds>>

CancelAtExchange(c) ==
    /\ At(c, "cancel")
    /\ \E ok \in BOOLEAN :
         /\ \/ req[c].copy.paper /\ ok /\ UNCHANGED exchange
            \/ ~req[c].copy.paper /\ CancelAnswer(req[c].copy.buy, ok)
         /\ IF ok THEN Go(c, "cancelled") ELSE Return(c)
    /\ UNCHANGED <<redis, active, ws, sl, bounds>>

MarkCancelled(c) ==
    /\ At(c, "cancelled")
    /\ Update(req[c].t, [req[c].copy EXCEPT !.st = "cancelled"], "pending")
    /\ IF req[c].copy.paper THEN Go(c, "credit") ELSE Return(c)
    /\ UNCHANGED <<exchange, rec, paperIDR, active, ws, sl, bounds>>

(* ManualSell: cancels the automatic order, whatever the answer, sells at  *)
(* the market, and records no order.                                       *)
ManualSell(c, t) ==
    /\ At(c, "idle") /\ db[t].st = "filled"
    /\ req' = [req EXCEPT ![c] = [Idle EXCEPT !.pc = "uncover", !.t = t, !.copy = db[t]]]
    /\ UNCHANGED <<exchange, redis, active, ws, sl, bounds>>

ManualCancel(c) ==
    /\ At(c, "uncover")
    /\ \E ok \in BOOLEAN : CancelAnswer(req[c].copy.sell, ok)
    /\ Go(c, "sell")
    /\ UNCHANGED <<redis, active, ws, sl, bounds>>

ManualTrade(c) ==
    /\ At(c, "sell")
    /\ \/ SellAll(req[c].t, "market")
          /\ req' = [req EXCEPT ![c].copy.sell = NewOrder, ![c].pc = "sold"]
       \/ SellRefused /\ Return(c)
    /\ UNCHANGED <<redis, active, ws, sl, crashes>>

MarkSold(c) ==
    /\ At(c, "sold")
    /\ Update(req[c].t, req[c].copy, "filled")
    /\ Return(c)
    /\ UNCHANGED <<exchange, rec, paperIDR, active, ws, sl, bounds>>

Request(c) ==
    \/ PlaceBuy(c) \/ PlacePaperBuy(c) \/ \E t \in Trades : CancelBuy(c, t) \/ ManualSell(c, t)
RequestStep(c) ==
    \/ CreateTrade(c) \/ CreateOrder(c) \/ LinkBuy(c) \/ ReadPaper(c) \/ SavePaper(c)
    \/ CancelAtExchange(c) \/ MarkCancelled(c)
    \/ ManualCancel(c) \/ ManualTrade(c) \/ MarkSold(c)

-----------------------------------------------------------------------------
(* The order monitor: OrderMonitor.handleOrderUpdate, one message at a     *)
(* time.  Of executions only those it recognises count, and only those of  *)
(* orders with a record whose trade names the order.                       *)

WsAt(pc) == ws.pc = pc
WsGo(pc) == ws' = [ws EXCEPT !.pc = pc]

(* Mutant: fills of buy orders are ignored.                                *)
TakeSellFill ==
    LET o == Head(wire) IN
    /\ WsAt("idle") /\ wire # <<>>
    /\ wire' = Tail(wire)
    /\ ws' = IF rec[o] = None \/ ~Recognised \/ db[rec[o]].sell # o THEN Idle
             ELSE [Idle EXCEPT !.t = rec[o], !.o = o, !.copy = db[rec[o]], !.pc = "sold"]
    /\ UNCHANGED <<ex, coins, redis, active, req, sl, bounds>>

TakeFill ==
    LET o == Head(wire) IN
    /\ WsAt("idle") /\ wire # <<>>
    /\ wire' = Tail(wire)
    /\ ws' = IF rec[o] = None \/ ~Recognised THEN Idle
             ELSE LET trade == db[rec[o]]
                      pc == IF trade.buy = o THEN "bought"
                            ELSE IF trade.sell = o THEN "sold" ELSE "idle"
                  IN  IF pc = "idle" THEN Idle
                      ELSE [Idle EXCEPT !.pc = pc, !.t = rec[o], !.o = o, !.copy = trade]
    /\ UNCHANGED <<ex, coins, redis, active, req, sl, bounds>>

(* handleBuyOrderFilled, then PlaceAutoSell.                               *)
MarkBought ==
    LET trade == [ws.copy EXCEPT !.st = "filled"] IN
    /\ WsAt("bought")
    /\ Update(ws.t, trade, ws.copy.st)
    /\ ws' = [ws EXCEPT !.copy = trade, !.pc = "offer"]
    /\ UNCHANGED <<exchange, rec, paperIDR, active, req, sl, bounds>>

AutoSell ==
    /\ WsAt("offer")
    /\ SellAll(ws.t, "limit")
    /\ ws' = [ws EXCEPT !.o = NewOrder, !.copy.sell = NewOrder, !.pc = "record"]
    /\ UNCHANGED <<redis, active, req, sl, crashes>>
AutoSellFails ==
    /\ WsAt("offer")
    /\ SellRefused
    /\ Update(ws.t, [ws.copy EXCEPT !.st = "error"], "filled")
    /\ ws' = Idle
    /\ UNCHANGED <<rec, paperIDR, active, req, sl, crashes>>

RecordSell ==
    /\ WsAt("record")
    /\ rec' = [rec EXCEPT ![ws.o] = ws.t]
    /\ WsGo("link")
    /\ UNCHANGED <<exchange, db, idx, paperIDR, active, req, sl, bounds>>

(* Mutant: the id of the sell order is not stored.                         *)
LinkSellBeforeIds ==
    /\ WsAt("link")
    /\ Update(ws.t, [ws.copy EXCEPT !.sell = None], "filled")
    /\ WsGo("watch")
    /\ UNCHANGED <<exchange, rec, paperIDR, active, req, sl, bounds>>

LinkSell ==
    /\ WsAt("link")
    /\ Update(ws.t, ws.copy, "filled")
    /\ WsGo("watch")
    /\ UNCHANGED <<exchange, rec, paperIDR, active, req, sl, bounds>>

(* main.go: a trade with its sell order placed is watched ...              *)
AddTrade ==
    /\ WsAt("watch")
    /\ active' = [active EXCEPT ![ws.t] = ws.copy]
    /\ ws' = Idle
    /\ UNCHANGED <<exchange, redis, req, sl, bounds>>

(* handleSellOrderFilled; main.go: ... until the sell order is filled.     *)
CompleteTrade ==
    /\ WsAt("sold")
    /\ Update(ws.t, [ws.copy EXCEPT !.st = "completed"], ws.copy.st)
    /\ WsGo("forget")
    /\ UNCHANGED <<exchange, rec, paperIDR, active, req, sl, bounds>>
RemoveTrade ==
    /\ WsAt("forget")
    /\ active' = [active EXCEPT ![ws.t] = NoTrade]
    /\ ws' = Idle
    /\ UNCHANGED <<exchange, redis, req, sl, bounds>>

WsStep ==
    \/ TakeFill \/ MarkBought \/ AutoSell \/ AutoSellFails \/ RecordSell \/ LinkSell
    \/ AddTrade \/ CompleteTrade \/ RemoveTrade

-----------------------------------------------------------------------------
(* The stop-loss monitor works with the object it was given, not with the  *)
(* record.  Whether the price is below the stop loss is nondeterministic.  *)

SlAt(pc) == sl.pc = pc
StopLossHit(t) ==
    /\ SlAt("idle") /\ active[t].st # "none"
    /\ sl' = [Idle EXCEPT !.pc = "uncover", !.t = t, !.copy = active[t]]
    /\ UNCHANGED <<exchange, redis, active, req, ws, bounds>>

StopCancel ==
    /\ SlAt("uncover")
    /\ \E ok \in BOOLEAN : CancelAnswer(sl.copy.sell, ok)
    /\ sl' = [sl EXCEPT !.pc = "sell"]
    /\ UNCHANGED <<redis, active, req, ws, bounds>>

StopSell ==
    /\ SlAt("sell")
    /\ \/ /\ SellAll(sl.t, "market")
          /\ sl' = [sl EXCEPT !.copy.sell = NewOrder, !.copy.st = "stopped",
                              !.pc = "stopped"]
       \/ SellRefused /\ sl' = Idle           \* tried again a second later
    /\ UNCHANGED <<redis, active, req, ws, crashes>>

MarkStopped ==
    /\ SlAt("stopped")
    /\ Update(sl.t, sl.copy, "filled")
    /\ sl' = [sl EXCEPT !.pc = "forget"]
    /\ UNCHANGED <<exchange, rec, paperIDR, active, req, ws, bounds>>

StopForget ==
    /\ SlAt("forget")
    /\ active' = [active EXCEPT ![sl.t] = NoTrade]
    /\ sl' = Idle
    /\ UNCHANGED <<exchange, redis, req, ws, bounds>>

StopLossStep == StopCancel \/ StopSell \/ MarkStopped \/ StopForget

-----------------------------------------------------------------------------
(* The process dies: requests, messages and the monitored trades are lost. *)
(* StopLossMonitor.LoadActiveTrades loads nothing.                         *)
Crash ==
    /\ crashes < MaxCrashes
    /\ crashes' = crashes + 1
    /\ wire' = <<>>
    /\ active' = [t \in Trades |-> NoTrade]
    /\ req' = [c \in Clients |-> Idle]
    /\ ws' = Idle /\ sl' = Idle
    /\ UNCHANGED <<ex, coins, redis, refusals>>

Next ==
    \/ \E o \in Orders : ExFill(o)
    \/ \E c \in Clients : Request(c) \/ RequestStep(c)
    \/ WsStep
    \/ \E t \in Trades : StopLossHit(t)
    \/ StopLossStep
    \/ Crash

Spec == Init /\ [][Next]_vars

(* The reader of the WebSocket goes on.                                    *)
Fairness == WF_vars(WsStep)
FairSpec == Spec /\ Fairness

-----------------------------------------------------------------------------
(* Properties.                                                             *)

Quiet ==
    /\ wire = <<>> /\ WsAt("idle") /\ SlAt("idle")
    /\ \A c \in Clients : At(c, "idle")
Did(t, side, kind) == \E o \in Orders :
    ex[o].t = t /\ ex[o].side = side /\ ex[o].kind = kind /\ ex[o].st = "filled"
Bought(t) == Did(t, "buy", "limit")

(* No two trades compete for the account's coins.                          *)
Alone == UserCoins = 0 /\ Cardinality({t \in Trades : Bought(t)}) <= 1
SoldByLimit == \A o \in Orders : ex[o].kind = "limit"
Undisturbed == crashes = 0 /\ refusals = 0 /\ Alone

(* Types; every trade is in some status index.                             *)
TypeOK ==
    /\ \A t \in Trades :
         /\ db[t].st \in Statuses \cup {"none"}
         /\ db[t].buy \in Orders \cup {None} /\ db[t].sell \in Orders \cup {None}
         /\ db[t].st # "none" => \E st \in Statuses : t \in idx[st]
    /\ coins \in Nat
    /\ \A o \in Orders : rec[o] # None => rec[o] = ex[o].t

(* What a record says of a trade is true at the exchange, whatever blind   *)
(* writes of whole records overtake each other: filled, completed and      *)
(* stopped trades were bought, completed and stopped ones also sold, and a *)
(* cancelled one bought nothing.                                           *)
RecordIsTrue ==
    \A t \in Trades :
        /\ db[t].st \in {"filled", "completed", "stopped", "error"} => Bought(t)
        /\ db[t].st = "completed" => Did(t, "sell", "limit")
        /\ db[t].st = "stopped" => Did(t, "sell", "market")
        /\ db[t].st = "cancelled" => ~Bought(t)

(* A trade that sold is not watched once everything is handled, else the   *)
(* stop loss would sell coins the trade does not have.                     *)
DoneIsNotWatched ==
    Quiet => \A t \in Trades :
        active[t].st # "none" => db[t].st \in {"filled", "error"}

(* "auto-sell placed" (model.Trade): a filled trade that was not disturbed *)
(* has its coins offered or sold when everything is handled.               *)
FilledIsOffered ==
    Undisturbed /\ Quiet => \A t \in Trades :
        db[t].st = "filled" =>
            db[t].sell # None /\ ex[db[t].sell].st \in {"open", "filled"}

(* An undisturbed trade is in the index of its status and in no other,     *)
(* although every writer names the status it has read.                     *)
IndexMatches ==
    Undisturbed /\ SoldByLimit => \A t \in Created : \A st \in Statuses :
        db[t].paper \/ (t \in idx[st] <=> st = db[t].st)

(* A buy order that fills after its trade was linked to it takes the trade *)
(* out of pending, unless the process dies.                                *)
Reported(t) ==
    /\ db[t].st = "pending" /\ db[t].buy # None /\ crashes = MaxCrashes
    /\ \E i \in DOMAIN wire : wire[i] = db[t].buy
FillIsHandled == \A t \in Trades : Reported(t) ~> db[t].st # "pending"

(* Its counterpart for safety: when everything is handled, no pending      *)
(* trade has bought its coin.                                              *)
BoughtIsNotPending ==
    Quiet => \A t \in Trades : db[t].st = "pending" => ~Bought(t)

(* The records, whatever writers overtake each other.                      *)
RecordInv == TypeOK /\ RecordIsTrue

(* What is left when everything is handled: undisturbed trades are offered,*)
(* and those that are done are not watched.                                *)
SettledTrades == DoneIsNotWatched /\ FilledIsOffered
=============================================================================
