------------------------- MODULE MarketMakerOrders -------------------------
(***************************************************************************)
(* The orders and the virtual balance of one live market-maker bot         *)
(* (backend/internal/service/market_maker_service.go).                     *)
(*                                                                         *)
(* Five activities share the bot's instance: the ticker loop (runBot),     *)
(* which places and repositions orders with inst.mu held across the        *)
(* exchange call; the reader of the private WebSocket, which reports fills *)
(* and cancellations; the one-minute clean-up routine; StopBot with the    *)
(* goroutine it leaves behind; and the exchange, which is outside the      *)
(* program and modelled from how the code calls it.                        *)
(*                                                                         *)
(* Quantities are whole units of the coin, and every order has the same    *)
(* price, so one unit of IDR buys one unit of the coin.  The market data   *)
(* that decides whether a tick places, keeps or cancels an order (spread,  *)
(* depth, volatility, competitive price) is nondeterministic.              *)
(***************************************************************************)
EXTENDS Integers, Sequences

CONSTANTS
    MaxOrders,    \* bound: how many orders the exchange accepts from the bot
    MaxCleanups,  \* bound: how many rounds of the clean-up routine find orders
    OrderQty,     \* OrderSizeIDR / price: what a buy order asks for
    MinCoin,      \* TradeMinTradedCurrency: a smaller coin balance is dust
    InitialIDR,   \* InitialBalanceIDR, the bot's allocation
    Enabled       \* which of Events below may happen

Events == {"done",            \* a DONE message follows the last FILL message
           "lostMessage",     \* a WebSocket message is lost (disconnection)
           "lostCancelReply", \* a cancellation succeeds, its reply is an error
           "lostTradeReply",  \* an order is accepted, its reply is an error
           "critical",        \* the exchange refuses the API key
           "stop"}            \* the user stops the bot

ASSUME OrdersAssumption ==
    /\ MaxOrders \in Nat
    /\ MaxCleanups \in Nat
    /\ MinCoin \in Nat \ {0}
    /\ OrderQty \in Nat \ {0}
    /\ InitialIDR \in Nat
    /\ Enabled \subseteq Events

Orders == 1 .. MaxOrders
None == 0         \* a nil *model.Order

VARIABLES
    order,     \* the terms the bot chose for each order: side and amount
    ex,        \* the exchange's books: status and executed quantity
    wire,      \* WebSocket messages sent by the exchange, not yet handled
    placed,    \* how many orders the exchange has accepted
    active,    \* inst.ActiveOrder: an order, or None
    obj,       \* the in-memory model.Order: Status and FilledAmount
    rec,       \* the record of the order in Redis: Status and FilledAmount
    bal,       \* inst.Config.Balances
    saved,     \* the balances in Redis
    running,   \* the instance is in the service's map
    loop,      \* where the ticker loop is
    ws,        \* where the WebSocket reader is
    cleaner,   \* where the clean-up routine is
    cleanups,  \* how many rounds it has begun
    stopper,   \* where the goroutine started by StopBot is
    panicked,  \* a goroutine dereferenced a nil order: the process is gone
    credited,  \* history: what fills of each order were added to the balance
    refunded   \* history: what cancellations of each order were given back

bot == <<active, obj, bal>>
history == <<credited, refunded>>
routines == <<loop, ws, cleaner, cleanups, stopper>>
vars == <<order, ex, wire, placed, bot, rec, saved, running, routines,
          panicked, history>>

NoOrder == [side |-> "none", amt |-> 0]
NoRecord == [st |-> "none", filled |-> 0]
IdleWs == [pc |-> "idle", o |-> None, exec |-> 0, full |-> FALSE, filled |-> 0]
IdleCleaner == [pc |-> "idle", o |-> None, filled |-> 0, todo |-> {}]
IdleStopper == [pc |-> "idle", o |-> None, todo |-> {}]

Init ==
    /\ order = [o \in Orders |-> NoOrder]
    /\ ex = [o \in Orders |-> [st |-> "none", done |-> 0]]
    /\ wire = <<>>
    /\ placed = 0
    /\ active = None
    /\ obj = [o \in Orders |-> NoRecord]
    /\ rec = [o \in Orders |-> NoRecord]
    /\ bal = [idr |-> InitialIDR, coin |-> 0]
    /\ saved = bal
    /\ running = TRUE
    /\ loop = "idle"
    /\ ws = IdleWs
    /\ cleaner = IdleCleaner
    /\ cleanups = 0
    /\ stopper = IdleStopper
    /\ panicked = FALSE
    /\ credited = [o \in Orders |-> 0]
    /\ refunded = [o \in Orders |-> 0]

-----------------------------------------------------------------------------
(* Helpers.                                                                *)

(* inst.mu is held by the ticker loop across its exchange calls; every     *)
(* other holder takes it, works and releases it in one step.               *)
LockFree == loop \in {"idle", "exited"}

Monus(a, b) == IF a > b THEN a - b ELSE 0

(* What a filled quantity of order o brings in.                            *)
Credit(b, o, qty) ==
    IF order[o].side = "buy" THEN [b EXCEPT !.coin = @ + qty]
                             ELSE [b EXCEPT !.idr = @ + qty]

(* What a cancelled quantity of order o gives back.                        *)
Refund(b, o, qty) ==
    IF order[o].side = "buy" THEN [b EXCEPT !.idr = @ + qty]
                             ELSE [b EXCEPT !.coin = @ + qty]

(* Mutant: a sell order locks nothing.                                     *)
DeductForBuyOnly(b, o) ==
    IF order[o].side = "buy" THEN [b EXCEPT !.idr = Monus(@, order[o].amt)] ELSE b

(* What placing order o locks, floored at zero.                            *)
Deduct(b, o) ==
    IF order[o].side = "buy" THEN [b EXCEPT !.idr = Monus(@, order[o].amt)]
                             ELSE [b EXCEPT !.coin = Monus(@, order[o].amt)]

(* Mutant: cancelled is spelt differently.                                 *)
FinalStatusMisspelt(filled) == IF filled > 0 THEN "partial" ELSE "canceled"

(* The status of a cancelled order.                                        *)
FinalStatus(filled) == IF filled > 0 THEN "partial" ELSE "cancelled"

(* Mutant: records of closed orders are not found.                         *)
FoundOpenInRedis(o) == rec[o].st = "open"

(* GetByOrderID finds every recorded order, whatever its status.           *)
FoundInRedis(o) == rec[o].st # "none"

(* Mutant: the reported total counts as new.                               *)
NewlyFilledFromZero(exec, filled) == exec

(* What was executed beyond FilledAmount: messages report totals.          *)
NewlyFilled(exec, filled) == Monus(exec, filled)

(* Mutant: the order counts as open after every fill.                      *)
FillReopens(r, full, exec) ==
    [st |-> IF full THEN "filled" ELSE "open", filled |-> exec]

(* Mutant: the fill leaves the status alone.                               *)
FillKeepsStatus(r, full, exec) == [st |-> r.st, filled |-> exec]

(* What a fill makes of an order; a partial fill keeps its status.         *)
Filled(r, full, exec) ==
    [st |-> IF full THEN "filled" ELSE r.st, filled |-> exec]

(* Mutant: the filled order stays the active one.                          *)
NoFillClearsActive(full, recorded) == FALSE

(* Mutant: a partial fill too ends the order.                              *)
AnyFillClearsActive(full, recorded) == recorded

(* handleFilled clears ActiveOrder, whatever it points to; not so for an   *)
(* order that was never recorded, whose fill is given up.                  *)
ClearsActive(full, recorded) == full /\ recorded

(* Mutant: what was filled is refunded too.                                *)
WholeAmount(m) == order[m.o].amt

(* The part of a cancelled order that was locked for nothing.              *)
UnfilledQty(m) == order[m.o].amt - m.exec

Message(o, kind, exec) == [o |-> o, kind |-> kind, exec |-> exec]

-----------------------------------------------------------------------------
(* The exchange.                                                           *)

(* The effect of a cancellation the exchange accepts: a CANCELLED message  *)
(* with what was executed until then.                                      *)
ExCancelled(o) ==
    /\ ex[o].st = "open"
    /\ ex' = [ex EXCEPT ![o].st = "cancelled"]
    /\ wire' = Append(wire, Message(o, "cancelled", ex[o].done))

(* A cancellation of an order that is already filled or cancelled is       *)
(* answered "order not found".                                             *)
ExNotFound(o) == ex[o].st # "open" /\ UNCHANGED <<ex, wire>>

(* A trade executes part or all of an open order.                          *)
ExFill(o) ==
    /\ ex[o].st = "open"
    /\ \E qty \in 1 .. order[o].amt - ex[o].done :
         LET exec == ex[o].done + qty
             full == exec = order[o].amt
         IN  /\ ex' = [ex EXCEPT ![o] = [st |-> IF full THEN "done" ELSE "open",
                                         done |-> exec]]
             /\ \/ /\ wire' = Append(wire, Message(o, "fill", exec))
                \/ /\ full
                   /\ "done" \in Enabled
                   /\ wire' = wire \o <<Message(o, "fill", exec),
                                        Message(o, "done", exec)>>
    /\ UNCHANGED <<order, placed, bot, rec, saved, running, routines,
                   panicked, history>>

(* The connection drops and a message is never delivered.                  *)
LoseMessage ==
    /\ "lostMessage" \in Enabled
    /\ wire # <<>>
    /\ wire' = Tail(wire)
    /\ UNCHANGED <<order, ex, placed, bot, rec, saved, running, routines,
                   panicked, history>>

-----------------------------------------------------------------------------
(* The ticker loop: handleTicker calls placeNewOrder when there is no      *)
(* active order and checkReposition when there is one.  A stopped loop may *)
(* still work on tickers left in its channel: select picks any ready case. *)

LoopUnchanged == UNCHANGED <<ws, cleaner, cleanups, stopper, panicked, history>>

(* placeNewOrder up to the Trade call: sell all coins if they are not dust,*)
(* else buy if the order size is affordable.  The two-second debounce      *)
(* after a cancellation keeps a new order from appearing between two       *)
(* adjacent reads of ActiveOrder in handleLiveOrderUpdate; a failed Trade  *)
(* call starts no debounce.                                                *)
PlaceNewOrder ==
    /\ loop = "idle"
    /\ active = None
    /\ ws.pc = "matched" => rec[ws.o].st = "none"
    /\ placed < MaxOrders
    /\ \/ /\ bal.coin >= MinCoin
          /\ order' = [order EXCEPT ![placed + 1] = [side |-> "sell",
                                                     amt |-> bal.coin]]
       \/ /\ bal.coin < MinCoin
          /\ bal.idr >= OrderQty
          /\ order' = [order EXCEPT ![placed + 1] = [side |-> "buy",
                                                     amt |-> OrderQty]]
    /\ active' = placed + 1
    /\ obj' = [obj EXCEPT ![placed + 1] = [st |-> "pending", filled |-> 0]]
    /\ loop' = "trade"
    /\ UNCHANGED <<ex, wire, placed, bal, rec, saved, running>>
    /\ LoopUnchanged

(* The exchange answers the Trade call.                                    *)
TradeAnswered ==
    /\ loop = "trade"
    /\ \/ /\ ex' = [ex EXCEPT ![active].st = "open"]
          /\ placed' = placed + 1
          /\ \/ loop' = "accepted"
             \/ "lostTradeReply" \in Enabled /\ loop' = "refused"
       \/ /\ UNCHANGED <<ex, placed>>
          /\ loop' = "refused"
       \/ /\ "critical" \in Enabled
          /\ UNCHANGED <<ex, placed>>
          /\ loop' = "critical"
    /\ UNCHANGED <<order, wire, bot, rec, saved, running>>
    /\ LoopUnchanged

(* The order was placed: record it, lock the funds, save the balances.     *)
TradeAccepted ==
    /\ loop = "accepted"
    /\ obj' = [obj EXCEPT ![active].st = "open"]
    /\ rec' = [rec EXCEPT ![active] = [st |-> "open", filled |-> 0]]
    /\ bal' = Deduct(bal, active)
    /\ saved' = bal'
    /\ loop' = "idle"
    /\ UNCHANGED <<order, ex, wire, placed, active, running>>
    /\ LoopUnchanged

(* The Trade call failed: forget the placeholder, the next tick retries.   *)
TradeRefused ==
    /\ loop = "refused"
    /\ active' = None
    /\ loop' = "idle"
    /\ UNCHANGED <<order, ex, wire, placed, obj, rec, bal, saved, running>>
    /\ LoopUnchanged

(* A critical error of a Trade call or of a CancelOrder call: after a      *)
(* Trade call the placeholder is dropped first.  stopBotWithError takes    *)
(* the instance out of the map, which needs s.mu.Lock, and cancels         *)
(* nothing.                                                                *)
StopBotWithError ==
    /\ loop \in {"critical", "criticalCancel"}
    /\ ws.pc = "idle"
    /\ active' = IF loop = "critical" THEN None ELSE active
    /\ running' = FALSE
    /\ loop' = "idle"
    /\ UNCHANGED <<order, ex, wire, placed, obj, rec, bal, saved>>
    /\ LoopUnchanged

(* checkReposition decides to cancel the active order (the spread is too   *)
(* tight, the price has moved, the depth is gone).                         *)
CheckReposition ==
    /\ loop = "idle"
    /\ active # None
    /\ loop' = "cancel"
    /\ UNCHANGED <<order, ex, wire, placed, bot, rec, saved, running>>
    /\ LoopUnchanged

(* The exchange answers the CancelOrder call of checkReposition.           *)
CancelAnswered ==
    /\ loop = "cancel"
    /\ \/ ExCancelled(active) /\ loop' = "cancelled"
       \/ /\ ExCancelled(active)
          /\ "lostCancelReply" \in Enabled
          /\ loop' = "idle"
       \/ ExNotFound(active) /\ loop' = "notFound"
       \/ UNCHANGED <<ex, wire>> /\ loop' = "idle"
       \/ /\ "critical" \in Enabled
          /\ UNCHANGED <<ex, wire>>
          /\ loop' = "criticalCancel"
    /\ UNCHANGED <<order, placed, bot, rec, saved, running>>
    /\ LoopUnchanged

(* Mutant: the cancelled order is refunded at once as well.                *)
RepositionCancelledAndRefunded ==
    /\ loop = "cancelled"
    /\ rec' = [rec EXCEPT ![active].st = "cancelled"]
    /\ obj' = [obj EXCEPT ![active].st = "cancelled"]
    /\ bal' = Refund(bal, active, order[active].amt - obj[active].filled)
    /\ saved' = bal'
    /\ active' = None
    /\ loop' = "idle"
    /\ UNCHANGED <<order, ex, wire, placed, running>>
    /\ LoopUnchanged

(* Cancelled: the record is kept for history, the funds wait for the       *)
(* CANCELLED message.                                                      *)
RepositionCancelled ==
    /\ loop = "cancelled"
    /\ rec' = [rec EXCEPT ![active].st = "cancelled"]
    /\ obj' = [obj EXCEPT ![active].st = "cancelled"]
    /\ active' = None
    /\ loop' = "idle"
    /\ UNCHANGED <<order, ex, wire, placed, bal, saved, running>>
    /\ LoopUnchanged

(* Not found: wait for the WebSocket to say what became of the order.      *)
RepositionNotFound ==
    /\ loop = "notFound"
    /\ obj' = [obj EXCEPT ![active].st = "pending_ws_confirm"]
    /\ rec' = [rec EXCEPT ![active].st = "pending_ws_confirm"]
    /\ loop' = "idle"
    /\ UNCHANGED <<order, ex, wire, placed, active, bal, saved, running>>
    /\ LoopUnchanged

(* The loop sees StopChan closed.                                          *)
LoopExit ==
    /\ loop = "idle"
    /\ ~running
    /\ loop' = "exited"
    /\ UNCHANGED <<order, ex, wire, placed, bot, rec, saved, running>>
    /\ LoopUnchanged

LoopStep ==
    \/ PlaceNewOrder \/ TradeAnswered \/ TradeAccepted \/ TradeRefused
    \/ StopBotWithError
    \/ CheckReposition \/ CancelAnswered
    \/ RepositionCancelled \/ RepositionNotFound
    \/ LoopExit

-----------------------------------------------------------------------------
(* The private WebSocket reader: handleLiveOrderUpdate and what it calls.  *)
(* Messages are handled one after the other, in the order they were sent.  *)

WsUnchanged == UNCHANGED <<order, ex, placed, loop, cleaner, cleanups, stopper>>

NextIs(kinds) == ws.pc = "idle" /\ wire # <<>> /\ Head(wire).kind \in kinds

(* A FILL or DONE message: under s.mu.RLock, without inst.mu, the order is *)
(* compared with ActiveOrder and otherwise looked up in Redis; a bot that  *)
(* is not in the map gets nothing.  s.mu stays read-locked until the       *)
(* message is applied.                                                     *)
TakeFill ==
    /\ NextIs({"fill", "done"})
    /\ LET m == Head(wire)
           matched == [pc |-> "matched", o |-> m.o, exec |-> m.exec,
                       full |-> m.exec = order[m.o].amt, filled |-> 0]
       IN  ws' = IF running /\ active = m.o
                 THEN matched
                 ELSE IF running /\ FoundInRedis(m.o)
                 THEN [matched EXCEPT !.pc = "fallback",
                                      !.filled = rec[m.o].filled]
                 ELSE IdleWs
    /\ wire' = Tail(wire)
    /\ UNCHANGED <<bot, rec, saved, running, panicked, history>>
    /\ WsUnchanged

(* inst.ActiveOrder is read again to be passed to the handler, which       *)
(* dereferences it.                                                        *)
ReadActive ==
    /\ ws.pc = "matched"
    /\ IF active = None
       THEN panicked' = TRUE /\ ws' = IdleWs
       ELSE /\ ws' = [ws EXCEPT !.pc = "read", !.o = active]
            /\ UNCHANGED panicked
    /\ UNCHANGED <<wire, bot, rec, saved, running, history>>
    /\ WsUnchanged

(* handleFilled (a complete fill) and handlePartialFill, under inst.mu, on *)
(* the in-memory order or on the copy read from Redis: credit what was     *)
(* executed beyond FilledAmount, if anything, and record it.               *)
ApplyFill ==
    /\ ws.pc \in {"read", "fallback"}
    /\ LockFree
    /\ LET o == ws.o
           inMemory == ws.pc = "read"
           qty == NewlyFilled(ws.exec, IF inMemory THEN obj[o].filled ELSE ws.filled)
           recorded == FoundInRedis(o)
       IN  /\ active' = IF ClearsActive(ws.full, recorded) THEN None ELSE active
           /\ IF qty > 0 /\ (ws.full => recorded)
              THEN /\ bal' = Credit(bal, o, qty)
                   /\ saved' = bal'
                   /\ rec' = IF recorded
                             THEN [rec EXCEPT ![o] = Filled(@, ws.full, ws.exec)]
                             ELSE rec
                   /\ obj' = IF inMemory
                             THEN [obj EXCEPT ![o] = Filled(@, ws.full, ws.exec)]
                             ELSE obj
                   /\ credited' = [credited EXCEPT ![o] = @ + qty]
              ELSE UNCHANGED <<bal, saved, rec, obj, credited>>
    /\ ws' = IdleWs
    /\ UNCHANGED <<wire, running, panicked, refunded>>
    /\ WsUnchanged

(* handleCancelledOrder for a running bot, under inst.mu: the order is     *)
(* ActiveOrder or is found in Redis, whatever its status there; its        *)
(* unfilled part is given back.                                            *)
ApplyCancel ==
    /\ NextIs({"cancelled"})
    /\ running
    /\ LockFree
    /\ LET m == Head(wire)
           unfilled == UnfilledQty(m)
       IN  IF active = m.o \/ FoundInRedis(m.o)
           THEN /\ bal' = Refund(bal, m.o, unfilled)
                /\ saved' = bal'
                /\ active' = IF active = m.o THEN None ELSE active
                /\ obj' = IF active = m.o
                          THEN [obj EXCEPT ![m.o].st = FinalStatus(m.exec)]
                          ELSE obj
                /\ rec' = [rec EXCEPT ![m.o].st = FinalStatus(m.exec)]
                /\ refunded' = [refunded EXCEPT ![m.o] = @ + unfilled]
           ELSE UNCHANGED <<bal, saved, active, obj, rec, refunded>>
    /\ wire' = Tail(wire)
    /\ UNCHANGED <<running, ws, panicked, credited>>
    /\ WsUnchanged

(* handleCancelledOrder for a bot that is not in the map: the balance in   *)
(* Redis is corrected, if the record says the order was still open.        *)
ApplyCancelStopped ==
    /\ NextIs({"cancelled"})
    /\ ~running
    /\ LET m == Head(wire)
           unfilled == UnfilledQty(m)
       IN  /\ IF rec[m.o].st \in {"open", "pending_ws_confirm"}
              THEN /\ saved' = Refund(saved, m.o, unfilled)
                   /\ refunded' = [refunded EXCEPT ![m.o] = @ + unfilled]
              ELSE UNCHANGED <<saved, refunded>>
           /\ rec' = IF FoundInRedis(m.o)
                     THEN [rec EXCEPT ![m.o].st = FinalStatus(m.exec)]
                     ELSE rec
    /\ wire' = Tail(wire)
    /\ UNCHANGED <<bot, running, ws, panicked, credited>>
    /\ WsUnchanged

WsStep == TakeFill \/ ReadActive \/ ApplyFill \/ ApplyCancel \/ ApplyCancelStopped

-----------------------------------------------------------------------------
(* The clean-up routine: every minute, cancel the recorded open orders of  *)
(* every running bot but the newest, and the newest too if it is older     *)
(* than five minutes.                                                      *)

CleanerUnchanged ==
    UNCHANGED <<order, placed, active, obj, running, loop, ws, stopper,
                panicked, credited>>

Newest(S) == CHOOSE o \in S : \A p \in S : p <= o

CleanupList ==
    /\ cleanups < MaxCleanups
    /\ cleaner.pc = "idle"
    /\ running
    /\ cleanups' = cleanups + 1
    /\ LET open == {o \in Orders : rec[o].st \in {"open", "pending_ws_confirm"}}
       IN  /\ open # {}
           /\ \E todo \in {open, open \ {Newest(open)}} \ {{}} :
                cleaner' = [IdleCleaner EXCEPT
                    !.pc = "next",
                    !.todo = {[o |-> o, filled |-> rec[o].filled] : o \in todo}]
    /\ UNCHANGED <<ex, wire, rec, bal, saved, refunded>>
    /\ CleanerUnchanged

(* cancelOrderForCleanup asks the exchange and goes on whatever it answers. *)
CleanupCancel ==
    /\ cleaner.pc = "next"
    /\ \E t \in cleaner.todo :
         /\ ExCancelled(t.o) \/ UNCHANGED <<ex, wire>>
         /\ cleaner' = [pc |-> "status", o |-> t.o, filled |-> t.filled,
                        todo |-> cleaner.todo \ {t}]
    /\ UNCHANGED <<rec, bal, saved, refunded, cleanups>>
    /\ CleanerUnchanged

CleanupStatus ==
    /\ cleaner.pc = "status"
    /\ rec' = [rec EXCEPT ![cleaner.o].st = FinalStatus(cleaner.filled)]
    /\ cleaner' = [cleaner EXCEPT !.pc = "refund"]
    /\ UNCHANGED <<ex, wire, bal, saved, refunded, cleanups>>
    /\ CleanerUnchanged

CleanupRefund ==
    /\ cleaner.pc = "refund"
    /\ LockFree
    /\ LET unfilled == order[cleaner.o].amt - cleaner.filled
       IN  /\ bal' = Refund(bal, cleaner.o, unfilled)
           /\ refunded' = [refunded EXCEPT ![cleaner.o] = @ + unfilled]
    /\ cleaner' = [cleaner EXCEPT !.pc = "save"]
    /\ UNCHANGED <<ex, wire, rec, saved, cleanups>>
    /\ CleanerUnchanged

(* UpdateBalance after inst.mu was released: what is saved is whatever the *)
(* balances are by then.                                                   *)
CleanupSave ==
    /\ cleaner.pc = "save"
    /\ saved' = bal
    /\ cleaner' = IF cleaner.todo = {} THEN IdleCleaner
                  ELSE [IdleCleaner EXCEPT !.pc = "next", !.todo = cleaner.todo]
    /\ UNCHANGED <<ex, wire, rec, bal, refunded, cleanups>>
    /\ CleanerUnchanged

CleanerStep ==
    CleanupList \/ CleanupCancel \/ CleanupStatus \/ CleanupRefund \/ CleanupSave

-----------------------------------------------------------------------------
(* StopBot takes the instance out of the map (under s.mu.Lock, so not      *)
(* while a fill message is being applied) and starts a goroutine that      *)
(* cancels the active order if it is open, and then every other order      *)
(* recorded as open.                                                       *)

StopperUnchanged ==
    UNCHANGED <<order, placed, active, loop, ws, cleaner, cleanups, credited>>

StopBot ==
    /\ "stop" \in Enabled
    /\ running
    /\ ws.pc = "idle"
    /\ running' = FALSE
    /\ stopper' = [IdleStopper EXCEPT !.pc = "active"]
    /\ UNCHANGED <<ex, wire, obj, rec, bal, saved, refunded, panicked>>
    /\ StopperUnchanged

StopLook ==
    /\ stopper.pc = "active"
    /\ IF active # None /\ obj[active].st = "open"
       THEN stopper' = [stopper EXCEPT !.pc = "cancelActive", !.o = active]
       ELSE stopper' = [stopper EXCEPT !.pc = "list"]
    /\ UNCHANGED <<running, ex, wire, obj, rec, bal, saved, refunded, panicked>>
    /\ StopperUnchanged

StopList ==
    /\ stopper.pc = "list"
    /\ stopper' = [IdleStopper EXCEPT
                     !.pc = "next",
                     !.todo = {o \in Orders : rec[o].st = "open"}]
    /\ UNCHANGED <<running, ex, wire, obj, rec, bal, saved, refunded, panicked>>
    /\ StopperUnchanged

StopNext ==
    /\ stopper.pc = "next"
    /\ \/ /\ stopper.todo = {}
          /\ stopper' = [stopper EXCEPT !.pc = "finished"]
       \/ \E o \in stopper.todo :
            stopper' = [stopper EXCEPT !.pc = "cancel", !.o = o,
                                       !.todo = @ \ {o}]
    /\ UNCHANGED <<running, ex, wire, obj, rec, bal, saved, refunded, panicked>>
    /\ StopperUnchanged

Then(pc) == IF pc \in {"cancelActive", "statusActive"} THEN "list" ELSE "next"

(* An unlocked dereference of inst.ActiveOrder, which is nil by then if    *)
(* the ticker loop has dropped the order meanwhile.                        *)
Dereference == panicked' = (active = None)

(* Mutant: the funds come back whatever the answer.                        *)
StopCancelWhateverTheAnswer ==
    /\ stopper.pc \in {"cancelActive", "cancel"}
    /\ ExCancelled(stopper.o) \/ UNCHANGED <<ex, wire>>
    /\ stopper' = [stopper EXCEPT
          !.pc = IF @ = "cancel" THEN "refund" ELSE "refundActive"]
    /\ UNCHANGED <<running, obj, rec, bal, saved, refunded, panicked>>
    /\ StopperUnchanged

(* CancelOrder: an error is logged and skips the order; for the active     *)
(* order, the log reads inst.ActiveOrder again.                            *)
StopCancel ==
    /\ stopper.pc \in {"cancelActive", "cancel"}
    /\ LET isActive == stopper.pc = "cancelActive"
           Error == /\ stopper' = [stopper EXCEPT !.pc = Then(@)]
                    /\ IF isActive THEN Dereference ELSE UNCHANGED panicked
       IN  \/ /\ ExCancelled(stopper.o)
              /\ stopper' = [stopper EXCEPT
                    !.pc = IF isActive THEN "refundActive" ELSE "refund"]
              /\ UNCHANGED panicked
           \/ /\ ExCancelled(stopper.o)
              /\ "lostCancelReply" \in Enabled
              /\ Error
           \/ UNCHANGED <<ex, wire>> /\ Error
    /\ UNCHANGED <<running, obj, rec, bal, saved, refunded>>
    /\ StopperUnchanged

(* The whole amount of the order is given back, filled or not.             *)
StopRefund ==
    /\ stopper.pc \in {"refundActive", "refund"}
    /\ LockFree
    /\ bal' = Refund(bal, stopper.o, order[stopper.o].amt)
    /\ saved' = bal'
    /\ refunded' = [refunded EXCEPT ![stopper.o] = @ + order[stopper.o].amt]
    /\ stopper' = [stopper EXCEPT
          !.pc = IF @ = "refund" THEN "status" ELSE "statusActive"]
    /\ UNCHANGED <<running, ex, wire, obj, rec, panicked>>
    /\ StopperUnchanged

(* The record is marked cancelled; for the active order, that of whatever  *)
(* inst.ActiveOrder is by then.                                            *)
StopStatus ==
    /\ stopper.pc = "status"
    /\ rec' = [rec EXCEPT ![stopper.o].st = "cancelled"]
    /\ stopper' = [stopper EXCEPT !.pc = Then(@)]
    /\ UNCHANGED <<running, ex, wire, obj, bal, saved, refunded, panicked>>
    /\ StopperUnchanged

StopStatusActive ==
    /\ stopper.pc = "statusActive"
    /\ Dereference
    /\ IF active = None
       THEN UNCHANGED <<rec, obj>>
       ELSE /\ rec' = [rec EXCEPT ![active].st =
                                 IF @ = "none" THEN @ ELSE "cancelled"]
            /\ obj' = [obj EXCEPT ![active].st = "cancelled"]
    /\ stopper' = [stopper EXCEPT !.pc = Then(@)]
    /\ UNCHANGED <<running, ex, wire, bal, saved, refunded>>
    /\ StopperUnchanged

StopperStep ==
    \/ StopBot \/ StopLook \/ StopList \/ StopNext
    \/ StopCancel \/ StopRefund \/ StopStatus \/ StopStatusActive

-----------------------------------------------------------------------------
ExchangeStep == LoseMessage \/ \E o \in Orders : ExFill(o)

Next ==
    /\ ~panicked
    /\ ExchangeStep \/ LoopStep \/ WsStep \/ CleanerStep \/ StopperStep

Spec == Init /\ [][Next]_vars

(* What the code's scheduling guarantees.  A call to the exchange is       *)
(* answered and its answer handled: nothing else holds the goroutine.  The *)
(* WebSocket reader handles message after message; it may find inst.mu     *)
(* taken again and again, but a sync.Mutex hands itself over to a waiter   *)
(* that has waited a millisecond, hence strong fairness; so does the       *)
(* clean-up routine, which its own timer wakes every minute.  Ticks, fills *)
(* and the decision to cancel are not promised.                            *)
AnswerHandled ==
    \/ TradeAnswered \/ TradeAccepted \/ TradeRefused
    \/ CancelAnswered \/ RepositionCancelled \/ RepositionNotFound

Fairness ==
    /\ WF_vars(~panicked /\ AnswerHandled)
    /\ SF_vars(~panicked /\ WsStep)
    /\ SF_vars(~panicked /\ CleanerStep)

FairSpec == Spec /\ Fairness

-----------------------------------------------------------------------------
(* Properties.                                                             *)

Sides == {"none", "buy", "sell"}
Terms == [side : Sides, amt : Nat]
Books == [st : {"none", "open", "done", "cancelled"}, done : Nat]
RecordStatus == {"none", "open", "pending_ws_confirm", "cancelled", "partial",
                 "filled"}
Records == [st : RecordStatus, filled : Nat]
MemoryRecords == [st : RecordStatus \cup {"pending"}, filled : Nat]
Balances == [idr : Int, coin : Int]
Messages == [o : Orders, kind : {"fill", "done", "cancelled"}, exec : Nat]
LoopStates == {"idle", "trade", "accepted", "refused", "critical", "cancel",
               "cancelled", "notFound", "criticalCancel", "exited"}
WsStates == [pc : {"idle", "matched", "read", "fallback"},
             o : Orders \cup {None}, exec : Nat, full : BOOLEAN, filled : Nat]
CleanerStates == [pc : {"idle", "next", "status", "refund", "save"},
                  o : Orders \cup {None}, filled : Nat,
                  todo : SUBSET [o : Orders, filled : Nat]]
StopperStates == [pc : {"idle", "active", "cancelActive", "refundActive",
                        "statusActive", "list", "next", "cancel", "refund",
                        "status", "finished"},
                  o : Orders \cup {None}, todo : SUBSET Orders]

(* Every variable keeps its type.                                          *)
TypeOK ==
    /\ order \in [Orders -> Terms]
    /\ ex \in [Orders -> Books]
    /\ wire \in Seq(Messages)
    /\ placed \in 0 .. MaxOrders
    /\ active \in Orders \cup {None}
    /\ obj \in [Orders -> MemoryRecords]
    /\ rec \in [Orders -> Records]
    /\ bal \in Balances
    /\ saved \in Balances
    /\ running \in BOOLEAN
    /\ loop \in LoopStates
    /\ ws \in WsStates
    /\ cleaner \in CleanerStates
    /\ cleanups \in 0 .. MaxCleanups
    /\ stopper \in StopperStates
    /\ panicked \in BOOLEAN
    /\ credited \in [Orders -> Nat]
    /\ refunded \in [Orders -> Int]

(* A fill is credited once: whatever messages are repeated, lost or        *)
(* handled late, and whoever else touches the order, the balance never     *)
(* receives more of an order than the exchange executed of it              *)
(* (handleFilled and handlePartialFill).                                   *)
CreditedWithinExecuted == \A o \in Orders : credited[o] <= ex[o].done

(* What the exchange gives back when it cancels an order.                  *)
Released(o) == IF ex[o].st = "cancelled" THEN order[o].amt - ex[o].done ELSE 0

(* Locked funds are given back once, and only the part the exchange        *)
(* released (every path that restores locked funds).                       *)
RefundedWithinReleased == \A o \in Orders : refunded[o] <= Released(o)

(* StopBot and the WebSocket handler give locked funds back only for an    *)
(* order the exchange did cancel (the clean-up routine does otherwise, so  *)
(* the promise is for the time before its first round).                    *)
RefundOnlyIfCancelled ==
    cleanups = 0 => \A o \in Orders : refunded[o] > 0 => ex[o].st = "cancelled"

(* When every message was handled and nobody is in the middle of anything, *)
(* each order's fills are all credited and its cancelled part is all given *)
(* back.                                                                   *)
Quiet == wire = <<>> /\ ws.pc = "idle" /\ LockFree /\ ~panicked
SettledWhenQuiet ==
    Quiet => \A o \in Orders : /\ credited[o] = ex[o].done
                               /\ refunded[o] = Released(o)

(* placeNewOrder never adds a second order to the exchange's book while    *)
(* one of the bot's orders is open there.                                  *)
OneLiveOrder ==
    \A o, p \in Orders : ex[o].st = "open" /\ ex[p].st = "open" => o = p

(* No goroutine dereferences a nil order: the order a handler found active *)
(* is still there when it is used.                                         *)
NoNilOrder == ~panicked

(* Once StopBot's goroutine is through and the loop has ended, none of the *)
(* bot's orders is open on the exchange.                                   *)
StopLeavesNoOrder ==
    stopper.pc = "finished" /\ loop = "exited" =>
        \A o \in Orders : ex[o].st # "open"

(* An order whose record says it is over is never recorded as open again.  *)
Over == {"filled", "cancelled", "partial"}
OverIsFinal ==
    [][\A o \in Orders : rec[o].st \in Over => rec'[o].st \in Over]_rec

(* Every fill the exchange reports is eventually credited, however often   *)
(* the ticker loop takes the order away from the WebSocket reader          *)
(* (handleLiveOrderUpdate's lookup in Redis).                              *)
FillsAreCredited ==
    \A o \in Orders : \A qty \in 1 .. InitialIDR :
        ex[o].done >= qty ~> credited[o] >= qty \/ panicked

(* An order the exchange did not find waits in pending_ws_confirm only     *)
(* until a message tells what became of it (checkReposition).              *)
PendingIsResolved ==
    \A o \in Orders :
        rec[o].st = "pending_ws_confirm" ~> rec[o].st \in Over \/ panicked

(* The funds of a cancelled order come back (handleCancelledOrder).        *)
CancelledIsRefunded ==
    \A o \in Orders :
        ex[o].st = "cancelled" ~> refunded[o] = Released(o) \/ panicked

(* An order the exchange has closed does not stay the bot's active order:  *)
(* the bot would never trade again (checkReposition waits for the          *)
(* WebSocket, nothing else clears ActiveOrder).                            *)
ClosedOrderIsDropped ==
    \A o \in Orders : ex[o].st \in {"done", "cancelled"} ~> active # o \/ panicked

-----------------------------------------------------------------------------
(* Why CreditedWithinExecuted holds: the inductive invariant.              *)

(* Whoever works on an order has one, and the loop's is ActiveOrder.       *)
InLoop == {"trade", "accepted", "cancel", "cancelled", "notFound"}
HoldsOrder ==
    /\ loop \in InLoop => active \in Orders
    /\ loop = "trade" => placed < MaxOrders
    /\ ws.pc # "idle" => ws.o \in Orders
    /\ cleaner.pc \in {"status", "refund", "save"} => cleaner.o \in Orders
    /\ stopper.pc \notin {"idle", "active", "list", "next", "finished"}
          => stopper.o \in Orders

(* The exchange knows the orders 1 .. placed, and no other.                *)
KnownBooks ==
    /\ loop = "trade" => active = placed + 1
    /\ \A o \in Orders : o > placed => ex[o] = [st |-> "none", done |-> 0]

(* Each of them is recorded except the one whose acceptance the loop is    *)
(* about to handle.                                                        *)
KnownOrders ==
    /\ KnownBooks
    /\ loop \notin {"trade", "refused", "critical"} => active <= placed
    /\ \A o \in Orders : o <= placed /\ rec[o].st = "none" =>
                             loop = "accepted" /\ active = o

(* A message tells what the exchange has executed, never more; so does the *)
(* one the reader has in hand.                                             *)
WireIsTrue ==
    \A i \in 1 .. Len(wire) :
        wire[i].o <= placed /\ wire[i].exec <= ex[wire[i].o].done

MessagesAreTrue ==
    /\ WireIsTrue
    /\ ws.pc # "idle" => ws.o <= placed /\ ws.exec <= ex[ws.o].done

(* A handler finds the order it matched, or none; and every FilledAmount   *)
(* it may use is what was credited so far.                                 *)
FilledIsCredited ==
    /\ ws.pc = "matched" => active \in {None, ws.o}
    /\ ws.pc = "fallback" => active # ws.o /\ ws.filled = credited[ws.o]
    /\ ws.pc = "read" => obj[ws.o].filled = credited[ws.o]
    /\ active # None => obj[active].filled = credited[active]
    /\ loop = "accepted" => credited[active] = 0
    /\ \A o \in Orders : rec[o].filled = credited[o]

CreditInv ==
    TypeOK /\ HoldsOrder /\ KnownOrders /\ MessagesAreTrue /\ FilledIsCredited
           /\ CreditedWithinExecuted
=============================================================================
