----------------------------- MODULE PumpHunter -----------------------------
(***************************************************************************)
(* Positions, orders and virtual balance of one live pump-hunter bot       *)
(* (backend/internal/service/pump_hunter_service.go).                      *)
(*                                                                         *)
(* A position begins with a buy order (pending), is open once the order is *)
(* reported filled, selling once a sell order stands, and ends closed; or  *)
(* it is cancelled while pending.  Five kinds of goroutines share the      *)
(* instance: runBot (opens, closes, cancels and repositions), the reader   *)
(* of the private WebSocket (fills), the fill handlers and closing         *)
(* routines started with "go", StopBot's canceller, and StartBot, which    *)
(* rebuilds the maps from Redis.                                           *)
(*                                                                         *)
(* Every price is one, so an amount of IDR buys as many coins.  Which pair *)
(* pumps, when a pump proves false, when the price moves and when an open  *)
(* position should be sold is nondeterministic here; PumpRules models how  *)
(* the bot decides it.                                                     *)
(***************************************************************************)
EXTENDS Integers, Sequences, FiniteSets

CONSTANTS
    Pairs,          \* the pairs that may pump, interchangeable
    MaxPositions,   \* bound: positions ever opened
    MaxOrders,      \* bound: orders the exchange accepts
    MaxStarts,      \* bound: how often the bot is started again
    MaxConcurrent,  \* MaxConcurrentPositions
    PositionIDR,    \* MaxPositionIDR
    InitialIDR,     \* InitialBalanceIDR; the account holds at least as much
    UserCoins,      \* coins of each pair the user owned before
    Enabled         \* which of Events below may happen

Events == {"repeat",        \* a fill is reported twice (FILL and DONE)
           "partial",       \* an order is executed in parts
           "lostMessage",   \* a WebSocket message is lost
           "lostReply",     \* an accepted order is answered by an error
           "refused",       \* a limit sell order is refused
           "cancelFails",   \* a cancellation fails, or only its reply is lost
           "lookupFails",   \* GetOrder fails
           "external",      \* the user cancels an order at the exchange
           "late",          \* what StartBot finds out is also reported
           "falsePump", "priceMoves",
           "stop", "crash"}

ASSUME PumpAssumption ==
    /\ 0 \notin Pairs /\ MaxPositions \in Nat /\ MaxOrders \in Nat
    /\ MaxStarts \in Nat /\ MaxConcurrent \in Nat \ {0}
    /\ PositionIDR \in Nat \ {0} /\ InitialIDR \in Nat /\ UserCoins \in Nat
    /\ Enabled \subseteq Events

Positions == 1 .. MaxPositions
Orders == 1 .. MaxOrders
None == 0
Handlers == {0} \cup Positions     \* 0 reads the WebSocket
Ws == 0

VARIABLES
    target,   \* TargetProfitPercent: "limit" above 1 percent, else "ath"
    ex,       \* the exchange's books
    coins,    \* coins of each pair free in the account
    wire,     \* WebSocket messages not yet handled
    used,     \* positions created so far
    mem,      \* the model.Position objects in memory
    pend,     \* inst.PendingOrders
    open,     \* inst.OpenPositions
    bal,      \* inst.Config.Balances["idr"]
    db,       \* position records
    rec,      \* order records, by the order they were created for
    up,       \* the instance is in the service's map
    alive,    \* its runBot goroutine has not returned
    loop,     \* where runBot is
    hs,       \* where each fill handler is
    closer,   \* where the closing routine of each position is
    stopper,  \* orders StopBot's goroutine has still to cancel
    starter,  \* positions StartBot has still to restore
    starts,
    ended,    \* history: how often a position's funds were booked back
    abandoned,\* history: positions given up or moved to a new order though
              \* their order had bought coins or could still buy some
    told      \* history: what this process was told of an order's execution

books == <<ex, coins, wire>>
maps == <<pend, open>>
routines == <<loop, hs, closer, stopper, starter>>
life == <<up, alive, starts, target, used>>
history == <<ended, abandoned, told>>
vars == <<books, mem, maps, bal, db, rec, routines, life, history>>

NoPosition == [st |-> "none", pair |-> None, amt |-> 0, kind |-> "limit",
               entry |-> None, first |-> None, exit |-> None]
NoOrder == [st |-> "none", side |-> "none", p |-> None, pair |-> None,
            amt |-> 0, done |-> 0]
NoRecord == [st |-> "none", oid |-> None, p |-> None]
IdleLoop == [pc |-> "idle", p |-> None, kind |-> "limit"]
IdleHandler == [pc |-> "idle", o |-> None, p |-> None, copy |-> NoPosition]
Nothing == [pc |-> "idle", todo |-> {}]

Init ==
    /\ target \in {"limit", "ath"}
    /\ ex = [o \in Orders |-> NoOrder]
    /\ coins = [c \in Pairs |-> UserCoins]
    /\ wire = <<>>
    /\ used = 0
    /\ mem = [p \in Positions |-> NoPosition]
    /\ pend = {} /\ open = {}
    /\ bal = InitialIDR
    /\ db = mem
    /\ rec = [o \in Orders |-> NoRecord]
    /\ up = TRUE /\ alive = TRUE
    /\ loop = IdleLoop
    /\ hs = [h \in Handlers |-> IdleHandler]
    /\ closer = [p \in Positions |-> "idle"]
    /\ stopper = Nothing /\ starter = Nothing
    /\ starts = 0
    /\ ended = [p \in Positions |-> 0]
    /\ abandoned = {}
    /\ told = [o \in Orders |-> "no"]

-----------------------------------------------------------------------------
(* The exchange.                                                           *)

Placed == Cardinality({o \in Orders : ex[o].st # "none"})
NewOrder == Placed + 1

(* A message to a bot that is not up changes nothing; one sent while       *)
(* StartBot holds the lock waits and meets the new instance.               *)
Sent(o, st) ==
    IF up \/ starter.pc = "restore" THEN Append(wire, [o |-> o, st |-> st])
    ELSE wire
(* How often a complete execution is reported.                             *)
Times == IF up /\ "repeat" \in Enabled THEN {1, 2} ELSE {1}
Reported(o, n) ==
    IF n = 2 THEN wire \o <<[o |-> o, st |-> "fill"], [o |-> o, st |-> "fill"]>>
    ELSE Sent(o, "fill")

(* A Trade call the exchange accepts: a market order is executed at once,  *)
(* a limit order stands; a sell order takes its coins from the account.    *)
Accept(side, kind, p, pair, amt) ==
    \E times \in Times :
    LET n == NewOrder
        now == kind = "market"
    IN  /\ n \in Orders
        /\ now \/ times = 1
        /\ ex' = [ex EXCEPT ![n] =
             [st |-> IF now THEN "filled" ELSE "open", side |-> side, p |-> p,
              pair |-> pair, amt |-> amt, done |-> IF now THEN amt ELSE 0]]
        /\ coins' = [coins EXCEPT ![pair] =
             IF side = "sell" THEN @ - amt ELSE IF now THEN @ + amt ELSE @]
        /\ wire' = IF now THEN Reported(n, times) ELSE wire

(* Unless "late", what happens to an order while StartBot restores happens *)
(* after StartBot asked for that order.                                    *)
InTime(o) == "late" \in Enabled \/ ex[o].p \notin starter.todo

ExFill(o) ==
    /\ ex[o].st = "open" /\ InTime(o)
    /\ \E times \in Times :
         /\ ex' = [ex EXCEPT ![o].st = "filled", ![o].done = ex[o].amt]
         /\ wire' = Reported(o, times)
    /\ coins' = IF ex[o].side = "buy"
                THEN [coins EXCEPT ![ex[o].pair] = @ + (ex[o].amt - ex[o].done)]
                ELSE coins
    /\ UNCHANGED <<mem, maps, bal, db, rec, routines, life, history>>

ExPartial(o) ==
    /\ "partial" \in Enabled
    /\ ex[o].st = "open" /\ ex[o].done + 1 < ex[o].amt /\ InTime(o)
    /\ ex' = [ex EXCEPT ![o].done = @ + 1]
    /\ coins' = IF ex[o].side = "buy" THEN [coins EXCEPT ![ex[o].pair] = @ + 1]
                                      ELSE coins
    /\ wire' = Sent(o, "fill")
    /\ UNCHANGED <<mem, maps, bal, db, rec, routines, life, history>>

(* A cancellation that reaches an open order; the unsold coins come back.  *)
Cancelled(o) ==
    /\ ex[o].st = "open"
    /\ ex' = [ex EXCEPT ![o].st = "cancelled"]
    /\ coins' = IF ex[o].side = "sell"
                THEN [coins EXCEPT ![ex[o].pair] = @ + (ex[o].amt - ex[o].done)]
                ELSE coins
    /\ wire' = Sent(o, "cancel")

(* What CancelOrder does at the exchange and answers.                      *)
CancelAnswer(o, ok) ==
    \/ ok /\ Cancelled(o)
    \/ ~ok /\ ex[o].st # "open" /\ UNCHANGED books
    \/ ~ok /\ "cancelFails" \in Enabled /\ ex[o].st = "open"
           /\ (Cancelled(o) \/ UNCHANGED books)

ExternalCancel(o) ==
    /\ "external" \in Enabled /\ InTime(o)
    /\ Cancelled(o)
    /\ UNCHANGED <<mem, maps, bal, db, rec, routines, life, history>>

LoseMessage ==
    /\ "lostMessage" \in Enabled
    /\ wire # <<>>
    /\ wire' = Tail(wire)
    /\ UNCHANGED <<ex, coins, mem, maps, bal, db, rec, routines, life, history>>

-----------------------------------------------------------------------------
(* runBot: opening and closing positions.  inst.mu is held through the     *)
(* Trade call, so the order and its bookkeeping are one step.              *)

(* A position that is selling does not count.                              *)
Active == Cardinality(pend) + Cardinality({p \in open : mem[p].st = "open"})

SmallerOf(a, b) == IF a < b THEN a ELSE b
Record(p, o) == [st |-> "open", oid |-> o, p |-> p]

(* Mutant: pending positions are not looked at.                            *)
HasActive(pair) == \E p \in pend \cup open :
                      mem[p].pair = pair /\ mem[p].st # "selling"

HasPosition(pair) == \E p \in pend \cup open : mem[p].pair = pair

MayOpen(pair) ==
    /\ alive /\ loop.pc = "idle"
    /\ Active < MaxConcurrent
    /\ ~HasPosition(pair)
    /\ bal > 0
    /\ used < MaxPositions

Track(p, pos) ==
    /\ mem' = [mem EXCEPT ![p] = pos]
    /\ db' = [db EXCEPT ![p] = pos]

OpenPosition(pair, kind) ==
    LET p == used + 1
        size == SmallerOf(PositionIDR, bal)
    IN  /\ MayOpen(pair)
        /\ Accept("buy", kind, p, pair, size)
        /\ used' = p
        /\ Track(p, [st |-> "pending", pair |-> pair, amt |-> size, kind |-> kind,
                     entry |-> NewOrder, first |-> NewOrder, exit |-> None])
        /\ rec' = [rec EXCEPT ![NewOrder] = Record(p, NewOrder)]
        /\ pend' = pend \cup {p}
        /\ bal' = bal - size
        /\ UNCHANGED <<open, routines, up, alive, starts, target, history>>

(* The order stands, but Trade or posRepo.Create returned an error.        *)
OpenPositionUnnoticed(pair, kind) ==
    /\ "lostReply" \in Enabled
    /\ MayOpen(pair)
    /\ Accept("buy", kind, None, pair, SmallerOf(PositionIDR, bal))
    /\ UNCHANGED <<mem, maps, bal, db, rec, routines, life, history>>

(* checkExitConditions looks at a position one minute after the fill       *)
(* handler stamped it; the handler is done by then (five seconds and one   *)
(* Trade call).                                                            *)
JustFilled(p) == \E h \in Handlers : hs[h].p = p /\ hs[h].pc = "sell"

Sellable(p) == coins[mem[p].pair] >= mem[p].amt

SellAccepted(p, kind) ==
    LET pos == [mem[p] EXCEPT !.st = "selling", !.exit = NewOrder] IN
    /\ Sellable(p)
    /\ Accept("sell", kind, p, mem[p].pair, mem[p].amt)
    /\ Track(p, pos)
    /\ rec' = [rec EXCEPT ![NewOrder] = Record(p, NewOrder)]

(* Mutant: a position that is being sold may be closed again.              *)
MayCloseAnyOpen(p) ==
    /\ alive /\ loop.pc = "idle"
    /\ p \in open
    /\ ~JustFilled(p)

MayClose(p) ==
    /\ alive /\ loop.pc = "idle"
    /\ p \in open /\ mem[p].st = "open"
    /\ ~JustFilled(p)

ClosePosition(p) ==
    /\ MayClose(p)
    /\ SellAccepted(p, "market")
    /\ UNCHANGED <<maps, bal, routines, life, history>>

ClosePositionUnnoticed(p) ==
    /\ "lostReply" \in Enabled
    /\ MayClose(p) /\ Sellable(p)
    /\ Accept("sell", "market", p, mem[p].pair, mem[p].amt)
    /\ UNCHANGED <<mem, maps, bal, db, rec, routines, life, history>>

-----------------------------------------------------------------------------
(* runBot: monitorPendingOrders.  A position still pending is checked;     *)
(* what follows is done without inst.mu, except for the bookkeeping.       *)

Check(p, next, kind) ==
    /\ alive /\ loop.pc = "idle"
    /\ p \in pend
    /\ loop' = [pc |-> next, p |-> p, kind |-> kind]
    /\ UNCHANGED <<books, mem, maps, bal, db, rec, hs, closer, stopper, starter,
                   life, history>>

FalsePump(p) == "falsePump" \in Enabled /\ Check(p, "cancel", "limit")
PriceMoved(p, kind) == "priceMoves" \in Enabled /\ Check(p, "move", kind)

LoopAt(pc) == loop.pc = pc
GoTo(pc) == loop' = IF pc = "idle" THEN IdleLoop ELSE [loop EXCEPT !.pc = pc]
Abandon(p, o) ==
    abandoned' = IF ex'[o].st = "cancelled" /\ ex'[o].done = 0 THEN abandoned
                 ELSE abandoned \cup {p}
Marked(r, o, st) == IF o = None THEN r ELSE [r EXCEPT ![o].st = st]

(* cancelPendingOrder, first the exchange; a market order is not cancelled *)
CancelEntry ==
    LET p == loop.p IN
    /\ LoopAt("cancel")
    /\ \E ok \in BOOLEAN :
         /\ IF mem[p].kind = "limit" THEN CancelAnswer(mem[p].entry, ok)
                                     ELSE ~ok /\ UNCHANGED books
    /\ Abandon(p, mem[p].entry)
    /\ rec' = Marked(rec, mem[p].first, "cancelled")
    /\ GoTo("book")
    /\ UNCHANGED <<mem, maps, bal, db, hs, closer, stopper, starter, life, ended,
                   told>>

(* ... then, under inst.mu, the balance and the maps ...                   *)
CancelBook ==
    LET p == loop.p IN
    /\ LoopAt("book")
    /\ bal' = bal + mem[p].amt
    /\ pend' = pend \ {p}
    /\ open' = open \ {p}
    /\ ended' = [ended EXCEPT ![p] = @ + 1]
    /\ GoTo("delete")
    /\ UNCHANGED <<books, mem, db, rec, hs, closer, stopper, starter, life, abandoned,
                   told>>

(* ... then the record.                                                    *)
CancelDelete ==
    /\ LoopAt("delete")
    /\ db' = [db EXCEPT ![loop.p] = NoPosition]
    /\ GoTo("idle")
    /\ UNCHANGED <<books, mem, maps, bal, rec, hs, closer, stopper, starter, life,
                   history>>

(* repositionPendingOrder cancels the old order, goes on whatever the      *)
(* answer, and points position and order record to the new order.  The     *)
(* index from exchange ids to records keeps only the first id.             *)
MoveCancel ==
    LET p == loop.p IN
    /\ LoopAt("move")
    /\ IF mem[p].kind = "limit"
       THEN \E ok \in BOOLEAN :
              /\ CancelAnswer(mem[p].entry, ok)
              /\ rec' = IF ok THEN Marked(rec, mem[p].first, "cancelled") ELSE rec
       ELSE UNCHANGED <<books, rec>>
    /\ Abandon(p, mem[p].entry)
    /\ GoTo("trade")
    /\ UNCHANGED <<mem, maps, bal, db, hs, closer, stopper, starter, life, ended,
                   told>>

MoveTrade ==
    LET p == loop.p IN
    /\ LoopAt("trade")
    /\ Accept("buy", loop.kind, p, mem[p].pair, mem[p].amt)
    /\ Track(p, [mem[p] EXCEPT !.entry = NewOrder, !.kind = loop.kind])
    /\ rec' = [rec EXCEPT ![mem[p].first] = Record(p, NewOrder)]
    /\ GoTo("idle")
    /\ UNCHANGED <<maps, bal, hs, closer, stopper, starter, life, history>>

(* Trade returned an error, the order standing or not.                     *)
MoveRefused ==
    LET p == loop.p IN
    /\ LoopAt("trade")
    /\ \/ UNCHANGED <<books, abandoned>>
       \/ /\ "lostReply" \in Enabled
          /\ Accept("buy", loop.kind, p, mem[p].pair, mem[p].amt)
          /\ Abandon(p, NewOrder)
    /\ GoTo("cancel")
    /\ UNCHANGED <<mem, maps, bal, db, rec, hs, closer, stopper, starter, life, ended,
                   told>>

LoopExit ==
    /\ ~up /\ alive /\ LoopAt("idle")
    /\ alive' = FALSE
    /\ UNCHANGED <<books, mem, maps, bal, db, rec, routines, up, starts, target,
                   used, history>>

-----------------------------------------------------------------------------
(* Fills.  The WebSocket reader matches a message with a position of the   *)
(* running instance (s.mu read-locked), then handles the fill; the same    *)
(* handler is started with "go" for fills StartBot finds out about.        *)

Match(p, o) == o \in {mem[p].entry, mem[p].exit}

NextIs(st) == wire # <<>> /\ Head(wire).st = st
HandlerAt(h, pc) == hs[h].pc = pc
Move(h, pc, p) == hs' = [hs EXCEPT ![h].pc = pc, ![h].p = p]
Finish(h) == hs' = [hs EXCEPT ![h] = IdleHandler]

(* The bot learns that an order was executed: once, by a message or by a   *)
(* look-up of StartBot, or wrongly, once more or of a part of it.          *)
Tell(o) ==
    told' = [told EXCEPT ![o] =
                IF @ = "no" /\ ex[o].st = "filled" THEN "once" ELSE "wrongly"]

TakeFill ==
    /\ NextIs("fill")
    /\ HandlerAt(Ws, "idle") /\ starter.pc = "idle"
    /\ wire' = Tail(wire)
    /\ hs' = IF up /\ \E p \in pend \cup open : Match(p, Head(wire).o)
             THEN [hs EXCEPT ![Ws] = [IdleHandler EXCEPT !.pc = "find",
                                                         !.o = Head(wire).o]]
             ELSE hs
    /\ IF up THEN Tell(Head(wire).o) ELSE told' = told
    /\ UNCHANGED <<ex, coins, mem, maps, bal, db, rec, loop, closer, stopper,
                   starter, life, ended, abandoned>>

(* Mutant: a cancelled entry counts as bought.                             *)
TakeCancelAsFill ==
    /\ NextIs("cancel")
    /\ HandlerAt(Ws, "idle")
    /\ wire' = [wire EXCEPT ![1].st = "fill"]
    /\ UNCHANGED <<ex, coins, mem, maps, bal, db, rec, routines, life, history>>

(* handleCancelledOrder only marks the record found under the order's id.  *)
TakeCancel ==
    /\ NextIs("cancel")
    /\ HandlerAt(Ws, "idle")
    /\ wire' = Tail(wire)
    /\ LET o == Head(wire).o IN
       rec' = IF rec[o].st = "none" THEN rec ELSE Marked(rec, o, "cancelled")
    /\ UNCHANGED <<ex, coins, mem, maps, bal, db, routines, life, history>>

(* A fill of a buy order found by StartBot carries the record; any other   *)
(* is looked up by the exchange's id, which a repositioned order has not.  *)
FoundById(h, o) == h # Ws /\ ex[o].side = "buy"
Indexed(o) == rec[o].st # "none"
RecordOf(o) == IF Indexed(o) THEN o ELSE mem[ex[o].p].first

(* Mutant: pending orders are not searched.                                *)
FindOpenOnly(h) ==
    LET inOpen == {p \in open : Match(p, hs[h].o)} IN
    /\ HandlerAt(h, "find")
    /\ IF inOpen = {} THEN Finish(h)
       ELSE \E p \in inOpen : Move(h, "apply", p)
    /\ UNCHANGED <<books, mem, maps, bal, db, rec, loop, closer, stopper, starter,
                   life, history>>

Find(h) ==
    LET o == hs[h].o
        inOpen == {p \in open : Match(p, o)}
        inPend == {p \in pend : mem[p].entry = o}
    IN  /\ HandlerAt(h, "find")
        /\ IF ~FoundById(h, o) /\ ~Indexed(o) THEN Finish(h)
           ELSE IF inOpen \cup inPend = {} THEN Move(h, "lookup", ex[o].p)
           ELSE \E p \in IF inOpen # {} THEN inOpen ELSE inPend : Move(h, "apply", p)
        /\ UNCHANGED <<books, mem, maps, bal, db, rec, loop, closer, stopper,
                       starter, life, history>>

(* The position is not in memory: it is read from Redis ...                *)
Lookup(h) ==
    LET p == hs[h].p IN
    /\ HandlerAt(h, "lookup")
    /\ IF db[p].st \in {"pending", "open", "selling"}
       THEN /\ hs' = [hs EXCEPT ![h].pc = "restore", ![h].copy = db[p]]
            /\ rec' = rec
       ELSE /\ Finish(h)
            /\ rec' = Marked(rec, RecordOf(hs[h].o), "filled")
    /\ UNCHANGED <<books, mem, maps, bal, db, loop, closer, stopper, starter, life,
                   history>>

(* ... and put back into the maps.                                         *)
RestoreToMemory(h) ==
    LET p == hs[h].p IN
    /\ HandlerAt(h, "restore")
    /\ mem' = [mem EXCEPT ![p] = hs[h].copy]
    /\ pend' = IF hs[h].copy.st = "pending" THEN pend \cup {p} ELSE pend
    /\ open' = IF hs[h].copy.st = "pending" THEN open ELSE open \cup {p}
    /\ hs' = [hs EXCEPT ![h].pc = "apply", ![h].copy = NoPosition]
    /\ UNCHANGED <<books, bal, db, rec, loop, closer, stopper, starter, life, history>>

(* A filled buy order opens the position, whatever it was.                 *)
ApplyBuy(h) ==
    LET p == hs[h].p IN
    /\ HandlerAt(h, "apply") /\ ex[hs[h].o].side = "buy"
    /\ pend' = IF mem[p].st = "pending" THEN pend \ {p} ELSE pend
    /\ open' = IF mem[p].st = "pending" THEN open \cup {p} ELSE open
    /\ Track(p, [mem[p] EXCEPT !.st = "open"])
    /\ IF target = "limit" THEN Move(h, "sell", p) /\ rec' = rec
       ELSE Finish(h) /\ rec' = Marked(rec, RecordOf(hs[h].o), "filled")
    /\ UNCHANGED <<books, bal, loop, closer, stopper, starter, life, history>>

(* placeLimitSellOrder, five seconds later.                                *)
Sell(h) ==
    LET p == hs[h].p
        filled(r) == Marked(r, RecordOf(hs[h].o), "filled")
    IN
    /\ HandlerAt(h, "sell")
    /\ Finish(h)
    /\ \/ /\ Sellable(p)
          /\ Accept("sell", "limit", p, mem[p].pair, mem[p].amt)
          /\ Track(p, [mem[p] EXCEPT !.st = "selling", !.exit = NewOrder])
          /\ rec' = filled([rec EXCEPT ![NewOrder] = Record(p, NewOrder)])
          /\ closer' = closer
       \/ /\ ~Sellable(p)                     \* "insufficient balance"
          /\ closer' = [closer EXCEPT ![p] = "check"]
          /\ rec' = filled(rec)
          /\ UNCHANGED <<books, mem, db>>
       \/ /\ "refused" \in Enabled
          /\ rec' = filled(rec)
          /\ UNCHANGED <<books, mem, db, closer>>
       \/ /\ "lostReply" \in Enabled /\ Sellable(p)
          /\ Accept("sell", "limit", p, mem[p].pair, mem[p].amt)
          /\ rec' = filled(rec)
          /\ UNCHANGED <<mem, db, closer>>
    /\ UNCHANGED <<maps, bal, loop, stopper, starter, life, history>>

(* finalizePositionClose: the record first, then balance and map.          *)
ApplySell(h) ==
    LET p == hs[h].p IN
    /\ HandlerAt(h, "apply") /\ ex[hs[h].o].side = "sell"
    /\ Track(p, [mem[p] EXCEPT !.st = "closed"])
    /\ Move(h, "book", p)
    /\ UNCHANGED <<books, maps, bal, rec, loop, closer, stopper, starter, life,
                   history>>

(* Mutant: the position stays in the map.                                  *)
BookKeepsOpen(p) ==
    /\ bal' = bal + mem[p].amt
    /\ ended' = [ended EXCEPT ![p] = @ + 1]
    /\ UNCHANGED open

(* Mutant: the balance is left alone.                                      *)
BookNothing(p) ==
    /\ open' = open \ {p}
    /\ ended' = [ended EXCEPT ![p] = @ + 1]
    /\ UNCHANGED bal

Book(p) ==
    /\ bal' = bal + mem[p].amt
    /\ open' = open \ {p}
    /\ ended' = [ended EXCEPT ![p] = @ + 1]

BookSell(h) ==
    /\ HandlerAt(h, "book")
    /\ Book(hs[h].p)
    /\ Finish(h)
    /\ rec' = Marked(rec, RecordOf(hs[h].o), "filled")
    /\ UNCHANGED <<books, mem, pend, db, loop, closer, stopper, starter, life,
                   abandoned, told>>

(* The routine that closes a position whose coins are not there.           *)
CloserCheck(p) ==
    LET goOn == db[p].st # "none" /\ (p \in open \/ db[p].st # "closed") IN
    /\ closer[p] = "check"
    /\ closer' = [closer EXCEPT ![p] = IF goOn THEN "save" ELSE "idle"]
    /\ UNCHANGED <<books, mem, maps, bal, db, rec, loop, hs, stopper, starter, life,
                   history>>

CloserSave(p) ==
    /\ closer[p] = "save"
    /\ db' = [db EXCEPT ![p].st = "closed"]
    /\ closer' = [closer EXCEPT ![p] = "book"]
    /\ UNCHANGED <<books, mem, maps, bal, rec, loop, hs, stopper, starter, life,
                   history>>

CloserBook(p) ==
    /\ closer[p] = "book"
    /\ Book(p)
    /\ closer' = [closer EXCEPT ![p] = "idle"]
    /\ UNCHANGED <<books, mem, pend, db, rec, loop, hs, stopper, starter, life,
                   abandoned, told>>

HandlerStep(h) ==
    \/ Find(h) \/ Lookup(h) \/ RestoreToMemory(h)
    \/ ApplyBuy(h) \/ Sell(h) \/ ApplySell(h) \/ BookSell(h)
CloserStep(p) == CloserCheck(p) \/ CloserSave(p) \/ CloserBook(p)

-----------------------------------------------------------------------------
(* Stopping, dying, and starting again.                                    *)

(* StopBot needs s.mu, which the WebSocket handler holds while it works.   *)
StopBot ==
    /\ "stop" \in Enabled
    /\ up /\ HandlerAt(Ws, "idle") /\ starter.pc = "idle"
    /\ up' = FALSE
    /\ stopper' = [pc |-> "list", todo |-> {}]
    /\ UNCHANGED <<books, mem, maps, bal, db, rec, loop, hs, closer, starter, alive,
                   starts, target, used, history>>

StopList ==
    /\ stopper.pc = "list"
    /\ stopper' = [pc |-> "cancel",
                   todo |-> {o \in Orders : rec[o].st = "open"
                                           /\ db[rec[o].p].st # "none"}]
    /\ UNCHANGED <<books, mem, maps, bal, db, rec, loop, hs, closer, starter, life,
                   history>>

StopCancel(o) ==
    /\ stopper.pc = "cancel" /\ o \in stopper.todo
    /\ \E ok \in BOOLEAN :
         /\ CancelAnswer(rec[o].oid, ok)
         /\ rec' = IF ok THEN Marked(rec, o, "cancelled") ELSE rec
    /\ stopper' = [stopper EXCEPT !.todo = @ \ {o}]
    /\ UNCHANGED <<mem, maps, bal, db, loop, hs, closer, starter, life, history>>

StopDone ==
    /\ stopper.pc = "cancel" /\ stopper.todo = {}
    /\ stopper' = Nothing
    /\ UNCHANGED <<books, mem, maps, bal, db, rec, loop, hs, closer, starter, life,
                   history>>

(* The process dies and forgets what it was told; the exchange and Redis   *)
(* do not.                                                                 *)
Crash ==
    /\ "crash" \in Enabled
    /\ starts < MaxStarts
    /\ wire' = <<>>
    /\ mem' = [p \in Positions |-> NoPosition]
    /\ pend' = {} /\ open' = {} /\ bal' = 0
    /\ up' = FALSE /\ alive' = FALSE
    /\ loop' = IdleLoop
    /\ hs' = [h \in Handlers |-> IdleHandler]
    /\ closer' = [p \in Positions |-> "idle"]
    /\ stopper' = Nothing /\ starter' = Nothing
    /\ told' = [o \in Orders |-> IF told[o] = "once" THEN "no" ELSE told[o]]
    /\ UNCHANGED <<ex, coins, db, rec, starts, target, used, ended, abandoned>>

Quiet ==
    /\ LoopAt("idle") /\ stopper.pc = "idle" /\ starter.pc = "idle"
    /\ \A h \in Handlers : HandlerAt(h, "idle")
    /\ \A p \in Positions : closer[p] = "idle"

(* Mutant: positions being sold are not listed.                            *)
PendingOrOpenInRedis == {p \in Positions : db[p].st \in {"pending", "open"}}

ActiveInRedis == {p \in Positions : db[p].st \in {"pending", "open", "selling"}}

(* StartBot on a stopped bot whose goroutines are done.  The owner may     *)
(* have changed the target meanwhile.                                      *)
StartBot ==
    /\ ~up /\ ~alive /\ Quiet
    /\ wire = <<>> \/ "late" \in Enabled
    /\ starts < MaxStarts
    /\ starts' = starts + 1
    /\ starter' = [pc |-> "restore", todo |-> ActiveInRedis]
    /\ mem' = db
    /\ pend' = {} /\ open' = {}
    /\ target' \in {"limit", "ath"}
    /\ UNCHANGED <<books, bal, db, rec, loop, hs, closer, stopper, up, alive, used,
                   history>>

Restoring(p) == starter.pc = "restore" /\ p \in starter.todo
Restored(p) == starter' = [starter EXCEPT !.todo = @ \ {p}]
FillBehind(p, o) ==
    /\ hs' = [hs EXCEPT ![p] = [IdleHandler EXCEPT !.pc = "find", !.o = o]]
    /\ Tell(o)

(* GetOrder's answer, or "error".                                          *)
Answer(o) ==
    {ex[o].st} \cup IF "lookupFails" \in Enabled THEN {"error"} ELSE {}

RestorePending(p) ==
    /\ Restoring(p) /\ mem[p].st = "pending"
    /\ Restored(p)
    /\ UNCHANGED <<books, mem, open, loop, closer, stopper, life>>
    /\ \E answer \in Answer(mem[p].entry) :
         CASE answer \in {"open", "error"} ->
                /\ pend' = pend \cup {p}
                /\ UNCHANGED <<bal, db, rec, hs, history>>
           [] answer = "filled" ->
                /\ FillBehind(p, mem[p].entry)
                /\ UNCHANGED <<pend, bal, db, rec, ended, abandoned>>
           [] answer = "cancelled" ->
                /\ bal' = bal + mem[p].amt
                /\ db' = [db EXCEPT ![p] = NoPosition]
                /\ rec' = Marked(rec, mem[p].first, "cancelled")
                /\ ended' = [ended EXCEPT ![p] = @ + 1]
                /\ UNCHANGED <<pend, hs, told>>
                /\ Abandon(p, mem[p].entry)

(* A limit sell order placed while restoring; the maps get the position    *)
(* whatever becomes of it.                                                 *)
SellRestored(p) ==
    \/ /\ SellAccepted(p, "limit")
       /\ closer' = closer
    \/ /\ ~Sellable(p)
       /\ closer' = [closer EXCEPT ![p] = "check"]
       /\ UNCHANGED <<books, mem, db, rec>>
    \/ /\ "refused" \in Enabled
       /\ UNCHANGED <<books, mem, db, rec, closer>>

Reopen(p) ==
    /\ Track(p, [mem[p] EXCEPT !.st = "open"])
    /\ UNCHANGED <<books, rec, closer>>

RestoreOpen(p) ==
    /\ Restoring(p) /\ mem[p].st = "open"
    /\ Restored(p)
    /\ open' = open \cup {p}
    /\ IF target = "limit" /\ mem[p].exit = None
       THEN SellRestored(p)
       ELSE UNCHANGED <<books, mem, db, rec, closer>>
    /\ UNCHANGED <<pend, bal, loop, hs, stopper, life, history>>

RestoreSelling(p) ==
    /\ Restoring(p) /\ mem[p].st = "selling"
    /\ Restored(p)
    /\ \E answer \in Answer(mem[p].exit) :
         CASE answer = "filled" ->
                /\ FillBehind(p, mem[p].exit)
                /\ UNCHANGED <<books, mem, open, db, rec, closer>>
           [] answer = "open" ->
                /\ open' = open \cup {p}
                /\ UNCHANGED <<books, mem, db, rec, closer, hs, told>>
           [] answer \in {"cancelled", "error"} ->
                /\ open' = open \cup {p}
                /\ IF target = "limit" THEN SellRestored(p) ELSE Reopen(p)
                /\ UNCHANGED <<hs, told>>
    /\ UNCHANGED <<pend, bal, loop, stopper, life, ended, abandoned>>

(* The instance enters the map, runBot starts, and syncBalance sets the    *)
(* balance to the allocation.                                              *)
Started ==
    /\ starter.pc = "restore" /\ starter.todo = {}
    /\ starter' = Nothing
    /\ up' = TRUE /\ alive' = TRUE
    /\ bal' = InitialIDR
    /\ UNCHANGED <<books, mem, maps, db, rec, loop, hs, closer, stopper, starts,
                   target, used, history>>

-----------------------------------------------------------------------------
Exchange ==
    \/ LoseMessage
    \/ \E o \in Orders : ExFill(o) \/ ExPartial(o) \/ ExternalCancel(o)
Decide ==
    \/ \E c \in Pairs, kind \in {"limit", "market"} :
          OpenPosition(c, kind) \/ OpenPositionUnnoticed(c, kind)
    \/ \E p \in Positions : ClosePosition(p) \/ ClosePositionUnnoticed(p)
    \/ \E p \in Positions : FalsePump(p)
    \/ \E p \in Positions, kind \in {"limit", "market"} : PriceMoved(p, kind)
LoopStep ==
    CancelEntry \/ CancelBook \/ CancelDelete \/ MoveCancel \/ MoveTrade
    \/ MoveRefused \/ LoopExit
WsStep == TakeFill \/ TakeCancel \/ HandlerStep(Ws)
StopStep == StopList \/ StopDone \/ \E o \in Orders : StopCancel(o)
StartStep ==
    \/ Started
    \/ \E p \in Positions : RestorePending(p) \/ RestoreOpen(p) \/ RestoreSelling(p)
Owner == StopBot \/ Crash \/ StartBot

Next ==
    \/ Exchange \/ Decide \/ LoopStep \/ WsStep
    \/ \E p \in Positions : HandlerStep(p) \/ CloserStep(p)
    \/ StopStep \/ StartStep \/ Owner

Spec == Init /\ [][Next]_vars

(* Goroutines go on once started, the WebSocket reader takes one message   *)
(* after the other, and the select of runBot sees a closed StopChan.       *)
Routines == StopStep \/ StartStep \/ \E p \in Positions : HandlerStep(p) \/ CloserStep(p)
Fairness == WF_vars(LoopStep) /\ WF_vars(WsStep) /\ WF_vars(Routines)
FairSpec == Spec /\ Fairness

-----------------------------------------------------------------------------
(* Properties.                                                             *)

PositionType ==
    [st : {"none", "pending", "open", "selling", "closed"},
     pair : Pairs \cup {None}, amt : Nat, kind : {"limit", "market"},
     entry : Orders \cup {None}, first : Orders \cup {None},
     exit : Orders \cup {None}]

(* Types; and a position in memory is pending or open, never both, however *)
(* handlers, runBot and StartBot interleave.                               *)
TypeOK ==
    /\ mem \in [Positions -> PositionType] /\ db \in [Positions -> PositionType]
    /\ \A o \in Orders : ex[o].done <= ex[o].amt
    /\ coins \in [Pairs -> Nat] /\ bal \in Nat
    /\ pend \cup open \subseteq 1 .. used
    /\ pend \cap open = {}
    /\ abandoned \subseteq 1 .. used

(* A position in OpenPositions has bought something: only a buy order that *)
(* was executed opens one, whatever is repeated, lost or cancelled         *)
(* meanwhile.                                                              *)
OpenWasBought ==
    \A p \in open : \E o \in Orders :
        ex[o].p = p /\ ex[o].side = "buy" /\ ex[o].done > 0

(* The bot was not told twice of an order of p, nor of a part of one; and  *)
(* of all positions, nothing given up that bought or could buy.            *)
ToldOnce(p) == \A o \in Orders : ex[o].p = p => told[o] # "wrongly"
Clean == abandoned = {} /\ \A p \in Positions : ToldOnce(p)

(* A pair never has two positions, although fills, cancellations and       *)
(* repositioned orders race (openPosition checks both maps; it says        *)
(* "Atomic duplicate check").  A fill that runs between the cancellation   *)
(* and the removal of a position can bring it back: such positions are     *)
(* abandoned ones.                                                         *)
OnePositionPerPair ==
    Clean => \A p, q \in pend \cup open : mem[p].pair = mem[q].pair => p = q

(* MaxConcurrentPositions bounds the positions pending or open at any time *)
(* (openPosition counts again under the lock).                             *)
ActiveWithinLimit ==
    Clean => Cardinality(pend \cup {p \in open : mem[p].st = "open"}) <= MaxConcurrent

(* An executed order the bot waits for does not wait for ever: its         *)
(* position leaves PendingOrders, or OpenPositions once sold, unless the   *)
(* bot stops.  A crash may come between; StartBot then asks the exchange.  *)
Awaits(p) ==
    \/ p \in pend /\ Indexed(mem[p].entry) /\ ex[mem[p].entry].st = "filled"
    \/ p \in open /\ mem[p].exit # None /\ ex[mem[p].exit].st = "filled"
Waiting(p) == up /\ Awaits(p) /\ ToldOnce(p)
FillIsBooked == \A p \in Positions : Waiting(p) ~> ~Waiting(p)

(* Between two operations the maps of a running bot and the active         *)
(* positions in Redis are the same, restarts and crashes included.         *)
MapsMatch == Clean /\ up /\ Quiet => pend \cup open = ActiveInRedis

(* The sum of f[1], ..., f[n].                                             *)
Prefix(n, f) ==
    LET sum[i \in 0 .. n] == IF i = 0 THEN 0 ELSE sum[i - 1] + f[i]
    IN  sum
Total(n, f) == Prefix(n, f)[n]

(* What the buy orders of p bought, and what its sell orders that the bot  *)
(* knows of sold or, while they stand, may sell.                           *)
Purchase(p) == [o \in Orders |-> IF ex[o].p = p /\ ex[o].side = "buy" THEN ex[o].done ELSE 0]
Sale(p) ==
    [o \in Orders |->
        IF ex[o].p = p /\ ex[o].side = "sell" /\ Indexed(o)
        THEN IF ex[o].st = "open" THEN ex[o].amt ELSE ex[o].done
        ELSE 0]
Bought(p) == Total(MaxOrders, Purchase(p))
Sold(p) == Total(MaxOrders, Sale(p))

(* "the bot should only sell what it bought itself" (syncBalance): the     *)
(* sell orders the bot knows of for a position, standing ones included,    *)
(* never exceed what the position bought, although the limit sell of the   *)
(* fill handler, the market sell of the exit check and the sells StartBot  *)
(* places again are not coordinated and the account holds other coins.     *)
SellsOnlyWhatItBought ==
    \A p \in Positions : ToldOnce(p) => Sold(p) <= Bought(p)

(* Between two operations the virtual balance is the allocation less the   *)
(* amounts of the positions whose funds were not booked back: no path      *)
(* books a position twice or not at all.                                   *)
Invested == [p \in Positions |-> IF p <= used /\ ended[p] = 0 THEN db[p].amt ELSE 0]
BalanceBooked ==
    Clean /\ up /\ Quiet => bal = InitialIDR - Total(MaxPositions, Invested)

(* When everything is handled, the bot still knows of every position that  *)
(* bought coins, or has closed it: stops, crashes, lost messages and       *)
(* failing look-ups lose none.  (A position told of a part sells coins of  *)
(* another one of its pair, which is then closed for want of coins, maybe  *)
(* while runBot sells it: so nothing is said unless Clean.)                *)
Settled == Quiet /\ up /\ wire = <<>>
BoughtIsKnown ==
    Clean /\ Settled => \A p \in 1 .. used :
        Bought(p) > 0 => p \in pend \cup open \/ db[p].st = "closed"

(* What the maps hold: each pending or open, and only what was bought.     *)
PositionInv == TypeOK /\ OpenWasBought

(* How many positions the maps hold, of a pair and altogether.             *)
WithinLimits == OnePositionPerPair /\ ActiveWithinLimit
=============================================================================
