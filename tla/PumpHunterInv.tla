---------------------------- MODULE PumpHunterInv ----------------------------
(***************************************************************************)
(* The inductive invariants of PumpHunter: CoreInv and OrderlyInv speak of *)
(* all behaviours, TidyInv and OnceInv of those in which the bot is not    *)
(* started again.  PumpHunter_proofs shows that they are inductive.        *)
(***************************************************************************)
EXTENDS PumpHunter

-----------------------------------------------------------------------------
(* The inductive invariant, first what holds whatever happens.             *)

OrderType == [st : {"none", "open", "filled", "cancelled"},
              side : {"none", "buy", "sell"}, p : Positions \cup {None},
              pair : Pairs \cup {None}, amt : Nat, done : Nat]
RecordType == [st : {"none", "open", "filled", "cancelled"},
               oid : Orders \cup {None}, p : Positions \cup {None}]
Message == [o : Orders, st : {"fill", "cancel"}]
LoopType == [pc : {"idle", "cancel", "book", "delete", "move", "trade"},
             p : Positions \cup {None}, kind : {"limit", "market"}]
HandlerType == [pc : {"idle", "find", "lookup", "restore", "apply", "sell", "book"},
                o : Orders \cup {None}, p : Positions \cup {None}, copy : PositionType]

Types ==
    /\ ex \in [Orders -> OrderType] /\ coins \in [Pairs -> Nat]
    /\ wire \in Seq(Message)
    /\ used \in 0 .. MaxPositions
    /\ mem \in [Positions -> PositionType] /\ db \in [Positions -> PositionType]
    /\ pend \subseteq 1 .. used /\ open \subseteq 1 .. used
    /\ abandoned \subseteq 1 .. used
    /\ bal \in Nat
    /\ rec \in [Orders -> RecordType]
    /\ loop \in LoopType
    /\ hs \in [Handlers -> HandlerType]
    /\ closer \in [Positions -> {"idle", "check", "save", "book"}]
    /\ stopper \in [pc : {"idle", "list", "cancel"}, todo : SUBSET Orders]
    /\ starter \in [pc : {"idle", "restore"}, todo : SUBSET Positions]
    /\ target \in {"limit", "ath"}

Buys(o, p) == ex[o].p = p /\ ex[o].side = "buy"
Sells(o, p) == ex[o].p = p /\ ex[o].side = "sell"
WasBought(p) == \E o \in Orders : Buys(o, p) /\ ex[o].done > 0
Late == {"open", "selling", "closed"}

(* The exchange's books: orders are numbered as they come.                 *)
Books ==
    /\ \E k \in 0 .. MaxOrders : \A o \in Orders : ex[o].st # "none" <=> o <= k
    /\ \A o \in Orders :
         /\ ex[o].st = "none" => ex[o] = NoOrder
         /\ ex[o].st # "none" => ex[o].side # "none" /\ ex[o].amt > 0
         /\ ex[o].done <= ex[o].amt
         /\ ex[o].st = "filled" => ex[o].done = ex[o].amt

(* Orders of which the wire holds a fill.                                  *)
Fills == {wire[i].o : i \in {j \in 1 .. Len(wire) : wire[j].st = "fill"}}
FillsAreTrue == \A o \in Fills : ex[o].done > 0

(* A position of which the bot knows what it is about.                     *)
Full(r, p) ==
    /\ r.st # "none" /\ p <= used /\ r.amt > 0
    /\ r.entry \in Orders /\ Buys(r.entry, p)
    /\ r.first \in Orders /\ Buys(r.first, p)
    /\ r.exit # None => r.exit \in Orders /\ Sells(r.exit, p)
    /\ r.st = "selling" => r.exit # None

Handled(h, p) == hs[h].pc \in {"apply", "sell", "book"} /\ hs[h].p = p
Held(p) ==
    \/ p \in pend \cup open
    \/ \E h \in Handlers : Handled(h, p)
    \/ loop.pc # "idle" /\ loop.p = p
    \/ p \in starter.todo
Known ==
    /\ \A p \in Positions : Held(p) => Full(mem[p], p)
    /\ \A p \in Positions : db[p].st \in {"pending", "open", "selling"} => Full(db[p], p)
    /\ loop.pc # "idle" => loop.p \in 1 .. used

(* What is open, being sold or closed was bought.                          *)
LateWasBought ==
    /\ \A p \in Positions : mem[p].st \in Late \/ db[p].st \in Late \/ p \in open
                              \/ closer[p] # "idle" => WasBought(p)
    /\ \A p \in Positions, o \in Orders : Sells(o, p) => WasBought(p)

(* The index of records: only orders the exchange has are in it; a         *)
(* position's first id is, and so are the orders StopBot cancels.          *)
Recorded ==
    /\ \A o \in Orders : ex[o].st = "none" => rec[o].st = "none"
    /\ \A o \in Orders : Indexed(o) => rec[o].oid \in Orders
    /\ \A o \in stopper.todo : Indexed(o)
    /\ \A p \in Positions :
         /\ mem[p].first # None => Indexed(mem[p].first)
         /\ db[p].first # None => Indexed(db[p].first)

(* A handler works on an order that was executed, and on its position.     *)
HandlerOk(h) ==
    hs[h].pc # "idle" =>
       /\ hs[h].o \in Orders /\ ex[hs[h].o].done > 0
       /\ ex[hs[h].o].p \in Positions
       /\ h # Ws => ex[hs[h].o].p = h
       /\ hs[h].pc # "find" => hs[h].p = ex[hs[h].o].p
       /\ hs[h].pc = "sell" => ex[hs[h].o].side = "buy"
       /\ hs[h].pc = "book" => ex[hs[h].o].side = "sell"
       /\ hs[h].pc = "restore" =>
            /\ Full(hs[h].copy, hs[h].p)
            /\ hs[h].copy.st \in {"pending", "open", "selling"}
            /\ hs[h].copy.st \in Late => WasBought(hs[h].p)
            /\ Indexed(hs[h].copy.first)
Handling == \A h \in Handlers : HandlerOk(h)

(* Nothing is known of a position that was not opened yet.                 *)
Unused ==
    /\ \A p \in Positions : mem[p].st # "none" \/ db[p].st # "none" => p <= used
    /\ \A o \in Orders : ex[o].p <= used

CoreInv ==
    Types /\ Books /\ FillsAreTrue /\ Known /\ LateWasBought /\ Recorded /\ Handling
       /\ Unused

-----------------------------------------------------------------------------
(* What holds unless a fill that StartBot found out about is also reported *)
(* to the new instance.                                                    *)

(* Memory and Redis agree on whether a position was opened.                *)
AgreeAt(p) ==
    /\ mem[p].st = "pending" => db[p].st \in {"pending", "none"}
    /\ mem[p].st \in Late => db[p].st \in Late \cup {"none"}
    /\ closer[p] # "idle" => mem[p].st \in Late
    /\ p \in pend => mem[p].st = "pending"
    /\ p \in open => mem[p].st \in Late
    /\ \A o \in Orders : Sells(o, p) => mem[p].st # "pending" /\ db[p].st # "pending"

(* What a handler of an order of p is about to do fits that.               *)
About(h, p) == hs[h].pc # "idle" /\ ex[hs[h].o].p = p
CopyFits(h, p) ==
    About(h, p) =>
       /\ mem[p].st # "none"
       /\ hs[h].pc = "sell" => mem[p].st \in Late
       /\ hs[h].pc = "restore" /\ hs[h].copy.st = "pending" =>
            /\ mem[p].st = "pending" /\ db[p].st \in {"pending", "none"}
            /\ \A o \in Orders : ~Sells(o, p)
       /\ hs[h].pc = "restore" /\ hs[h].copy.st # "pending" =>
            /\ mem[p].st \in Late /\ db[p].st \in Late \cup {"none"}
CopiesAt(p) == \A h \in Handlers : CopyFits(h, p)

(* A position StartBot has still to restore is left alone.                 *)
RestoreAt(p) ==
    p \in starter.todo =>
       /\ p \notin pend \cup open /\ closer[p] = "idle"
       /\ \A h \in Handlers : ~About(h, p)
       /\ mem[p] = db[p] /\ \A o \in Fills : ex[o].p # p

(* The handler of an entry that StartBot found filled is the only one for  *)
(* that order.                                                             *)
Taken(p) == hs[p].pc \in {"find", "lookup", "restore", "apply"} /\ ex[hs[p].o].side = "buy"
OnlyAt(p) ==
    LET o == hs[p].o IN
    Taken(p) =>
       /\ mem[p].st = "pending" /\ \A e \in Orders : ~Sells(e, p)
       /\ o \notin Fills /\ ex[o].st = "filled"
       /\ hs[p].pc # "apply" =>
            /\ p \notin pend \cup open /\ (loop.pc = "idle" \/ loop.p # p)
            /\ mem[p].entry = o /\ mem[p] = db[p]
            /\ hs[p].pc = "restore" => hs[p].copy = mem[p]
            /\ ~About(Ws, p)
       /\ hs[p].pc = "apply" =>
            /\ mem[p].entry = o \/ ~Indexed(mem[p].entry)
            /\ About(Ws, p) => hs[Ws].pc = "find" /\ ~Indexed(hs[Ws].o)

OrderlyAt(p) == AgreeAt(p) /\ CopiesAt(p) /\ RestoreAt(p) /\ OnlyAt(p)

(* While StartBot restores, runBot, the WebSocket reader and StopBot wait. *)
Exclusive ==
    /\ starter.pc = "restore" =>
         loop.pc = "idle" /\ hs[Ws].pc = "idle" /\ ~alive /\ ~up /\ stopper.pc = "idle"
    /\ starter.pc = "idle" => starter.todo = {}

OrderlyInv == Exclusive /\ \A p \in Positions : OrderlyAt(p)

-----------------------------------------------------------------------------
(* A bot that is not started again, while it was told everything once and  *)
(* gave nothing up that bought or could buy: then every position has its   *)
(* coins, its maps, its record and its funds where they belong.            *)

NoRestart ==
    /\ starts = 0 /\ starter = Nothing /\ \A p \in Positions : hs[p] = IdleHandler
    /\ ended \in [Positions -> Nat]
    /\ told \in [Orders -> {"no", "once", "wrongly"}]
    /\ \A o \in Orders : ex[o].st = "none" => told[o] = "no"

Dead(o) == ex[o].st = "cancelled" /\ ex[o].done = 0
At(p, pcs) == loop.pc \in pcs /\ loop.p = p
Entry(p) == mem[p].entry
KnownSells(p) == {o \in Orders : Sells(o, p) /\ Indexed(o)}
Booking(p) == hs[Ws].pc = "book" /\ hs[Ws].p = p

(* The orders of a position: of its pair and of its size, and only the     *)
(* last buy order bought or may buy.                                       *)
OrdersFit(p) ==
    /\ mem[p].pair \in Pairs /\ mem[p].amt > 0
    /\ Entry(p) \in Orders /\ Buys(Entry(p), p)
    /\ \A o \in Orders : ex[o].p = p => ex[o].pair = mem[p].pair /\ ex[o].amt = mem[p].amt
    /\ \A o \in Orders : Buys(o, p) /\ o # Entry(p) => Dead(o)

(* A position that was not opened waits for its order, or was cancelled    *)
(* together with it.                                                       *)
IsPending(p) ==
    mem[p].st = "pending" =>
       /\ p \notin open /\ mem[p].exit = None /\ \A o \in Orders : ~Sells(o, p)
       /\ p \in pend =>
            /\ db[p] = mem[p] /\ ended[p] = 0 /\ coins[mem[p].pair] >= ex[Entry(p)].done
            /\ ~At(p, {"delete"})
       /\ p \notin pend =>
            /\ Dead(Entry(p)) /\ ended[p] = 1
            /\ db[p] = IF At(p, {"delete"}) THEN mem[p] ELSE NoPosition
            /\ ~At(p, {"cancel", "move", "book", "trade"})
       /\ At(p, {"book", "trade"}) => Dead(Entry(p))

(* One that was opened is sold by one order, and then booked.              *)
WasFilled(p) ==
    mem[p].st # "pending" =>
       /\ p \notin pend /\ db[p] = mem[p]
       /\ ex[Entry(p)].st = "filled" /\ told[Entry(p)] = "once"
       /\ ~At(p, {"book", "delete", "trade"})
       /\ mem[p].st # "closed" => p \in open /\ ended[p] = 0
       /\ mem[p].st = "open" => mem[p].exit = None /\ KnownSells(p) = {}
       /\ mem[p].st # "open" => KnownSells(p) = {mem[p].exit}
       /\ mem[p].st = "closed" =>
            /\ ex[mem[p].exit].st = "filled" /\ told[mem[p].exit] = "once"
            /\ Booking(p) => p \in open /\ ended[p] = 0
            /\ ~Booking(p) => p \notin open /\ ended[p] = 1

TidyAt(p) ==
    /\ closer[p] = "idle"
    /\ p <= used => mem[p].st # "none" /\ OrdersFit(p) /\ IsPending(p) /\ WasFilled(p)
    /\ p > used => ended[p] = 0

(* The WebSocket reader works on a filled order that the position waits    *)
(* for, and the coins are there when it sells them.                        *)
ReaderAt(h, p) ==
    /\ h.o \in Orders /\ ex[h.o].st = "filled" /\ told[h.o] = "once"
    /\ p \in 1 .. used
    /\ h.pc \in {"find", "apply", "sell", "book"}
    /\ h.pc # "find" => h.p = p
    /\ h.pc \in {"find", "apply"} =>
         \/ h.o = Entry(p) /\ mem[p].st = "pending"
         \/ h.o = mem[p].exit /\ mem[p].st = "selling"
    /\ h.pc = "sell" => h.o = Entry(p) /\ mem[p].st = "open" /\ Sellable(p)
    /\ h.pc = "book" => mem[p].st = "closed"
Reader == hs[Ws].pc # "idle" => ReaderAt(hs[Ws], ex[hs[Ws].o].p)

Booked == bal + Total(MaxPositions, Invested) = InitialIDR
OnePair == \A p, q \in pend \cup open : mem[p].pair = mem[q].pair => p = q
Counted == pend \cup {p \in open : mem[p].st = "open"}
Limited == Cardinality(Counted) <= MaxConcurrent

Tidy == (\A p \in Positions : TidyAt(p)) /\ Reader /\ Booked /\ OnePair /\ Limited
TidyInv == CoreInv /\ NoRestart /\ (Clean => Tidy)

-----------------------------------------------------------------------------
(* A bot that is not started again, and a position whose orders it was     *)
(* told of once, whatever else was abandoned or told wrongly: only the     *)
(* order the position was created with is found by its id, so its fill     *)
(* opens the position at most once, and an open position has no sell order *)
(* the bot knows of.                                                       *)

IsOf(r, p) ==
    r.st \in {"pending", "open", "selling"} => r.first = mem[p].first /\ r.amt = mem[p].amt
Fixed(p) ==
    /\ mem[p].st # "none" /\ mem[p].first \in Orders /\ Buys(mem[p].first, p)
    /\ \A o \in Orders : ex[o].p = p => ex[o].amt = mem[p].amt
    /\ \A o \in Orders : Buys(o, p) /\ Indexed(o) => o = mem[p].first
    /\ IsOf(db[p], p)
    /\ hs[Ws].pc = "restore" /\ hs[Ws].p = p => IsOf(hs[Ws].copy, p)

SoldOnce(p) ==
    /\ mem[p].st = "pending" =>
         /\ db[p].st \in {"pending", "none"} /\ closer[p] = "idle"
         /\ \A o \in Orders : ~Sells(o, p)
    /\ mem[p].st # "pending" =>
         /\ db[p].st # "pending"
         /\ told[mem[p].first] = "once" /\ ex[mem[p].first].st = "filled"
    /\ KnownSells(p) # {} =>
         mem[p].st \in {"selling", "closed"} /\ db[p].st \in {"selling", "closed", "none"}
    /\ \A x, y \in KnownSells(p) : x = y

(* What the WebSocket reader does about an order of the position.          *)
Works(p) ==
    About(Ws, p) =>
       /\ told[hs[Ws].o] = "once" /\ ex[hs[Ws].o].st = "filled"
       /\ hs[Ws].pc \in {"lookup", "restore", "apply"} => Indexed(hs[Ws].o)
       /\ hs[Ws].o = mem[p].first /\ hs[Ws].pc \notin {"sell", "book"} => mem[p].st = "pending"
       /\ hs[Ws].pc = "restore" =>
            /\ hs[Ws].copy.st = "pending" <=> mem[p].st = "pending"
            /\ KnownSells(p) # {} => hs[Ws].copy.st = "selling"
       /\ hs[Ws].pc = "sell" => mem[p].st = "open"

OnceAt(p) == p <= used => Fixed(p) /\ (ToldOnce(p) => SoldOnce(p) /\ Works(p))
OnceInv == CoreInv /\ NoRestart /\ \A p \in Positions : OnceAt(p)

=============================================================================
