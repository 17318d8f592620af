---------------------- MODULE MarketMakerLedger_proofs ----------------------
(***************************************************************************)
(* Proofs about the market-maker bot, for every value of its constants.    *)
(* Of MarketMakerOrders: the type invariant, that fills are never credited *)
(* twice, that refunds are for what was cancelled and are made once, that  *)
(* one order is open, and that closed orders stay closed.  Then that the   *)
(* bot keeps the promise of OrderLedger: each step is a step of the ledger *)
(* or leaves it alone, so what is proved of the ledger holds of the bot's  *)
(* virtual balance.                                                        *)
(***************************************************************************)
EXTENDS MarketMakerLedger, TLAPS

(* The type invariant needs to know that whoever works on an order has one. *)
Shape == TypeOK /\ HoldsOrder

-----------------------------------------------------------------------------
(* What the helpers return.                                                *)

(* A credit leaves a balance in whole numbers.                             *)
LEMMA CreditType ==
  ASSUME order \in [Orders -> Terms], NEW b \in Balances, NEW o \in Orders, NEW qty \in Int
  PROVE  Credit(b, o, qty) \in Balances
  BY DEF Credit, Balances, Terms

(* The same of a refund (the cancellation handlers).                       *)
LEMMA RefundType ==
  ASSUME order \in [Orders -> Terms], NEW b \in Balances, NEW o \in Orders, NEW qty \in Int
  PROVE  Refund(b, o, qty) \in Balances
  BY DEF Refund, Balances, Terms

(* The same of the deduction placeNewOrder makes.                          *)
LEMMA DeductType ==
  ASSUME order \in [Orders -> Terms], NEW b \in Balances, NEW o \in Orders
  PROVE  Deduct(b, o) \in Balances
  BY DEF Deduct, Balances, Terms, Monus

(* A cancellation keeps the books and the wire well formed.                *)
LEMMA ExCancelledType ==
  ASSUME ex \in [Orders -> Books], wire \in Seq(Messages), NEW o \in Orders, ExCancelled(o)
  PROVE  ex' \in [Orders -> Books] /\ wire' \in Seq(Messages)
  <1>1. ex' \in [Orders -> Books]
    BY DEF ExCancelled, Books
  <1>2. Message(o, "cancelled", ex[o].done) \in Messages
    BY DEF Message, Messages, Books
  <1> QED
    BY <1>1, <1>2 DEF ExCancelled

(* A total that grows by whole numbers stays a whole number.               *)
LEMMA TotalType ==
  ASSUME refunded \in [Orders -> Int], NEW o \in Orders, NEW qty \in Int
  PROVE  [refunded EXCEPT ![o] = @ + qty] \in [Orders -> Int]
  OBVIOUS

(* So is what a message leaves unfilled.                                   *)
LEMMA UnfilledType ==
  ASSUME order \in [Orders -> Terms], NEW m, m.o \in Orders, m.exec \in Nat
  PROVE  UnfilledQty(m) \in Int
  BY DEF UnfilledQty, Terms

(* Setting the status of a record keeps it a record.                       *)
LEMMA RecordType ==
  ASSUME rec \in [Orders -> Records], NEW o \in Orders, NEW st \in RecordStatus
  PROVE  [rec EXCEPT ![o].st = st] \in [Orders -> Records]
  BY DEF Records

(* Setting the status of the in-memory order keeps it one.                 *)
LEMMA MemoryType ==
  ASSUME obj \in [Orders -> MemoryRecords], NEW o \in Orders, NEW st \in RecordStatus
  PROVE  [obj EXCEPT ![o].st = st] \in [Orders -> MemoryRecords]
  BY DEF MemoryRecords

(* handleCancelledOrder and the clean-up write a status a record may have. *)
LEMMA FinalStatusType == \A n : FinalStatus(n) \in RecordStatus
  BY DEF FinalStatus, RecordStatus

(* What taking the next message from the wire means.                       *)
LEMMA HeadType ==
  ASSUME wire \in Seq(Messages), wire # <<>>
  PROVE  /\ Head(wire) \in Messages /\ Tail(wire) \in Seq(Messages)
         /\ Head(wire).o \in Orders /\ Head(wire).exec \in Nat
         /\ Len(wire) \in Nat /\ Len(Tail(wire)) = Len(wire) - 1
         /\ \A i \in 1 .. Len(wire) - 1 : Tail(wire)[i] = wire[i + 1]
         /\ Len(wire) > 0 /\ Head(wire) = wire[1]
  <1>1. Head(wire) \in Messages /\ Tail(wire) \in Seq(Messages)
    OBVIOUS
  <1>2. Len(wire) \in Nat /\ Len(Tail(wire)) = Len(wire) - 1 /\ Len(wire) > 0 /\ Head(wire) = wire[1]
    OBVIOUS
  <1>3. \A i \in 1 .. Len(wire) - 1 : Tail(wire)[i] = wire[i + 1]
    OBVIOUS
  <1> QED
    BY <1>1, <1>2, <1>3 DEF Messages

-----------------------------------------------------------------------------
(* The shape of the state.                                                 *)

(* A fresh instance has the shape.                                         *)
LEMMA InitShape == Init => Shape
  <1> SUFFICES ASSUME Init PROVE Shape
    OBVIOUS
  <1> USE OrdersAssumption DEF Init, Orders, None
  <1>1. order \in [Orders -> Terms] /\ ex \in [Orders -> Books] /\ wire \in Seq(Messages)
    BY DEF NoOrder, Terms, Sides, Books
  <1>2. obj \in [Orders -> MemoryRecords] /\ rec \in [Orders -> Records]
    BY DEF NoRecord, MemoryRecords, Records, RecordStatus
  <1>3. bal \in Balances /\ saved \in Balances
    BY DEF Balances
  <1>4. loop \in LoopStates /\ ws \in WsStates
    BY DEF LoopStates, WsStates, IdleWs
  <1>5. cleaner \in CleanerStates /\ stopper \in StopperStates
    BY DEF CleanerStates, StopperStates, IdleCleaner, IdleStopper
  <1>6. placed \in 0 .. MaxOrders /\ active \in Orders \cup {None} /\ cleanups \in 0 .. MaxCleanups
    OBVIOUS
  <1>7. running \in BOOLEAN /\ panicked \in BOOLEAN
    OBVIOUS
  <1>8. credited \in [Orders -> Nat] /\ refunded \in [Orders -> Int]
    OBVIOUS
  <1>9. HoldsOrder
    BY DEF HoldsOrder, InLoop, IdleWs, IdleCleaner, IdleStopper
  <1> QED
    BY <1>1, <1>2, <1>3, <1>4, <1>5, <1>6, <1>7, <1>8, <1>9 DEF Shape, TypeOK

(* Every step of every activity keeps the shape.                           *)
LEMMA ShapeNext == Shape /\ [Next]_vars => Shape'
  <1> SUFFICES ASSUME Shape, [Next]_vars PROVE Shape'
    OBVIOUS
  <1> USE OrdersAssumption DEF Shape, TypeOK, HoldsOrder, bot, history, routines
  <1>1. CASE PlaceNewOrder
    <2> USE <1>1 DEF PlaceNewOrder, LoopUnchanged
    <2>1. placed + 1 \in Orders
      BY DEF Orders
    <2>2. PICK terms \in Terms : order' = [order EXCEPT ![placed + 1] = terms]
      <3>1. bal.coin \in Int /\ (bal.coin >= MinCoin => bal.coin \in Nat)
        BY DEF Balances
      <3> QED
        BY <3>1 DEF Terms, Sides
    <2>3. order' \in [Orders -> Terms]
      BY <2>1, <2>2
    <2>4. obj' \in [Orders -> MemoryRecords]
      BY <2>1 DEF MemoryRecords
    <2>5. active' \in Orders /\ loop' \in LoopStates
      BY <2>1 DEF LoopStates
    <2> QED
      BY <2>3, <2>4, <2>5
  <1>2. CASE TradeAnswered
    <2> USE <1>2 DEF TradeAnswered, LoopUnchanged
    <2>1. active \in Orders
      BY DEF InLoop
    <2>2. [ex EXCEPT ![active].st = "open"] \in [Orders -> Books]
      BY <2>1 DEF Books
    <2>3. ex' \in [Orders -> Books]
      BY <2>2
    <2>4. placed' \in 0 .. MaxOrders
      OBVIOUS
    <2>5. loop' \in LoopStates
      BY DEF LoopStates
    <2>6. loop' # "trade"
      OBVIOUS
    <2> QED
      BY <2>1, <2>3, <2>4, <2>5, <2>6
  <1>3. CASE TradeAccepted
    <2> USE <1>3 DEF TradeAccepted, LoopUnchanged
    <2>1. active \in Orders
      BY DEF InLoop
    <2>2. obj' \in [Orders -> MemoryRecords]
      BY <2>1 DEF MemoryRecords, RecordStatus
    <2>3. rec' \in [Orders -> Records]
      BY <2>1 DEF Records, RecordStatus
    <2>4. bal' \in Balances /\ saved' \in Balances
      BY <2>1, DeductType
    <2>5. loop' \in LoopStates /\ loop' \notin InLoop /\ loop' # "trade"
      BY DEF LoopStates, InLoop
    <2> QED
      BY <2>1, <2>2, <2>3, <2>4, <2>5
  <1>4. CASE TradeRefused
    BY <1>4 DEF TradeRefused, LoopUnchanged, LoopStates, InLoop
  <1>5. CASE StopBotWithError
    BY <1>5 DEF StopBotWithError, LoopUnchanged, LoopStates, InLoop
  <1>6. CASE CheckReposition
    BY <1>6 DEF CheckReposition, LoopUnchanged, LoopStates
  <1>7. CASE CancelAnswered
    <2> USE <1>7 DEF CancelAnswered, LoopUnchanged
    <2>1. active \in Orders
      BY DEF InLoop
    <2>2. ex' \in [Orders -> Books] /\ wire' \in Seq(Messages)
      BY <2>1, ExCancelledType DEF ExNotFound
    <2>3. loop' \in LoopStates /\ loop' # "trade"
      BY DEF LoopStates
    <2> QED
      BY <2>1, <2>2, <2>3
  <1>8. CASE RepositionCancelled
    BY <1>8 DEF RepositionCancelled, LoopUnchanged, Records, RecordStatus, MemoryRecords, LoopStates, InLoop
  <1>9. CASE RepositionNotFound
    BY <1>9 DEF RepositionNotFound, LoopUnchanged, Records, RecordStatus, MemoryRecords, LoopStates, InLoop
  <1>10. CASE LoopExit
    BY <1>10 DEF LoopExit, LoopUnchanged, LoopStates, InLoop
  <1>11. CASE TakeFill
    <2> USE <1>11 DEF TakeFill, WsUnchanged, NextIs
    <2>1. Head(wire).o \in Orders /\ Head(wire).exec \in Nat /\ wire' \in Seq(Messages)
      BY HeadType
    <2>2. rec[Head(wire).o].filled \in Nat
      BY <2>1 DEF Records
    <2>3. ws' \in WsStates
      BY <2>1, <2>2 DEF WsStates, IdleWs
    <2>4. ws'.pc # "idle" => ws'.o \in Orders
      BY <2>1 DEF IdleWs
    <2> QED
      BY <2>1, <2>3, <2>4
  <1>12. CASE ReadActive
    <2> USE <1>12 DEF ReadActive, WsUnchanged
    <2>1. CASE active = None
      <3>1. ws' = IdleWs /\ panicked' \in BOOLEAN
        BY <2>1
      <3>2. IdleWs \in WsStates /\ IdleWs.pc = "idle"
        BY DEF IdleWs, WsStates
      <3> QED
        BY <3>1, <3>2
    <2>2. CASE active # None
      <3>1. ws' = [ws EXCEPT !.pc = "read", !.o = active] /\ active \in Orders
        BY <2>2
      <3>2. ws' \in WsStates /\ ws'.o \in Orders
        BY <3>1 DEF WsStates
      <3> QED
        BY <2>2, <3>2
    <2> QED
      BY <2>1, <2>2
  <1>13. CASE ApplyFill
    <2> USE <1>13 DEF ApplyFill, WsUnchanged
    <2> DEFINE qty == NewlyFilled(ws.exec, IF ws.pc = "read" THEN obj[ws.o].filled ELSE ws.filled)
    <2>1. ws.o \in Orders /\ ws.exec \in Nat
      BY DEF WsStates
    <2>2. qty \in Nat
      BY <2>1 DEF NewlyFilled, Monus, WsStates, MemoryRecords
    <2>3. bal' \in Balances /\ saved' \in Balances
      BY <2>1, <2>2, CreditType
    <2>4. \A r \in Records : Filled(r, ws.full, ws.exec) \in Records
      BY <2>1 DEF Filled, Records, RecordStatus
    <2>5. \A r \in MemoryRecords : Filled(r, ws.full, ws.exec) \in MemoryRecords
      BY <2>1 DEF Filled, MemoryRecords, RecordStatus
    <2>6. rec' \in [Orders -> Records]
      <3>1. [rec EXCEPT ![ws.o] = Filled(@, ws.full, ws.exec)] \in [Orders -> Records]
        BY <2>1, <2>4
      <3> QED
        BY <3>1
    <2>7. obj' \in [Orders -> MemoryRecords]
      <3>1. [obj EXCEPT ![ws.o] = Filled(@, ws.full, ws.exec)] \in [Orders -> MemoryRecords]
        BY <2>1, <2>5
      <3> QED
        BY <3>1
    <2>8. credited' \in [Orders -> Nat]
      BY <2>1, <2>2
    <2>9. ws' \in WsStates /\ ws'.pc = "idle"
      BY DEF IdleWs, WsStates
    <2>10. active' \in Orders \cup {None} /\ loop \notin InLoop
      BY DEF LockFree, InLoop
    <2> QED
      BY <2>3, <2>6, <2>7, <2>8, <2>9, <2>10 DEF InLoop
  <1>14. CASE ApplyCancel
    <2> USE <1>14 DEF ApplyCancel, WsUnchanged, NextIs
    <2>1. Head(wire).o \in Orders /\ Head(wire).exec \in Nat /\ wire' \in Seq(Messages)
      BY HeadType
    <2>2. UnfilledQty(Head(wire)) \in Int
      BY <2>1, UnfilledType
    <2>3. bal' \in Balances /\ saved' \in Balances
      <3>1. Refund(bal, Head(wire).o, UnfilledQty(Head(wire))) \in Balances
        BY <2>1, <2>2, RefundType
      <3>2. \/ bal' = Refund(bal, Head(wire).o, UnfilledQty(Head(wire))) /\ saved' = bal'
            \/ bal' = bal /\ saved' = saved
        BY ONLY <1>14 DEF ApplyCancel
      <3> QED
        BY ONLY <3>1, <3>2, bal \in Balances, saved \in Balances
    <2> DEFINE st == FinalStatus(Head(wire).exec)
    <2>4. rec' \in [Orders -> Records]
      <3>1. [rec EXCEPT ![Head(wire).o].st = st] \in [Orders -> Records]
        BY <2>1, RecordType, FinalStatusType
      <3> QED
        BY <3>1
    <2>5. obj' \in [Orders -> MemoryRecords]
      <3>1. [obj EXCEPT ![Head(wire).o].st = st] \in [Orders -> MemoryRecords]
        BY <2>1, MemoryType, FinalStatusType
      <3> QED
        BY <3>1
    <2>6. refunded' \in [Orders -> Int]
      <3>1. [refunded EXCEPT ![Head(wire).o] = @ + UnfilledQty(Head(wire))] \in [Orders -> Int]
        BY <2>1, <2>2, TotalType
      <3>2. \/ refunded' = [refunded EXCEPT ![Head(wire).o] = @ + UnfilledQty(Head(wire))]
            \/ refunded' = refunded
        BY ONLY <1>14 DEF ApplyCancel
      <3> QED
        BY ONLY <3>1, <3>2, refunded \in [Orders -> Int]
    <2>7. active' \in Orders \cup {None} /\ loop \notin InLoop
      BY DEF LockFree, InLoop
    <2> QED
      BY <2>1, <2>3, <2>4, <2>5, <2>6, <2>7 DEF InLoop
  <1>15. CASE ApplyCancelStopped
    <2> USE <1>15 DEF ApplyCancelStopped, WsUnchanged, NextIs
    <2>1. Head(wire).o \in Orders /\ Head(wire).exec \in Nat /\ wire' \in Seq(Messages)
      BY HeadType
    <2>2. UnfilledQty(Head(wire)) \in Int
      BY <2>1, UnfilledType
    <2>3. saved' \in Balances
      <3>1. Refund(saved, Head(wire).o, UnfilledQty(Head(wire))) \in Balances
        BY <2>1, <2>2, RefundType
      <3> QED
        BY <3>1
    <2>4. rec' \in [Orders -> Records]
      BY <2>1, RecordType, FinalStatusType
    <2>5. refunded' \in [Orders -> Int]
      <3>1. [refunded EXCEPT ![Head(wire).o] = @ + UnfilledQty(Head(wire))] \in [Orders -> Int]
        BY <2>1, <2>2, TotalType
      <3>2. \/ refunded' = [refunded EXCEPT ![Head(wire).o] = @ + UnfilledQty(Head(wire))]
            \/ refunded' = refunded
        BY ONLY <1>15 DEF ApplyCancelStopped
      <3> QED
        BY ONLY <3>1, <3>2, refunded \in [Orders -> Int]
    <2> QED
      BY <2>1, <2>3, <2>4, <2>5
  <1>16. CASE CleanupList
    <2> USE <1>16 DEF CleanupList, CleanerUnchanged
    <2>1. \A o \in Orders : [o |-> o, filled |-> rec[o].filled] \in [o : Orders, filled : Nat]
      BY DEF Records
    <2>2. PICK todo \in SUBSET Orders :
             cleaner' = [IdleCleaner EXCEPT
                 !.pc = "next",
                 !.todo = {[o |-> o, filled |-> rec[o].filled] : o \in todo}]
      OBVIOUS
    <2>3. cleaner' \in CleanerStates
      <3>1. {[o |-> o, filled |-> rec[o].filled] : o \in todo} \in SUBSET [o : Orders, filled : Nat]
        BY ONLY <2>1, todo \in SUBSET Orders
      <3> QED
        BY <2>2, <3>1 DEF CleanerStates, IdleCleaner
    <2>4. cleaner'.pc = "next"
      BY <2>2 DEF IdleCleaner
    <2>5. cleanups' \in 0 .. MaxCleanups
      <3>1. cleanups < MaxCleanups /\ cleanups' = cleanups + 1
        BY ONLY <1>16 DEF CleanupList
      <3> QED
        BY ONLY <3>1, cleanups \in 0 .. MaxCleanups, OrdersAssumption
    <2> QED
      BY <2>3, <2>4, <2>5
  <1>17. CASE CleanupCancel
    <2> USE <1>17 DEF CleanupCancel, CleanerUnchanged
    <2>1. PICK t \in cleaner.todo :
             /\ ExCancelled(t.o) \/ UNCHANGED <<ex, wire>>
             /\ cleaner' = [pc |-> "status", o |-> t.o, filled |-> t.filled,
                            todo |-> cleaner.todo \ {t}]
      OBVIOUS
    <2>2. t.o \in Orders /\ t.filled \in Nat
      BY DEF CleanerStates
    <2>3. ex' \in [Orders -> Books] /\ wire' \in Seq(Messages)
      BY <2>1, <2>2, ExCancelledType
    <2>4. cleaner' \in CleanerStates /\ cleaner'.o \in Orders
      BY <2>1, <2>2 DEF CleanerStates
    <2> QED
      BY <2>3, <2>4
  <1>18. CASE CleanupStatus
    <2> USE <1>18 DEF CleanupStatus, CleanerUnchanged
    <2>1. cleaner.o \in Orders
      OBVIOUS
    <2>2. rec' \in [Orders -> Records]
      <3>1. [rec EXCEPT ![cleaner.o].st = FinalStatus(cleaner.filled)] \in [Orders -> Records]
        BY <2>1, RecordType, FinalStatusType
      <3> QED
        BY <3>1
    <2>3. cleaner' \in CleanerStates /\ cleaner'.o \in Orders
      BY <2>1 DEF CleanerStates
    <2> QED
      BY <2>2, <2>3
  <1>19. CASE CleanupRefund
    <2> USE <1>19 DEF CleanupRefund, CleanerUnchanged
    <2>1. cleaner.o \in Orders /\ order[cleaner.o].amt - cleaner.filled \in Int
      BY DEF CleanerStates, Terms
    <2>2. bal' \in Balances
      BY <2>1, RefundType
    <2>3. refunded' \in [Orders -> Int]
      BY <2>1
    <2>4. cleaner' \in CleanerStates /\ cleaner'.o \in Orders
      BY <2>1 DEF CleanerStates
    <2> QED
      BY <2>2, <2>3, <2>4
  <1>20. CASE CleanupSave
    BY <1>20 DEF CleanupSave, CleanerUnchanged, CleanerStates, IdleCleaner
  <1>21. CASE StopBot
    BY <1>21 DEF StopBot, StopperUnchanged, StopperStates, IdleStopper
  <1>22. CASE StopLook
    BY <1>22 DEF StopLook, StopperUnchanged, StopperStates, IdleStopper
  <1>23. CASE StopList
    BY <1>23 DEF StopList, StopperUnchanged, StopperStates, IdleStopper
  <1>24. CASE StopNext
    <2> USE <1>24 DEF StopNext, StopperUnchanged
    <2>1. CASE stopper' = [stopper EXCEPT !.pc = "finished"]
      <3>1. stopper' \in StopperStates /\ stopper'.pc = "finished"
        BY <2>1 DEF StopperStates
      <3> QED
        BY <3>1
    <2>2. ASSUME NEW o \in stopper.todo,
                 stopper' = [stopper EXCEPT !.pc = "cancel", !.o = o, !.todo = @ \ {o}]
          PROVE  Shape'
      <3>1. stopper' \in StopperStates /\ stopper'.o \in Orders
        BY <2>2 DEF StopperStates
      <3> QED
        BY <3>1
    <2> QED
      BY <2>1, <2>2
  <1>25. CASE StopCancel
    <2> USE <1>25 DEF StopCancel, StopperUnchanged
    <2>1. stopper.o \in Orders
      OBVIOUS
    <2>2. ex' \in [Orders -> Books] /\ wire' \in Seq(Messages)
      BY <2>1, ExCancelledType
    <2>3. stopper' \in StopperStates /\ stopper'.o \in Orders
      BY <2>1 DEF StopperStates, Then
    <2>4. panicked' \in BOOLEAN
      BY DEF Dereference
    <2> QED
      BY <2>2, <2>3, <2>4
  <1>26. CASE StopRefund
    <2> USE <1>26 DEF StopRefund, StopperUnchanged
    <2>1. stopper.o \in Orders /\ order[stopper.o].amt \in Int
      BY DEF Terms
    <2>2. bal' \in Balances /\ saved' \in Balances
      BY <2>1, RefundType
    <2>3. refunded' \in [Orders -> Int]
      BY <2>1
    <2>4. stopper' \in StopperStates /\ stopper'.o \in Orders
      BY <2>1 DEF StopperStates
    <2> QED
      BY <2>2, <2>3, <2>4
  <1>27. CASE StopStatus
    BY <1>27 DEF StopStatus, StopperUnchanged, Then, Records, RecordStatus, StopperStates, IdleStopper
  <1>28. CASE StopStatusActive
    <2> USE <1>28 DEF StopStatusActive, StopperUnchanged
    <2>1. rec' \in [Orders -> Records]
      <3>1. CASE active = None
        BY <3>1
      <3>2. CASE active # None
        <4>1. active \in Orders
          BY <3>2
        <4>2. (IF rec[active].st = "none" THEN rec[active].st ELSE "cancelled") \in RecordStatus
          BY <4>1 DEF Records, RecordStatus
        <4>3. rec' = [rec EXCEPT ![active].st =
                         IF rec[active].st = "none" THEN rec[active].st ELSE "cancelled"]
          BY <3>2
        <4> QED
          BY <4>1, <4>2, <4>3, RecordType
      <3> QED
        BY <3>1, <3>2
    <2>2. obj' \in [Orders -> MemoryRecords]
      <3>1. active \in Orders =>
              [obj EXCEPT ![active].st = "cancelled"] \in [Orders -> MemoryRecords]
        BY MemoryType DEF RecordStatus
      <3> QED
        BY <3>1
    <2>3. stopper' \in StopperStates /\ stopper'.o \in Orders
      BY DEF StopperStates, Then
    <2>4. panicked' \in BOOLEAN
      BY DEF Dereference
    <2> QED
      BY <2>1, <2>2, <2>3, <2>4
  <1>29. ASSUME NEW o \in Orders, ExFill(o) PROVE Shape'
    <2> USE <1>29 DEF ExFill
    <2>1. PICK qty \in 1 .. order[o].amt - ex[o].done :
             LET exec == ex[o].done + qty
                 full == exec = order[o].amt
             IN  /\ ex' = [ex EXCEPT ![o] = [st |-> IF full THEN "done" ELSE "open",
                                             done |-> exec]]
                 /\ \/ wire' = Append(wire, Message(o, "fill", exec))
                    \/ wire' = wire \o <<Message(o, "fill", exec),
                                           Message(o, "done", exec)>>
      OBVIOUS
    <2>2. ex[o].done \in Nat /\ order[o].amt \in Nat
      BY DEF Books, Terms
    <2>3. ex' \in [Orders -> Books]
      BY <2>1, <2>2 DEF Books
    <2> DEFINE fill == Message(o, "fill", ex[o].done + qty)
               done == Message(o, "done", ex[o].done + qty)
    <2>4. fill \in Messages /\ done \in Messages
      <3>1. ex[o].done + qty \in Nat
        BY ONLY <2>2, qty \in 1 .. order[o].amt - ex[o].done
      <3> QED
        BY ONLY <3>1, o \in Orders DEF Message, Messages
    <2>5. wire' = Append(wire, fill) \/ wire' = wire \o <<fill, done>>
      BY <2>1
    <2>6. wire' \in Seq(Messages)
      <3> HIDE DEF fill, done
      <3>1. <<fill, done>> \in Seq(Messages)
        BY <2>4
      <3>2. wire \o <<fill, done>> \in Seq(Messages) /\ Append(wire, fill) \in Seq(Messages)
        BY <2>4, <3>1
      <3> QED
        BY <2>5, <3>2
    <2> QED
      BY <2>3, <2>6
  <1>30. CASE LoseMessage
    BY <1>30 DEF LoseMessage
  <1>31. CASE UNCHANGED vars
    BY <1>31 DEF vars
  <1> QED
    BY <1>1, <1>2, <1>3, <1>4, <1>5, <1>6, <1>7, <1>8, <1>9, <1>10,
       <1>11, <1>12, <1>13, <1>14, <1>15, <1>16, <1>17, <1>18, <1>19,
       <1>20, <1>21, <1>22, <1>23, <1>24, <1>25, <1>26, <1>27, <1>28,
       <1>29, <1>30, <1>31
    DEF Next, ExchangeStep, LoopStep, WsStep, CleanerStep, StopperStep

(* Every variable keeps its type, whatever fails and in whatever order the *)
(* five activities run.                                                    *)
THEOREM TypeCorrect == Spec => []TypeOK
  <1>1. Shape => TypeOK
    BY DEF Shape
  <1> QED
    BY <1>1, InitShape, ShapeNext, PTL DEF Spec

-----------------------------------------------------------------------------
(* Fills are credited once.  What each step does to the books, the records *)
(* and the ticker loop, as far as the argument needs it.                   *)

(* Only the ticker loop moves itself, places orders and sets ActiveOrder;  *)
(* the others at most clear it, and only when inst.mu is free.             *)
LEMMA LoopAlone ==
  ASSUME WsStep \/ CleanerStep \/ StopperStep \/ ExchangeStep \/ UNCHANGED vars
  PROVE  /\ loop' = loop /\ placed' = placed /\ order' = order
         /\ active' = active \/ (LockFree /\ active' = None)
  <1>1. CASE WsStep
    BY <1>1 DEF WsStep, TakeFill, ReadActive, ApplyFill, ApplyCancel,
                ApplyCancelStopped, WsUnchanged, bot
  <1>2. CASE CleanerStep
    BY <1>2 DEF CleanerStep, CleanupList, CleanupCancel, CleanupStatus,
                CleanupRefund, CleanupSave, CleanerUnchanged
  <1>3. CASE StopperStep
    BY <1>3 DEF StopperStep, StopBot, StopLook, StopList, StopNext, StopCancel,
                StopRefund, StopStatus, StopStatusActive, StopperUnchanged
  <1>4. CASE ExchangeStep
    BY <1>4 DEF ExchangeStep, LoseMessage, ExFill, routines, bot
  <1>5. CASE UNCHANGED vars
    BY <1>5 DEF vars, routines, bot
  <1> QED
    BY <1>1, <1>2, <1>3, <1>4, <1>5

(* Only the WebSocket reader moves itself, and only in three of its steps. *)
LEMMA ReaderAlone ==
  ASSUME [Next]_vars
  PROVE  ws' = ws \/ TakeFill \/ ReadActive \/ ApplyFill
  <1>1. CASE LoopStep
    BY <1>1 DEF LoopStep, PlaceNewOrder, TradeAnswered, TradeAccepted,
       TradeRefused, StopBotWithError, CheckReposition, CancelAnswered,
       RepositionCancelled, RepositionNotFound, LoopExit, LoopUnchanged
  <1>2. CASE CleanerStep
    BY <1>2 DEF CleanerStep, CleanupList, CleanupCancel, CleanupStatus,
       CleanupRefund, CleanupSave, CleanerUnchanged
  <1>3. CASE StopperStep
    BY <1>3 DEF StopperStep, StopBot, StopLook, StopList, StopNext, StopCancel,
       StopRefund, StopStatus, StopStatusActive, StopperUnchanged
  <1>4. CASE ExchangeStep
    BY <1>4 DEF ExchangeStep, LoseMessage, ExFill, routines
  <1>5. CASE UNCHANGED vars
    BY <1>5 DEF vars, routines
  <1> QED
    BY <1>1, <1>2, <1>3, <1>4, <1>5
    DEF Next, WsStep, ApplyCancel, ApplyCancelStopped

(* A record, once written, is never deleted.                               *)
LEMMA RecordsStay ==
  ASSUME Shape, [Next]_vars, NEW o \in Orders, rec[o].st # "none"
  PROVE  rec'[o].st # "none"
  <1>1. \A n : FinalStatus(n) # "none"
    BY DEF FinalStatus
  <1>2. rec \in [Orders -> Records]
    BY DEF Shape, TypeOK
  <1>5. CASE LoopStep
    <2>1. CASE TradeAccepted
      <3>1. rec' = [rec EXCEPT ![active] = [st |-> "open", filled |-> 0]]
        BY <2>1 DEF TradeAccepted
      <3>2. rec'[o] = rec[o] \/ rec'[o] = [st |-> "open", filled |-> 0]
        BY <3>1, <1>2
      <3> QED
        BY <3>2
    <2>2. CASE RepositionCancelled \/ RepositionNotFound
      <3>1. rec'[o].st \in {rec[o].st, "cancelled", "pending_ws_confirm"}
        BY <2>2, <1>2 DEF RepositionCancelled, RepositionNotFound, Records
      <3> QED
        BY <3>1
    <2> QED
      BY <1>5, <2>1, <2>2 DEF LoopStep, PlaceNewOrder, TradeAnswered,
         TradeRefused, StopBotWithError, CheckReposition, CancelAnswered, LoopExit
  <1>6. CASE WsStep
    <2>1. CASE ApplyFill
      <3>1. CASE rec' = rec
        BY <3>1
      <3>2. CASE /\ rec[ws.o].st # "none"
                 /\ rec' = [rec EXCEPT ![ws.o] = Filled(rec[ws.o], ws.full, ws.exec)]
        <4>1. rec'[o] \in {rec[o], Filled(rec[ws.o], ws.full, ws.exec)}
          BY <3>2, <1>2
        <4> QED
          BY <3>2, <4>1 DEF Filled
      <3> QED
        BY <2>1, <3>1, <3>2 DEF ApplyFill, FoundInRedis
    <2>2. CASE ApplyCancel
      <3> DEFINE p == Head(wire).o
                 st == FinalStatus(Head(wire).exec)
      <3>1. rec' = rec \/ rec' = [rec EXCEPT ![p].st = st]
        BY <2>2 DEF ApplyCancel
      <3>2. st # "none"
        BY <1>1
      <3> HIDE DEF p, st
      <3>3. rec'[o].st \in {rec[o].st, st}
        BY <3>1, <1>2 DEF Records
      <3> QED
        BY <3>2, <3>3
    <2>3. CASE ApplyCancelStopped
      <3> DEFINE p == Head(wire).o
                 st == FinalStatus(Head(wire).exec)
      <3>1. rec' = rec \/ rec' = [rec EXCEPT ![p].st = st]
        BY <2>3 DEF ApplyCancelStopped
      <3>2. st # "none"
        BY <1>1
      <3> HIDE DEF p, st
      <3>3. rec'[o].st \in {rec[o].st, st}
        BY <3>1, <1>2 DEF Records
      <3> QED
        BY <3>2, <3>3
    <2> QED
      BY <1>6, <2>1, <2>2, <2>3 DEF WsStep, TakeFill, ReadActive
  <1>7. CASE CleanerStep
    <2>1. CASE CleanupStatus
      <3>1. rec'[o].st \in {rec[o].st, FinalStatus(cleaner.filled)}
        BY <2>1, <1>2 DEF CleanupStatus, Records
      <3> QED
        BY <1>1, <3>1
    <2> QED
      BY <1>7, <2>1 DEF CleanerStep, CleanupList, CleanupCancel,
         CleanupRefund, CleanupSave
  <1>8. CASE StopperStep
    <2>1. CASE StopStatus
      <3>1. rec'[o].st \in {rec[o].st, "cancelled"}
        BY <2>1, <1>2 DEF StopStatus, Records
      <3> QED
        BY <3>1
    <2>2. CASE StopStatusActive
      <3>1. rec' = rec \/ rec' = [rec EXCEPT ![active].st =
                 IF rec[active].st = "none" THEN rec[active].st ELSE "cancelled"]
        BY <2>2 DEF StopStatusActive
      <3>2. ASSUME rec[active].st # "none" PROVE rec'[o].st # "none"
        <4>1. rec' = rec \/ rec' = [rec EXCEPT ![active].st = "cancelled"]
          BY <3>1, <3>2
        <4>2. rec'[o].st \in {rec[o].st, "cancelled"}
          BY <4>1, <1>2 DEF Records
        <4> QED
          BY <4>2
      <3>3. rec[active].st = "none" => rec' = rec \/ rec'[o] = rec[o]
        BY <3>1, <1>2
      <3> QED
        BY <3>2, <3>3
    <2> QED
      BY <1>8, <2>1, <2>2 DEF StopperStep, StopBot, StopLook, StopList, StopNext,
         StopCancel, StopRefund
  <1>9. CASE ExchangeStep
    BY <1>9 DEF ExchangeStep, LoseMessage, ExFill
  <1>10. CASE UNCHANGED vars
    BY <1>10 DEF vars
  <1> QED
    BY <1>5, <1>6, <1>7, <1>8, <1>9, <1>10 DEF Next

(* Only a known order is open.                                             *)
LEMMA OpenIsKnown ==
  ASSUME Shape, KnownBooks, NEW p \in Orders, ex[p].st = "open"
  PROVE  p <= placed
  <1>1. placed \in Nat /\ p \in Nat
    BY OrdersAssumption DEF Shape, TypeOK, Orders
  <1>2. ~(p > placed)
    BY DEF KnownBooks
  <1> QED
    BY ONLY <1>1, <1>2

(* What a cancellation does to the books: only a known order is cancelled. *)
LEMMA CancelInBooks ==
  ASSUME Shape, KnownBooks, NEW p \in Orders, ExCancelled(p), NEW o \in Orders
  PROVE  /\ ex'[o].done = ex[o].done
         /\ o > placed => ex'[o] = ex[o]
         /\ wire' = Append(wire, Message(p, "cancelled", ex[p].done))
         /\ p <= placed
  BY DEF Shape, TypeOK, KnownBooks, ExCancelled, Orders

(* The exchange's books only grow, and only for orders it knows.           *)
LEMMA BooksGrow ==
  ASSUME Shape, KnownBooks, [Next]_vars, NEW o \in Orders
  PROVE  /\ placed <= placed'
         /\ ex'[o].done >= ex[o].done
         /\ o > placed' => ex'[o] = ex[o]
  <1> USE DEF Shape, TypeOK
  <1>0. placed \in Nat /\ ex[o].done \in Nat
    BY OrdersAssumption DEF Books
  <1>1. CASE LoopStep
    <2>1. CASE TradeAnswered
      <3>1. active = placed + 1
        BY <2>1 DEF TradeAnswered, KnownBooks
      <3>2. \/ placed' = placed + 1 /\ ex' = [ex EXCEPT ![active].st = "open"]
            \/ placed' = placed /\ ex' = ex
        BY <2>1 DEF TradeAnswered
      <3>3. ex \in [Orders -> Books]
        OBVIOUS
      <3>4. ex'[o].done = ex[o].done
        BY ONLY <3>2, <3>3, o \in Orders DEF Books
      <3>5. o # active => ex'[o] = ex[o]
        BY ONLY <3>2, <3>3, o \in Orders
      <3> QED
        BY ONLY <1>0, <3>1, <3>2, <3>4, <3>5, o \in Orders, OrdersAssumption DEF Orders
    <2>2. CASE CancelAnswered
      BY <2>2, <1>0, CancelInBooks DEF CancelAnswered, ExNotFound, HoldsOrder, InLoop
    <2> QED
      BY <1>0, <1>1, <2>1, <2>2 DEF LoopStep, PlaceNewOrder, TradeAccepted,
         TradeRefused, StopBotWithError, CheckReposition, RepositionCancelled,
         RepositionNotFound, LoopExit
  <1>2. CASE WsStep
    BY <1>0, <1>2 DEF WsStep, TakeFill, ReadActive, ApplyFill, ApplyCancel,
         ApplyCancelStopped, WsUnchanged
  <1>3. CASE CleanerStep
    <2>1. CASE CleanupCancel
      <3>1. PICK t \in cleaner.todo : ExCancelled(t.o) \/ UNCHANGED <<ex, wire>>
        BY <2>1 DEF CleanupCancel
      <3>2. t.o \in Orders
        BY DEF CleanerStates
      <3> QED
        BY <1>0, <2>1, <3>1, <3>2, CancelInBooks DEF CleanupCancel, CleanerUnchanged
    <2> QED
      <3>1. CleanerStep /\ ~CleanupCancel => placed' = placed /\ ex' = ex
        BY DEF CleanerStep, CleanupList, CleanupStatus, CleanupRefund,
               CleanupSave, CleanerUnchanged
      <3> QED
        BY <1>0, <1>3, <2>1, <3>1
  <1>4. CASE StopperStep
    <2>1. CASE StopCancel
      <3>1. stopper.o \in Orders
        BY <2>1 DEF StopCancel, HoldsOrder
      <3> QED
        BY <1>0, <2>1, <3>1, CancelInBooks DEF StopCancel, StopperUnchanged
    <2> QED
      <3>1. StopperStep /\ ~StopCancel => placed' = placed /\ ex' = ex
        BY DEF StopperStep, StopBot, StopLook, StopList, StopNext, StopRefund,
               StopStatus, StopStatusActive, StopperUnchanged
      <3> QED
        BY <1>0, <1>4, <2>1, <3>1
  <1>5. CASE LoseMessage
    BY <1>0, <1>5 DEF LoseMessage
  <1>6. ASSUME NEW p \in Orders, ExFill(p)
        PROVE  /\ placed <= placed' /\ ex'[o].done >= ex[o].done
               /\ o > placed' => ex'[o] = ex[o]
    <2>1. PICK qty \in 1 .. order[p].amt - ex[p].done :
             ex'[p].done = ex[p].done + qty /\ \A q \in Orders \ {p} : ex'[q] = ex[q]
      BY <1>6 DEF ExFill
    <2>2. p <= placed /\ placed' = placed
      BY <1>6, OpenIsKnown DEF ExFill
    <2>3. order[p].amt \in Nat /\ ex[p].done \in Nat
      BY DEF Terms, Books
    <2>4. ex'[o].done >= ex[o].done
      BY ONLY <1>0, <2>1, <2>3, o \in Orders
    <2>5. o > placed' => ex'[o] = ex[o]
      BY ONLY <1>0, <2>1, <2>2, p \in Orders, o \in Orders DEF Orders
    <2> QED
      BY ONLY <1>0, <2>2, <2>4, <2>5
  <1>7. CASE UNCHANGED vars
    BY <1>0, <1>7 DEF vars
  <1> QED
    BY <1>1, <1>2, <1>3, <1>4, <1>5, <1>6, <1>7 DEF Next, ExchangeStep

(* The loop works on the newest order, and records what is accepted.       *)
LEMMA LoopMoves ==
  ASSUME Shape, KnownOrders, [Next]_vars, "lostTradeReply" \notin Enabled
  PROVE  /\ loop' = "trade" => active' = placed' + 1
         /\ loop' \notin {"trade", "refused", "critical"} => active' <= placed'
         /\ loop = "accepted" => \/ loop' = loop /\ active' = active
                                 \/ rec'[active].st = "open"
         /\ placed' # placed => /\ placed' = placed + 1
                                /\ loop' = "accepted"
                                /\ active' = placed'
  <1> USE DEF Shape, TypeOK
  <1>0. placed \in Nat /\ None <= placed
    BY OrdersAssumption DEF None
  <1>1. CASE WsStep \/ CleanerStep \/ StopperStep \/ ExchangeStep \/ UNCHANGED vars
    BY <1>0, <1>1, LoopAlone DEF KnownOrders, KnownBooks, LockFree
  <1>2. CASE TradeAccepted
    BY <1>0, <1>2 DEF TradeAccepted, KnownOrders, KnownBooks, HoldsOrder, InLoop
  <1>3. CASE LoopStep /\ ~TradeAccepted
    BY <1>0, <1>3 DEF LoopStep, PlaceNewOrder, TradeAnswered, TradeRefused,
       StopBotWithError, CheckReposition, CancelAnswered, RepositionCancelled,
       RepositionNotFound, LoopExit, KnownOrders, KnownBooks, bot
  <1> QED
    BY <1>1, <1>2, <1>3 DEF Next

(* The exchange and the bot keep agreeing on which orders exist.           *)
LEMMA BooksNext ==
  ASSUME Shape, KnownBooks, [Next]_vars
  PROVE  KnownBooks'
  <1>1. placed \in Nat /\ placed' \in Nat
    BY ShapeNext, OrdersAssumption DEF Shape, TypeOK
  <1>2. ASSUME NEW o \in Orders, o > placed'
        PROVE  ex'[o] = [st |-> "none", done |-> 0]
    BY <1>1, <1>2, BooksGrow DEF KnownBooks, Orders
  <1>3. loop' = "trade" => active' = placed' + 1
    <2>1. CASE LoopStep
      BY <2>1 DEF LoopStep, PlaceNewOrder, TradeAnswered, TradeAccepted,
         TradeRefused, StopBotWithError, CheckReposition, CancelAnswered,
         RepositionCancelled, RepositionNotFound, LoopExit
    <2> QED
      BY <2>1, LoopAlone DEF Next, KnownBooks, LockFree
  <1> QED
    BY <1>2, <1>3 DEF KnownBooks

(* ... and on which of them are recorded.                                  *)
LEMMA KnownNext ==
  ASSUME Shape, KnownOrders, [Next]_vars, "lostTradeReply" \notin Enabled
  PROVE  KnownOrders'
  <1>1. placed \in Nat /\ placed' \in Nat
    BY ShapeNext, OrdersAssumption DEF Shape, TypeOK
  <1>2. ASSUME NEW o \in Orders, o <= placed', rec'[o].st = "none"
        PROVE  loop' = "accepted" /\ active' = o
    <2>1. CASE o <= placed
      BY <1>1, <1>2, <2>1, RecordsStay, LoopMoves DEF KnownOrders, Orders
    <2>2. CASE o > placed
      BY <1>1, <1>2, <2>2, LoopMoves DEF Orders
    <2> QED
      BY <1>1, <2>1, <2>2 DEF Orders
  <1>3. KnownBooks'
    BY BooksNext DEF KnownOrders
  <1> QED
    BY <1>2, <1>3, LoopMoves DEF KnownOrders

(* What it is for a message to be true.                                    *)
IsTrue(m, known, books) == m.o <= known /\ m.exec <= books[m.o].done

(* A message on the wire stays true: totals only grow.                     *)
LEMMA StaysTrue ==
  ASSUME Shape, KnownBooks, [Next]_vars, NEW o \in Orders, NEW exec \in Nat,
         o <= placed, exec <= ex[o].done
  PROVE  o <= placed' /\ exec <= ex'[o].done
  <1>1. placed \in 0 .. MaxOrders /\ ex \in [Orders -> Books]
    BY DEF Shape, TypeOK
  <1>2. placed' \in 0 .. MaxOrders /\ ex' \in [Orders -> Books]
    <2>1. Shape'
      BY ShapeNext
    <2> QED
      BY <2>1 DEF Shape, TypeOK
  <1>3. ex[o].done \in Nat /\ ex'[o].done \in Nat
    BY <1>1, <1>2 DEF Books
  <1>4. placed \in Nat /\ placed' \in Nat
    BY <1>1, <1>2
  <1> QED
    BY <1>3, <1>4, BooksGrow DEF Orders

(* The wire gains only true messages, and loses only its head.             *)
LEMMA WireMoves ==
  ASSUME Shape, KnownBooks, [Next]_vars
  PROVE  \/ wire' = wire
         \/ wire # <<>> /\ wire' = Tail(wire)
         \/ \E m \in Messages : IsTrue(m, placed', ex') /\ wire' = Append(wire, m)
         \/ \E m, n \in Messages : /\ IsTrue(m, placed', ex') /\ IsTrue(n, placed', ex')
                                   /\ wire' = wire \o <<m, n>>
  <1> USE DEF Shape, TypeOK
  <1>1. ASSUME NEW o \in Orders, ExCancelled(o), placed' = placed
        PROVE  \E m \in Messages : IsTrue(m, placed', ex') /\ wire' = Append(wire, m)
    <2>1. Message(o, "cancelled", ex[o].done) \in Messages
      BY DEF Message, Messages, Books
    <2>2. o <= placed' /\ ex[o].done <= ex'[o].done
      BY <1>1, CancelInBooks, placed \in Nat, ex[o].done \in Nat DEF Books
    <2>3. IsTrue(Message(o, "cancelled", ex[o].done), placed', ex')
      <3>1. /\ Message(o, "cancelled", ex[o].done).o = o
            /\ Message(o, "cancelled", ex[o].done).exec = ex[o].done
        BY DEF Message
      <3> QED
        BY <3>1, <2>2 DEF IsTrue
    <2> QED
      BY <1>1, <2>1, <2>3 DEF ExCancelled
  <1>2. CASE LoopStep
    <2>1. CASE CancelAnswered
      <3>1. active \in Orders
        BY <2>1 DEF CancelAnswered, HoldsOrder, InLoop
      <3> QED
        BY <2>1, <3>1, <1>1 DEF CancelAnswered, ExNotFound
    <2> QED
      BY <1>2, <2>1 DEF LoopStep, PlaceNewOrder, TradeAnswered, TradeAccepted,
         TradeRefused, StopBotWithError, CheckReposition, RepositionCancelled,
         RepositionNotFound, LoopExit
  <1>3. CASE WsStep
    BY <1>3 DEF WsStep, TakeFill, ReadActive, ApplyFill, ApplyCancel,
       ApplyCancelStopped, NextIs
  <1>4. CASE CleanerStep
    <2>1. CASE CleanupCancel
      <3>1. PICK t \in cleaner.todo : ExCancelled(t.o) \/ UNCHANGED <<ex, wire>>
        BY <2>1 DEF CleanupCancel
      <3>2. t.o \in Orders
        BY DEF CleanerStates
      <3> QED
        BY <2>1, <3>1, <3>2, <1>1 DEF CleanupCancel, CleanerUnchanged
    <2> QED
      BY <1>4, <2>1 DEF CleanerStep, CleanupList, CleanupStatus, CleanupRefund,
         CleanupSave
  <1>5. CASE StopperStep
    <2>1. CASE StopCancel
      <3>1. stopper.o \in Orders
        BY <2>1 DEF StopCancel, HoldsOrder
      <3> QED
        BY <2>1, <3>1, <1>1 DEF StopCancel, StopperUnchanged
    <2> QED
      BY <1>5, <2>1 DEF StopperStep, StopBot, StopLook, StopList, StopNext,
         StopRefund, StopStatus, StopStatusActive
  <1>6. CASE LoseMessage
    BY <1>6 DEF LoseMessage
  <1>7. ASSUME NEW o \in Orders, ExFill(o)
        PROVE  \/ \E m \in Messages : IsTrue(m, placed', ex') /\ wire' = Append(wire, m)
               \/ \E m, n \in Messages : /\ IsTrue(m, placed', ex') /\ IsTrue(n, placed', ex')
                                         /\ wire' = wire \o <<m, n>>
    <2>0. PICK qty \in 1 .. order[o].amt - ex[o].done :
             LET exec == ex[o].done + qty
                 full == exec = order[o].amt
             IN  /\ ex' = [ex EXCEPT ![o] = [st |-> IF full THEN "done" ELSE "open",
                                             done |-> exec]]
                 /\ \/ wire' = Append(wire, Message(o, "fill", exec))
                    \/ wire' = wire \o <<Message(o, "fill", exec),
                                         Message(o, "done", exec)>>
      BY <1>7 DEF ExFill
    <2>1. /\ ex'[o].done = ex[o].done + qty
          /\ \/ wire' = Append(wire, Message(o, "fill", ex[o].done + qty))
             \/ wire' = wire \o <<Message(o, "fill", ex[o].done + qty),
                                  Message(o, "done", ex[o].done + qty)>>
      BY <2>0
    <2>2. ex[o].done \in Nat /\ order[o].amt \in Nat /\ o <= placed'
      BY <1>7, OpenIsKnown DEF Books, Terms, ExFill
    <2> DEFINE fill == Message(o, "fill", ex[o].done + qty)
               done == Message(o, "done", ex[o].done + qty)
    <2>3. fill \in Messages /\ done \in Messages
      BY <2>1, <2>2 DEF Message, Messages
    <2>4. IsTrue(fill, placed', ex') /\ IsTrue(done, placed', ex')
      BY <2>1, <2>2 DEF IsTrue, Message
    <2>5. wire' = Append(wire, fill) \/ wire' = wire \o <<fill, done>>
      BY <2>1
    <2> HIDE DEF fill, done
    <2> QED
      BY <2>3, <2>4, <2>5
  <1>8. CASE UNCHANGED vars
    BY <1>8 DEF vars
  <1> QED
    BY <1>2, <1>3, <1>4, <1>5, <1>6, <1>7, <1>8 DEF Next, ExchangeStep

(* Every message on the wire stays true.                                   *)
LEMMA WireNext ==
  ASSUME Shape, KnownBooks, WireIsTrue, [Next]_vars
  PROVE  /\ \A i \in 1 .. Len(wire) : IsTrue(wire[i], placed', ex')
         /\ WireIsTrue'
  <1> USE DEF Shape, TypeOK
  <1>1. \A i \in 1 .. Len(wire) : IsTrue(wire[i], placed', ex')
    <2> SUFFICES ASSUME NEW i \in 1 .. Len(wire) PROVE IsTrue(wire[i], placed', ex')
      OBVIOUS
    <2>1. wire[i] \in Messages
      OBVIOUS
    <2>2. wire[i].o \in Orders /\ wire[i].exec \in Nat
      BY <2>1 DEF Messages
    <2> QED
      BY <2>2, StaysTrue DEF WireIsTrue, IsTrue
  <1>2. \A i \in 1 .. Len(wire') : IsTrue(wire'[i], placed', ex')
    <2>1. CASE wire' = wire
      BY <1>1, <2>1
    <2>2. CASE wire # <<>> /\ wire' = Tail(wire)
      BY <1>1, <2>2, HeadType
    <2>3. ASSUME NEW m \in Messages, IsTrue(m, placed', ex'), wire' = Append(wire, m)
          PROVE  \A i \in 1 .. Len(wire') : IsTrue(wire'[i], placed', ex')
      BY <1>1, <2>3
    <2>4. ASSUME NEW m \in Messages, NEW n \in Messages, IsTrue(m, placed', ex'),
                 IsTrue(n, placed', ex'), wire' = wire \o <<m, n>>
          PROVE  \A i \in 1 .. Len(wire') : IsTrue(wire'[i], placed', ex')
      <3>1. /\ Len(wire') = Len(wire) + 2
            /\ \A i \in 1 .. Len(wire) : wire'[i] = wire[i]
            /\ wire'[Len(wire) + 1] = m /\ wire'[Len(wire) + 2] = n
        BY <2>4
      <3> QED
        BY <1>1, <2>4, <3>1
    <2> QED
      BY <2>1, <2>2, <2>3, <2>4, WireMoves
  <1> QED
    BY <1>1, <1>2 DEF WireIsTrue, IsTrue

(* So does the message in hand.                                            *)
LEMMA MessagesNext ==
  ASSUME Shape, KnownBooks, MessagesAreTrue, FilledIsCredited, [Next]_vars
  PROVE  MessagesAreTrue'
  <1> USE DEF Shape, TypeOK
  <1>1. WireIsTrue' /\ \A i \in 1 .. Len(wire) : IsTrue(wire[i], placed', ex')
    BY WireNext DEF MessagesAreTrue
  <1>2. ws'.pc # "idle" => ws'.o <= placed' /\ ws'.exec <= ex'[ws'.o].done
    <2>1. CASE ws' = ws
      BY <2>1, StaysTrue DEF MessagesAreTrue, HoldsOrder, WsStates
    <2>2. CASE TakeFill
      <3>1. wire # <<>> /\ (ws'.pc # "idle" => ws'.o = wire[1].o /\ ws'.exec = wire[1].exec)
        BY <2>2, HeadType DEF TakeFill, NextIs, IdleWs
      <3>2. 1 \in 1 .. Len(wire)
        BY <3>1, HeadType
      <3> QED
        BY <1>1, <3>1, <3>2 DEF IsTrue
    <2>3. CASE ReadActive
      <3>1. ws.pc = "matched" /\ active \in {None, ws.o}
        BY <2>3 DEF ReadActive, FilledIsCredited
      <3>2. CASE active = None
        BY <2>3, <3>2 DEF ReadActive, IdleWs
      <3>3. CASE active # None
        <4>1. ws' = [ws EXCEPT !.pc = "read", !.o = active]
          BY <2>3, <3>3 DEF ReadActive
        <4>2. ws'.o = ws.o /\ ws'.exec = ws.exec
          BY <3>1, <3>3, <4>1 DEF WsStates
        <4> QED
          BY <3>1, <4>2, StaysTrue DEF MessagesAreTrue, HoldsOrder, WsStates
      <3> QED
        BY <3>2, <3>3
    <2>4. CASE ApplyFill
      BY <2>4 DEF ApplyFill, IdleWs
    <2> QED
      BY <2>1, <2>2, <2>3, <2>4, ReaderAlone
  <1> QED
    BY <1>1, <1>2 DEF MessagesAreTrue

(* What the handlers of fills read and write.                              *)
LEMMA FilledFrame ==
  ASSUME Shape, [Next]_vars, ~ApplyFill, ~PlaceNewOrder, ~TradeAccepted
  PROVE  /\ credited' = credited
         /\ \A o \in Orders : /\ obj'[o].filled = obj[o].filled
                             /\ rec'[o].filled = rec[o].filled
  <1> USE DEF history, bot
  <1>0. obj \in [Orders -> MemoryRecords] /\ rec \in [Orders -> Records]
    BY DEF Shape, TypeOK
  <1>1. CASE LoopStep
    <2>1. CASE RepositionCancelled
      BY <1>0, <2>1 DEF RepositionCancelled, LoopUnchanged, Records, MemoryRecords
    <2>2. CASE RepositionNotFound
      BY <1>0, <2>2 DEF RepositionNotFound, LoopUnchanged, Records, MemoryRecords
    <2> QED
      BY <1>1, <2>1, <2>2 DEF LoopStep, TradeAnswered, TradeRefused,
         StopBotWithError, CheckReposition, CancelAnswered, LoopExit, LoopUnchanged
  <1>2. CASE TakeFill \/ ReadActive
    BY <1>2 DEF TakeFill, ReadActive
  <1>3. CASE ApplyCancel \/ ApplyCancelStopped
    <2> DEFINE p == Head(wire).o
               st == FinalStatus(Head(wire).exec)
    <2>1. /\ credited' = credited
          /\ rec' = rec \/ rec' = [rec EXCEPT ![p].st = st]
          /\ obj' = obj \/ obj' = [obj EXCEPT ![p].st = st]
      BY <1>3 DEF ApplyCancel, ApplyCancelStopped
    <2> HIDE DEF p, st
    <2> QED
      BY <1>0, <2>1 DEF Records, MemoryRecords
  <1>4. CASE CleanerStep
    <2>1. /\ credited' = credited /\ obj' = obj
          /\ \/ rec' = rec
             \/ rec' = [rec EXCEPT ![cleaner.o].st = FinalStatus(cleaner.filled)]
      BY <1>4 DEF CleanerStep, CleanupList, CleanupCancel, CleanupStatus,
         CleanupRefund, CleanupSave, CleanerUnchanged
    <2> QED
      BY <1>0, <2>1 DEF Records
  <1>5. CASE StopperStep
    <2>1. CASE StopStatusActive
      <3> DEFINE st == IF rec[active].st = "none" THEN rec[active].st ELSE "cancelled"
      <3>1. /\ credited' = credited
            /\ rec' = rec \/ rec' = [rec EXCEPT ![active].st = st]
            /\ obj' = obj \/ obj' = [obj EXCEPT ![active].st = "cancelled"]
        BY <2>1 DEF StopStatusActive, StopperUnchanged
      <3> HIDE DEF st
      <3> QED
        BY <1>0, <3>1 DEF Records, MemoryRecords
    <2>2. CASE ~StopStatusActive
      <3>1. /\ credited' = credited /\ obj' = obj
            /\ \/ rec' = rec
               \/ rec' = [rec EXCEPT ![stopper.o].st = "cancelled"]
        BY <1>5, <2>2 DEF StopperStep, StopBot, StopLook, StopList, StopNext,
           StopCancel, StopRefund, StopStatus, StopperUnchanged
      <3> QED
        BY <1>0, <3>1 DEF Records
    <2> QED
      BY <2>1, <2>2
  <1>6. CASE ExchangeStep
    BY <1>6 DEF ExchangeStep, LoseMessage, ExFill
  <1>7. CASE UNCHANGED vars
    BY <1>7 DEF vars
  <1> QED
    BY <1>1, <1>2, <1>3, <1>4, <1>5, <1>6, <1>7 DEF Next, WsStep

(* A fill is applied to what was credited before: credited becomes what    *)
(* the message reports, if that is more.                                   *)
LEMMA ApplyFillCredits ==
  ASSUME CreditInv, ApplyFill
  PROVE  /\ ws.o \in Orders /\ ws.exec \in Nat /\ ws'.pc = "idle"
         /\ ws.exec <= ex[ws.o].done
         /\ active' \in {active, None} /\ UNCHANGED <<ex, loop, placed>>
         /\ \/ UNCHANGED <<credited, obj, rec>>
            \/ /\ credited' = [credited EXCEPT ![ws.o] = ws.exec]
               /\ rec' = [rec EXCEPT ![ws.o] = Filled(rec[ws.o], ws.full, ws.exec)]
               /\ \/ obj' = [obj EXCEPT ![ws.o] = Filled(obj[ws.o], ws.full, ws.exec)]
                  \/ obj' = obj /\ active # ws.o
  <1> USE DEF CreditInv, TypeOK
  <1>1. ws.o \in Orders /\ ws.exec \in Nat /\ ws.pc # "idle" /\ ws.o <= placed
        /\ ws.exec <= ex[ws.o].done
    BY DEF ApplyFill, WsStates, HoldsOrder, MessagesAreTrue
  <1>2. rec[ws.o].st # "none"
    BY <1>1 DEF ApplyFill, LockFree, KnownOrders
  <1> DEFINE filled == IF ws.pc = "read" THEN obj[ws.o].filled ELSE ws.filled
             qty == NewlyFilled(ws.exec, filled)
  <1>3. filled = credited[ws.o] /\ credited[ws.o] \in Nat
    BY <1>1 DEF ApplyFill, FilledIsCredited
  <1>4. qty > 0 => credited[ws.o] + qty = ws.exec
    BY <1>1, <1>3 DEF NewlyFilled, Monus
  <1>5. ws'.pc = "idle" /\ active' \in {active, None} /\ UNCHANGED <<ex, loop, placed>>
    BY DEF ApplyFill, WsUnchanged, IdleWs
  <1>6. \/ UNCHANGED <<credited, obj, rec>>
        \/ /\ qty > 0
           /\ credited' = [credited EXCEPT ![ws.o] = @ + qty]
           /\ rec' = [rec EXCEPT ![ws.o] = Filled(rec[ws.o], ws.full, ws.exec)]
           /\ obj' = IF ws.pc = "read"
                     THEN [obj EXCEPT ![ws.o] = Filled(obj[ws.o], ws.full, ws.exec)]
                     ELSE obj
    BY <1>2 DEF ApplyFill, FoundInRedis
  <1>7. ws.pc # "read" => active # ws.o
    BY DEF ApplyFill, FilledIsCredited
  <1> HIDE DEF qty
  <1> QED
    BY <1>1, <1>4, <1>5, <1>6, <1>7

(* Every FilledAmount a handler may use stays equal to what was credited.  *)
LEMMA FilledNext ==
  ASSUME CreditInv, KnownOrders', [Next]_vars, "lostTradeReply" \notin Enabled
  PROVE  FilledIsCredited' /\ CreditedWithinExecuted'
  <1> USE DEF CreditInv, TypeOK
  <1>0. placed \in Nat /\ \A o \in Orders : o \in Nat /\ o # None
    BY OrdersAssumption DEF Orders, None
  <1>1. \A o \in Orders : ex[o].done \in Nat /\ credited[o] \in Nat
    BY DEF Books
  <1>2. \A o \in Orders : o > placed => credited[o] = 0
    BY <1>0, <1>1 DEF KnownOrders, KnownBooks, CreditedWithinExecuted
  <1>3. \A o \in Orders : ex[o].done <= ex'[o].done /\ ex'[o].done \in Nat
    <2>1. Shape'
      BY ShapeNext DEF Shape
    <2> QED
      BY <1>1, <2>1, BooksGrow DEF Shape, Books, KnownOrders
  <1>4. CASE ApplyFill
    <2> DEFINE o == ws.o
    <2>1. o \in Orders /\ ws.exec \in Nat /\ ws'.pc = "idle" /\ ws.exec <= ex[o].done
          /\ active' \in {active, None} /\ UNCHANGED <<ex, loop, placed>>
      BY <1>4, ApplyFillCredits
    <2>2. CASE UNCHANGED <<credited, obj, rec>>
      BY <1>4, <2>1, <2>2 DEF FilledIsCredited, CreditedWithinExecuted, ApplyFill,
                              LockFree
    <2>3. CASE /\ credited' = [credited EXCEPT ![o] = ws.exec]
               /\ rec' = [rec EXCEPT ![o] = Filled(rec[o], ws.full, ws.exec)]
               /\ \/ obj' = [obj EXCEPT ![o] = Filled(obj[o], ws.full, ws.exec)]
                  \/ obj' = obj /\ active # o
      <3>1. CreditedWithinExecuted'
        BY <2>1, <2>3 DEF CreditedWithinExecuted
      <3>2. \A p \in Orders : rec'[p].filled = credited'[p]
        BY <2>1, <2>3 DEF FilledIsCredited, Filled
      <3>3. active' # None => obj'[active'].filled = credited'[active']
        <4> SUFFICES ASSUME active' # None
                     PROVE  obj'[active].filled = credited'[active]
          BY <2>1
        <4>1. active \in Orders /\ obj[active].filled = credited[active]
          BY <2>1 DEF FilledIsCredited
        <4> QED
          BY <2>1, <2>3, <4>1 DEF Filled
      <3>4. loop' \in {"idle", "exited"}
        BY <1>4, <2>1 DEF ApplyFill, LockFree
      <3> QED
        BY <2>1, <3>1, <3>2, <3>3, <3>4 DEF FilledIsCredited
    <2> QED
      BY <1>4, <2>2, <2>3, ApplyFillCredits
  <1>5. CASE PlaceNewOrder
    <2> DEFINE new == placed + 1
    <2>1. new \in Orders /\ active' = new /\ loop' = "trade" /\ new > placed
          /\ UNCHANGED <<ex, ws, rec, credited>>
      BY <1>0, <1>5, OrdersAssumption DEF PlaceNewOrder, LoopUnchanged, history, Orders
    <2>2. obj' = [obj EXCEPT ![new] = [st |-> "pending", filled |-> 0]]
      BY <1>5 DEF PlaceNewOrder
    <2>3. credited[new] = 0
      BY <1>2, <2>1
    <2>4. ws.pc # "idle" => ws.o \in Orders /\ ws.o <= placed
      BY DEF HoldsOrder, MessagesAreTrue
    <2>5. ws.pc # "matched"
      BY <2>4, <1>5 DEF PlaceNewOrder, KnownOrders
    <2>6. ws.pc # "idle" => ws.o # new /\ obj'[ws.o] = obj[ws.o]
      BY <1>0, <2>1, <2>2, <2>4
    <2>7. obj'[new].filled = 0
      BY <2>1, <2>2
    <2> HIDE DEF new
    <2> QED
      BY <2>1, <2>3, <2>5, <2>6, <2>7 DEF FilledIsCredited, CreditedWithinExecuted
  <1>6. CASE TradeAccepted
    <2>1. active \in Orders /\ credited[active] = 0 /\ loop' = "idle"
          /\ UNCHANGED <<ex, ws, active, credited>>
      BY <1>6 DEF TradeAccepted, LoopUnchanged, history, HoldsOrder, InLoop, FilledIsCredited
    <2>2. \A o \in Orders : obj'[o].filled = obj[o].filled
      BY <1>6 DEF TradeAccepted, MemoryRecords
    <2>3. rec' = [rec EXCEPT ![active] = [st |-> "open", filled |-> 0]]
      BY <1>6 DEF TradeAccepted
    <2>4. \A o \in Orders : rec'[o].filled = credited[o]
      BY <2>1, <2>3 DEF FilledIsCredited
    <2> QED
      BY <2>1, <2>2, <2>4 DEF FilledIsCredited, CreditedWithinExecuted, HoldsOrder
  <1>7. CASE ~ApplyFill /\ ~PlaceNewOrder /\ ~TradeAccepted
    <2>0. Shape
      BY DEF Shape
    <2>1. \A o \in Orders : /\ obj'[o].filled = obj[o].filled
                            /\ rec'[o].filled = rec[o].filled
      BY <1>7, <2>0, FilledFrame
    <2>2. credited' = credited
      BY <1>7, <2>0, FilledFrame
    <2>3. CreditedWithinExecuted'
      <3> SUFFICES ASSUME NEW o \in Orders PROVE credited'[o] <= ex'[o].done
        BY DEF CreditedWithinExecuted
      <3>1. credited[o] <= ex[o].done
        BY DEF CreditedWithinExecuted
      <3> QED
        BY <1>1, <1>3, <2>2, <3>1
    <2>4. active' \in {active, None}
      <3>1. CASE LoopStep
        BY <1>7, <3>1 DEF LoopStep, TradeAnswered, TradeRefused, StopBotWithError,
           CheckReposition, CancelAnswered, RepositionCancelled,
           RepositionNotFound, LoopExit, bot
      <3> QED
        BY <3>1, LoopAlone DEF Next
    <2>5. active' # None => obj'[active'].filled = credited'[active']
      BY <2>1, <2>2, <2>4 DEF FilledIsCredited
    <2>6. loop' = "accepted" => credited'[active'] = 0
      <3>1. CASE TradeAnswered
        BY <1>0, <1>2, <2>2, <3>1, OrdersAssumption
        DEF TradeAnswered, KnownOrders, KnownBooks, HoldsOrder, InLoop, bot
      <3>2. CASE LoopStep /\ ~TradeAnswered
        BY <1>7, <3>2 DEF LoopStep, TradeRefused, StopBotWithError,
           CheckReposition, CancelAnswered, RepositionCancelled,
           RepositionNotFound, LoopExit
      <3>3. CASE WsStep \/ CleanerStep \/ StopperStep \/ ExchangeStep \/ UNCHANGED vars
        BY <3>3, <2>2, LoopAlone DEF LockFree, FilledIsCredited
      <3> QED
        BY <3>1, <3>2, <3>3 DEF Next
    <2>7. CASE ws' = ws
      <3>1. ws.pc # "idle" => ws.o \in Orders
        BY DEF HoldsOrder
      <3>2. ws.pc = "fallback" => active' # ws.o /\ ws.filled = credited'[ws.o]
        BY <1>0, <2>2, <2>4, <3>1 DEF FilledIsCredited
      <3>3. ws.pc = "read" => obj'[ws.o].filled = credited'[ws.o]
        BY <2>1, <2>2, <3>1 DEF FilledIsCredited
      <3>4. ws.pc = "matched" => active' \in {None, ws.o}
        BY <2>4 DEF FilledIsCredited
      <3>5. \A o \in Orders : rec'[o].filled = credited'[o]
        BY <2>1, <2>2 DEF FilledIsCredited
      <3> QED
        BY <2>3, <2>5, <2>6, <2>7, <3>2, <3>3, <3>4, <3>5 DEF FilledIsCredited
    <2>8. CASE TakeFill
      <3> DEFINE m == Head(wire)
      <3>1. m.o \in Orders
        BY <2>8, HeadType DEF TakeFill, NextIs
      <3>2. active' = active
        BY <2>8 DEF TakeFill, bot
      <3>3. \/ ws'.pc = "idle"
            \/ ws'.pc = "matched" /\ ws'.o = m.o /\ active = m.o
            \/ /\ ws'.pc = "fallback" /\ ws'.o = m.o /\ active # m.o
               /\ ws'.filled = rec[m.o].filled
        BY <2>8 DEF TakeFill, IdleWs
      <3> HIDE DEF m
      <3> QED
        BY <2>1, <2>2, <2>3, <2>5, <2>6, <3>1, <3>2, <3>3 DEF FilledIsCredited
    <2>9. CASE ReadActive
      <3>1. /\ active' = active
            /\ \/ ws' = IdleWs
               \/ ws' = [ws EXCEPT !.pc = "read", !.o = active] /\ active # None
        BY <2>9 DEF ReadActive, bot
      <3>2. \/ ws'.pc = "idle"
            \/ ws'.pc = "read" /\ ws'.o = active /\ active # None
        <4>1. IdleWs.pc = "idle"
          BY DEF IdleWs
        <4>2. ws' = [ws EXCEPT !.pc = "read", !.o = active] =>
                 ws'.pc = "read" /\ ws'.o = active
          BY DEF WsStates
        <4> QED
          BY <3>1, <4>1, <4>2
      <3> QED
        BY <2>1, <2>2, <2>3, <2>5, <2>6, <3>1, <3>2 DEF FilledIsCredited
    <2> QED
      BY <1>7, <2>3, <2>7, <2>8, <2>9, ReaderAlone
  <1> QED
    BY <1>4, <1>5, <1>6, <1>7

(* A fresh instance satisfies the inductive invariant.                     *)
LEMMA InitCredit == Init => CreditInv
  <1> SUFFICES ASSUME Init PROVE CreditInv
    OBVIOUS
  <1>1. TypeOK /\ HoldsOrder
    BY InitShape DEF Shape
  <1>2. KnownOrders /\ MessagesAreTrue
    BY OrdersAssumption DEF Init, KnownOrders, KnownBooks, MessagesAreTrue,
                            WireIsTrue, IdleWs, Orders, None
  <1>3. FilledIsCredited /\ CreditedWithinExecuted
    BY OrdersAssumption DEF Init, FilledIsCredited, CreditedWithinExecuted, IdleWs,
                            NoRecord, None
  <1> QED
    BY <1>1, <1>2, <1>3 DEF CreditInv

LEMMA CreditNext ==
  ASSUME CreditInv, [Next]_vars, "lostTradeReply" \notin Enabled
  PROVE  CreditInv'
  <1>1. Shape
    BY DEF CreditInv, Shape
  <1>2. Shape' /\ KnownOrders' /\ MessagesAreTrue'
    BY <1>1, ShapeNext, KnownNext, MessagesNext DEF CreditInv, KnownOrders
  <1>3. FilledIsCredited' /\ CreditedWithinExecuted'
    BY <1>2, FilledNext
  <1> QED
    BY <1>2, <1>3 DEF CreditInv, Shape

(* The inductive invariant holds: a handler's idea of what was credited of *)
(* an order is never stale when it is used (handleLiveOrderUpdate).        *)
THEOREM CreditInvariant ==
  ASSUME "lostTradeReply" \notin Enabled
  PROVE  Spec => []CreditInv
  <1>1. CreditInv /\ [Next]_vars => CreditInv'
    BY CreditNext
  <1> QED
    BY <1>1, InitCredit, PTL DEF Spec

(* A fill is credited once: if the answer to a Trade call is never lost,   *)
(* the balance never receives more of an order than the exchange executed  *)
(* of it, however messages, clean-ups, cancellations and a stop of the bot *)
(* interleave (handleFilled, handlePartialFill).                           *)
THEOREM FillsCreditedOnce ==
  ASSUME "lostTradeReply" \notin Enabled
  PROVE  Spec => []CreditedWithinExecuted
  <1>1. CreditInv => CreditedWithinExecuted
    BY DEF CreditInv
  <1> QED
    BY <1>1, CreditInvariant, PTL

-----------------------------------------------------------------------------
(***************************************************************************)
(* What is given back of an order, that only one order is open, and that a *)
(* record that says an order is over stays so.  Each theorem names the     *)
(* events it excludes; the runs show that what it states fails once they   *)
(* happen.                                                                 *)
(***************************************************************************)

(* What the four invariants below have in common.                          *)
CancelledIsTrue ==
    \A i \in 1 .. Len(wire) :
        wire[i].kind = "cancelled" => ex[wire[i].o].st = "cancelled"

Common == Shape /\ KnownBooks /\ WireIsTrue /\ CancelledIsTrue

-----------------------------------------------------------------------------
(* The inductive invariants.                                               *)

(* A refund outside the clean-up routine is for an order the exchange did  *)
(* cancel, because whoever is about to make one knows of the cancellation. *)
CancelledInv ==
    /\ Common
    /\ stopper.pc \in {"refund", "refundActive"} => ex[stopper.o].st = "cancelled"
    /\ cleanups = 0 => cleaner.pc = "idle"
    /\ RefundOnlyIfCancelled

(* Without StopBot and the clean-up routine, only a CANCELLED message      *)
(* gives funds back, and there is one for each cancelled order.            *)
OnlyMessagesRefund == stopper.pc = "idle" /\ cleaner.pc = "idle"
ReleasedInv ==
    /\ Common
    /\ OnlyMessagesRefund
    /\ \A o \in Orders : ex[o].st # "none" => ex[o].done <= order[o].amt
    /\ \A i \in 1 .. Len(wire) : wire[i].kind = "cancelled" =>
          wire[i].exec = ex[wire[i].o].done /\ refunded[wire[i].o] = 0
    /\ \A i, j \in 1 .. Len(wire) :
          wire[i].kind = "cancelled" /\ wire[j].kind = "cancelled"
             /\ wire[i].o = wire[j].o => i = j
    /\ \A o \in Orders : refunded[o] \in {0, Released(o)}

(* An order open on the exchange is the active one.  A message that ends   *)
(* the active order is handled once: nothing else may clear ActiveOrder    *)
(* while another order is open.                                            *)
FullFill(m, terms) == m.kind # "cancelled" /\ m.exec = terms[m.o].amt
OneLiveInv ==
    /\ Common
    /\ loop \in {"refused", "critical"} => active = placed + 1
    /\ loop = "cancelled" => ex[active].st = "cancelled"
    /\ \A o \in Orders : ex[o].st = "open" => active = o
    /\ \A i \in 1 .. Len(wire) : FullFill(wire[i], order) =>
          ex[wire[i].o].st = "done" /\ active = wire[i].o
    /\ \A i, j \in 1 .. Len(wire) :
          FullFill(wire[i], order) /\ FullFill(wire[j], order) => i = j
    /\ ws.pc # "idle" /\ ws.full =>
          /\ ex[ws.o].st = "done" /\ active = ws.o
          /\ \A i \in 1 .. Len(wire) : ~FullFill(wire[i], order)

(* The loop writes the record of an order that is not over: a new one, or  *)
(* the active one, which whoever ends it takes away from the loop.         *)
LiveRecord == {"open", "pending_ws_confirm"}
OverInv ==
    /\ Common
    /\ OnlyMessagesRefund
    /\ running
    /\ loop \notin {"critical", "criticalCancel"}
    /\ \A o \in Orders : rec[o].st # "none" => o <= placed
    /\ loop = "accepted" => active = placed /\ rec[active].st = "none"
    /\ active # None /\ loop \notin {"trade", "accepted", "refused"} =>
          rec[active].st \in LiveRecord

-----------------------------------------------------------------------------
(* How each step moves the books, the wire, the refunds and the records.   *)

(* The Trade call the exchange accepts opens the next order.               *)
TradeOpens ==
    /\ loop = "trade" /\ active = placed + 1 /\ active \in Orders
    /\ ex[active] = [st |-> "none", done |-> 0]
    /\ ex' = [ex EXCEPT ![active].st = "open"]
    /\ wire' = wire /\ order' = order /\ active' = active

(* The books change in three ways; the wire grows with two of them.        *)
LEMMA BooksMove ==
  ASSUME Shape, KnownBooks, [Next]_vars
  PROVE  \/ ex' = ex /\ wire' = wire
         \/ ex' = ex /\ wire # <<>> /\ wire' = Tail(wire)
         \/ TradeOpens
         \/ \E p \in Orders : ExCancelled(p) /\ order' = order /\ active' = active
         \/ \E p \in Orders : ExFill(p)
  <1> USE DEF Shape, TypeOK
  <1>1. CASE LoopStep
    <2>1. CASE TradeAnswered
      <3>1. active \in Orders /\ active = placed + 1 /\ loop = "trade"
        BY <2>1 DEF TradeAnswered, HoldsOrder, InLoop, KnownBooks
      <3>2. ex[active] = [st |-> "none", done |-> 0]
        BY <3>1, OrdersAssumption DEF KnownBooks
      <3> QED
        BY <2>1, <3>1, <3>2 DEF TradeAnswered, TradeOpens, bot
    <2>2. CASE CancelAnswered
      BY <2>2 DEF CancelAnswered, ExNotFound, HoldsOrder, InLoop, bot
    <2> QED
      BY <1>1, <2>1, <2>2 DEF LoopStep, PlaceNewOrder, TradeAccepted,
         TradeRefused, StopBotWithError, CheckReposition, RepositionCancelled,
         RepositionNotFound, LoopExit
  <1>2. CASE WsStep
    BY <1>2 DEF WsStep, TakeFill, ReadActive, ApplyFill, ApplyCancel,
       ApplyCancelStopped, NextIs, WsUnchanged
  <1>3. CASE CleanerStep
    <2>1. CASE CleanupCancel
      <3>1. PICK t \in cleaner.todo : ExCancelled(t.o) \/ UNCHANGED <<ex, wire>>
        BY <2>1 DEF CleanupCancel
      <3>2. t.o \in Orders
        BY DEF CleanerStates
      <3> QED
        BY <2>1, <3>1, <3>2 DEF CleanupCancel, CleanerUnchanged
    <2> QED
      BY <1>3, <2>1 DEF CleanerStep, CleanupList, CleanupStatus, CleanupRefund,
         CleanupSave
  <1>4. CASE StopperStep
    <2>1. CASE StopCancel
      BY <2>1 DEF StopCancel, StopperUnchanged, HoldsOrder
    <2> QED
      BY <1>4, <2>1 DEF StopperStep, StopBot, StopLook, StopList, StopNext,
         StopRefund, StopStatus, StopStatusActive
  <1>5. CASE ExchangeStep
    BY <1>5 DEF ExchangeStep, LoseMessage
  <1>6. CASE UNCHANGED vars
    BY <1>6 DEF vars
  <1> QED
    BY <1>1, <1>2, <1>3, <1>4, <1>5, <1>6 DEF Next

(* What a fill does to the books and the wire.                             *)
LEMMA FillInBooks ==
  ASSUME ex \in [Orders -> Books], NEW p \in Orders, ExFill(p)
  PROVE  \E qty \in 1 .. order[p].amt - ex[p].done :
            /\ ex' = [ex EXCEPT ![p] =
                         [st |-> IF ex[p].done + qty = order[p].amt THEN "done" ELSE "open",
                          done |-> ex[p].done + qty]]
            /\ ex'[p].done = ex[p].done + qty
            /\ \/ wire' = Append(wire, Message(p, "fill", ex[p].done + qty))
               \/ /\ "done" \in Enabled
                  /\ wire' = wire \o <<Message(p, "fill", ex[p].done + qty),
                                       Message(p, "done", ex[p].done + qty)>>
  <1>1. PICK qty \in 1 .. order[p].amt - ex[p].done :
             LET exec == ex[p].done + qty
                 full == exec = order[p].amt
             IN  /\ ex' = [ex EXCEPT ![p] = [st |-> IF full THEN "done" ELSE "open",
                                             done |-> exec]]
                 /\ \/ wire' = Append(wire, Message(p, "fill", exec))
                    \/ /\ full
                       /\ "done" \in Enabled
                       /\ wire' = wire \o <<Message(p, "fill", exec),
                                            Message(p, "done", exec)>>
    BY DEF ExFill
  <1>2. ex'[p].done = ex[p].done + qty
    BY <1>1
  <1> QED
    BY <1>1, <1>2

(* What an order's exchange status and total may become.                   *)
LEMMA ClosedStays ==
  ASSUME Shape, KnownBooks, [Next]_vars, NEW o \in Orders, ex[o].st \in {"done", "cancelled"}
  PROVE  ex'[o] = ex[o]
  <1>1. ex \in [Orders -> Books]
    BY DEF Shape, TypeOK
  <1>2. CASE TradeOpens
    BY ONLY <1>1, <1>2, o \in Orders, ex[o].st \in {"done", "cancelled"} DEF TradeOpens
  <1>3. ASSUME NEW p \in Orders, ExCancelled(p) PROVE ex'[o] = ex[o]
    BY ONLY <1>1, <1>3, p \in Orders, o \in Orders, ex[o].st \in {"done", "cancelled"}
    DEF ExCancelled
  <1>4. ASSUME NEW p \in Orders, ExFill(p) PROVE ex'[o] = ex[o]
    <2>1. o # p /\ \E b : ex' = [ex EXCEPT ![p] = b]
      BY <1>4 DEF ExFill
    <2> QED
      BY ONLY <1>1, <2>1, p \in Orders, o \in Orders
  <1> QED
    BY <1>2, <1>3, <1>4, BooksMove

(* A message on the wire afterwards was there before, at the same distance *)
(* from every other, or reports what the exchange has just done.           *)
NewCancelled(i) ==
    \E p \in Orders : /\ ExCancelled(p)
                      /\ wire'[i] = Message(p, "cancelled", ex[p].done)
                      /\ i = Len(wire) + 1
NewFill(i) ==
    \E p \in Orders : /\ ExFill(p) /\ wire'[i].o = p
                      /\ wire'[i].kind # "cancelled"
                      /\ wire'[i].exec = ex'[p].done
                      /\ "done" \notin Enabled => i = Len(wire) + 1
Kept(i, d) == i + d \in 1 .. Len(wire) /\ wire'[i] = wire[i + d]

LEMMA MessagesMove ==
  ASSUME Shape, KnownBooks, [Next]_vars
  PROVE  \E d \in {0, 1} : \A i \in 1 .. Len(wire') :
            Kept(i, d) \/ NewCancelled(i) \/ NewFill(i)
  <1>0. wire \in Seq(Messages) /\ ex \in [Orders -> Books] /\ Len(wire) \in Nat
    BY DEF Shape, TypeOK
  <1>1. CASE wire' = wire
    <2>1. \A i \in 1 .. Len(wire') : Kept(i, 0)
      BY ONLY <1>0, <1>1 DEF Kept
    <2> QED
      BY <2>1
  <1>2. CASE wire # <<>> /\ wire' = Tail(wire)
    <2>1. \A i \in 1 .. Len(wire') : Kept(i, 1)
      <3> TAKE i \in 1 .. Len(wire')
      <3>1. Len(wire') = Len(wire) - 1 /\ \A k \in 1 .. Len(wire) - 1 : wire'[k] = wire[k + 1]
        BY <1>0, <1>2, HeadType
      <3> QED
        BY ONLY <1>0, <3>1, i \in 1 .. Len(wire') DEF Kept
    <2> QED
      BY <2>1
  <1>3. ASSUME NEW p \in Orders, ExCancelled(p)
        PROVE  \A i \in 1 .. Len(wire') : Kept(i, 0) \/ NewCancelled(i)
    <2> DEFINE m == Message(p, "cancelled", ex[p].done)
    <2>1. wire' = Append(wire, m)
      BY <1>3 DEF ExCancelled
    <2> HIDE DEF m
    <2>2. Len(wire') = Len(wire) + 1 /\ wire'[Len(wire) + 1] = m
          /\ \A j \in 1 .. Len(wire) : wire'[j] = wire[j]
      BY ONLY <1>0, <2>1
    <2>3. \A i \in 1 .. Len(wire') : Kept(i, 0) \/ (i = Len(wire) + 1 /\ wire'[i] = m)
      BY ONLY <1>0, <2>2 DEF Kept
    <2> QED
      BY <1>3, <2>3 DEF m, NewCancelled
  <1>4. ASSUME NEW p \in Orders, ExFill(p)
        PROVE  \A i \in 1 .. Len(wire') : Kept(i, 0) \/ NewFill(i)
    <2>1. PICK qty \in 1 .. order[p].amt - ex[p].done :
             /\ ex'[p].done = ex[p].done + qty
             /\ \/ wire' = Append(wire, Message(p, "fill", ex[p].done + qty))
                \/ /\ "done" \in Enabled
                   /\ wire' = wire \o <<Message(p, "fill", ex[p].done + qty),
                                        Message(p, "done", ex[p].done + qty)>>
      BY <1>0, <1>4, FillInBooks
    <2> DEFINE fill == Message(p, "fill", ex[p].done + qty)
               done == Message(p, "done", ex[p].done + qty)
               Told(m) == m.o = p /\ m.kind # "cancelled" /\ m.exec = ex'[p].done
    <2>2. wire' = Append(wire, fill) \/ ("done" \in Enabled /\ wire' = wire \o <<fill, done>>)
      BY <2>1
    <2>3. Told(fill) /\ Told(done)
      BY <2>1 DEF Message
    <2> HIDE DEF fill, done, Told
    <2>4. CASE wire' = Append(wire, fill)
      <3>1. Len(wire') = Len(wire) + 1 /\ wire'[Len(wire) + 1] = fill
            /\ \A j \in 1 .. Len(wire) : wire'[j] = wire[j]
        BY ONLY <1>0, <2>4
      <3>2. \A i \in 1 .. Len(wire') :
               Kept(i, 0) \/ (i = Len(wire) + 1 /\ Told(wire'[i]))
        BY ONLY <1>0, <2>3, <3>1 DEF Kept
      <3> QED
        BY <1>4, <3>2 DEF NewFill, Told
    <2>5. CASE "done" \in Enabled /\ wire' = wire \o <<fill, done>>
      <3>1. Len(<<fill, done>>) = 2 /\ <<fill, done>>[1] = fill /\ <<fill, done>>[2] = done
            /\ <<fill, done>> \in Seq({fill, done})
        OBVIOUS
      <3>2. /\ Len(wire') = Len(wire) + 2
            /\ wire'[Len(wire) + 1] = fill /\ wire'[Len(wire) + 2] = done
            /\ \A j \in 1 .. Len(wire) : wire'[j] = wire[j]
        BY ONLY <1>0, <2>5, <3>1
      <3>3. \A i \in 1 .. Len(wire') : Kept(i, 0) \/ Told(wire'[i])
        <4> TAKE i \in 1 .. Len(wire')
        <4>1. i \in 1 .. Len(wire) \/ i = Len(wire) + 1 \/ i = Len(wire) + 2
          BY ONLY <1>0, <3>2, i \in 1 .. Len(wire')
        <4> QED
          BY ONLY <1>0, <2>3, <3>2, <4>1 DEF Kept
      <3> QED
        BY <1>4, <2>5, <3>3 DEF NewFill, Told
    <2> QED
      BY <2>2, <2>4, <2>5
  <1>5. CASE \E p \in Orders : ExCancelled(p)
    BY <1>3, <1>5
  <1>6. CASE \E p \in Orders : ExFill(p)
    BY <1>4, <1>6
  <1> QED
    BY <1>1, <1>2, <1>5, <1>6, BooksMove DEF TradeOpens

(* Every message on the wire is about an order.                            *)
LEMMA WireOrder ==
  ASSUME Shape, NEW i \in 1 .. Len(wire)
  PROVE  wire[i] \in Messages /\ wire[i].o \in Orders /\ wire[i].exec \in Nat
  <1>1. wire \in Seq(Messages)
    BY DEF Shape, TypeOK
  <1>2. wire[i] \in Messages
    BY ONLY <1>1, i \in 1 .. Len(wire)
  <1> QED
    BY <1>2 DEF Messages

(* The common part is kept by every step.                                  *)
LEMMA CommonNext == Common /\ [Next]_vars => Common'
  <1> SUFFICES ASSUME Common, [Next]_vars PROVE Common'
    OBVIOUS
  <1>0. Shape /\ KnownBooks /\ Shape' /\ KnownBooks' /\ WireIsTrue'
    BY ShapeNext, BooksNext, WireNext DEF Common
  <1>1. \A o \in Orders : ex[o].st = "cancelled" => ex'[o].st = "cancelled"
    BY <1>0, ClosedStays
  <1>2. ASSUME NEW i \in 1 .. Len(wire'), wire'[i].kind = "cancelled"
        PROVE  ex'[wire'[i].o].st = "cancelled"
    <2>1. ASSUME NEW d \in {0, 1}, Kept(i, d)
          PROVE  ex'[wire'[i].o].st = "cancelled"
      <3>1. PICK j \in 1 .. Len(wire) : wire'[i] = wire[j]
        BY <2>1 DEF Kept
      <3>2. wire[j].o \in Orders
        BY <1>0, WireOrder
      <3> QED
        BY <1>1, <1>2, <3>1, <3>2 DEF Common, CancelledIsTrue
    <2>2. CASE NewCancelled(i)
      BY <1>0, <2>2 DEF NewCancelled, ExCancelled, Message, Shape, TypeOK, Books
    <2> QED
      BY <1>0, <1>2, <2>1, <2>2, MessagesMove DEF NewFill
  <1> QED
    BY <1>0, <1>2 DEF Common, CancelledIsTrue

(* A fresh instance satisfies it.                                          *)
LEMMA InitCommon == Init => Common
  <1> SUFFICES ASSUME Init PROVE Common
    OBVIOUS
  <1>1. KnownBooks /\ WireIsTrue /\ CancelledIsTrue
    BY DEF Init, KnownBooks, WireIsTrue, CancelledIsTrue
  <1> QED
    BY <1>1, InitShape DEF Common

(* A message handler that gives funds back has the CANCELLED message at    *)
(* the head of the wire.                                                   *)
MessageRefunds ==
    /\ wire # <<>> /\ wire[1].kind = "cancelled" /\ wire[1].o \in Orders
    /\ wire' = Tail(wire) /\ ex' = ex /\ order' = order
    /\ refunded' = [refunded EXCEPT ![wire[1].o] = @ + UnfilledQty(wire[1])]

(* Whose step it is that gives funds back.                                 *)
LEMMA RefundMoves ==
  ASSUME Shape, [Next]_vars
  PROVE  refunded' = refunded \/ MessageRefunds \/ CleanupRefund \/ StopRefund
  <1>1. CASE LoopStep
    BY <1>1 DEF LoopStep, PlaceNewOrder, TradeAnswered, TradeAccepted,
       TradeRefused, StopBotWithError, CheckReposition, CancelAnswered,
       RepositionCancelled, RepositionNotFound, LoopExit, LoopUnchanged, history
  <1>2. CASE ApplyCancel \/ ApplyCancelStopped
    <2>1. /\ wire # <<>> /\ Head(wire).kind = "cancelled"
          /\ wire' = Tail(wire) /\ ex' = ex /\ order' = order
      BY <1>2 DEF ApplyCancel, ApplyCancelStopped, NextIs, WsUnchanged
    <2>2. Head(wire) = wire[1] /\ Head(wire).o \in Orders
      BY <2>1, HeadType DEF Shape, TypeOK
    <2>3. \/ refunded' = refunded
          \/ refunded' = [refunded EXCEPT ![Head(wire).o] = @ + UnfilledQty(Head(wire))]
      BY <1>2 DEF ApplyCancel, ApplyCancelStopped
    <2> QED
      BY <2>1, <2>2, <2>3 DEF MessageRefunds
  <1>3. CASE TakeFill \/ ReadActive \/ ApplyFill
    BY <1>3 DEF TakeFill, ReadActive, ApplyFill, history
  <1>4. CASE CleanerStep
    BY <1>4 DEF CleanerStep, CleanupList, CleanupCancel, CleanupStatus,
       CleanupSave, CleanerUnchanged
  <1>5. CASE StopperStep
    BY <1>5 DEF StopperStep, StopBot, StopLook, StopList, StopNext, StopCancel,
       StopStatus, StopStatusActive, StopperUnchanged
  <1>6. CASE ExchangeStep
    BY <1>6 DEF ExchangeStep, LoseMessage, ExFill, history
  <1>7. CASE UNCHANGED vars
    BY <1>7 DEF vars, history
  <1> QED
    BY <1>1, <1>2, <1>3, <1>4, <1>5, <1>6, <1>7 DEF Next, WsStep

(* The clean-up routine leaves its idle state only when a round begins.    *)
LEMMA CleanerMoves ==
  ASSUME Shape, [Next]_vars
  PROVE  \/ cleaner' = cleaner /\ cleanups' = cleanups
         \/ CleanupList /\ cleanups < MaxCleanups /\ cleanups' = cleanups + 1
         \/ cleaner.pc # "idle" /\ cleanups' = cleanups
  <1>1. CASE LoopStep
    BY <1>1 DEF LoopStep, PlaceNewOrder, TradeAnswered, TradeAccepted,
       TradeRefused, StopBotWithError, CheckReposition, CancelAnswered,
       RepositionCancelled, RepositionNotFound, LoopExit, LoopUnchanged
  <1>2. CASE WsStep
    BY <1>2 DEF WsStep, TakeFill, ReadActive, ApplyFill, ApplyCancel,
       ApplyCancelStopped, WsUnchanged
  <1>3. CASE CleanerStep
    BY <1>3 DEF CleanerStep, CleanupList, CleanupCancel, CleanupStatus,
       CleanupRefund, CleanupSave
  <1>4. CASE StopperStep
    BY <1>4 DEF StopperStep, StopBot, StopLook, StopList, StopNext, StopCancel,
       StopRefund, StopStatus, StopStatusActive, StopperUnchanged
  <1>5. CASE ExchangeStep
    BY <1>5 DEF ExchangeStep, LoseMessage, ExFill, routines
  <1>6. CASE UNCHANGED vars
    BY <1>6 DEF vars, routines
  <1> QED
    BY <1>1, <1>2, <1>3, <1>4, <1>5, <1>6 DEF Next

(* StopBot's goroutine is about to give funds back only for an order whose *)
(* cancellation the exchange has just confirmed.                           *)
LEMMA StopperMoves ==
  ASSUME Shape, [Next]_vars
  PROVE  \/ stopper' = stopper
         \/ "stop" \in Enabled /\ stopper'.pc = "active"
         \/ stopper.pc # "idle" /\ stopper'.pc \notin {"refund", "refundActive"}
         \/ /\ stopper.pc # "idle" /\ stopper.o \in Orders /\ stopper'.o = stopper.o
            /\ ExCancelled(stopper.o)
  <1> USE DEF Shape, TypeOK
  <1>1. CASE LoopStep
    BY <1>1 DEF LoopStep, PlaceNewOrder, TradeAnswered, TradeAccepted,
       TradeRefused, StopBotWithError, CheckReposition, CancelAnswered,
       RepositionCancelled, RepositionNotFound, LoopExit, LoopUnchanged
  <1>2. CASE WsStep
    BY <1>2 DEF WsStep, TakeFill, ReadActive, ApplyFill, ApplyCancel,
       ApplyCancelStopped, WsUnchanged
  <1>3. CASE CleanerStep
    BY <1>3 DEF CleanerStep, CleanupList, CleanupCancel, CleanupStatus,
       CleanupRefund, CleanupSave, CleanerUnchanged
  <1>4. CASE StopperStep
    <2>0. \A pc : Then(pc) \in {"list", "next"}
      BY DEF Then
    <2>1. CASE StopBot
      BY <2>1 DEF StopBot, IdleStopper
    <2>2. \A pc, p : /\ LET s == [stopper EXCEPT !.pc = pc, !.o = p] IN s.pc = pc
                     /\ LET s == [stopper EXCEPT !.pc = pc] IN s.pc = pc /\ s.o = stopper.o
      BY DEF StopperStates
    <2>6. CASE StopLook
      <3>1. \/ stopper' = [stopper EXCEPT !.pc = "cancelActive", !.o = active]
            \/ stopper' = [stopper EXCEPT !.pc = "list"]
        BY <2>6 DEF StopLook
      <3> QED
        BY ONLY <3>1, <2>2, <2>6 DEF StopLook
    <2>7. CASE StopRefund
      BY ONLY <2>7, <2>2 DEF StopRefund
    <2>8. CASE StopStatus \/ StopStatusActive
      <3>1. stopper' = [stopper EXCEPT !.pc = Then(stopper.pc)] /\ stopper.pc # "idle"
        BY <2>8 DEF StopStatus, StopStatusActive
      <3>2. PICK pc \in {"list", "next"} : stopper' = [stopper EXCEPT !.pc = pc]
        BY ONLY <2>0, <3>1
      <3>3. stopper'.pc = pc
        BY ONLY <3>2, <2>2
      <3> QED
        BY <3>1, <3>3
    <2>3. CASE StopList
      BY <2>3 DEF StopList, IdleStopper
    <2>4. CASE StopNext
      BY <2>4 DEF StopNext, StopperStates
    <2>5. CASE StopCancel
      <3>1. stopper.o \in Orders /\ stopper.pc # "idle"
        BY <2>5 DEF StopCancel, HoldsOrder
      <3>2. \/ ExCancelled(stopper.o) /\ \E pc : stopper' = [stopper EXCEPT !.pc = pc]
            \/ stopper' = [stopper EXCEPT !.pc = Then(stopper.pc)]
        BY <2>5 DEF StopCancel
      <3>3. CASE stopper' = [stopper EXCEPT !.pc = Then(stopper.pc)]
        <4>1. PICK pc \in {"list", "next"} : stopper' = [stopper EXCEPT !.pc = pc]
          BY ONLY <2>0, <3>3
        <4>2. stopper'.pc = pc
          BY ONLY <4>1, <2>2
        <4> QED
          BY <3>1, <4>2
      <3>4. CASE ExCancelled(stopper.o) /\ \E pc : stopper' = [stopper EXCEPT !.pc = pc]
        BY ONLY <3>1, <3>4, <2>2
      <3> QED
        BY <3>2, <3>3, <3>4
    <2> QED
      BY <1>4, <2>1, <2>3, <2>4, <2>5, <2>6, <2>7, <2>8 DEF StopperStep
  <1>5. CASE ExchangeStep
    BY <1>5 DEF ExchangeStep, LoseMessage, ExFill, routines
  <1>6. CASE UNCHANGED vars
    BY <1>6 DEF vars, routines
  <1> QED
    BY <1>1, <1>2, <1>3, <1>4, <1>5, <1>6 DEF Next

-----------------------------------------------------------------------------
(* Funds of cancelled orders only.                                         *)

(* A fresh instance has cancelled nothing.                                 *)
LEMMA InitCancelled == Init => CancelledInv
  <1> SUFFICES ASSUME Init PROVE CancelledInv
    OBVIOUS
  <1>1. Common
    BY InitCommon
  <1>2. RefundOnlyIfCancelled
    BY DEF Init, RefundOnlyIfCancelled
  <1>3. Len(wire) = 0
    BY DEF Init
  <1> QED
    BY <1>1, <1>2, <1>3 DEF Init, CancelledInv, IdleCleaner, IdleStopper

(* Whoever works on the order, each step keeps the invariant.              *)
LEMMA CancelledNext == CancelledInv /\ [Next]_vars => CancelledInv'
  <1> SUFFICES ASSUME CancelledInv, [Next]_vars PROVE CancelledInv'
    OBVIOUS
  <1>0. Shape /\ KnownBooks /\ Common'
    BY CommonNext DEF CancelledInv, Common
  <1>1. \A o \in Orders : ex[o].st = "cancelled" => ex'[o].st = "cancelled"
    BY <1>0, ClosedStays
  <1>3. stopper'.pc \in {"refund", "refundActive"} => ex'[stopper'.o].st = "cancelled"
    <2>1. CASE stopper' = stopper
      BY <1>0, <1>1, <2>1 DEF CancelledInv, Shape, HoldsOrder
    <2>2. CASE stopper.o \in Orders /\ stopper'.o = stopper.o /\ ExCancelled(stopper.o)
      BY <1>0, <2>2 DEF ExCancelled, Shape, TypeOK, Books
    <2> QED
      BY <1>0, <2>1, <2>2, StopperMoves
  <1>4. cleanups' = 0 => cleaner'.pc = "idle" /\ cleanups = 0
    BY <1>0, CleanerMoves DEF CancelledInv, Shape, TypeOK
  <1>5. ASSUME cleanups' = 0, NEW o \in Orders, refunded'[o] > 0
        PROVE  ex'[o].st = "cancelled"
    <2>0. refunded[o] > 0 => ex[o].st = "cancelled"
      BY <1>4, <1>5 DEF CancelledInv, RefundOnlyIfCancelled
    <2>1. CASE refunded'[o] = refunded[o]
      BY <1>1, <1>5, <2>0, <2>1
    <2>2. CASE MessageRefunds /\ o = wire[1].o
      <3>1. 1 \in 1 .. Len(wire)
        BY <1>0, <2>2, HeadType DEF MessageRefunds, Shape, TypeOK
      <3> QED
        BY <1>1, <2>2, <3>1 DEF MessageRefunds, CancelledInv, Common, CancelledIsTrue
    <2>3. CASE StopRefund /\ o = stopper.o
      BY <1>1, <2>3 DEF StopRefund, CancelledInv
    <2>4. ~CleanupRefund
      BY <1>4, <1>5 DEF CleanupRefund, CancelledInv
    <2>5. refunded \in [Orders -> Int]
      BY <1>0 DEF Shape, TypeOK
    <2>6. CASE MessageRefunds /\ o # wire[1].o
      <3>1. refunded'[o] = refunded[o]
        BY <2>5, <2>6 DEF MessageRefunds
      <3> QED
        BY <2>1, <3>1
    <2>7. CASE StopRefund /\ o # stopper.o
      <3>1. refunded'[o] = refunded[o]
        BY <2>5, <2>7 DEF StopRefund
      <3> QED
        BY <2>1, <3>1
    <2> QED
      BY <1>0, <2>1, <2>2, <2>3, <2>4, <2>6, <2>7, RefundMoves
  <1> QED
    BY <1>0, <1>3, <1>4, <1>5 DEF CancelledInv, RefundOnlyIfCancelled

(* Until the first clean-up round, funds come back only for an order the   *)
(* exchange did cancel, whatever answers and messages are lost             *)
(* (handleCancelledOrder, StopBot).                                        *)
THEOREM RefundsOnlyCancelled == Spec => []RefundOnlyIfCancelled
  <1>1. CancelledInv => RefundOnlyIfCancelled
    BY DEF CancelledInv
  <1> QED
    BY <1>1, InitCancelled, CancelledNext, PTL DEF Spec

-----------------------------------------------------------------------------
(* Funds come back once, and no more than the exchange released.           *)

(* The terms of an order are settled once the exchange knows it.           *)
LEMMA TermsStay ==
  ASSUME Shape, [Next]_vars, NEW o \in Orders, o <= placed
  PROVE  order'[o] = order[o]
  <1>1. CASE PlaceNewOrder
    <2>1. \E t : order' = [order EXCEPT ![placed + 1] = t]
      BY <1>1 DEF PlaceNewOrder
    <2>2. placed + 1 # o /\ order \in [Orders -> Terms]
      BY OrdersAssumption DEF Shape, TypeOK, Orders
    <2> QED
      BY ONLY <2>1, <2>2, o \in Orders
  <1>2. CASE LoopStep /\ ~PlaceNewOrder
    BY <1>2 DEF LoopStep, TradeAnswered, TradeAccepted, TradeRefused,
       StopBotWithError, CheckReposition, CancelAnswered, RepositionCancelled,
       RepositionNotFound, LoopExit
  <1> QED
    BY <1>1, <1>2, LoopAlone DEF Next

(* Where nobody else may, only the message handlers give funds back.       *)
LEMMA OnlyMessagesNext ==
  ASSUME Shape, OnlyMessagesRefund, [Next]_vars, MaxCleanups = 0, "stop" \notin Enabled
  PROVE  /\ OnlyMessagesRefund'
         /\ refunded' = refunded \/ MessageRefunds
  <1>1. ~(cleanups < MaxCleanups)
    BY DEF Shape, TypeOK
  <1>2. cleaner' = cleaner
    BY <1>1, CleanerMoves DEF OnlyMessagesRefund
  <1>3. stopper' = stopper
    BY StopperMoves DEF OnlyMessagesRefund
  <1> QED
    BY <1>2, <1>3, RefundMoves DEF OnlyMessagesRefund, CleanupRefund, StopRefund

(* A fresh instance has given nothing back.                                *)
LEMMA InitReleased == Init => ReleasedInv
  <1> SUFFICES ASSUME Init PROVE ReleasedInv
    OBVIOUS
  <1>1. Common /\ Len(wire) = 0
    BY InitCommon DEF Init
  <1>2. OnlyMessagesRefund
    BY DEF Init, OnlyMessagesRefund, IdleCleaner, IdleStopper
  <1> QED
    BY <1>1, <1>2 DEF Init, ReleasedInv

(* Each step keeps what is executed of an order within its amount.         *)
LEMMA DoneNext ==
  ASSUME Common, [Next]_vars,
         \A o \in Orders : ex[o].st # "none" => ex[o].done <= order[o].amt,
         NEW o \in Orders, ex'[o].st # "none"
  PROVE  ex'[o].done <= order'[o].amt
  <1>0. /\ ex \in [Orders -> Books] /\ order \in [Orders -> Terms] /\ placed \in Nat /\ o \in Nat
        /\ Shape /\ KnownBooks
    BY OrdersAssumption DEF Common, Shape, TypeOK, Orders
  <1>1. ex[o].done \in Nat /\ order[o].amt \in Nat
    BY <1>0 DEF Books, Terms
  <1>2. CASE ex' = ex
    <2>1. ex[o].st # "none"
      BY <1>2
    <2>2. ~(o > placed)
      BY <1>0, <2>1 DEF KnownBooks
    <2>3. order'[o] = order[o]
      BY <1>0, <2>2, TermsStay
    <2> QED
      BY <1>2, <2>1, <2>3
  <1>3. CASE TradeOpens
    <2>1. ex'[o].done = ex[o].done /\ order' = order
      BY <1>0, <1>3 DEF TradeOpens, Books
    <2>2. o = active => ex[o].done = 0
      BY <1>3 DEF TradeOpens
    <2>3. o # active => ex'[o] = ex[o]
      BY <1>0, <1>3 DEF TradeOpens
    <2> QED
      BY <1>1, <2>1, <2>2, <2>3
  <1>4. ASSUME NEW p \in Orders, ExCancelled(p), order' = order
        PROVE  ex'[o].done <= order'[o].amt
    <2>1. ex'[o].done = ex[o].done /\ (ex'[o].st # "none" => ex[o].st # "none")
      BY <1>0, <1>4 DEF ExCancelled, Books
    <2> QED
      BY <1>4, <2>1
  <1>5. ASSUME NEW p \in Orders, ExFill(p)
        PROVE  ex'[o].done <= order'[o].amt
    <2>1. order' = order
      BY <1>5 DEF ExFill
    <2>2. PICK qty \in 1 .. order[p].amt - ex[p].done :
             \E st : ex' = [ex EXCEPT ![p] = [st |-> st, done |-> ex[p].done + qty]]
      BY <1>0, <1>5, FillInBooks
    <2>3. o # p => ex'[o] = ex[o]
      BY <1>0, <2>2
    <2>4. o = p => ex'[o].done = ex[o].done + qty
      BY <1>0, <2>2
    <2> QED
      BY <1>1, <2>1, <2>2, <2>3, <2>4
  <1> QED
    BY <1>0, <1>2, <1>3, <1>4, <1>5, BooksMove

(* Each step keeps the invariant.                                          *)
LEMMA ReleasedNext ==
  ASSUME ReleasedInv, [Next]_vars, MaxCleanups = 0, "stop" \notin Enabled
  PROVE  ReleasedInv'
  <1>0. /\ Common /\ Common' /\ Shape /\ KnownBooks /\ WireIsTrue
        /\ ex \in [Orders -> Books] /\ refunded \in [Orders -> Int]
    BY CommonNext DEF ReleasedInv, Common, Shape, TypeOK
  <1>1. OnlyMessagesRefund' /\ (refunded' = refunded \/ MessageRefunds)
    BY <1>0, OnlyMessagesNext DEF ReleasedInv
  <1>2. \A o \in Orders : ex'[o].st # "none" => ex'[o].done <= order'[o].amt
    BY <1>0, DoneNext DEF ReleasedInv
  <1>3. \A o \in Orders : ex[o].st = "cancelled" => ex'[o] = ex[o]
    BY <1>0, ClosedStays
  <1>4. PICK d \in {0, 1} : \A i \in 1 .. Len(wire') :
           Kept(i, d) \/ NewCancelled(i) \/ NewFill(i)
    BY <1>0, MessagesMove
  <1>5. \A i \in 1 .. Len(wire') : wire'[i].kind = "cancelled" =>
           Kept(i, d) \/ NewCancelled(i)
    BY <1>4 DEF NewFill
  <1>6. \A i, j \in 1 .. Len(wire') :
           wire'[i].kind = "cancelled" /\ wire'[j].kind = "cancelled"
              /\ wire'[i].o = wire'[j].o => i = j
    <2> SUFFICES ASSUME NEW i \in 1 .. Len(wire'), NEW j \in 1 .. Len(wire'),
                        wire'[i].kind = "cancelled", wire'[j].kind = "cancelled",
                        wire'[i].o = wire'[j].o
                 PROVE  i = j
      OBVIOUS
    <2>1. CASE Kept(i, d) /\ Kept(j, d)
      <3>1. i + d = j + d
        BY <2>1 DEF Kept, ReleasedInv
      <3> QED
        BY <3>1
    <2>2. CASE NewCancelled(i) /\ NewCancelled(j)
      BY <2>2 DEF NewCancelled
    <2>3. ASSUME NEW k \in 1 .. Len(wire'), NEW l \in 1 .. Len(wire'),
                 Kept(k, d), NewCancelled(l), wire'[k].kind = "cancelled",
                 wire'[k].o = wire'[l].o
          PROVE  FALSE
      <3>1. ex[wire'[k].o].st = "cancelled"
        BY <1>0, <2>3 DEF Kept, Common, CancelledIsTrue
      <3>2. ex[wire'[l].o].st = "open"
        BY <2>3 DEF NewCancelled, ExCancelled, Message
      <3> QED
        BY <2>3, <3>1, <3>2
    <2> QED
      BY <1>5, <2>1, <2>2, <2>3
  <1>7. \A o \in Orders : refunded'[o] \in {0, Released(o)'}
    <2> SUFFICES ASSUME NEW o \in Orders PROVE refunded'[o] \in {0, Released(o)'}
      OBVIOUS
    <2>1. refunded[o] \in {0, Released(o)}
      BY DEF ReleasedInv
    <2>2. ASSUME refunded[o] # 0 PROVE Released(o)' = Released(o)
      <3>1. ex[o].st = "cancelled"
        BY <2>1, <2>2 DEF Released
      <3>2. ~(o > placed)
        BY <1>0, <3>1 DEF KnownBooks
      <3>3. placed \in Nat /\ o \in Nat
        BY <1>0, OrdersAssumption DEF Shape, TypeOK, Orders
      <3>4. order'[o] = order[o]
        BY <1>0, <3>2, <3>3, TermsStay
      <3> QED
        BY <1>3, <3>1, <3>4 DEF Released
    <2>3. CASE refunded'[o] = refunded[o]
      BY <2>1, <2>2, <2>3
    <2>4. CASE MessageRefunds /\ o = wire[1].o
      <3>1. 1 \in 1 .. Len(wire)
        BY <1>0, <2>4, HeadType DEF MessageRefunds, Shape, TypeOK
      <3>2. /\ ex[o].st = "cancelled" /\ wire[1].exec = ex[o].done /\ refunded[o] = 0
        BY <2>4, <3>1 DEF MessageRefunds, ReleasedInv, Common, CancelledIsTrue
      <3>3. refunded'[o] = UnfilledQty(wire[1])
        <4>1. UnfilledQty(wire[1]) \in Int
          BY <1>0, <3>1, WireOrder, UnfilledType DEF Shape, TypeOK
        <4> QED
          BY <1>0, <2>4, <3>2, <4>1 DEF MessageRefunds
      <3> QED
        BY <2>4, <3>2, <3>3 DEF MessageRefunds, UnfilledQty, Released
    <2>5. CASE MessageRefunds /\ o # wire[1].o
      <3>1. refunded'[o] = refunded[o]
        BY <1>0, <2>5 DEF MessageRefunds
      <3> QED
        BY <2>3, <3>1
    <2> QED
      BY <1>1, <2>3, <2>4, <2>5
  <1>8. ASSUME NEW i \in 1 .. Len(wire'), wire'[i].kind = "cancelled"
        PROVE  /\ ex'[wire'[i].o].st = "cancelled"
               /\ wire'[i].exec = ex'[wire'[i].o].done
               /\ refunded'[wire'[i].o] = 0
    <2>1. CASE Kept(i, d)
      <3>1. /\ ex[wire'[i].o].st = "cancelled" /\ wire'[i].exec = ex[wire'[i].o].done
            /\ refunded[wire'[i].o] = 0 /\ wire'[i].o \in Orders
        BY <1>0, <1>8, <2>1, WireOrder DEF Kept, ReleasedInv, Common, CancelledIsTrue
      <3>2. ASSUME MessageRefunds PROVE refunded'[wire'[i].o] = 0
        <4>1. 1 \in 1 .. Len(wire) /\ wire'[i] = wire[i + 1] /\ i + 1 \in 1 .. Len(wire)
          <5>1. /\ Len(wire) \in Nat /\ Len(wire') = Len(wire) - 1
                /\ wire'[i] = wire[i + 1]
            BY <1>0, <3>2, HeadType DEF MessageRefunds, Shape, TypeOK
          <5> QED
            BY ONLY <5>1, i \in 1 .. Len(wire')
        <4>2. wire[i + 1].o # wire[1].o
          <5>1. i + 1 # 1
            OBVIOUS
          <5> QED
            BY <1>8, <3>2, <4>1, <5>1 DEF MessageRefunds, ReleasedInv
        <4> QED
          BY <1>0, <3>1, <3>2, <4>1, <4>2 DEF MessageRefunds
      <3> QED
        BY <1>1, <1>3, <3>1, <3>2
    <2>2. CASE NewCancelled(i)
      <3>1. PICK p \in Orders : ExCancelled(p) /\ wire'[i] = Message(p, "cancelled", ex[p].done)
        BY <2>2 DEF NewCancelled
      <3>2. wire'[i].o = p /\ wire'[i].exec = ex[p].done
        BY <3>1 DEF Message
      <3>3. ex'[p].st = "cancelled" /\ ex'[p].done = ex[p].done /\ ex[p].st = "open"
        BY <1>0, <3>1 DEF ExCancelled, Books
      <3>4. ~MessageRefunds
        BY <3>3 DEF MessageRefunds
      <3>5. refunded[p] = 0
        BY <3>3 DEF ReleasedInv, Released
      <3> QED
        BY <1>1, <3>2, <3>3, <3>4, <3>5
    <2> QED
      BY <1>5, <1>8, <2>1, <2>2
  <1> QED
    BY <1>0, <1>1, <1>2, <1>6, <1>7, <1>8 DEF ReleasedInv

(* Without StopBot and the clean-up routine, the locked funds of an order  *)
(* come back once, and only the part the exchange released, whatever       *)
(* answers and messages are lost (handleCancelledOrder).                   *)
THEOREM RefundsWithinReleased ==
  ASSUME MaxCleanups = 0, "stop" \notin Enabled
  PROVE  Spec => []RefundedWithinReleased
  <1>1. ReleasedInv => RefundedWithinReleased
    <2> SUFFICES ASSUME ReleasedInv, NEW o \in Orders PROVE refunded[o] <= Released(o)
      BY DEF RefundedWithinReleased
    <2>1. ex[o].done \in Nat /\ order[o].amt \in Nat
      BY DEF ReleasedInv, Common, Shape, TypeOK, Books, Terms
    <2>2. Released(o) >= 0
      BY <2>1 DEF ReleasedInv, Released
    <2>3. refunded[o] \in {0, Released(o)}
      BY DEF ReleasedInv
    <2>4. Released(o) \in Int
      BY <2>1 DEF Released
    <2> QED
      BY ONLY <2>2, <2>3, <2>4
  <1> QED
    BY <1>1, InitReleased, ReleasedNext, PTL DEF Spec

-----------------------------------------------------------------------------
(* One live order.                                                         *)

(* What may happen to ActiveOrder.                                         *)
LEMMA ActiveMoves ==
  ASSUME Shape, [Next]_vars
  PROVE  \/ active' = active
         \/ PlaceNewOrder /\ active = None /\ active' = placed + 1
         \/ /\ loop \in {"refused", "critical", "cancelled"} /\ active' = None
            /\ UNCHANGED <<ex, wire, ws>>
         \/ ApplyFill /\ ws.full /\ active' = None /\ UNCHANGED <<ex, wire>>
         \/ /\ LockFree /\ wire # <<>> /\ wire[1].kind = "cancelled"
            /\ active = wire[1].o /\ active' = None /\ UNCHANGED <<ex, ws>>
  <1>1. CASE PlaceNewOrder
    BY <1>1 DEF PlaceNewOrder
  <1>2. CASE TradeRefused \/ StopBotWithError \/ RepositionCancelled
    BY <1>2 DEF TradeRefused, StopBotWithError, RepositionCancelled, LoopUnchanged
  <1>3. CASE LoopStep /\ ~PlaceNewOrder /\ ~TradeRefused /\ ~StopBotWithError
                      /\ ~RepositionCancelled
    BY <1>3 DEF LoopStep, TradeAnswered, TradeAccepted, CheckReposition,
       CancelAnswered, RepositionNotFound, LoopExit, bot
  <1>4. CASE ApplyFill
    BY <1>4 DEF ApplyFill, ClearsActive, WsUnchanged
  <1>5. CASE ApplyCancel
    <2>1. wire # <<>> /\ Head(wire).kind = "cancelled" /\ LockFree /\ UNCHANGED <<ex, ws>>
      BY <1>5 DEF ApplyCancel, NextIs, WsUnchanged
    <2>2. active' = active \/ (active = Head(wire).o /\ active' = None)
      BY <1>5 DEF ApplyCancel
    <2>3. Head(wire) = wire[1]
      BY <2>1, HeadType DEF Shape, TypeOK
    <2> QED
      BY <2>1, <2>2, <2>3
  <1>6. CASE TakeFill \/ ReadActive \/ ApplyCancelStopped
    BY <1>6 DEF TakeFill, ReadActive, ApplyCancelStopped, bot
  <1>7. CASE CleanerStep
    BY <1>7 DEF CleanerStep, CleanupList, CleanupCancel, CleanupStatus,
       CleanupRefund, CleanupSave, CleanerUnchanged
  <1>8. CASE StopperStep
    BY <1>8 DEF StopperStep, StopBot, StopLook, StopList, StopNext, StopCancel,
       StopRefund, StopStatus, StopStatusActive, StopperUnchanged
  <1>9. CASE ExchangeStep \/ UNCHANGED vars
    BY <1>9 DEF ExchangeStep, LoseMessage, ExFill, vars, bot
  <1> QED
    BY <1>1, <1>2, <1>3, <1>4, <1>5, <1>6, <1>7, <1>8, <1>9 DEF Next, LoopStep, WsStep

(* How the loop comes to know that its order was refused or cancelled.     *)
LEMMA LoopLearns ==
  ASSUME Shape, KnownBooks, [Next]_vars, "lostTradeReply" \notin Enabled
  PROVE  /\ loop' \in {"refused", "critical"} =>
               \/ loop' = loop /\ placed' = placed /\ active' = active
               \/ loop = "trade" /\ placed' = placed /\ active' = active
         /\ loop' = "cancelled" =>
               \/ loop' = loop /\ active' = active
               \/ active \in Orders /\ active' = active /\ ExCancelled(active)
  <1>1. CASE LoopStep
    <2>1. CASE TradeAnswered
      BY <2>1 DEF TradeAnswered, bot
    <2>2. CASE CancelAnswered
      BY <2>2 DEF CancelAnswered, bot, Shape, HoldsOrder, InLoop
    <2> QED
      BY <1>1, <2>1, <2>2 DEF LoopStep, PlaceNewOrder, TradeAccepted, TradeRefused,
         StopBotWithError, CheckReposition, RepositionCancelled,
         RepositionNotFound, LoopExit
  <1> QED
    BY <1>1, LoopAlone DEF Next, LockFree

(* An order is open because it was, or because its Trade call succeeds.    *)
LEMMA OpensOnce ==
  ASSUME Shape, KnownBooks, [Next]_vars, NEW o \in Orders, ex'[o].st = "open"
  PROVE  ex[o].st = "open" \/ (TradeOpens /\ o = active)
  <1>1. ex \in [Orders -> Books]
    BY DEF Shape, TypeOK
  <1>2. CASE TradeOpens
    BY ONLY <1>1, <1>2, o \in Orders, ex'[o].st = "open" DEF TradeOpens
  <1>3. ASSUME NEW p \in Orders, ExCancelled(p) PROVE ex[o].st = "open"
    BY ONLY <1>1, <1>3, p \in Orders, o \in Orders, ex'[o].st = "open" DEF ExCancelled
  <1>4. ASSUME NEW p \in Orders, ExFill(p) PROVE ex[o].st = "open"
    <2>1. ex[p].st = "open" /\ \E b : ex' = [ex EXCEPT ![p] = b]
      BY <1>4 DEF ExFill
    <2> QED
      BY ONLY <1>1, <2>1, p \in Orders, o \in Orders, ex'[o].st = "open"
  <1> QED
    BY <1>2, <1>3, <1>4, BooksMove

(* A fresh instance satisfies the invariant.                               *)
LEMMA InitOneLive == Init => OneLiveInv
  <1> SUFFICES ASSUME Init PROVE OneLiveInv
    OBVIOUS
  <1>1. Common /\ Len(wire) = 0
    BY InitCommon DEF Init
  <1> QED
    BY <1>1 DEF Init, OneLiveInv, IdleWs

(* While an order is open, or its last fill is not yet handled, it stays   *)
(* the active one.                                                         *)
LEMMA StaysActive ==
  ASSUME OneLiveInv, [Next]_vars, NEW o \in Orders, active = o, o <= placed,
         ex[o].st \in {"open", "done"},
         ~(ApplyFill /\ ws.full /\ ex[o].st = "done")
  PROVE  active' = o
  <1>0. Shape /\ placed \in Nat /\ o \in Nat /\ o # None
    BY OrdersAssumption DEF OneLiveInv, Common, Shape, TypeOK, Orders, None
  <1>1. active # None
    BY <1>0
  <1>2. loop \notin {"refused", "critical"}
    BY <1>0 DEF OneLiveInv
  <1>3. loop # "cancelled"
    BY DEF OneLiveInv
  <1>4. ~(ApplyFill /\ ws.full)
    BY DEF OneLiveInv, ApplyFill
  <1>5. ~(wire # <<>> /\ wire[1].kind = "cancelled" /\ active = wire[1].o)
    <2>1. wire # <<>> => 1 \in 1 .. Len(wire)
      BY <1>0, HeadType DEF Shape, TypeOK
    <2> QED
      BY <2>1 DEF OneLiveInv, Common, CancelledIsTrue
  <1> QED
    BY <1>0, <1>1, <1>2, <1>3, <1>4, <1>5, ActiveMoves

(* Each step keeps the invariant.                                          *)
LEMMA OneLiveNext ==
  ASSUME OneLiveInv, [Next]_vars, "lostTradeReply" \notin Enabled, "done" \notin Enabled
  PROVE  OneLiveInv'
  <1>0. /\ Common /\ Common' /\ Shape /\ KnownBooks /\ WireIsTrue
        /\ ex \in [Orders -> Books] /\ placed \in Nat
        /\ \A o \in Orders : o \in Nat /\ (o <= placed \/ o > placed)
    <2>1. /\ Common /\ Common' /\ Shape /\ KnownBooks /\ WireIsTrue
          /\ ex \in [Orders -> Books]
      BY CommonNext DEF OneLiveInv, Common, Shape, TypeOK
    <2>2. placed \in Nat
      BY <2>1, OrdersAssumption DEF Shape, TypeOK
    <2> QED
      BY <2>1, <2>2 DEF Orders
  <1>1. loop' \in {"refused", "critical"} => active' = placed' + 1
    BY <1>0, LoopLearns DEF OneLiveInv, KnownBooks
  <1>2. loop' = "cancelled" => ex'[active'].st = "cancelled"
    <2>1. ASSUME NEW o \in Orders, ExCancelled(o) PROVE ex'[o].st = "cancelled"
      BY <1>0, <2>1 DEF ExCancelled, Books
    <2>2. loop = "cancelled" => active \in Orders
      BY <1>0 DEF Shape, HoldsOrder, InLoop
    <2>3. \A o \in Orders : ex[o].st = "cancelled" => ex'[o].st = "cancelled"
      BY <1>0, ClosedStays
    <2> QED
      BY <1>0, <2>1, <2>2, <2>3, LoopLearns DEF OneLiveInv
  <1>3. ASSUME NEW o \in Orders, ex'[o].st = "open" PROVE active' = o
    <2>1. CASE TradeOpens /\ o = active
      BY <2>1 DEF TradeOpens
    <2>2. CASE ex[o].st = "open"
      BY <1>0, <2>2, OpenIsKnown, StaysActive DEF OneLiveInv
    <2> QED
      BY <1>0, <1>3, <2>1, <2>2, OpensOnce
  <1>4. PICK d \in {0, 1} : \A i \in 1 .. Len(wire') :
           Kept(i, d) \/ NewCancelled(i) \/ NewFill(i)
    BY <1>0, MessagesMove
  <1>5. ASSUME NEW i \in 1 .. Len(wire'), Kept(i, d), FullFill(wire'[i], order')
        PROVE  /\ FullFill(wire[i + d], order) /\ i + d \in 1 .. Len(wire)
               /\ wire'[i].o = wire[i + d].o /\ wire'[i].o \in Orders /\ wire'[i].o <= placed
               /\ ex[wire'[i].o].st = "done" /\ active = wire'[i].o
    <2>1. i + d \in 1 .. Len(wire) /\ wire'[i] = wire[i + d]
      BY <1>5 DEF Kept
    <2>2. wire[i + d].o \in Orders /\ wire[i + d].o <= placed
      BY <1>0, <2>1, WireOrder DEF WireIsTrue
    <2>3. order'[wire[i + d].o] = order[wire[i + d].o]
      BY <1>0, <2>2, TermsStay
    <2>4. FullFill(wire[i + d], order)
      BY <1>5, <2>1, <2>3 DEF FullFill
    <2> QED
      BY <2>1, <2>2, <2>4 DEF OneLiveInv
  <1>6. ASSUME NEW i \in 1 .. Len(wire'), NewFill(i)
        PROVE  \E p \in Orders : /\ ex[p].st = "open" /\ active = p /\ p <= placed
                                 /\ wire'[i].o = p /\ active' = active
                                 /\ i = Len(wire) + 1
                                 /\ FullFill(wire'[i], order') => ex'[p].st = "done"
    <2>1. PICK p \in Orders : /\ ExFill(p) /\ wire'[i].o = p
                              /\ wire'[i].exec = ex'[p].done /\ i = Len(wire) + 1
      BY <1>6 DEF NewFill
    <2>2. ex[p].st = "open" /\ order' = order /\ active' = active
      BY <2>1 DEF ExFill, bot
    <2>3. ex'[p].done = order[p].amt => ex'[p].st = "done"
      <3>1. PICK qty \in 1 .. order[p].amt - ex[p].done :
               ex' = [ex EXCEPT ![p] =
                         [st |-> IF ex[p].done + qty = order[p].amt THEN "done" ELSE "open",
                          done |-> ex[p].done + qty]]
        BY <1>0, <2>1, FillInBooks
      <3> QED
        BY <1>0, <3>1
    <2>4. FullFill(wire'[i], order') => ex'[p].st = "done"
      BY <2>1, <2>2, <2>3 DEF FullFill
    <2> QED
      BY <1>0, <2>1, <2>2, <2>4, OpenIsKnown DEF OneLiveInv
  <1>7. \A i \in 1 .. Len(wire') : FullFill(wire'[i], order') => Kept(i, d) \/ NewFill(i)
    <2>1. \A i : NewCancelled(i) => wire'[i].kind = "cancelled"
      BY DEF NewCancelled, Message
    <2> QED
      BY <1>4, <2>1 DEF FullFill
  <1>8. ASSUME NEW i \in 1 .. Len(wire'), FullFill(wire'[i], order')
        PROVE  ex'[wire'[i].o].st = "done" /\ active' = wire'[i].o
    <2>1. CASE Kept(i, d)
      <3> DEFINE o == wire'[i].o
      <3>1. /\ o \in Orders /\ o <= placed /\ ex[o].st = "done" /\ active = o
            /\ FullFill(wire[i + d], order) /\ i + d \in 1 .. Len(wire)
        BY <1>5, <1>8, <2>1
      <3>2. ~(ApplyFill /\ ws.full)
        BY <3>1 DEF OneLiveInv, ApplyFill
      <3>3. active' = o
        BY <3>1, <3>2, StaysActive
      <3> QED
        BY <1>0, <3>1, <3>3, ClosedStays
    <2>2. CASE NewFill(i)
      BY <1>6, <1>8, <2>2
    <2> QED
      BY <1>7, <1>8, <2>1, <2>2
  <1>9. ASSUME NEW i \in 1 .. Len(wire'), NEW j \in 1 .. Len(wire'),
               FullFill(wire'[i], order'), FullFill(wire'[j], order')
        PROVE  i = j
    <2>1. CASE Kept(i, d) /\ Kept(j, d)
      <3>1. i + d = j + d
        BY <1>5, <1>9, <2>1 DEF OneLiveInv
      <3> QED
        BY <3>1
    <2>2. CASE NewFill(i) /\ NewFill(j)
      BY <1>6, <2>2
    <2>3. CASE Kept(i, d) /\ NewFill(j)
      BY <1>5, <1>6, <1>9, <2>3
    <2>4. CASE NewFill(i) /\ Kept(j, d)
      BY <1>5, <1>6, <1>9, <2>4
    <2> QED
      BY <1>7, <1>9, <2>1, <2>2, <2>3, <2>4
  <1>10. ASSUME ws'.pc # "idle", ws'.full
         PROVE  /\ ex'[ws'.o].st = "done" /\ active' = ws'.o
                /\ \A i \in 1 .. Len(wire') : ~FullFill(wire'[i], order')
    <2>1. CASE ws.pc # "idle" /\ ws.full /\ ws'.o = ws.o /\ ~ApplyFill
      <3>1. ws.o \in Orders /\ ex[ws.o].st = "done" /\ active = ws.o
        BY <1>0, <2>1 DEF OneLiveInv, Shape, HoldsOrder
      <3>2. ~(ws.o > placed)
        BY <1>0, <3>1 DEF KnownBooks
      <3>3. active' = ws.o
        BY <1>0, <2>1, <3>1, <3>2, StaysActive
      <3>4. ex'[ws.o].st = "done"
        BY <1>0, <3>1, ClosedStays
      <3>5. \A i \in 1 .. Len(wire') : ~FullFill(wire'[i], order')
        <4> SUFFICES ASSUME NEW i \in 1 .. Len(wire'), FullFill(wire'[i], order') PROVE FALSE
          OBVIOUS
        <4>1. ~Kept(i, d)
          BY <1>5, <2>1 DEF OneLiveInv
        <4>2. ~NewFill(i)
          BY <1>6, <3>1
        <4> QED
          BY <1>7, <4>1, <4>2
      <3> QED
        BY <2>1, <3>3, <3>4, <3>5
    <2>2. CASE TakeFill
      <3>1. /\ wire # <<>> /\ Head(wire).kind \in {"fill", "done"}
            /\ ws'.o = Head(wire).o
            /\ Head(wire).exec = order[Head(wire).o].amt
            /\ wire' = Tail(wire) /\ UNCHANGED <<ex, order, active>>
        BY <1>10, <2>2 DEF TakeFill, NextIs, IdleWs, WsUnchanged, bot
      <3>2. /\ Head(wire) = wire[1] /\ Len(wire) \in Nat /\ Len(wire) > 0
            /\ Len(wire') = Len(wire) - 1
            /\ \A i \in 1 .. Len(wire) - 1 : wire'[i] = wire[i + 1]
        BY <1>0, <3>1, HeadType DEF Shape, TypeOK
      <3>3. FullFill(wire[1], order) /\ 1 \in 1 .. Len(wire)
        BY <3>1, <3>2 DEF FullFill
      <3>4. ASSUME NEW i \in 1 .. Len(wire'), FullFill(wire'[i], order') PROVE FALSE
        <4>1. wire'[i] = wire[i + 1] /\ i + 1 \in 1 .. Len(wire) /\ i + 1 # 1
          BY ONLY <3>2, i \in 1 .. Len(wire')
        <4>2. FullFill(wire[i + 1], order)
          BY <3>1, <3>4, <4>1 DEF FullFill
        <4> QED
          BY <3>3, <4>1, <4>2 DEF OneLiveInv
      <3> QED
        BY <3>1, <3>2, <3>3, <3>4 DEF OneLiveInv
    <2>3. CASE ReadActive
      <3>1. ws.pc = "matched" /\ active # None /\ active' = active
            /\ ws' = [ws EXCEPT !.pc = "read", !.o = active]
        BY <1>10, <2>3 DEF ReadActive, IdleWs, bot
      <3>2. ws'.full = ws.full /\ ws'.o = active
        BY <1>0, <3>1 DEF Shape, TypeOK, WsStates
      <3>3. active = ws.o
        BY <1>10, <3>1, <3>2 DEF OneLiveInv
      <3>4. ~ApplyFill
        BY <3>1 DEF ApplyFill
      <3> QED
        BY <1>10, <2>1, <3>1, <3>2, <3>3, <3>4
    <2>4. ~ApplyFill
      BY <1>10 DEF ApplyFill, IdleWs
    <2> QED
      BY <1>10, <2>1, <2>2, <2>3, <2>4, ReaderAlone
  <1> QED
    BY <1>0, <1>1, <1>2, <1>3, <1>8, <1>9, <1>10 DEF OneLiveInv

(* The bot never has two orders open on the exchange, whatever messages    *)
(* and cancellation replies are lost and whoever stops the bot, as long as *)
(* no accepted order is taken for refused and no fill is reported twice    *)
(* (placeNewOrder, checkReposition and the handlers of fills).             *)
THEOREM NeverTwoOrders ==
  ASSUME "lostTradeReply" \notin Enabled, "done" \notin Enabled
  PROVE  Spec => []OneLiveOrder
  <1>1. OneLiveInv => OneLiveOrder
    BY DEF OneLiveInv, OneLiveOrder
  <1> QED
    BY <1>1, InitOneLive, OneLiveNext, PTL DEF Spec

-----------------------------------------------------------------------------
(* A record that says its order is over.                                   *)

(* Who changes a record, where neither StopBot nor the clean-up routine is *)
(* at work, and how.                                                       *)
Restatus(o, st) == rec' = [rec EXCEPT ![o].st = st]
FillRecorded == ApplyFill /\ rec[ws.o].st # "none"
                /\ rec' = [rec EXCEPT ![ws.o] = Filled(rec[ws.o], ws.full, ws.exec)]
CancelRecorded ==
    /\ wire # <<>> /\ wire[1].o \in Orders /\ LockFree
    /\ Restatus(wire[1].o, FinalStatus(wire[1].exec))
    /\ active' = IF active = wire[1].o THEN None ELSE active

LEMMA RecordMoves ==
  ASSUME Shape, OnlyMessagesRefund, running, [Next]_vars
  PROVE  \/ rec' = rec
         \/ TradeAccepted \/ RepositionCancelled \/ RepositionNotFound
         \/ FillRecorded \/ CancelRecorded
  <1>1. CASE LoopStep
    BY <1>1 DEF LoopStep, PlaceNewOrder, TradeAnswered, TradeRefused,
       StopBotWithError, CheckReposition, CancelAnswered, LoopExit
  <1>2. CASE ApplyFill
    BY <1>2 DEF ApplyFill, FoundInRedis, FillRecorded
  <1>3. CASE ApplyCancel
    <2>1. wire # <<>> /\ LockFree
      BY <1>3 DEF ApplyCancel, NextIs
    <2>2. Head(wire) = wire[1] /\ Head(wire).o \in Orders
      BY <2>1, HeadType DEF Shape, TypeOK
    <2>3. \/ rec' = rec
          \/ /\ Restatus(Head(wire).o, FinalStatus(Head(wire).exec))
             /\ active' = IF active = Head(wire).o THEN None ELSE active
      BY <1>3 DEF ApplyCancel, Restatus
    <2> QED
      BY <2>1, <2>2, <2>3 DEF CancelRecorded
  <1>4. CASE TakeFill \/ ReadActive
    BY <1>4 DEF TakeFill, ReadActive
  <1>5. ~ApplyCancelStopped
    BY DEF ApplyCancelStopped
  <1>6. CASE CleanerStep
    BY <1>6 DEF OnlyMessagesRefund, CleanerStep, CleanupList, CleanupCancel,
       CleanupStatus, CleanupRefund, CleanupSave
  <1>7. CASE StopperStep
    BY <1>7 DEF OnlyMessagesRefund, StopperStep, StopBot, StopLook, StopList, StopNext,
       StopCancel, StopRefund, StopStatus, StopStatusActive
  <1>8. CASE ExchangeStep \/ UNCHANGED vars
    BY <1>8 DEF ExchangeStep, LoseMessage, ExFill, vars
  <1> QED
    BY <1>1, <1>2, <1>3, <1>4, <1>5, <1>6, <1>7, <1>8 DEF Next, WsStep

(* Setting one record's status leaves the others alone.                    *)
LEMMA RestatusOne ==
  ASSUME rec \in [Orders -> Records], NEW p \in Orders, NEW st, Restatus(p, st),
         NEW o \in Orders
  PROVE  IF o = p THEN rec'[o].st = st ELSE rec'[o] = rec[o]
  BY DEF Restatus, Records

(* The bot stays in the map unless it is stopped, and the loop meets a     *)
(* critical error only where the exchange refuses the API key.             *)
LEMMA KeepsRunning ==
  ASSUME Shape, running, [Next]_vars, loop \notin {"critical", "criticalCancel"},
         "stop" \notin Enabled, "critical" \notin Enabled
  PROVE  running' /\ loop' \notin {"critical", "criticalCancel"}
  <1>1. CASE LoopStep
    BY <1>1 DEF LoopStep, PlaceNewOrder, TradeAnswered, TradeAccepted,
       TradeRefused, StopBotWithError, CheckReposition, CancelAnswered,
       RepositionCancelled, RepositionNotFound, LoopExit
  <1>2. CASE WsStep
    BY <1>2 DEF WsStep, TakeFill, ReadActive, ApplyFill, ApplyCancel,
       ApplyCancelStopped, WsUnchanged
  <1>3. CASE CleanerStep
    BY <1>3 DEF CleanerStep, CleanupList, CleanupCancel, CleanupStatus,
       CleanupRefund, CleanupSave, CleanerUnchanged
  <1>4. CASE StopperStep
    BY <1>4 DEF StopperStep, StopBot, StopLook, StopList, StopNext, StopCancel,
       StopRefund, StopStatus, StopStatusActive, StopperUnchanged
  <1>5. CASE ExchangeStep \/ UNCHANGED vars
    BY <1>5 DEF ExchangeStep, LoseMessage, ExFill, vars, routines
  <1> QED
    BY <1>1, <1>2, <1>3, <1>4, <1>5 DEF Next

(* How the loop comes to handle an accepted order, and how it comes to     *)
(* work on the active order.                                               *)
Placing == {"trade", "accepted", "refused"}
LEMMA LoopWorks ==
  ASSUME Shape, KnownBooks, [Next]_vars, "critical" \notin Enabled
  PROVE  /\ loop' = "accepted" =>
               \/ /\ loop = "trade" /\ active = placed + 1 /\ placed' = placed + 1
                  /\ active' = active /\ rec' = rec
               \/ loop' = loop /\ placed' = placed /\ active' = active /\ ~LockFree
                  /\ ~LoopStep
         /\ active' # None /\ loop' \notin Placing =>
               active' = active /\ (loop \notin Placing \/ TradeAccepted)
         /\ placed' \in {placed, placed + 1}
  <1>1. CASE LoopStep
    <2>1. CASE TradeAnswered
      BY <2>1 DEF TradeAnswered, KnownBooks, Placing, bot
    <2>2. CASE TradeAccepted
      BY <2>2 DEF TradeAccepted
    <2>3. CASE LoopStep /\ ~TradeAnswered /\ ~TradeAccepted
      <3>1. /\ loop' # "accepted" /\ placed' = placed
            /\ active' # None /\ loop' \notin Placing => active' = active /\ loop \notin Placing
        BY <2>3 DEF LoopStep, PlaceNewOrder, TradeRefused, StopBotWithError,
           CheckReposition, CancelAnswered, RepositionCancelled,
           RepositionNotFound, LoopExit, Placing, bot
      <3> QED
        BY <3>1
    <2> QED
      BY <1>1, <2>1, <2>2, <2>3
  <1>2. CASE ~LoopStep
    <2>1. /\ loop' = loop /\ placed' = placed
          /\ active' = active \/ (LockFree /\ active' = None)
      BY <1>2, LoopAlone DEF Next
    <2>2. loop = "accepted" => ~LockFree
      BY DEF LockFree
    <2> QED
      BY <1>2, <2>1, <2>2
  <1> QED
    BY <1>1, <1>2

(* A fresh instance satisfies the invariant.                               *)
LEMMA InitOver == Init => OverInv
  <1> SUFFICES ASSUME Init PROVE OverInv
    OBVIOUS
  <1>1. Common /\ OnlyMessagesRefund
    BY InitCommon DEF Init, OnlyMessagesRefund, IdleCleaner, IdleStopper
  <1> QED
    BY <1>1 DEF Init, OverInv, NoRecord, LiveRecord

(* Each step keeps the invariant, and ends no record's end.                *)
LEMMA OverNext ==
  ASSUME OverInv, [Next]_vars, MaxCleanups = 0,
         "stop" \notin Enabled, "critical" \notin Enabled
  PROVE  /\ OverInv'
         /\ \A o \in Orders : rec[o].st \in Over => rec'[o].st \in Over
  <1>0. /\ Common /\ Common' /\ Shape /\ KnownBooks /\ WireIsTrue
        /\ rec \in [Orders -> Records]
    BY CommonNext DEF OverInv, Common, Shape, TypeOK
  <1>1. OnlyMessagesRefund'
    BY <1>0, OnlyMessagesNext DEF OverInv
  <1>2. running' /\ loop' \notin {"critical", "criticalCancel"}
    BY <1>0, KeepsRunning DEF OverInv
  <1>3. /\ placed \in Nat /\ placed' \in {placed, placed + 1}
        /\ \A o \in Orders : o \in Nat /\ o # None
    BY <1>0, LoopWorks, OrdersAssumption DEF Shape, TypeOK, Orders, None
  <1>4. /\ loop \in {"accepted", "notFound", "cancelled"} => active \in Orders /\ active # None
        /\ loop = "accepted" => active = placed /\ rec[active].st = "none"
        /\ loop = "notFound" => rec[active].st \in LiveRecord
    BY <1>0, <1>3 DEF OverInv, Shape, HoldsOrder, InLoop
  <1>5. \A e : FinalStatus(e) \in Over
    BY DEF FinalStatus, Over
  <1>6. ASSUME FillRecorded
        PROVE  /\ ws.o \in Orders /\ LockFree
               /\ \A o \in Orders : o # ws.o => rec'[o] = rec[o]
               /\ rec'[ws.o].st = IF ws.full THEN "filled" ELSE rec[ws.o].st
               /\ ws.full => active' = None
    <2>1. ws.o \in Orders /\ LockFree /\ rec[ws.o].st # "none"
      BY <1>0, <1>6 DEF FillRecorded, ApplyFill, Shape, HoldsOrder
    <2>2. ws.full => active' = None
      BY <1>6, <2>1 DEF FillRecorded, ApplyFill, ClearsActive, FoundInRedis
    <2>3. rec' = [rec EXCEPT ![ws.o] = Filled(rec[ws.o], ws.full, ws.exec)]
      BY <1>6 DEF FillRecorded
    <2>4. rec'[ws.o] = Filled(rec[ws.o], ws.full, ws.exec)
      BY <1>0, <2>1, <2>3
    <2> QED
      BY <1>0, <2>1, <2>2, <2>3, <2>4 DEF Filled
  <1>7. ASSUME CancelRecorded
        PROVE  /\ wire[1].o \in Orders /\ LockFree /\ wire[1].o <= placed
               /\ \A o \in Orders : o # wire[1].o => rec'[o] = rec[o]
               /\ rec'[wire[1].o].st \in Over
               /\ active' = IF active = wire[1].o THEN None ELSE active
    <2>1. 1 \in 1 .. Len(wire)
      BY <1>0, <1>7, HeadType DEF CancelRecorded, Shape, TypeOK
    <2>2. wire[1].o <= placed
      BY <1>0, <2>1 DEF WireIsTrue
    <2> QED
      BY <1>0, <1>5, <1>7, <2>2, RestatusOne DEF CancelRecorded
  <1>8. ASSUME TradeAccepted
        PROVE  /\ active' = active /\ placed' = placed /\ loop = "accepted"
               /\ \A o \in Orders : o # active => rec'[o] = rec[o]
               /\ rec'[active].st = "open"
    BY <1>0, <1>4, <1>8 DEF TradeAccepted
  <1>9. ASSUME RepositionCancelled
        PROVE  /\ active' = None /\ loop = "cancelled" /\ placed' = placed
               /\ \A o \in Orders : o # active => rec'[o] = rec[o]
               /\ rec'[active].st = "cancelled"
    BY <1>0, <1>4, <1>9, RestatusOne DEF RepositionCancelled, Restatus
  <1>10. ASSUME RepositionNotFound
         PROVE  /\ active' = active /\ loop = "notFound" /\ placed' = placed
                /\ \A o \in Orders : o # active => rec'[o] = rec[o]
                /\ rec'[active].st = "pending_ws_confirm"
    BY <1>0, <1>4, <1>10, RestatusOne DEF RepositionNotFound, Restatus
  <1>11. \/ rec' = rec \/ TradeAccepted \/ RepositionCancelled \/ RepositionNotFound
         \/ FillRecorded \/ CancelRecorded
    BY <1>0, RecordMoves DEF OverInv
  <1>12. \A o \in Orders : rec[o].st \in Over => rec'[o].st \in Over
    BY <1>4, <1>6, <1>7, <1>8, <1>9, <1>10, <1>11 DEF Over, LiveRecord
  <1>13. \A o \in Orders : rec'[o].st # "none" => o <= placed
    <2> SUFFICES ASSUME NEW o \in Orders, rec'[o].st # "none" PROVE o <= placed
      OBVIOUS
    <2>1. CASE rec[o].st # "none"
      BY <2>1 DEF OverInv
    <2>2. CASE rec[o].st = "none"
      <3>1. CASE TradeAccepted
        BY <1>3, <1>4, <1>8, <2>2, <3>1
      <3>2. CASE RepositionCancelled
        BY <1>0, <1>4, <1>9, <2>2, <3>2 DEF OverInv, LiveRecord
      <3>3. CASE RepositionNotFound
        BY <1>4, <1>10, <2>2, <3>3 DEF LiveRecord
      <3>4. CASE FillRecorded
        BY <1>6, <2>2, <3>4 DEF FillRecorded
      <3>5. CASE CancelRecorded
        BY <1>7, <2>2, <3>5
      <3> QED
        BY <1>11, <2>2, <3>1, <3>2, <3>3, <3>4, <3>5
    <2> QED
      BY <2>1, <2>2
  <1>14. \A o \in Orders : rec'[o].st # "none" => o <= placed'
    BY <1>3, <1>13
  <1>15. loop' = "accepted" => active' = placed' /\ rec'[active'].st = "none"
    <2>1. CASE loop = "trade" /\ active = placed + 1 /\ placed' = placed + 1
               /\ active' = active /\ rec' = rec
      <3>1. active \in Orders /\ ~(active <= placed)
        BY <1>0, <1>3, <2>1 DEF Shape, HoldsOrder, InLoop
      <3> QED
        BY <2>1, <3>1 DEF OverInv
    <2>2. CASE loop' = loop /\ placed' = placed /\ active' = active /\ ~LockFree /\ ~LoopStep
               /\ loop' = "accepted"
      <3>1. ~TradeAccepted /\ ~RepositionCancelled /\ ~RepositionNotFound
        BY <2>2 DEF LoopStep
      <3>2. rec' = rec
        BY <1>6, <1>7, <1>11, <2>2, <3>1
      <3> QED
        BY <2>2, <3>2 DEF OverInv
    <2> QED
      BY <1>0, <2>1, <2>2, LoopWorks
  <1>16. ASSUME active' # None, loop' \notin {"trade", "accepted", "refused"}
         PROVE  rec'[active'].st \in LiveRecord
    <2>1. active' = active /\ (loop \notin Placing \/ TradeAccepted)
      BY <1>0, <1>16, LoopWorks DEF Placing
    <2>2. CASE TradeAccepted
      BY <1>8, <2>1, <2>2 DEF LiveRecord
    <2>3. CASE loop \notin Placing
      <3>1. active \in Orders /\ rec[active].st \in LiveRecord
        BY <1>0, <1>16, <2>1, <2>3 DEF OverInv, Placing, Shape, TypeOK
      <3>2. CASE RepositionNotFound
        BY <1>10, <2>1, <3>2 DEF LiveRecord
      <3>3. CASE FillRecorded
        BY <1>6, <1>16, <2>1, <3>1, <3>3
      <3>4. CASE CancelRecorded
        BY <1>7, <1>16, <2>1, <3>1, <3>4
      <3>5. ~RepositionCancelled
        BY <1>9, <1>16
      <3>6. ~TradeAccepted
        BY <1>8, <2>3 DEF Placing
      <3> QED
        BY <1>11, <2>1, <3>1, <3>2, <3>3, <3>4, <3>5, <3>6
    <2> QED
      BY <2>1, <2>2, <2>3
  <1> QED
    BY <1>0, <1>1, <1>2, <1>12, <1>14, <1>15, <1>16 DEF OverInv

(* The history kept in Redis does not resurrect an order: a record that    *)
(* says filled, partial or cancelled never says open again, as long as the *)
(* bot is not stopped and the clean-up routine finds nothing               *)
(* (checkReposition against handleLiveOrderUpdate).                        *)
THEOREM OverStaysOver ==
  ASSUME MaxCleanups = 0, "stop" \notin Enabled, "critical" \notin Enabled
  PROVE  Spec => OverIsFinal
  <1>1. OverInv /\ [Next]_vars => OverInv'
    BY OverNext
  <1>2. OverInv /\ [Next]_vars =>
           [\A o \in Orders : rec[o].st \in Over => rec'[o].st \in Over]_rec
    BY OverNext
  <1> QED
    BY <1>1, <1>2, InitOver, PTL DEF Spec, OverIsFinal

-----------------------------------------------------------------------------
(* The ledger of MarketMakerLedger, with what is proved about it.          *)
Promise == INSTANCE OrderLedger_proofs WITH
    MaxAmount <- InitialIDR,
    terms     <- AcceptedTerms,
    executed  <- Executed,
    cancelled <- Cancelled,
    locked    <- Locked,
    returned  <- refunded,
    bal       <- saved

-----------------------------------------------------------------------------
(* The invariant under which every step is one of the ledger's.            *)

PaysWith(o) == IF order[o].side = "buy" THEN "idr" ELSE "coin"

(* Where neither StopBot nor the clean-up routine is at work, the balance  *)
(* in Redis is the one in memory, an order the exchange was asked for has  *)
(* terms the balance covered, and an open order has something left to      *)
(* execute.                                                                *)
TermsInv ==
    /\ saved = bal
    /\ \A o \in Orders : ex[o].st # "none" \/ (loop = "trade" /\ active = o) =>
          order[o].side \in {"buy", "sell"} /\ order[o].amt \in 1 .. InitialIDR
    /\ \A o \in Orders : o <= placed => ex[o].st # "none"
    /\ loop \in {"trade", "accepted"} => order[active].amt <= bal[PaysWith(active)]
    /\ \A o \in Orders : ex[o].st = "open" => ex[o].done < order[o].amt

LedgerKept == CreditInv /\ ReleasedInv /\ OverInv /\ TermsInv /\ Promise!LedgerInv

(* What is not yet credited or given back is on its way: its message is on *)
(* the wire, or in the reader's hands.                                     *)
FillOnWire(o) ==
    \E i \in 1 .. Len(wire) :
        wire[i].kind # "cancelled" /\ wire[i].o = o /\ wire[i].exec = ex[o].done
FillInHand(o) == ws.pc # "idle" /\ ws.o = o /\ ws.exec = ex[o].done
CancelOnWire(o) ==
    \E i \in 1 .. Len(wire) : wire[i].kind = "cancelled" /\ wire[i].o = o

NothingLost ==
    panicked \/ \A o \in Orders :
        /\ credited[o] = ex[o].done \/ FillOnWire(o) \/ FillInHand(o)
        /\ refunded[o] = Released(o) \/ CancelOnWire(o)

-----------------------------------------------------------------------------
(* The two instances are of one ledger.                                    *)
LEMMA SameLedger ==
  /\ Promise!LedgerAssumption
  /\ Ledger!Init <=> Promise!Init
  /\ [Ledger!Next]_(Ledger!vars) <=> [Promise!Next]_(Promise!vars)
  <1>1. Promise!LedgerAssumption
    BY OrdersAssumption DEF Promise!LedgerAssumption
  <1>2. Ledger!Init <=> Promise!Init
    BY DEF Ledger!Init, Promise!Init, Ledger!NotPlaced, Promise!NotPlaced,
           Ledger!Zero, Promise!Zero, Ledger!Orders, Promise!Orders
  <1>3. Ledger!vars = Promise!vars
    BY DEF Ledger!vars, Promise!vars
  <1>4. Ledger!Next <=> Promise!Next
    BY DEF Ledger!Next, Ledger!Orders, Ledger!Place, Ledger!Execute, Ledger!Cancel,
           Ledger!Lock, Ledger!CreditFill, Ledger!ReturnFunds, Ledger!Placed,
           Ledger!Unfilled, Ledger!Pays, Ledger!Gets, Ledger!Sides,
           Promise!Next, Promise!Orders, Promise!Place, Promise!Execute, Promise!Cancel,
           Promise!Lock, Promise!CreditFill, Promise!ReturnFunds, Promise!Placed,
           Promise!Unfilled, Promise!Pays, Promise!Gets, Promise!Sides
  <1> QED
    BY <1>1, <1>2, <1>3, <1>4 DEF Ledger!vars, Promise!vars

(* How a step of the bot moves what the ledger is about.                   *)
Silently ==
    /\ UNCHANGED <<ex, saved, credited, refunded>>
    /\ \A o \in Orders : ex[o].st # "none" => order'[o] = order[o]
    /\ \A o \in Orders : rec'[o].st = "none" <=> rec[o].st = "none"
OpenStep == TradeOpens /\ UNCHANGED <<rec, saved, credited, refunded>>
CancelStep == \E o \in Orders : ExCancelled(o)
                 /\ UNCHANGED <<order, rec, saved, credited, refunded>>

LEMMA StepsMove ==
  ASSUME LedgerKept, [Next]_vars, MaxCleanups = 0
  PROVE  \/ Silently \/ OpenStep \/ CancelStep \/ \E o \in Orders : ExFill(o)
         \/ TradeAccepted \/ ApplyFill \/ ApplyCancel
  <1>0. Shape /\ KnownBooks /\ OnlyMessagesRefund /\ running
        /\ loop \notin {"critical", "criticalCancel"}
        /\ rec \in [Orders -> Records] /\ obj \in [Orders -> MemoryRecords]
    BY DEF LedgerKept, OverInv, Common, Shape, TypeOK
  <1>1. CASE PlaceNewOrder
    <2>1. /\ UNCHANGED <<ex, saved, credited, refunded, rec>>
          /\ \E t : order' = [order EXCEPT ![placed + 1] = t]
      BY <1>1 DEF PlaceNewOrder, LoopUnchanged, history
    <2>2. ASSUME NEW o \in Orders, ex[o].st # "none" PROVE order'[o] = order[o]
      <3>1. o <= placed /\ placed \in Nat /\ o \in Nat
        BY <1>0, <2>2, OrdersAssumption DEF KnownBooks, Shape, TypeOK, Orders
      <3> QED
        BY <1>0, <2>1, <3>1 DEF Shape, TypeOK
    <2> QED
      BY <2>1, <2>2 DEF Silently
  <1>2. CASE TradeAnswered
    <2>1. active \in Orders /\ active = placed + 1 /\ loop = "trade"
      BY <1>0, <1>2 DEF TradeAnswered, KnownBooks, Shape, HoldsOrder, InLoop
    <2>2. ex[active] = [st |-> "none", done |-> 0]
      BY <1>0, <2>1, OrdersAssumption DEF KnownBooks, Shape, TypeOK
    <2>3. UNCHANGED <<order, wire, active, rec, saved, credited, refunded>>
      BY <1>2 DEF TradeAnswered, LoopUnchanged, history, bot
    <2>4. ex' = ex \/ ex' = [ex EXCEPT ![active].st = "open"]
      BY <1>2 DEF TradeAnswered
    <2> QED
      BY <2>1, <2>2, <2>3, <2>4 DEF Silently, OpenStep, TradeOpens
  <1>3. CASE CancelAnswered
    <2>1. active \in Orders
      BY <1>0, <1>3 DEF CancelAnswered, Shape, HoldsOrder, InLoop
    <2>2. UNCHANGED <<order, rec, saved, credited, refunded>>
      BY <1>3 DEF CancelAnswered, LoopUnchanged, history, bot
    <2>3. ExCancelled(active) \/ ex' = ex
      BY <1>3 DEF CancelAnswered, ExNotFound
    <2> QED
      BY <2>1, <2>2, <2>3 DEF Silently, CancelStep
  <1>4. CASE RepositionCancelled \/ RepositionNotFound
    <2>1. /\ active \in Orders /\ UNCHANGED <<ex, order, saved, credited, refunded>>
          /\ loop \in {"cancelled", "notFound"}
      BY <1>0, <1>4 DEF RepositionCancelled, RepositionNotFound, LoopUnchanged, history,
                        Shape, HoldsOrder, InLoop
    <2>2. active # None
      BY <2>1 DEF Orders, None
    <2>3. rec[active].st # "none"
      BY <2>1, <2>2 DEF LedgerKept, OverInv, LiveRecord
    <2>4. Restatus(active, "cancelled") \/ Restatus(active, "pending_ws_confirm")
      BY <1>4 DEF RepositionCancelled, RepositionNotFound, Restatus
    <2>5. \A o \in Orders : rec'[o].st = "none" <=> rec[o].st = "none"
      BY <1>0, <2>1, <2>3, <2>4, RestatusOne
    <2> QED
      BY <2>1, <2>5 DEF Silently
  <1>5. CASE TradeRefused \/ CheckReposition \/ LoopExit
    BY <1>5 DEF TradeRefused, CheckReposition, LoopExit, LoopUnchanged, history, Silently
  <1>6. ~StopBotWithError
    BY <1>0 DEF StopBotWithError
  <1>7. CASE TakeFill \/ ReadActive
    BY <1>7 DEF TakeFill, ReadActive, WsUnchanged, history, Silently
  <1>8. ~ApplyCancelStopped
    BY <1>0 DEF ApplyCancelStopped
  <1>9. ~CleanerStep
    BY <1>0 DEF OnlyMessagesRefund, CleanerStep, CleanupList, CleanupCancel,
       CleanupStatus, CleanupRefund, CleanupSave, Shape, TypeOK
  <1>10. CASE StopperStep
    BY <1>0, <1>10 DEF OnlyMessagesRefund, StopperStep, StopBot, StopLook, StopList,
       StopNext, StopCancel, StopRefund, StopStatus, StopStatusActive, StopperUnchanged,
       Silently
  <1>11. CASE LoseMessage \/ UNCHANGED vars
    BY <1>11 DEF LoseMessage, vars, history, Silently
  <1> QED
    BY <1>1, <1>2, <1>3, <1>4, <1>5, <1>6, <1>7, <1>8, <1>9, <1>10, <1>11
    DEF Next, LoopStep, WsStep, ExchangeStep

-----------------------------------------------------------------------------
(* Each of these steps is a step of the ledger.                            *)

LEMMA SilentMap ==
  ASSUME LedgerKept, Silently
  PROVE  UNCHANGED Promise!vars
  <1>1. AcceptedTerms' = AcceptedTerms /\ Executed' = Executed /\ Cancelled' = Cancelled
    BY DEF Silently, AcceptedTerms, Executed, Cancelled
  <1>2. Locked' = Locked
    BY DEF Silently, Locked
  <1> QED
    BY <1>1, <1>2 DEF Silently, Promise!vars

(* The exchange accepts an order: the ledger places it.                    *)
LEMMA PlaceMap ==
  ASSUME LedgerKept, OpenStep
  PROVE  active \in Promise!Orders /\ Promise!Place(active)
  <1>0. /\ active \in Orders /\ loop = "trade" /\ ex[active] = [st |-> "none", done |-> 0]
        /\ ex' = [ex EXCEPT ![active].st = "open"] /\ order' = order
        /\ ex \in [Orders -> Books]
    BY DEF OpenStep, TradeOpens, LedgerKept, CreditInv, TypeOK
  <1>1. order[active].side \in {"buy", "sell"} /\ order[active].amt \in 1 .. InitialIDR
        /\ order[active] \in Terms
    BY <1>0 DEF LedgerKept, TermsInv, CreditInv, TypeOK
  <1>2. AcceptedTerms' = [AcceptedTerms EXCEPT ![active] = order[active]]
    BY <1>0 DEF AcceptedTerms, Books
  <1>3. order[active] = [side |-> order[active].side, amt |-> order[active].amt]
    BY <1>1 DEF Terms
  <1>4. Executed' = Executed /\ Cancelled' = Cancelled /\ Locked' = Locked
    BY <1>0 DEF Executed, Cancelled, Locked, OpenStep, Books
  <1>5. AcceptedTerms[active].side = "none"
    BY <1>0 DEF AcceptedTerms, NoOrder
  <1> QED
    BY <1>0, <1>1, <1>2, <1>3, <1>4, <1>5
    DEF OpenStep, Orders, Promise!Orders, Promise!Place, Promise!Placed, Promise!Sides

(* The exchange executes part of an order.                                 *)
LEMMA ExecuteMap ==
  ASSUME LedgerKept, NEW o \in Orders, ExFill(o)
  PROVE  o \in Promise!Orders /\ Promise!Execute(o)
  <1>0. ex[o].st = "open" /\ UNCHANGED <<order, rec, saved, credited, refunded>>
        /\ ex \in [Orders -> Books] /\ order[o].side # "none"
    BY DEF ExFill, bot, history, LedgerKept, TermsInv, CreditInv, TypeOK
  <1>1. PICK qty \in 1 .. order[o].amt - ex[o].done :
             ex' = [ex EXCEPT ![o] =
                       [st |-> IF ex[o].done + qty = order[o].amt THEN "done" ELSE "open",
                        done |-> ex[o].done + qty]]
    BY <1>0, FillInBooks
  <1>2. Executed' = [Executed EXCEPT ![o] = @ + qty]
    BY <1>0, <1>1 DEF Executed
  <1>3. AcceptedTerms' = AcceptedTerms
    BY <1>0, <1>1 DEF AcceptedTerms
  <1>4. Cancelled' = Cancelled /\ Locked' = Locked
    BY <1>0, <1>1 DEF Cancelled, Locked
  <1>5. AcceptedTerms[o] = order[o] /\ Executed[o] = ex[o].done /\ o \notin Cancelled
    BY <1>0 DEF AcceptedTerms, Executed, Cancelled
  <1> QED
    BY <1>0, <1>2, <1>3, <1>4, <1>5
    DEF Orders, Promise!Orders, Promise!Execute, Promise!Placed, Promise!Unfilled

(* The exchange cancels an order.                                          *)
LEMMA CancelMap ==
  ASSUME LedgerKept, NEW o \in Orders, ExCancelled(o),
         UNCHANGED <<order, rec, saved, credited, refunded>>
  PROVE  o \in Promise!Orders /\ Promise!Cancel(o)
  <1>0. ex[o].st = "open" /\ ex' = [ex EXCEPT ![o].st = "cancelled"]
        /\ ex \in [Orders -> Books] /\ order[o].side # "none" /\ ex[o].done < order[o].amt
        /\ ex[o].done \in Nat /\ order[o].amt \in Nat
    BY DEF ExCancelled, LedgerKept, TermsInv, CreditInv, TypeOK, Books, Terms
  <1>1. AcceptedTerms' = AcceptedTerms /\ Executed' = Executed /\ Locked' = Locked
    BY <1>0 DEF AcceptedTerms, Executed, Locked
  <1>2. Cancelled' = Cancelled \cup {o}
    BY <1>0 DEF Cancelled
  <1>3. AcceptedTerms[o] = order[o] /\ Executed[o] = ex[o].done /\ o \notin Cancelled
    BY <1>0 DEF AcceptedTerms, Executed, Cancelled
  <1> QED
    BY <1>0, <1>1, <1>2, <1>3
    DEF Orders, Promise!Orders, Promise!Cancel, Promise!Placed, Promise!Unfilled

(* The bot records an accepted order: its funds are locked, and covered.   *)
LEMMA LockMap ==
  ASSUME LedgerKept, TradeAccepted
  PROVE  active \in Promise!Orders /\ Promise!Lock(active)
  <1>0. /\ loop = "accepted" /\ active \in Orders /\ rec[active].st = "none"
        /\ order[active].amt <= bal[PaysWith(active)] /\ saved = bal
        /\ bal \in Balances /\ order[active] \in Terms /\ rec \in [Orders -> Records]
        /\ UNCHANGED <<order, ex, credited, refunded>>
    BY DEF TradeAccepted, LoopUnchanged, history, LedgerKept, OverInv, TermsInv,
           CreditInv, TypeOK, HoldsOrder, InLoop
  <1>1. ex[active].st # "none"
    <2>1. active <= placed
      BY <1>0 DEF LedgerKept, CreditInv, KnownOrders
    <2> QED
      BY <1>0, <2>1 DEF LedgerKept, TermsInv
  <1>2. order[active].side \in {"buy", "sell"} /\ order[active].amt \in Nat
        /\ bal.idr \in Int /\ bal.coin \in Int
    BY <1>0, <1>1 DEF LedgerKept, TermsInv, Terms, Balances
  <1>3. AcceptedTerms' = AcceptedTerms /\ Executed' = Executed /\ Cancelled' = Cancelled
    BY <1>0 DEF AcceptedTerms, Executed, Cancelled
  <1>4. Locked' = Locked \cup {active}
    BY <1>0 DEF TradeAccepted, Locked
  <1>5. AcceptedTerms[active] = order[active] /\ active \notin Locked
    BY <1>0, <1>1 DEF AcceptedTerms, Locked
  <1>6. saved' = [saved EXCEPT ![PaysWith(active)] = @ - order[active].amt]
    <2>1. saved' = Deduct(saved, active)
      BY <1>0 DEF TradeAccepted
    <2>2. \A a, b \in Int : b <= a => Monus(a, b) = a - b
      BY DEF Monus
    <2>3. CASE order[active].side = "buy"
      <3>1. PaysWith(active) = "idr" /\ Monus(saved.idr, order[active].amt)
                                            = saved.idr - order[active].amt
        BY <1>0, <1>2, <2>2, <2>3 DEF PaysWith
      <3> QED
        BY ONLY <2>1, <2>3, <3>1 DEF Deduct
    <2>4. CASE order[active].side = "sell"
      <3>1. PaysWith(active) = "coin" /\ Monus(saved.coin, order[active].amt)
                                            = saved.coin - order[active].amt
        BY <1>0, <1>2, <2>2, <2>4 DEF PaysWith
      <3> QED
        BY ONLY <2>1, <2>4, <3>1 DEF Deduct
    <2> QED
      BY <1>2, <2>3, <2>4
  <1> QED
    BY <1>0, <1>2, <1>3, <1>4, <1>5, <1>6
    DEF PaysWith, Orders, Promise!Orders, Promise!Lock, Promise!Placed, Promise!Pays

(* The reader applies a fill: it is credited, if it tells anything new.    *)
LEMMA CreditMap ==
  ASSUME LedgerKept, ApplyFill
  PROVE  \/ UNCHANGED Promise!vars /\ bal' = bal
         \/ ws.o \in Promise!Orders /\ Promise!CreditFill(ws.o)
  <1>0. /\ ws.o \in Orders /\ ws.o <= placed /\ ws.exec \in Nat /\ ws.exec <= ex[ws.o].done
        /\ LockFree /\ saved = bal /\ bal \in Balances /\ rec \in [Orders -> Records]
        /\ credited \in [Orders -> Nat] /\ ex[ws.o].done \in Nat
        /\ UNCHANGED <<order, ex, refunded>>
    BY DEF ApplyFill, WsUnchanged, LedgerKept, TermsInv, CreditInv, TypeOK, HoldsOrder,
           MessagesAreTrue, WsStates, Books
  <1>1. rec[ws.o].st # "none"
    BY <1>0 DEF LockFree, LedgerKept, CreditInv, KnownOrders
  <1>2. ex[ws.o].st # "none" /\ order[ws.o].side \in {"buy", "sell"}
    BY <1>0 DEF LedgerKept, TermsInv
  <1>3. (IF ws.pc = "read" THEN obj[ws.o].filled ELSE ws.filled) = credited[ws.o]
    BY DEF ApplyFill, LedgerKept, CreditInv, FilledIsCredited
  <1>4. AcceptedTerms' = AcceptedTerms /\ Executed' = Executed /\ Cancelled' = Cancelled
    BY <1>0 DEF AcceptedTerms, Executed, Cancelled
  <1> DEFINE qty == NewlyFilled(ws.exec, credited[ws.o])
  <1>5. CASE ~(qty > 0)
    <2>1. UNCHANGED <<bal, saved, rec, credited>>
      BY <1>3, <1>5 DEF ApplyFill
    <2> QED
      BY <1>0, <1>4, <2>1 DEF Locked, Promise!vars
  <1>6. CASE qty > 0
    <2>1. /\ bal' = Credit(bal, ws.o, qty) /\ saved' = bal'
          /\ rec' = [rec EXCEPT ![ws.o] = Filled(@, ws.full, ws.exec)]
          /\ credited' = [credited EXCEPT ![ws.o] = @ + qty]
      BY <1>1, <1>3, <1>6 DEF ApplyFill, FoundInRedis
    <2>2. qty \in 1 .. ex[ws.o].done - credited[ws.o]
      BY <1>0, <1>6 DEF NewlyFilled, Monus
    <2>3. Locked' = Locked /\ ws.o \in Locked
      BY <1>0, <1>1, <2>1 DEF Locked, Filled
    <2>4. AcceptedTerms[ws.o] = order[ws.o] /\ Executed[ws.o] = ex[ws.o].done
      BY <1>0, <1>2 DEF AcceptedTerms, Executed
    <2>5. saved' = [saved EXCEPT ![IF order[ws.o].side = "buy" THEN "coin" ELSE "idr"]
                                  = @ + qty]
      BY <1>0, <1>2, <2>1 DEF Credit, Balances
    <2> HIDE DEF qty
    <2> QED
      BY <1>0, <1>4, <2>1, <2>2, <2>3, <2>4, <2>5
      DEF Orders, Promise!Orders, Promise!CreditFill, Promise!Gets
  <1> QED
    BY <1>5, <1>6

(* The reader applies a cancellation: what was not executed is returned.   *)
LEMMA ReturnMap ==
  ASSUME LedgerKept, ApplyCancel
  PROVE  wire[1].o \in Promise!Orders /\ Promise!ReturnFunds(wire[1].o)
  <1> DEFINE o == wire[1].o
  <1>0. /\ wire # <<>> /\ Head(wire) = wire[1] /\ wire[1].kind = "cancelled" /\ LockFree
        /\ o \in Orders /\ 1 \in 1 .. Len(wire) /\ UNCHANGED <<order, ex, credited>>
    BY HeadType DEF ApplyCancel, WsUnchanged, NextIs, LedgerKept, CreditInv, TypeOK
  <1>1. /\ saved = bal /\ bal \in Balances /\ rec \in [Orders -> Records]
        /\ refunded \in [Orders -> Int] /\ ex[o].done \in Nat /\ order[o].amt \in Nat
    BY <1>0 DEF LedgerKept, TermsInv, CreditInv, TypeOK, Books, Terms
  <1>2. /\ ex[o].st = "cancelled" /\ wire[1].exec = ex[o].done /\ refunded[o] = 0
        /\ o <= placed
    BY <1>0 DEF LedgerKept, ReleasedInv, Common, CancelledIsTrue, WireIsTrue
  <1>3. rec[o].st # "none" /\ order[o].side \in {"buy", "sell"}
    BY <1>0, <1>2 DEF LockFree, LedgerKept, CreditInv, KnownOrders, TermsInv
  <1>4. /\ bal' = Refund(bal, o, UnfilledQty(wire[1])) /\ saved' = bal'
        /\ rec' = [rec EXCEPT ![o].st = FinalStatus(wire[1].exec)]
        /\ refunded' = [refunded EXCEPT ![o] = @ + UnfilledQty(wire[1])]
    BY <1>0, <1>3 DEF ApplyCancel, FoundInRedis
  <1>5. UnfilledQty(wire[1]) = order[o].amt - ex[o].done
    BY <1>2 DEF UnfilledQty
  <1>6. AcceptedTerms' = AcceptedTerms /\ Executed' = Executed /\ Cancelled' = Cancelled
    BY <1>0 DEF AcceptedTerms, Executed, Cancelled
  <1>7. Locked' = Locked /\ o \in Locked /\ o \in Cancelled
    BY <1>0, <1>1, <1>2, <1>3, <1>4 DEF Locked, Cancelled, FinalStatus
  <1>8. AcceptedTerms[o] = order[o] /\ Executed[o] = ex[o].done
    BY <1>0, <1>2 DEF AcceptedTerms, Executed
  <1>9. saved' = [saved EXCEPT ![PaysWith(o)] = @ + (order[o].amt - ex[o].done)]
    BY <1>1, <1>3, <1>4, <1>5 DEF Refund, PaysWith, Balances
  <1>10. refunded' = [refunded EXCEPT ![o] = order[o].amt - ex[o].done]
    <2>1. refunded[o] + UnfilledQty(wire[1]) = order[o].amt - ex[o].done
      BY <1>1, <1>2, <1>5
    <2> QED
      BY <1>4, <2>1
  <1> HIDE DEF o
  <1>11. o \in Promise!Orders /\ Promise!ReturnFunds(o)
    BY <1>0, <1>2, <1>6, <1>7, <1>8, <1>9, <1>10
    DEF PaysWith, Orders, Promise!Orders, Promise!ReturnFunds, Promise!Pays,
        Promise!Unfilled
  <1> QED
    BY <1>11 DEF o

-----------------------------------------------------------------------------
(* The invariant is kept.                                                  *)

(* The balance in memory and the one in Redis move together, and not while *)
(* the loop waits for an answer.                                           *)
LEMMA BalancesMove ==
  ASSUME LedgerKept, [Next]_vars, MaxCleanups = 0
  PROVE  saved' = bal' /\ (bal' = bal \/ TradeAccepted \/ (LockFree /\ WsStep))
  <1>0. saved = bal /\ running /\ OnlyMessagesRefund /\ cleanups \in 0 .. MaxCleanups
    BY DEF LedgerKept, TermsInv, OverInv, Common, Shape, TypeOK
  <1>1. CASE LoopStep
    BY <1>0, <1>1 DEF LoopStep, PlaceNewOrder, TradeAnswered, TradeAccepted,
       TradeRefused, StopBotWithError, CheckReposition, CancelAnswered,
       RepositionCancelled, RepositionNotFound, LoopExit, bot
  <1>2. CASE WsStep
    BY <1>0, <1>2 DEF WsStep, TakeFill, ReadActive, ApplyFill, ApplyCancel,
       ApplyCancelStopped, bot
  <1>3. ~CleanerStep
    BY <1>0 DEF OnlyMessagesRefund, CleanerStep, CleanupList, CleanupCancel,
       CleanupStatus, CleanupRefund, CleanupSave
  <1>4. CASE StopperStep
    BY <1>0, <1>4 DEF OnlyMessagesRefund, StopperStep, StopBot, StopLook, StopList,
       StopNext, StopCancel, StopRefund, StopStatus, StopStatusActive
  <1>5. CASE ExchangeStep \/ UNCHANGED vars
    BY <1>0, <1>5 DEF ExchangeStep, LoseMessage, ExFill, vars, bot
  <1> QED
    BY <1>1, <1>2, <1>3, <1>4, <1>5 DEF Next

(* placeNewOrder asks for no more than the balance holds, and the loop     *)
(* keeps to it until the exchange has answered.                            *)
LEMMA PlacesCovered ==
  ASSUME LedgerKept, PlaceNewOrder
  PROVE  /\ active' = placed + 1 /\ active' \in Orders /\ bal' = bal
         /\ order' = [order EXCEPT ![active'] = order'[active']]
         /\ order'[active'].side \in {"buy", "sell"}
         /\ order'[active'].amt \in 1 .. InitialIDR
         /\ order'[active'].amt <= bal[IF order'[active'].side = "buy" THEN "idr" ELSE "coin"]
  <1>0. /\ saved = bal /\ saved \in [idr : Nat, coin : Nat] /\ placed \in 0 .. MaxOrders
        /\ order \in [Orders -> Terms] /\ placed < MaxOrders
    BY DEF LedgerKept, TermsInv, Promise!LedgerInv, Promise!LedgerType, CreditInv, TypeOK,
           PlaceNewOrder
  <1>1. saved.idr + saved.coin <= InitialIDR
    BY SameLedger, Promise!LedgerBound DEF LedgerKept
  <1>2. active' = placed + 1 /\ placed + 1 \in Orders /\ bal' = bal
    BY <1>0, OrdersAssumption DEF PlaceNewOrder, Orders
  <1>3. \E t \in [side : {"buy", "sell"}, amt : 1 .. InitialIDR] :
           /\ order' = [order EXCEPT ![placed + 1] = t]
           /\ t.amt <= bal[IF t.side = "buy" THEN "idr" ELSE "coin"]
    <2>1. CASE bal.coin >= MinCoin
               /\ order' = [order EXCEPT ![placed + 1] = [side |-> "sell", amt |-> bal.coin]]
      <3>1. bal.coin \in 1 .. InitialIDR
        BY <1>0, <1>1, <2>1, OrdersAssumption
      <3> DEFINE t == [side |-> "sell", amt |-> bal.coin]
      <3>2. t \in [side : {"buy", "sell"}, amt : 1 .. InitialIDR]
        BY <3>1
      <3>3. t.amt <= bal[IF t.side = "buy" THEN "idr" ELSE "coin"]
        BY <3>1
      <3> QED
        BY <2>1, <3>2, <3>3
    <2>2. CASE bal.idr >= OrderQty
               /\ order' = [order EXCEPT ![placed + 1] = [side |-> "buy", amt |-> OrderQty]]
      <3>1. OrderQty \in 1 .. InitialIDR
        BY <1>0, <1>1, <2>2, OrdersAssumption
      <3> DEFINE t == [side |-> "buy", amt |-> OrderQty]
      <3>2. t \in [side : {"buy", "sell"}, amt : 1 .. InitialIDR]
        BY <3>1
      <3>3. t.amt <= bal[IF t.side = "buy" THEN "idr" ELSE "coin"]
        BY <1>0, <2>2, OrdersAssumption
      <3> QED
        BY <2>2, <3>2, <3>3
    <2> QED
      BY <2>1, <2>2 DEF PlaceNewOrder
  <1> QED
    BY <1>0, <1>2, <1>3

(* The loop comes to wait for the answer to a Trade call by placing an     *)
(* order, and nothing moves while it waits.                                *)
LEMMA LoopWaits ==
  ASSUME LedgerKept, [Next]_vars, MaxCleanups = 0
  PROVE  /\ loop' \in {"trade", "accepted"} =>
               \/ PlaceNewOrder /\ loop' = "trade"
               \/ /\ loop \in {"trade", "accepted"} /\ UNCHANGED <<order, active, bal>>
                  /\ loop' = "trade" => loop = "trade"
         /\ \/ placed' = placed
            \/ /\ placed' = placed + 1 /\ active = placed + 1 /\ active \in Orders
               /\ ex' = [ex EXCEPT ![active].st = "open"]
  <1>1. CASE LoopStep
    <2>1. CASE TradeAnswered
      BY <2>1 DEF TradeAnswered, bot, LedgerKept, CreditInv, KnownOrders, KnownBooks,
                  HoldsOrder, InLoop
    <2>2. CASE PlaceNewOrder
      BY <2>2 DEF PlaceNewOrder
    <2>3. CASE LoopStep /\ ~TradeAnswered /\ ~PlaceNewOrder
      BY <2>3 DEF LoopStep, TradeAccepted, TradeRefused, StopBotWithError,
         CheckReposition, CancelAnswered, RepositionCancelled, RepositionNotFound, LoopExit
    <2> QED
      BY <1>1, <2>1, <2>2, <2>3
  <1>2. CASE ~LoopStep
    <2>1. /\ loop' = loop /\ placed' = placed /\ order' = order
          /\ active' = active \/ (LockFree /\ active' = None)
      BY <1>2, LoopAlone DEF Next
    <2>2. bal' = bal \/ LockFree
      BY <1>2, BalancesMove DEF LoopStep
    <2> QED
      BY <2>1, <2>2 DEF LockFree
  <1> QED
    BY <1>1, <1>2

(* The exchange never forgets an order, and learns of one at a time.       *)
LEMMA BooksRemember ==
  ASSUME Shape, KnownBooks, [Next]_vars, NEW o \in Orders
  PROVE  /\ ex[o].st # "none" => ex'[o].st # "none"
         /\ ex'[o].st # "none" => ex[o].st # "none" \/ (TradeOpens /\ o = active)
  <1>0. ex \in [Orders -> Books]
    BY DEF Shape, TypeOK
  <1>1. CASE TradeOpens
    BY <1>0, <1>1 DEF TradeOpens
  <1>2. ASSUME NEW p \in Orders, ExCancelled(p)
        PROVE  ex[o].st # "none" <=> ex'[o].st # "none"
    BY <1>0, <1>2 DEF ExCancelled
  <1>3. ASSUME NEW p \in Orders, ExFill(p)
        PROVE  ex[o].st # "none" <=> ex'[o].st # "none"
    <2>1. ex[p].st = "open"
      BY <1>3 DEF ExFill
    <2>2. \E st \in {"done", "open"} : \E n : ex' = [ex EXCEPT ![p] = [st |-> st, done |-> n]]
      BY <1>0, <1>3, FillInBooks
    <2> QED
      BY <1>0, <2>1, <2>2
  <1> QED
    BY <1>1, <1>2, <1>3, BooksMove

(* Each step of the bot is one of the ledger's.                            *)
LEMMA LedgerStep ==
  ASSUME LedgerKept, [Next]_vars, MaxCleanups = 0
  PROVE  [Promise!Next]_(Promise!vars)
  <1>1. CASE Silently
    BY <1>1, SilentMap
  <1>2. CASE OpenStep
    BY <1>2, PlaceMap DEF Promise!Next
  <1>3. CASE CancelStep
    BY <1>3, CancelMap DEF CancelStep, Promise!Next
  <1>4. ASSUME NEW o \in Orders, ExFill(o) PROVE Promise!Next
    BY <1>4, ExecuteMap DEF Promise!Next
  <1>5. CASE TradeAccepted
    BY <1>5, LockMap DEF Promise!Next
  <1>6. CASE ApplyFill
    BY <1>6, CreditMap DEF Promise!Next
  <1>7. CASE ApplyCancel
    BY <1>7, ReturnMap DEF Promise!Next
  <1> QED
    BY <1>1, <1>2, <1>3, <1>4, <1>5, <1>6, <1>7, StepsMove

LEMMA TermsNext ==
  ASSUME LedgerKept, [Next]_vars, MaxCleanups = 0, Shape'
  PROVE  TermsInv'
  <1>0. /\ Shape /\ KnownBooks /\ placed \in Nat /\ ex \in [Orders -> Books]
        /\ order \in [Orders -> Terms] /\ \A o \in Orders : o \in Nat
        /\ ex' \in [Orders -> Books] /\ order' \in [Orders -> Terms]
    <2>1. Shape /\ KnownBooks
      BY DEF LedgerKept, OverInv, Common
    <2>2. /\ placed \in Nat /\ ex \in [Orders -> Books] /\ order \in [Orders -> Terms]
      BY ONLY <2>1, OrdersAssumption DEF Shape, TypeOK
    <2>3. ex' \in [Orders -> Books] /\ order' \in [Orders -> Terms]
      BY DEF Shape, TypeOK
    <2>4. \A o \in Orders : o \in Nat
      BY DEF Orders
    <2> QED
      BY ONLY <2>1, <2>2, <2>3, <2>4
  <1>1. saved' = bal'
    BY BalancesMove
  <1>2. ASSUME NEW o \in Orders, ex'[o].st # "none" \/ (loop' = "trade" /\ active' = o)
        PROVE  order'[o].side \in {"buy", "sell"} /\ order'[o].amt \in 1 .. InitialIDR
    <2>1. CASE ex[o].st # "none"
      <3>1. o <= placed
        BY <1>0, <2>1 DEF KnownBooks
      <3> QED
        BY <1>0, <2>1, <3>1, TermsStay DEF LedgerKept, TermsInv
    <2>2. CASE TradeOpens /\ o = active
      BY <2>2 DEF TradeOpens, LedgerKept, TermsInv
    <2>3. CASE loop' = "trade" /\ active' = o
      <3>1. CASE PlaceNewOrder
        BY <2>3, <3>1, PlacesCovered
      <3>2. CASE loop = "trade" /\ UNCHANGED <<order, active>>
        BY <2>3, <3>2 DEF LedgerKept, TermsInv
      <3> QED
        BY <2>3, <3>1, <3>2, LoopWaits
    <2> QED
      BY <1>0, <1>2, <2>1, <2>2, <2>3, BooksRemember
  <1>3. ASSUME NEW o \in Orders, o <= placed' PROVE ex'[o].st # "none"
    <2>1. CASE o <= placed
      BY <1>0, <2>1, BooksRemember DEF LedgerKept, TermsInv
    <2>2. CASE /\ placed' = placed + 1 /\ active = placed + 1
               /\ ex' = [ex EXCEPT ![active].st = "open"]
      <3>1. CASE o = active
        BY <1>0, <2>2, <3>1
      <3>2. CASE o # active
        BY <1>0, <1>3, <2>1, <2>2, <3>2
      <3> QED
        BY <3>1, <3>2
    <2> QED
      BY <1>3, <2>1, <2>2, LoopWaits
  <1>4. ASSUME loop' \in {"trade", "accepted"}
        PROVE  order'[active'].amt <= bal'[PaysWith(active)']
    <2>1. CASE PlaceNewOrder
      BY <2>1, PlacesCovered DEF PaysWith
    <2>2. CASE loop \in {"trade", "accepted"} /\ UNCHANGED <<order, active, bal>>
      BY <2>2 DEF LedgerKept, TermsInv, PaysWith
    <2> QED
      BY <1>4, <2>1, <2>2, LoopWaits
  <1>5. ASSUME NEW o \in Orders, ex'[o].st = "open" PROVE ex'[o].done < order'[o].amt
    <2>1. order'[o].amt \in Nat /\ order[o].amt \in Nat /\ ex[o].done \in Nat
      BY <1>0 DEF Terms, Books
    <2>2. CASE TradeOpens /\ o = active
      <3>1. ex'[o].done = 0
        BY <1>0, <2>2 DEF TradeOpens
      <3> QED
        BY <1>2, <1>5, <3>1
    <2>3. CASE ex[o].st = "open" /\ ex'[o] = ex[o]
      <3>1. o <= placed
        BY <1>0, <2>3 DEF KnownBooks
      <3> QED
        BY <1>0, <2>3, <3>1, TermsStay DEF LedgerKept, TermsInv
    <2>4. ASSUME ExFill(o) PROVE ex'[o].done < order'[o].amt
      <3>1. PICK qty \in 1 .. order[o].amt - ex[o].done :
               ex' = [ex EXCEPT ![o] =
                         [st |-> IF ex[o].done + qty = order[o].amt THEN "done" ELSE "open",
                          done |-> ex[o].done + qty]]
        BY <1>0, <2>4, FillInBooks
      <3>2. ex[o].done + qty # order[o].amt /\ ex'[o].done = ex[o].done + qty
        BY <1>0, <1>5, <3>1
      <3>3. order' = order
        BY <2>4 DEF ExFill
      <3> QED
        BY <2>1, <3>1, <3>2, <3>3
    <2>5. ASSUME NEW p \in Orders, ExFill(p), p # o PROVE ex'[o] = ex[o]
      BY <1>0, <2>5, FillInBooks
    <2>6. ASSUME NEW p \in Orders, ExCancelled(p) PROVE ex'[o] = ex[o]
      BY <1>0, <1>5, <2>6 DEF ExCancelled
    <2>7. ex[o].st = "open" \/ (TradeOpens /\ o = active)
      BY <1>0, <1>5, OpensOnce
    <2>8. CASE TradeOpens /\ o # active
      BY <1>0, <2>3, <2>7, <2>8 DEF TradeOpens
    <2> QED
      BY <1>0, <1>5, <2>2, <2>3, <2>4, <2>5, <2>6, <2>7, <2>8, BooksMove
  <1> QED
    BY <1>1, <1>2, <1>3, <1>4, <1>5 DEF TermsInv, PaysWith

LEMMA InitKept == Init => LedgerKept /\ Promise!Init
  <1> SUFFICES ASSUME Init PROVE LedgerKept /\ Promise!Init
    OBVIOUS
  <1>1. CreditInv /\ ReleasedInv /\ OverInv
    BY InitCredit, InitReleased, InitOver
  <1>2. TermsInv
    BY OrdersAssumption DEF Init, TermsInv, Orders
  <1>3. Promise!Init
    BY DEF Init, Promise!Init, Promise!Zero, Promise!Orders, Promise!NotPlaced, Orders,
           AcceptedTerms, Executed, Cancelled, Locked, NoOrder, NoRecord
  <1>4. Promise!LedgerInv
    BY <1>3, SameLedger, Promise!InitLedger
  <1> QED
    BY <1>1, <1>2, <1>3, <1>4 DEF LedgerKept

LEMMA KeptNext ==
  ASSUME LedgerKept, [Next]_vars, MaxCleanups = 0,
         {"stop", "critical", "lostTradeReply"} \cap Enabled = {}
  PROVE  LedgerKept'
  <1>0. /\ "stop" \notin Enabled /\ "critical" \notin Enabled
        /\ "lostTradeReply" \notin Enabled
    OBVIOUS
  <1>1. CreditInv' /\ ReleasedInv' /\ OverInv'
    BY <1>0, CreditNext, ReleasedNext, OverNext DEF LedgerKept
  <1>2. TermsInv'
    BY <1>1, TermsNext DEF CreditInv, Shape
  <1>3. Promise!LedgerInv'
    BY LedgerStep, SameLedger, Promise!LedgerNext DEF LedgerKept
  <1> QED
    BY <1>1, <1>2, <1>3 DEF LedgerKept

(* The balance in Redis moves only as the ledger allows: while the bot     *)
(* runs, each order's funds are locked once and covered, each fill is      *)
(* credited once and each cancelled part returned once, whichever messages *)
(* are lost and however the loop and the reader interleave (placeNewOrder, *)
(* handleFilled, handlePartialFill, handleCancelledOrder).                 *)
THEOREM KeepsTheLedger ==
  ASSUME MaxCleanups = 0, {"stop", "critical", "lostTradeReply"} \cap Enabled = {}
  PROVE  Spec => ImplementsLedger
  <1>1. Init => Ledger!Init
    BY InitKept, SameLedger
  <1>2. LedgerKept /\ [Next]_vars => [Ledger!Next]_(Ledger!vars)
    BY LedgerStep, SameLedger
  <1>3. LedgerKept /\ [Next]_vars => LedgerKept'
    BY KeptNext
  <1> QED
    BY <1>1, <1>2, <1>3, InitKept, PTL DEF Spec, ImplementsLedger, Ledger!Spec

-----------------------------------------------------------------------------
(* Nothing is lost.                                                        *)

(* When the bot may decide to trade, every order the exchange knows has    *)
(* its funds locked, so the balance is covered.                            *)
LEMMA KeptCovers == LedgerKept => NeverOverstated
  <1> SUFFICES ASSUME LedgerKept, LockFree
               PROVE  bal.idr <= Ledger!HeldIDR /\ bal.coin <= Ledger!HeldCoin
    BY DEF NeverOverstated
  <1>1. ASSUME NEW o \in Orders, ex[o].st # "none" PROVE rec[o].st # "none"
    <2>1. o <= placed
      BY <1>1, OrdersAssumption DEF LedgerKept, CreditInv, KnownOrders, KnownBooks,
         TypeOK, Orders
    <2> QED
      BY <2>1 DEF LockFree, LedgerKept, CreditInv, KnownOrders
  <1>2. Promise!Placed = {o \in Orders : ex[o].st # "none"}
    BY DEF Promise!Placed, Promise!Orders, Orders, AcceptedTerms, NoOrder, LedgerKept, TermsInv
  <1>3. Promise!Placed = Locked
    <2>1. Locked \subseteq Promise!Placed
      BY DEF LedgerKept, Promise!LedgerInv, Promise!LedgerType
    <2> QED
      BY <1>1, <1>2, <2>1 DEF Locked
  <1>4. saved.idr <= Promise!HeldIDR /\ saved.coin <= Promise!HeldCoin
    BY <1>3, SameLedger, Promise!LedgerSolvent DEF LedgerKept, Promise!Solvent
  <1>5. Promise!HeldIDR = Ledger!HeldIDR /\ Promise!HeldCoin = Ledger!HeldCoin
    BY DEF Promise!HeldIDR, Promise!HeldCoin, Promise!Sum, Promise!UpTo, Promise!InIDR,
       Promise!InCoin, Promise!HeldBack, Promise!Orders,
       Ledger!HeldIDR, Ledger!HeldCoin, Ledger!Sum, Ledger!UpTo, Ledger!InIDR,
       Ledger!InCoin, Ledger!HeldBack, Ledger!Orders
  <1> QED
    BY <1>4, <1>5 DEF LedgerKept, TermsInv

(* A message stays on the wire until it is handled.                        *)
LEMMA MessagesStay ==
  ASSUME LedgerKept, [Next]_vars, MaxCleanups = 0, "lostMessage" \notin Enabled,
         NEW i \in 1 .. Len(wire)
  PROVE  \/ \E j \in 1 .. Len(wire') : wire'[j] = wire[i]
         \/ i = 1 /\ (TakeFill \/ ApplyCancel)
  <1>0. wire \in Seq(Messages) /\ wire # <<>> /\ ex \in [Orders -> Books]
    BY DEF LedgerKept, CreditInv, TypeOK
  <1>1. CASE wire' = wire
    BY <1>1
  <1>2. ASSUME NEW m \in Messages, wire' = Append(wire, m)
        PROVE  i \in 1 .. Len(wire') /\ wire'[i] = wire[i]
    BY <1>0, <1>2
  <1>3. ASSUME NEW m \in Messages, NEW n \in Messages, wire' = wire \o <<m, n>>
        PROVE  i \in 1 .. Len(wire') /\ wire'[i] = wire[i]
    BY <1>0, <1>3
  <1>4. CASE wire' = Tail(wire)
    <2>1. TakeFill \/ ApplyCancel \/ wire' = wire
      <3>1. ~LoopStep \/ wire' = wire
        <4>1. CASE CancelAnswered
          <5>1. wire' = wire \/ \E m : wire' = Append(wire, m)
            BY <4>1 DEF CancelAnswered, ExCancelled, ExNotFound
          <5>2. ASSUME NEW m, wire' = Append(wire, m) PROVE FALSE
            <6>1. Len(wire') = Len(wire) + 1
              BY <1>0, <5>2
            <6> QED
              BY <1>0, <1>4, <6>1, HeadType
          <5> QED
            BY <5>1, <5>2
        <4> QED
          BY <4>1 DEF LoopStep, PlaceNewOrder, TradeAnswered, TradeAccepted, TradeRefused,
             StopBotWithError, CheckReposition, RepositionCancelled, RepositionNotFound,
             LoopExit
      <3>2. ASSUME NEW o \in Orders, ExFill(o) PROVE FALSE
        <4>1. PICK exec \in Int : exec >= 0
                 /\ \/ wire' = Append(wire, Message(o, "fill", exec))
                    \/ wire' = wire \o <<Message(o, "fill", exec), Message(o, "done", exec)>>
          <5>1. PICK qty \in 1 .. order[o].amt - ex[o].done :
                   \/ wire' = Append(wire, Message(o, "fill", ex[o].done + qty))
                   \/ wire' = wire \o <<Message(o, "fill", ex[o].done + qty),
                                        Message(o, "done", ex[o].done + qty)>>
            BY <1>0, <3>2, FillInBooks
          <5>2. ex[o].done \in Nat
            BY <1>0 DEF Books
          <5>3. ex[o].done + qty \in Int /\ ex[o].done + qty >= 0
            BY <5>2
          <5> QED
            BY <5>1, <5>3
        <4>2. Message(o, "fill", exec) \in Messages /\ Message(o, "done", exec) \in Messages
          BY <4>1 DEF Message, Messages
        <4>3. Len(wire') > Len(wire)
          BY ONLY <1>0, <4>1, <4>2
        <4> QED
          BY <1>0, <1>4, <4>3, HeadType
      <3>3. ~LoseMessage
        BY DEF LoseMessage
      <3>4. ~ApplyCancelStopped
        BY DEF ApplyCancelStopped, LedgerKept, OverInv
      <3>5. CASE ReadActive \/ ApplyFill \/ UNCHANGED vars
        BY <3>5 DEF ReadActive, ApplyFill, vars
      <3>6. ~CleanerStep
        BY DEF LedgerKept, OverInv, Common, Shape, TypeOK, OnlyMessagesRefund, CleanerStep,
           CleanupList, CleanupCancel, CleanupStatus, CleanupRefund, CleanupSave
      <3>7. CASE StopperStep
        BY <3>7 DEF LedgerKept, OverInv, OnlyMessagesRefund, StopperStep, StopBot, StopLook,
           StopList, StopNext, StopCancel, StopRefund, StopStatus, StopStatusActive
      <3> QED
        BY <3>1, <3>2, <3>3, <3>4, <3>5, <3>6, <3>7 DEF Next, WsStep, ExchangeStep
    <2>2. CASE i # 1
      <3>1. /\ Len(wire) \in Nat /\ Len(Tail(wire)) = Len(wire) - 1
            /\ \A k \in 1 .. Len(wire) - 1 : Tail(wire)[k] = wire[k + 1]
        BY <1>0, HeadType
      <3>2. i - 1 \in 1 .. Len(wire') /\ wire'[i - 1] = wire[(i - 1) + 1] /\ (i - 1) + 1 = i
        BY <1>4, <2>2, <3>1
      <3> QED
        BY <3>2
    <2> QED
      BY <1>1, <2>1, <2>2
  <1> QED
    BY <1>1, <1>2, <1>3, <1>4, WireMoves DEF LedgerKept, OverInv, Common

(* The reader does not drop a fill: it is of the active order or of one    *)
(* found in Redis.                                                         *)
LEMMA FillTaken ==
  ASSUME LedgerKept, TakeFill
  PROVE  ws'.pc # "idle" /\ ws'.o = wire[1].o /\ ws'.exec = wire[1].exec
  <1>1. /\ running /\ wire # <<>> /\ Head(wire) = wire[1] /\ wire[1].o \in Orders
        /\ 1 \in 1 .. Len(wire)
    BY HeadType DEF TakeFill, NextIs, LedgerKept, OverInv, CreditInv, TypeOK
  <1>2. wire[1].o <= placed
    BY <1>1 DEF LedgerKept, OverInv, Common, WireIsTrue
  <1>3. active = wire[1].o \/ rec[wire[1].o].st # "none"
    BY <1>1, <1>2 DEF LedgerKept, CreditInv, KnownOrders
  <1>4. CASE active = wire[1].o
    BY <1>1, <1>4 DEF TakeFill
  <1>5. CASE active # wire[1].o
    BY <1>1, <1>3, <1>5 DEF TakeFill, FoundInRedis
  <1> QED
    BY <1>4, <1>5

(* A fill in the reader's hands is credited.                               *)
LEMMA FillLands ==
  ASSUME LedgerKept, ApplyFill
  PROVE  credited'[ws.o] >= ws.exec
         /\ \A o \in Orders : credited'[o] >= credited[o]
  <1>0. /\ ws.o \in Orders /\ ws.o <= placed /\ ws.exec \in Nat /\ LockFree
        /\ credited \in [Orders -> Nat]
    BY DEF ApplyFill, LedgerKept, CreditInv, TypeOK, HoldsOrder, MessagesAreTrue, WsStates
  <1>1. rec[ws.o].st # "none"
    BY <1>0 DEF LockFree, LedgerKept, CreditInv, KnownOrders
  <1>2. (IF ws.pc = "read" THEN obj[ws.o].filled ELSE ws.filled) = credited[ws.o]
    BY DEF ApplyFill, LedgerKept, CreditInv, FilledIsCredited
  <1> DEFINE qty == NewlyFilled(ws.exec, credited[ws.o])
  <1>3. qty \in Nat /\ (ws.exec <= credited[ws.o] \/ qty = ws.exec - credited[ws.o])
        /\ (qty > 0 \/ ws.exec <= credited[ws.o])
    BY <1>0 DEF NewlyFilled, Monus
  <1>4. CASE qty > 0
    <2>1. credited' = [credited EXCEPT ![ws.o] = @ + qty]
      BY <1>1, <1>2, <1>4 DEF ApplyFill, FoundInRedis
    <2> HIDE DEF qty
    <2> QED
      BY <1>0, <1>3, <2>1
  <1>5. CASE ~(qty > 0)
    <2>1. credited' = credited
      BY <1>2, <1>5 DEF ApplyFill
    <2> QED
      BY <1>0, <1>3, <1>5, <2>1
  <1> QED
    BY <1>4, <1>5

(* What the exchange has just done is on the wire.                         *)
LEMMA NewsIsSent ==
  ASSUME Shape, KnownBooks, [Next]_vars, NEW o \in Orders
  PROVE  /\ ExFill(o) => FillOnWire(o)'
         /\ ExCancelled(o) => CancelOnWire(o)'
         /\ ~ExFill(o) => ex'[o].done = ex[o].done
         /\ ~ExCancelled(o) /\ ex'[o].st = "cancelled" => ex[o].st = "cancelled"
  <1>0. wire \in Seq(Messages) /\ ex \in [Orders -> Books] /\ Len(wire) \in Nat
    BY DEF Shape, TypeOK
  <1>1. ASSUME ExFill(o) PROVE FillOnWire(o)'
    <2>1. PICK qty \in 1 .. order[o].amt - ex[o].done :
             /\ ex'[o].done = ex[o].done + qty
             /\ \/ wire' = Append(wire, Message(o, "fill", ex[o].done + qty))
                \/ wire' = wire \o <<Message(o, "fill", ex[o].done + qty),
                                     Message(o, "done", ex[o].done + qty)>>
      BY <1>0, <1>1, FillInBooks
    <2>2. ex[o].done \in Nat /\ qty \in Int /\ ex[o].done + qty \in Nat
      BY <1>0 DEF Books
    <2> DEFINE m == Message(o, "fill", ex[o].done + qty)
               n == Message(o, "done", ex[o].done + qty)
    <2>3. /\ m \in Messages /\ n \in Messages
          /\ m.o = o /\ m.kind # "cancelled" /\ m.exec = ex'[o].done
      BY <2>1, <2>2 DEF Message, Messages
    <2>4. wire' = Append(wire, m) \/ wire' = wire \o <<m, n>>
      BY <2>1
    <2> HIDE DEF m, n
    <2>5. Len(wire) + 1 \in 1 .. Len(wire') /\ wire'[Len(wire) + 1] = m
      <3>1. CASE wire' = Append(wire, m)
        BY ONLY <1>0, <2>3, <3>1
      <3>2. CASE wire' = wire \o <<m, n>>
        <4>1. <<m, n>> \in Seq(Messages) /\ Len(<<m, n>>) = 2 /\ <<m, n>>[1] = m
          BY ONLY <2>3
        <4> QED
          BY ONLY <1>0, <3>2, <4>1
      <3> QED
        BY <2>4, <3>1, <3>2
    <2> QED
      BY <2>3, <2>5 DEF FillOnWire
  <1>2. ASSUME ExCancelled(o) PROVE CancelOnWire(o)'
    <2> DEFINE m == Message(o, "cancelled", ex[o].done)
    <2>1. wire' = Append(wire, m) /\ m.o = o /\ m.kind = "cancelled" /\ m \in Messages
      BY <1>0, <1>2 DEF ExCancelled, Message, Messages, Books
    <2> HIDE DEF m
    <2>2. Len(wire) + 1 \in 1 .. Len(wire') /\ wire'[Len(wire) + 1] = m
      BY ONLY <1>0, <2>1
    <2> QED
      BY <2>1, <2>2 DEF CancelOnWire
  <1>3. ASSUME NEW p \in Orders, ExFill(p), p # o PROVE ex'[o] = ex[o]
    BY <1>0, <1>3, FillInBooks
  <1>4. ASSUME NEW p \in Orders, ExCancelled(p)
        PROVE  ex'[o].done = ex[o].done /\ (p # o => ex'[o] = ex[o])
    BY <1>0, <1>4 DEF ExCancelled
  <1>5. CASE TradeOpens
    BY <1>0, <1>1, <1>2, <1>5 DEF TradeOpens
  <1>6. ~ExFill(o) => ex'[o].done = ex[o].done
    BY <1>3, <1>4, <1>5, BooksMove
  <1>7. ASSUME ~ExCancelled(o), ex'[o].st = "cancelled" PROVE ex[o].st = "cancelled"
    <2>1. ASSUME ExFill(o) PROVE FALSE
      <3>1. \E st \in {"done", "open"} : \E n : ex' = [ex EXCEPT ![o] = [st |-> st, done |-> n]]
        BY <1>0, <2>1, FillInBooks
      <3> QED
        BY <1>0, <1>7, <3>1
    <2> QED
      BY <1>3, <1>4, <1>5, <1>7, <2>1, BooksMove
  <1> QED
    BY <1>1, <1>2, <1>6, <1>7

(* A fill is on its way until it is credited.                              *)
LEMMA FillsNotLost ==
  ASSUME LedgerKept, CreditInv', [Next]_vars, MaxCleanups = 0,
         "lostMessage" \notin Enabled, ~panicked', NEW o \in Orders,
         credited[o] = ex[o].done \/ FillOnWire(o) \/ FillInHand(o)
  PROVE  credited'[o] = ex'[o].done \/ FillOnWire(o)' \/ FillInHand(o)'
  <1>0. /\ Shape /\ KnownBooks /\ wire \in Seq(Messages) /\ ws \in WsStates
        /\ credited[o] \in Nat /\ ex[o].done \in Nat /\ credited'[o] \in Nat
        /\ ex'[o].done \in Nat /\ credited'[o] <= ex'[o].done
        /\ credited[o] <= ex[o].done
    BY DEF LedgerKept, OverInv, Common, CreditInv, TypeOK, CreditedWithinExecuted, Books
  <1>1. CASE ExFill(o)
    BY <1>0, <1>1, NewsIsSent
  <1>2. CASE ~ExFill(o)
    <2>1. ex'[o].done = ex[o].done
      BY <1>0, <1>2, NewsIsSent
    <2>2. CASE ~ApplyFill
      <3>1. credited' = credited
        BY <2>2, StepsMove DEF Silently, OpenStep, CancelStep, ExFill, TradeAccepted,
           LoopUnchanged, ApplyCancel, history
      <3>2. CASE credited[o] = ex[o].done
        BY <2>1, <3>1, <3>2
      <3>3. CASE FillOnWire(o)
        <4>1. PICK i \in 1 .. Len(wire) :
                 wire[i].kind # "cancelled" /\ wire[i].o = o /\ wire[i].exec = ex[o].done
          BY <3>3 DEF FillOnWire
        <4>2. CASE \E j \in 1 .. Len(wire') : wire'[j] = wire[i]
          BY <2>1, <4>1, <4>2 DEF FillOnWire
        <4>3. CASE i = 1 /\ TakeFill
          BY <2>1, <4>1, <4>3, FillTaken DEF FillInHand
        <4>4. CASE i = 1 /\ ApplyCancel
          <5>1. Head(wire) = wire[1]
            BY <1>0, HeadType, <4>4 DEF ApplyCancel, NextIs
          <5> QED
            BY <4>1, <4>4, <5>1 DEF ApplyCancel, NextIs
        <4> QED
          BY <4>2, <4>3, <4>4, MessagesStay
      <3>4. CASE FillInHand(o)
        <4>1. CASE ws' = ws
          BY <2>1, <3>4, <4>1 DEF FillInHand
        <4>2. CASE ReadActive
          <5>1. active # None /\ ws' = [ws EXCEPT !.pc = "read", !.o = active]
            BY <4>2 DEF ReadActive
          <5>2. active = ws.o
            BY <4>2, <5>1 DEF ReadActive, LedgerKept, CreditInv, FilledIsCredited
          <5>3. ws'.pc = "read" /\ ws'.o = ws.o /\ ws'.exec = ws.exec
            BY <1>0, <5>1, <5>2 DEF WsStates
          <5> QED
            BY <2>1, <3>4, <5>3 DEF FillInHand
        <4>3. ~TakeFill
          BY <3>4 DEF FillInHand, TakeFill, NextIs
        <4> QED
          BY <2>2, <4>1, <4>2, <4>3, ReaderAlone
      <3> QED
        BY <3>2, <3>3, <3>4
    <2>3. CASE ApplyFill
      <3>1. wire' = wire /\ credited'[o] >= credited[o]
            /\ (ws.o = o => credited'[o] >= ws.exec)
        BY <2>3, FillLands DEF ApplyFill
      <3>2. CASE FillOnWire(o)
        BY <2>1, <3>1, <3>2 DEF FillOnWire
      <3>3. CASE FillInHand(o) \/ credited[o] = ex[o].done
        BY <1>0, <2>1, <3>1, <3>3 DEF FillInHand
      <3> QED
        BY <3>2, <3>3
    <2> QED
      BY <2>2, <2>3
  <1> QED
    BY <1>1, <1>2

(* The funds of a cancelled order are on their way until they are back.    *)
LEMMA RefundsNotLost ==
  ASSUME LedgerKept, ReleasedInv', [Next]_vars, MaxCleanups = 0,
         "lostMessage" \notin Enabled, "stop" \notin Enabled, NEW o \in Orders,
         refunded[o] = Released(o) \/ CancelOnWire(o)
  PROVE  refunded'[o] = Released(o)' \/ CancelOnWire(o)'
  <1>0. /\ Shape /\ KnownBooks /\ wire \in Seq(Messages) /\ refunded \in [Orders -> Int]
        /\ OnlyMessagesRefund /\ ex[o].done \in Int /\ order[o].amt \in Int
    BY DEF LedgerKept, OverInv, Common, CreditInv, TypeOK, Books, Terms
  <1>1. CASE ExCancelled(o)
    BY <1>0, <1>1, NewsIsSent
  <1>2. CASE ex'[o].st # "cancelled"
    BY <1>2 DEF ReleasedInv, Released
  <1>3. CASE ~ExCancelled(o) /\ ex'[o].st = "cancelled"
    <2>1. ex[o].st = "cancelled" /\ ex'[o] = ex[o]
      BY <1>0, <1>3, NewsIsSent, ClosedStays
    <2>2. o <= placed
      BY <2>1, OrdersAssumption DEF LedgerKept, CreditInv, KnownOrders, KnownBooks,
         TypeOK, Orders
    <2>3. order'[o] = order[o]
      BY <1>0, <2>2, TermsStay
    <2>4. Released(o)' = Released(o) /\ Released(o) = order[o].amt - ex[o].done
      BY <2>1, <2>3 DEF Released
    <2>5. MessageRefunds /\ wire[1].o = o => refunded'[o] = Released(o)
      <3> SUFFICES ASSUME MessageRefunds, wire[1].o = o PROVE refunded'[o] = Released(o)
        OBVIOUS
      <3>1. 1 \in 1 .. Len(wire)
        BY <1>0, HeadType DEF MessageRefunds
      <3>2. wire[1].exec = ex[o].done /\ refunded[o] = 0
        BY <3>1 DEF MessageRefunds, LedgerKept, ReleasedInv
      <3>3. refunded'[o] = refunded[o] + UnfilledQty(wire[1])
        BY <1>0 DEF MessageRefunds
      <3>4. UnfilledQty(wire[1]) = order[o].amt - ex[o].done
        BY <3>2 DEF UnfilledQty
      <3> QED
        BY <1>0, <2>4, <3>2, <3>3, <3>4
    <2>6. refunded'[o] = refunded[o] \/ (MessageRefunds /\ wire[1].o = o)
      <3>1. refunded' = refunded \/ MessageRefunds
        BY <1>0, OnlyMessagesNext
      <3> QED
        BY <1>0, <3>1 DEF MessageRefunds
    <2>7. CASE refunded[o] = Released(o)
      BY <2>4, <2>5, <2>6, <2>7
    <2>8. CASE CancelOnWire(o)
      <3>1. PICK i \in 1 .. Len(wire) : wire[i].kind = "cancelled" /\ wire[i].o = o
        BY <2>8 DEF CancelOnWire
      <3>2. CASE \E j \in 1 .. Len(wire') : wire'[j] = wire[i]
        BY <3>1, <3>2 DEF CancelOnWire
      <3>3. CASE i = 1 /\ TakeFill
        <4>1. Head(wire) = wire[1]
          BY <1>0, HeadType, <3>3 DEF TakeFill, NextIs
        <4> QED
          BY <3>1, <3>3, <4>1 DEF TakeFill, NextIs
      <3>4. CASE i = 1 /\ ApplyCancel
        <4>1. wire # <<>> /\ Head(wire) = wire[1] /\ LockFree /\ UNCHANGED <<ex, order>>
              /\ wire' = Tail(wire)
          BY <1>0, HeadType, <3>4 DEF ApplyCancel, NextIs, WsUnchanged
        <4>2. rec[o].st # "none"
          BY <2>2, <4>1 DEF LockFree, LedgerKept, CreditInv, KnownOrders
        <4>3. MessageRefunds
          BY <3>1, <3>4, <4>1, <4>2 DEF ApplyCancel, FoundInRedis, MessageRefunds
        <4> QED
          BY <2>4, <2>5, <3>1, <3>4, <4>3
      <3> QED
        BY <3>2, <3>3, <3>4, MessagesStay
    <2> QED
      BY <2>7, <2>8
  <1> QED
    BY <1>1, <1>2, <1>3

LEMMA NothingLostNext ==
  ASSUME LedgerKept, LedgerKept', NothingLost, [Next]_vars, MaxCleanups = 0,
         {"stop", "lostMessage"} \cap Enabled = {}
  PROVE  NothingLost'
  <1>0. "stop" \notin Enabled /\ "lostMessage" \notin Enabled
    OBVIOUS
  <1>1. CASE panicked'
    BY <1>1 DEF NothingLost
  <1>2. CASE ~panicked'
    <2>1. ~panicked
      BY <1>2 DEF Next, vars
    <2>2. ASSUME NEW o \in Orders
          PROVE  /\ credited'[o] = ex'[o].done \/ FillOnWire(o)' \/ FillInHand(o)'
                 /\ refunded'[o] = Released(o)' \/ CancelOnWire(o)'
      BY <1>0, <1>2, <2>1, FillsNotLost, RefundsNotLost DEF NothingLost, LedgerKept
    <2> QED
      BY <2>2 DEF NothingLost
  <1> QED
    BY <1>1, <1>2

(* When nothing is under way nothing is lost: what is not settled would    *)
(* still be on the wire or in the reader's hands.                          *)
LEMMA NothingLostSettles == LedgerKept /\ NothingLost => SettledWhenQuiet
  <1> SUFFICES ASSUME LedgerKept, NothingLost, Quiet, NEW o \in Orders
               PROVE  credited[o] = ex[o].done /\ refunded[o] = Released(o)
    BY DEF SettledWhenQuiet
  <1>1. Len(wire) = 0
    BY DEF Quiet
  <1>2. ~FillOnWire(o) /\ ~CancelOnWire(o)
    BY <1>1 DEF FillOnWire, CancelOnWire
  <1>3. ~FillInHand(o)
    BY DEF FillInHand, Quiet
  <1> QED
    BY <1>2, <1>3 DEF NothingLost, Quiet

(* The bot's accounts are in order: when nothing is under way, the balance *)
(* has received exactly what the exchange executed and got back exactly    *)
(* what it released, and whenever the bot may decide to trade it claims no *)
(* more than the exchange holds.                                           *)
THEOREM AccountsInOrder ==
  ASSUME MaxCleanups = 0,
         {"stop", "critical", "lostTradeReply", "lostMessage"} \cap Enabled = {}
  PROVE  Spec => []Accounts
  <1> DEFINE Inv == LedgerKept /\ NothingLost
  <1>1. Init => Inv
    <2>1. Init => NothingLost
      BY DEF Init, NothingLost, Released
    <2> QED
      BY <2>1, InitKept
  <1>2. Inv /\ [Next]_vars => Inv'
    <2> SUFFICES ASSUME Inv, [Next]_vars PROVE Inv'
      OBVIOUS
    <2>1. LedgerKept'
      BY KeptNext
    <2> QED
      BY <2>1, NothingLostNext
  <1>3. Inv => Accounts
    BY NothingLostSettles, KeptCovers DEF Accounts
  <1> HIDE DEF Inv
  <1> QED
    BY <1>1, <1>2, <1>3, PTL DEF Spec
=============================================================================
