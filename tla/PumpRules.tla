------------------------------ MODULE PumpRules ------------------------------
(***************************************************************************)
(* How a pump-hunter bot decides (pump_hunter_service.go): which signals   *)
(* become positions, what becomes of a pending one, and when an open one   *)
(* is sold.  PumpHunter models the orders these decisions lead to.         *)
(*                                                                         *)
(* Market data calls HandleCoinUpdate, which buffers signals; runBot takes *)
(* the buffer once a second, watches pending orders and open positions     *)
(* every ten seconds, and checks an open position once a minute; the       *)
(* WebSocket reader books fills.  A coin is shared by all of them: its     *)
(* quote may change between any two steps.  Time passes in ticks.          *)
(***************************************************************************)
EXTENDS Integers, FiniteSets

CONSTANTS
    Pairs,
    Settings,        \* what a bot may meet: its target profit and, for each
                     \* pair, the quotes [price, score] the pair can have
    MinScore,        \* EntryRules.MinPumpScore
    DropThreshold,   \* ExitRules.PumpScoreDropThreshold
    StopLossPercent, TrailingStopPercent,
    MaxHold,         \* MaxHoldMinutes, in ticks
    MaxConcurrent,   \* RiskManagement.MaxConcurrentPositions
    LossLimit,       \* RiskManagement.DailyLossLimitIDR
    Cooldown,        \* RiskManagement.CooldownAfterLossMinutes, in ticks
    Minute, Day,     \* in ticks
    MaxTrades,       \* bound: positions opened
    MaxRefusals      \* bound: sell orders refused

ASSUME RulesAssumption ==
    /\ \A set \in Settings :
         /\ set.target \in Nat
         /\ \A c \in Pairs : set.quotes[c] \subseteq [price : Nat \ {0}, score : Int]
    /\ {MinScore, DropThreshold} \subseteq Int
    /\ {StopLossPercent, TrailingStopPercent, LossLimit} \subseteq Nat \ {0}
    /\ {MaxConcurrent, Minute, MaxHold, Cooldown} \subseteq Nat \ {0}
    /\ Day \in Nat /\ Day >= Cooldown
    /\ MaxTrades \in Nat /\ MaxRefusals \in Nat

VARIABLES
    setting,
    quote,       \* the shared model.Coin of each pair
    buffer,      \* inst.SignalBuffer: pair -> score, or NoScore
    batch,       \* the signals processSignals has still to look at
    opening,     \* the pair between checkEntryConditions and openPosition
    pos,         \* the position of each pair
    profit,      \* Config.TotalProfitIDR
    dailyLoss,   \* inst.DailyLoss
    sinceLoss,   \* ticks since inst.LastLossTime, Never if unset
    running,     \* runBot has not returned
    stopping,    \* StopBot was started for the total loss
    trades, refusals,
    verdicts,    \* history: reasons of the last two minute checks
    belowFor,    \* history: minute checks since the price was seen at the ATH
    asked,       \* history: a sale of the position was tried
    openedLate   \* history: positions opened since the last loss although
                 \* the rules forbade it at that moment

decisions == <<buffer, batch, opening>>
risk == <<profit, dailyLoss, sinceLoss, running, stopping>>
bounds == <<trades, refusals>>
history == <<verdicts, belowFor, asked>>
vars == <<setting, quote, decisions, pos, risk, bounds, history, openedLate>>

target == setting.target     \* ExitRules.TargetProfitPercent
Quotes(c) == setting.quotes[c]

None == "none"
Reasons == {"stop_loss", "max_hold_time", "take_profit", "trailing_stop",
            "pump_score_drop", "ath_decline"}
Never == Day + 1
NoScore == MinScore - 1     \* buffered scores are not below MinScore
NoPosition == [st |-> None, entry |-> 0, high |-> 0, below |-> 0, reason |-> None,
               count |-> 0, sinceCheck |-> 0, held |-> 0]

(* What was tracked for a position is not read again once it is selling.   *)
Selling(p) == [NoPosition EXCEPT !.st = "selling", !.entry = p.entry]

Init ==
    /\ setting \in Settings
    /\ quote \in [Pairs -> UNION {Quotes(c) : c \in Pairs}]
    /\ \A c \in Pairs : quote[c] \in Quotes(c)
    /\ buffer = [c \in Pairs |-> NoScore]
    /\ batch = {} /\ opening = None
    /\ pos = [c \in Pairs |-> NoPosition]
    /\ profit = 0 /\ dailyLoss = 0 /\ sinceLoss = Never
    /\ running = TRUE /\ stopping = FALSE
    /\ trades = 0 /\ refusals = 0
    /\ verdicts = [c \in Pairs |-> <<None, None>>]
    /\ belowFor = [c \in Pairs |-> 0]
    /\ asked = [c \in Pairs |-> FALSE]
    /\ openedLate = 0

SmallerOf(a, b) == IF a < b THEN a ELSE b
LargerOf(a, b) == IF a < b THEN b ELSE a

Aged(p) ==
    IF p.st \in {"pending", "open"}
    THEN [p EXCEPT !.sinceCheck = SmallerOf(@ + 1, Minute),
                   !.held = SmallerOf(@ + 1, MaxHold + 1)]
    ELSE p
Tick ==
    /\ sinceLoss' = SmallerOf(sinceLoss + 1, Never)
    /\ pos' = [c \in Pairs |-> Aged(pos[c])]
    /\ UNCHANGED <<setting, quote, decisions, profit, dailyLoss, running, stopping,
                   bounds, history, openedLate>>

-----------------------------------------------------------------------------
(* Entries.                                                                *)

LossLimitReached == profit <= -LossLimit
DailyLimitReached == dailyLoss >= LossLimit
NewDay == sinceLoss > Day
Cooling == sinceLoss < Cooldown
Active == {c \in Pairs : pos[c].st \in {"pending", "open"}}

(* checkEntryConditions, the market's side of it included in the score     *)
MayEnter(c, q) ==
    /\ ~LossLimitReached
    /\ DailyLimitReached => NewDay
    /\ Cardinality(Active) < MaxConcurrent
    /\ ~Cooling
    /\ pos[c].st = None
    /\ q.score >= MinScore

(* Mutant: the loss is never reset.                                        *)
CheckRiskOnly ==
    /\ stopping' = (stopping \/ LossLimitReached)
    /\ dailyLoss' = dailyLoss

(* ... and what it writes: the total loss stops the bot, a new day forgets *)
(* the daily loss.                                                         *)
CheckRisk ==
    /\ stopping' = (stopping \/ LossLimitReached)
    /\ dailyLoss' = IF ~LossLimitReached /\ DailyLimitReached /\ NewDay
                    THEN 0 ELSE dailyLoss

(* HandleCoinUpdate: a quote arrives; the signal with the higher score     *)
(* stays in the buffer.                                                    *)
HandleCoinUpdate(c, q) ==
    /\ q \in Quotes(c)
    /\ quote' = [quote EXCEPT ![c] = q]
    /\ IF running /\ ~Cooling
       THEN /\ CheckRisk
            /\ buffer' = IF ~MayEnter(c, q) THEN buffer
                         ELSE [buffer EXCEPT ![c] = LargerOf(@, q.score)]
       ELSE UNCHANGED <<buffer, dailyLoss, stopping>>
    /\ UNCHANGED <<setting, batch, opening, pos, profit, sinceLoss, running,
                   bounds, history, openedLate>>

(* processSignals takes the buffer ...                                     *)
RunBotFree == running /\ batch = {} /\ opening = None
TakeSignals ==
    /\ RunBotFree
    /\ batch' = {[pair |-> c, score |-> buffer[c]] :
                    c \in {d \in Pairs : buffer[d] # NoScore}}
    /\ batch' # {}
    /\ buffer' = [c \in Pairs |-> NoScore]
    /\ UNCHANGED <<setting, quote, opening, pos, risk, bounds, history, openedLate>>

(* ... and checks the signals again, by falling score ...                  *)
CheckSignal ==
    /\ opening = None
    /\ \E s \in batch :
         /\ \A t \in batch : t.score <= s.score
         /\ batch' = batch \ {s}
         /\ opening' = IF MayEnter(s.pair, quote[s.pair]) THEN s.pair ELSE None
    /\ CheckRisk
    /\ UNCHANGED <<setting, quote, buffer, pos, profit, sinceLoss, running, bounds,
                   history, openedLate>>

(* ... before it opens a position, under inst.mu.  openPosition counts the *)
(* positions and looks for the pair again, for nothing else.               *)
Forbidden == Cooling \/ LossLimitReached \/ (DailyLimitReached /\ ~NewDay)
OpenPosition ==
    LET c == opening IN
    /\ c # None
    /\ opening' = None
    /\ IF pos[c].st = None /\ Cardinality(Active) < MaxConcurrent /\ trades < MaxTrades
       THEN /\ pos' = [pos EXCEPT ![c] = [NoPosition EXCEPT !.st = "pending",
                                                        !.entry = quote[c].price]]
            /\ trades' = trades + 1
            /\ openedLate' = IF Forbidden THEN openedLate + 1 ELSE openedLate
       ELSE UNCHANGED <<pos, trades, openedLate>>
    /\ UNCHANGED <<setting, quote, buffer, batch, risk, refusals, history>>

-----------------------------------------------------------------------------
(* Pending positions: monitorPendingOrders, not within ten seconds of the  *)
(* order.                                                                  *)

Due(c) == RunBotFree /\ pos[c].st = "pending" /\ pos[c].sinceCheck > 0

FalsePump(c) ==
    /\ Due(c) /\ quote[c].score < MinScore
    /\ pos' = [pos EXCEPT ![c] = NoPosition]
    /\ UNCHANGED <<setting, quote, decisions, risk, bounds, history, openedLate>>

Reposition(c) ==
    /\ Due(c) /\ quote[c].score >= MinScore /\ quote[c].price # pos[c].entry
    /\ pos' = [pos EXCEPT ![c].entry = quote[c].price, ![c].sinceCheck = 0]
    /\ UNCHANGED <<setting, quote, decisions, risk, bounds, history, openedLate>>

(* handleOrderFilled, a buy order: the tracking starts at the price of the *)
(* fill.  With a target above one percent a limit sell order follows,      *)
(* unless it is refused.                                                   *)
BuyFilled(c) ==
    /\ pos[c].st = "pending"
    /\ \/ pos' = [pos EXCEPT ![c].st = "open", ![c].high = pos[c].entry,
                               ![c].sinceCheck = 0, ![c].below = 0]
       \/ target > 1 /\ pos' = [pos EXCEPT ![c] = Selling(pos[c])]
    /\ UNCHANGED <<setting, quote, decisions, risk, bounds, history, openedLate>>

(* finalizePositionClose: profit and loss are booked, a loss starts the    *)
(* cooldown.                                                               *)
SellFilled(c) ==
    LET gain == quote[c].price - pos[c].entry IN
    /\ pos[c].st = "selling"
    /\ pos' = [pos EXCEPT ![c] = NoPosition]
    /\ profit' = profit + gain
    /\ IF gain > 0 THEN UNCHANGED <<dailyLoss, sinceLoss, openedLate>>
       ELSE dailyLoss' = dailyLoss - gain /\ sinceLoss' = 0 /\ openedLate' = 0
    /\ stopping' = (stopping \/ profit' <= -LossLimit)
    /\ verdicts' = [verdicts EXCEPT ![c] = <<None, None>>]
    /\ belowFor' = [belowFor EXCEPT ![c] = 0]
    /\ asked' = [asked EXCEPT ![c] = FALSE]
    /\ UNCHANGED <<setting, quote, decisions, running, bounds>>

(* The five-second ticker of runBot, and the StopBot others have started.  *)
MaxLossCheck ==
    /\ RunBotFree /\ LossLimitReached
    /\ running' = FALSE
    /\ UNCHANGED <<setting, quote, decisions, pos, profit, dailyLoss, sinceLoss,
                   stopping, bounds, history, openedLate>>
StopBot ==
    /\ stopping /\ running
    /\ running' = FALSE
    /\ UNCHANGED <<setting, quote, decisions, pos, profit, dailyLoss, sinceLoss,
                   stopping, bounds, history, openedLate>>

-----------------------------------------------------------------------------
(* Exits: monitorExits and checkExitConditions.                            *)

StopHit(c) == (quote[c].price - pos[c].entry) * 100 <= -StopLossPercent * pos[c].entry
TargetHit(c) == (quote[c].price - pos[c].entry) * 100 >= target * pos[c].entry
Dropped(c, high) == (high - quote[c].price) * 100 >= TrailingStopPercent * high

(* The reason found by a minute check, by priority; high is the ATH after  *)
(* this quote.                                                             *)
Reason(c, high) ==
    CASE StopHit(c) -> "stop_loss"
      [] ~StopHit(c) /\ pos[c].held > MaxHold -> "max_hold_time"
      [] OTHER ->
           IF target > 1 /\ TargetHit(c) THEN "take_profit"
           ELSE IF high > pos[c].entry /\ Dropped(c, high) THEN "trailing_stop"
           ELSE IF quote[c].score < DropThreshold THEN "pump_score_drop"
           ELSE None

(* Mutant: a new high does not reset the minutes.                          *)
NotReset(c) == [pos[c] EXCEPT !.high = LargerOf(@, quote[c].price)]

(* The position with its ATH tracking brought up to the quote.             *)
Tracked(c) ==
    [pos[c] EXCEPT !.high = LargerOf(@, quote[c].price),
                   !.below = IF quote[c].price >= pos[c].high THEN 0 ELSE @]

(* checkATHDecline counts a minute below the ATH.                          *)
CountBelow(p, c) == [p EXCEPT !.below = IF quote[c].price < p.high THEN @ + 1 ELSE 0]

(* Mutant: any reason confirms the last.                                   *)
ConfirmAny(p, reason) ==
    IF reason = None THEN [p EXCEPT !.reason = None, !.count = 0]
    ELSE [p EXCEPT !.reason = reason, !.count = SmallerOf(@ + 1, 2)]

(* Mutant: every check starts the count again.                             *)
ConfirmRestarts(p, reason) ==
    IF reason = None THEN [p EXCEPT !.reason = None, !.count = 0]
    ELSE [p EXCEPT !.reason = reason, !.count = 1]

(* A reason must be found by two checks in a row.                          *)
Confirm(p, reason) ==
    CASE reason = None -> [p EXCEPT !.reason = None, !.count = 0]
      [] reason # None /\ p.reason # reason -> [p EXCEPT !.reason = reason, !.count = 1]
      [] reason # None /\ p.reason = reason -> [p EXCEPT !.count = SmallerOf(@ + 1, 2)]

(* closePosition: the market order is taken, or refused.                   *)
Close(c, p) ==
    /\ asked' = [asked EXCEPT ![c] = TRUE]
    /\ \/ /\ pos' = [pos EXCEPT ![c] = Selling(p)]
          /\ refusals' = refusals
       \/ /\ refusals < MaxRefusals
          /\ refusals' = refusals + 1
          /\ pos' = [pos EXCEPT ![c] = p]
Keep(c, p) == pos' = [pos EXCEPT ![c] = p] /\ UNCHANGED <<asked, refusals>>

Seen(c, n) == belowFor' = [belowFor EXCEPT
                 ![c] = IF quote[c].price >= pos[c].high THEN 0 ELSE SmallerOf(@ + n, 2)]

(* Within a minute of the last check only a confirmed reason counts.       *)
MonitorBetween(c) ==
    LET p == Tracked(c) IN
    /\ RunBotFree /\ pos[c].st = "open" /\ pos[c].sinceCheck < Minute
    /\ IF p.count >= 2 THEN Close(c, p) ELSE Keep(c, p)
    /\ Seen(c, 0)
    /\ UNCHANGED <<setting, quote, decisions, risk, trades, verdicts, openedLate>>

MonitorMinute(c) ==
    LET p == [Tracked(c) EXCEPT !.sinceCheck = 0]
        reason == Reason(c, p.high)
        counted == IF reason = None /\ target = 1 THEN CountBelow(p, c) ELSE p
        decline == reason = None /\ target = 1 /\ counted.below >= 2
        confirmed == IF decline THEN counted ELSE Confirm(counted, reason)
    IN  /\ RunBotFree /\ pos[c].st = "open" /\ pos[c].sinceCheck = Minute
        /\ verdicts' = [verdicts EXCEPT
              ![c] = <<@[2], IF decline THEN "ath_decline" ELSE reason>>]
        /\ IF decline \/ (reason # None /\ confirmed.count >= 2)
           THEN Close(c, [confirmed EXCEPT !.below = SmallerOf(@, 2)])
           ELSE Keep(c, confirmed)
        /\ Seen(c, 1)
        /\ UNCHANGED <<setting, quote, decisions, risk, trades, openedLate>>

-----------------------------------------------------------------------------
Monitor(c) == MonitorBetween(c) \/ MonitorMinute(c)
LoopStep == CheckSignal \/ OpenPosition
Next ==
    \/ Tick \/ TakeSignals \/ LoopStep \/ MaxLossCheck \/ StopBot
    \/ \E c \in Pairs :
         \/ \E q \in Quotes(c) : HandleCoinUpdate(c, q)
         \/ FalsePump(c) \/ Reposition(c) \/ Monitor(c)
         \/ BuyFilled(c) \/ SellFilled(c)

Spec == Init /\ [][Next]_vars

(* Time passes, runBot goes on, its select serves every ticker now and     *)
(* then, StopBot gets its locks, and quotes keep coming, the same or not.  *)
Fairness ==
    /\ WF_vars(Tick) /\ WF_vars(LoopStep) /\ WF_vars(StopBot)
    /\ \A c \in Pairs : SF_vars(Monitor(c))
    /\ \A c \in Pairs : WF_vars(HandleCoinUpdate(c, quote[c]))
FairSpec == Spec /\ Fairness

-----------------------------------------------------------------------------
(* Properties.                                                             *)

(* Types and ranges of the counters; and never too many positions, though  *)
(* signals are checked long before their positions are opened.             *)
TypeOK ==
    /\ \A c \in Pairs :
         /\ pos[c].st \in {None, "pending", "open", "selling"}
         /\ pos[c].reason \in Reasons \cup {None}
         /\ pos[c].count \in 0 .. 2 /\ pos[c].below \in 0 .. 2
         /\ pos[c].count > 0 => pos[c].reason # None
         /\ pos[c].st = "open" => pos[c].high >= pos[c].entry
    /\ Cardinality({c \in Pairs : pos[c].st \in {"pending", "open"}}) <= MaxConcurrent
    /\ dailyLoss \in Nat

(* A position is first sold only if two minute checks in a row found the   *)
(* same reason, or an ATH decline ("2-minute confirmation logic"), however *)
(* reasons come, go and replace each other between the checks.             *)
ConfirmedTwice ==
    [][\A c \in Pairs : asked'[c] /\ ~asked[c] =>
          \/ verdicts'[c][1] = verdicts'[c][2] /\ verdicts'[c][2] # None
          \/ verdicts'[c][2] = "ath_decline"]_vars

(* MinutesBelowATH counts only minutes since the price was last seen at    *)
(* its high, although other exit reasons skip checkATHDecline and the      *)
(* ten-second monitor sees prices the minute check does not.               *)
BelowMeansBelow == \A c \in Pairs : pos[c].st = "open" => pos[c].below <= belowFor[c]

(* After a loss the rules can be overtaken once: by the position whose     *)
(* check had passed before the loss was booked.  openPosition does not     *)
(* look at cooldown and loss limits again.                                 *)
OvertakenOnce == openedLate <= 1

(* A position whose price stays below the stop loss is sold in the end,    *)
(* whatever other signals the bot handles, unless the bot stops.           *)
Losing(c) == running /\ pos[c].st = "open" /\ StopHit(c)
StopLossActs == \A c \in Pairs : []<>~Losing(c)

(* The daily limit does not block a bot for good: a day after the last     *)
(* loss entries are allowed again, unless the total loss stops the bot.    *)
DailyLossEnds == []<>(DailyLimitReached => ~running)

(* The counters of the exit rules, and entries after a loss.               *)
RulesInv == TypeOK /\ BelowMeansBelow /\ OvertakenOnce
=============================================================================
