-------------------------- MODULE PumpRules_proofs --------------------------
(***************************************************************************)
(* Proofs about PumpRules, for any pairs, settings, thresholds and bounds: *)
(* the counters of the exit rules mean what they say, a sale needs two     *)
(* agreeing checks, and the entry rules are overtaken at most once after a *)
(* loss.                                                                   *)
(***************************************************************************)
EXTENDS PumpRules, FiniteSetTheorems, TLAPS

Verdict == Reasons \cup {None, "ath_decline"}
Quote == [price : Nat \ {0}, score : Int]
Position == [st : {None, "pending", "open", "selling"}, entry : Nat, high : Nat,
             below : 0 .. 2, reason : Reasons \cup {None}, count : 0 .. 2,
             sinceCheck : 0 .. Minute, held : Nat]

-----------------------------------------------------------------------------
(* The inductive invariant.                                                *)

Types ==
    /\ setting \in Settings
    /\ quote \in [Pairs -> Quote]
    /\ pos \in [Pairs -> Position]
    /\ profit \in Int /\ dailyLoss \in Nat /\ sinceLoss \in 0 .. Never
    /\ opening \in Pairs \cup {None}
    /\ batch \subseteq [pair : Pairs, score : Int]
    /\ buffer \in [Pairs -> Int]
    /\ verdicts \in [Pairs -> Verdict \X Verdict]
    /\ belowFor \in [Pairs -> 0 .. 2]
    /\ asked \in [Pairs -> BOOLEAN]

(* What a position's counters say when it is open.                         *)
Counters ==
    \A c \in Pairs :
       /\ pos[c].count > 0 => pos[c].reason # None
       /\ pos[c].st = "open" => pos[c].high >= pos[c].entry

NotTooMany == IsFiniteSet(Active) /\ Cardinality(Active) <= MaxConcurrent

(* The reason a position carries is that of the last minute check, and it  *)
(* is carried twice only after a sale was tried.                           *)
CarriesLast ==
    \A c \in Pairs : ~asked[c] =>
       /\ pos[c].count < 2
       /\ pos[c].count = 1 => verdicts[c][2] = pos[c].reason

(* Whoever is about to open a position was allowed to since the last loss, *)
(* or nothing was opened against the rules since.                          *)
AllowedOrFirst ==
    /\ openedLate \in 0 .. 1
    /\ opening # None /\ Forbidden => openedLate = 0

RulesIInv ==
    Types /\ Counters /\ NotTooMany /\ BelowMeansBelow /\ CarriesLast /\ AllowedOrFirst

LEMMA InvImplies ==
  ASSUME RulesIInv
  PROVE  RulesInv
  <1>1. TypeOK
    BY DEF RulesIInv, TypeOK, Types, Counters, NotTooMany, Active, Position
  <1> QED
    BY <1>1 DEF RulesIInv, RulesInv, AllowedOrFirst, OvertakenOnce

LEMMA InitInv ==
  ASSUME Init
  PROVE  RulesIInv
  <1> USE RulesAssumption
  <1>1. Types
    <2>1. quote \in [Pairs -> Quote]
      BY DEF Init, Quotes, Quote
    <2>2. pos \in [Pairs -> Position]
      BY DEF Init, Position, NoPosition
    <2> QED
      BY <2>1, <2>2 DEF Init, Types, Never, NoScore, Verdict
  <1>2. Counters
    BY DEF Init, Counters, NoPosition
  <1>3. NotTooMany
    <2>1. Active = {}
      BY DEF Init, Active, NoPosition, None
    <2> QED
      BY <2>1, FS_EmptySet DEF NotTooMany
  <1>4. BelowMeansBelow /\ CarriesLast /\ AllowedOrFirst
    BY DEF Init, BelowMeansBelow, CarriesLast, AllowedOrFirst, NoPosition, None
  <1> QED
    BY <1>1, <1>2, <1>3, <1>4 DEF RulesIInv

-----------------------------------------------------------------------------
(* What the operators return.                                              *)

(* A set of positions that shrinks stays within the limit.                 *)
LEMMA FewerActive ==
  ASSUME NotTooMany, Active' \subseteq Active, RulesIInv
  PROVE  NotTooMany'
  <1>1. IsFiniteSet(Active') /\ Cardinality(Active') <= Cardinality(Active)
    BY FS_Subset DEF NotTooMany
  <1>2. Cardinality(Active) \in Nat /\ Cardinality(Active') \in Nat
    BY <1>1, FS_CardinalityType DEF NotTooMany
  <1> QED
    BY <1>1, <1>2, RulesAssumption DEF NotTooMany

LEMMA ReasonType ==
  ASSUME NEW c \in Pairs, NEW high \in Nat
  PROVE  Reason(c, high) \in Reasons \cup {None}
  BY DEF Reason, Reasons

(* Positions that are made from others.                                    *)
LEMMA NoPositionType ==
  NoPosition \in Position /\ NoPosition.st = None /\ NoPosition.count = 0
  BY RulesAssumption DEF NoPosition, Position

LEMMA SellingType ==
  ASSUME NEW p \in Position
  PROVE  /\ Selling(p) \in Position
         /\ Selling(p).st = "selling" /\ Selling(p).count = 0
  <1>1. p.entry \in Nat
    BY DEF Position
  <1> QED
    BY <1>1, NoPositionType DEF Selling, Position

LEMMA AgedType ==
  ASSUME NEW p \in Position
  PROVE  /\ Aged(p) \in Position /\ Aged(p).st = p.st
         /\ Aged(p).below = p.below /\ Aged(p).count = p.count
         /\ Aged(p).reason = p.reason
         /\ Aged(p).high = p.high /\ Aged(p).entry = p.entry
  <1>1. Minute \in Nat /\ MaxHold \in Nat
    BY RulesAssumption
  <1>2. /\ SmallerOf(p.sinceCheck + 1, Minute) \in 0 .. Minute
        /\ SmallerOf(p.held + 1, MaxHold + 1) \in Nat
    BY <1>1 DEF Position, SmallerOf
  <1> QED
    BY <1>2 DEF Aged, Position

(* Time, signals and entry checks leave positions alone; what they change  *)
(* of the risk is that a new day forgets the daily loss.                   *)
LEMMA CheckRiskForgets ==
  ASSUME RulesIInv, CheckRisk
  PROVE  dailyLoss' = dailyLoss \/ dailyLoss' = 0
  BY DEF CheckRisk

LEMMA TickInv ==
  ASSUME RulesIInv, Tick
  PROVE  RulesIInv'
  <1> USE RulesAssumption
  <1>1. \A c \in Pairs :
           /\ pos'[c] = Aged(pos[c]) /\ pos'[c] \in Position
           /\ pos'[c].st = pos[c].st /\ pos'[c].below = pos[c].below
           /\ pos'[c].count = pos[c].count /\ pos'[c].reason = pos[c].reason
           /\ pos'[c].high = pos[c].high /\ pos'[c].entry = pos[c].entry
    <2>1. \A c \in Pairs : pos[c] \in Position /\ pos'[c] = Aged(pos[c])
      BY DEF RulesIInv, Types, Tick
    <2> QED
      BY <2>1, AgedType
  <1>2. Types'
    <2>1. pos' \in [Pairs -> Position]
      BY <1>1 DEF Tick
    <2> QED
      BY <2>1 DEF RulesIInv, Types, Tick, decisions, history, bounds, SmallerOf, Never
  <1>3. Counters' /\ BelowMeansBelow' /\ CarriesLast'
    BY <1>1 DEF RulesIInv, Tick, history, Counters, BelowMeansBelow, CarriesLast
  <1>4. NotTooMany'
    <2>1. Active' \subseteq Active
      BY <1>1 DEF Active
    <2> QED
      BY <2>1, FewerActive DEF RulesIInv
  <1>5. AllowedOrFirst'
    <2>1. Forbidden' => Forbidden
      BY DEF Tick, RulesIInv, Types, Forbidden, Cooling, LossLimitReached,
             DailyLimitReached, NewDay, SmallerOf, Never
    <2> QED
      BY <2>1 DEF RulesIInv, Tick, decisions, AllowedOrFirst
  <1> QED
    BY <1>2, <1>3, <1>4, <1>5 DEF RulesIInv

LEMMA HandleCoinUpdateInv ==
  ASSUME RulesIInv, NEW c \in Pairs, NEW q \in Quotes(c), HandleCoinUpdate(c, q)
  PROVE  RulesIInv'
  <1> USE RulesAssumption
  <1>1. q \in Quote
    BY DEF Quotes, RulesIInv, Types, Quote
  <1>2. dailyLoss' = dailyLoss \/ dailyLoss' = 0
    BY DEF HandleCoinUpdate, CheckRisk
  <1>3. buffer' \in [Pairs -> Int]
    BY <1>1 DEF HandleCoinUpdate, RulesIInv, Types, LargerOf, Quote
  <1>4. Types'
    <2>1. quote' \in [Pairs -> Quote]
      BY <1>1 DEF HandleCoinUpdate, RulesIInv, Types
    <2> QED
      BY <1>2, <1>3, <2>1 DEF HandleCoinUpdate, RulesIInv, Types, bounds, history
  <1>5. Counters' /\ BelowMeansBelow' /\ CarriesLast' /\ NotTooMany'
    BY DEF HandleCoinUpdate, RulesIInv, Counters, BelowMeansBelow, CarriesLast,
           NotTooMany, Active, history
  <1>6. AllowedOrFirst'
    BY <1>2 DEF HandleCoinUpdate, RulesIInv, AllowedOrFirst, Types, Forbidden, Cooling,
           LossLimitReached, DailyLimitReached, NewDay
  <1> QED
    BY <1>4, <1>5, <1>6 DEF RulesIInv

LEMMA TakeSignalsInv ==
  ASSUME RulesIInv, TakeSignals
  PROVE  RulesIInv'
  <1> USE RulesAssumption
  <1>1. Types'
    BY DEF TakeSignals, RulesIInv, Types, risk, bounds, history, NoScore
  <1>2. Counters' /\ BelowMeansBelow' /\ CarriesLast' /\ NotTooMany'
    BY DEF TakeSignals, RulesIInv, Counters, BelowMeansBelow, CarriesLast,
           NotTooMany, Active, history
  <1>3. AllowedOrFirst'
    BY DEF TakeSignals, RulesIInv, AllowedOrFirst, Forbidden, Cooling, risk,
           LossLimitReached, DailyLimitReached, NewDay
  <1> QED
    BY <1>1, <1>2, <1>3 DEF RulesIInv

LEMMA CheckSignalInv ==
  ASSUME RulesIInv, CheckSignal
  PROVE  RulesIInv'
  <1> USE RulesAssumption
  <1>1. PICK s \in batch :
           /\ batch' = batch \ {s}
           /\ opening' = IF MayEnter(s.pair, quote[s.pair]) THEN s.pair ELSE None
    BY DEF CheckSignal
  <1>2. s.pair \in Pairs
    BY DEF RulesIInv, Types
  <1>3. dailyLoss' = dailyLoss \/ dailyLoss' = 0
    BY DEF CheckSignal, CheckRisk
  <1>4. Types'
    BY <1>1, <1>2, <1>3 DEF CheckSignal, RulesIInv, Types, bounds, history
  <1>5. Counters' /\ BelowMeansBelow' /\ CarriesLast' /\ NotTooMany'
    BY DEF CheckSignal, RulesIInv, Counters, BelowMeansBelow, CarriesLast,
           NotTooMany, Active, history
  <1>6. AllowedOrFirst'
    <2>1. MayEnter(s.pair, quote[s.pair]) => ~Forbidden'
      BY <1>3 DEF MayEnter, CheckSignal, RulesIInv, Types, Forbidden, Cooling,
             LossLimitReached, DailyLimitReached, NewDay
    <2> QED
      BY <1>1, <2>1 DEF CheckSignal, RulesIInv, AllowedOrFirst
  <1> QED
    BY <1>4, <1>5, <1>6 DEF RulesIInv

LEMMA OpenPositionInv ==
  ASSUME RulesIInv, OpenPosition
  PROVE  RulesIInv'
  <1> USE RulesAssumption
  <1> DEFINE c == opening
  <1>1. c \in Pairs /\ opening' = None
    BY DEF OpenPosition, RulesIInv, Types
  <1>2. UNCHANGED <<setting, quote, buffer, batch, risk, refusals, history>>
    BY DEF OpenPosition
  <1>a. CASE UNCHANGED <<pos, openedLate>>
    <2>1. Types' /\ AllowedOrFirst'
      BY <1>1, <1>2, <1>a DEF RulesIInv, Types, risk, history, AllowedOrFirst
    <2>2. Counters' /\ BelowMeansBelow' /\ CarriesLast' /\ NotTooMany'
      BY <1>2, <1>a DEF RulesIInv, Counters, BelowMeansBelow, CarriesLast,
             NotTooMany, Active, history
    <2> QED
      BY <2>1, <2>2 DEF RulesIInv
  <1>b. CASE /\ pos[c].st = None /\ Cardinality(Active) < MaxConcurrent
             /\ pos' = [pos EXCEPT ![c] = [NoPosition EXCEPT !.st = "pending",
                                                  !.entry = quote[c].price]]
             /\ openedLate' = IF Forbidden THEN openedLate + 1 ELSE openedLate
    <2> DEFINE new == [NoPosition EXCEPT !.st = "pending", !.entry = quote[c].price]
    <2>1. new \in Position /\ new.count = 0 /\ new.st = "pending"
      <3>1. quote[c].price \in Nat
        BY <1>1 DEF RulesIInv, Types, Quote
      <3> QED
        BY <3>1, NoPositionType DEF Position
    <2>2. pos' = [pos EXCEPT ![c] = new]
      BY <1>b
    <2> HIDE DEF new
    <2>3. pos'[c] = new /\ \A d \in Pairs \ {c} : pos'[d] = pos[d]
      BY <2>2, <1>1 DEF RulesIInv, Types
    <2>4. Types'
      BY <1>1, <1>2, <2>1, <2>2 DEF RulesIInv, Types, risk, history
    <2>5. Counters' /\ BelowMeansBelow' /\ CarriesLast'
      BY <1>2, <2>1, <2>3 DEF RulesIInv, Types, Counters, BelowMeansBelow, CarriesLast,
             history
    <2>6. NotTooMany'
      <3>1. Active' = Active \cup {c}
        BY <2>1, <2>3, <1>1 DEF Active
      <3>2. c \notin Active
        BY <1>b DEF Active, None
      <3>3. IsFiniteSet(Active') /\ Cardinality(Active') = Cardinality(Active) + 1
        BY <3>1, <3>2, FS_AddElement DEF RulesIInv, NotTooMany
      <3>4. Cardinality(Active) \in Nat
        BY FS_CardinalityType DEF RulesIInv, NotTooMany
      <3> QED
        BY <3>3, <3>4, <1>b DEF NotTooMany
    <2>7. AllowedOrFirst'
      BY <1>1, <1>b DEF OpenPosition, RulesIInv, AllowedOrFirst
    <2> QED
      BY <2>4, <2>5, <2>6, <2>7 DEF RulesIInv
  <1> QED
    BY <1>a, <1>b DEF OpenPosition

-----------------------------------------------------------------------------
(* Steps that change one position and neither risk nor decisions.          *)

(* It is enough that the new position keeps what the invariant says of one *)
(* position, and does not become active.                                   *)
LEMMA OnePosition ==
  ASSUME RulesIInv, NEW c \in Pairs, NEW p \in Position,
         pos' = [pos EXCEPT ![c] = p],
         UNCHANGED <<setting, quote, decisions, risk, openedLate>>,
         verdicts' \in [Pairs -> Verdict \X Verdict],
         belowFor' \in [Pairs -> 0 .. 2],
         asked' \in [Pairs -> BOOLEAN],
         \A d \in Pairs \ {c} : /\ verdicts'[d] = verdicts[d]
                                /\ belowFor'[d] = belowFor[d] /\ asked'[d] = asked[d],
         p.st \in {"pending", "open"} => pos[c].st \in {"pending", "open"},
         p.count > 0 => p.reason # None,
         p.st = "open" => p.high >= p.entry /\ p.below <= belowFor'[c],
         ~asked'[c] => p.count < 2 /\ (p.count = 1 => verdicts'[c][2] = p.reason)
  PROVE  RulesIInv'
  <1>1. pos'[c] = p /\ \A d \in Pairs \ {c} : pos'[d] = pos[d]
    BY DEF RulesIInv, Types
  <1>2. Types'
    BY DEF RulesIInv, Types, decisions, risk
  <1>3. Counters' /\ BelowMeansBelow' /\ CarriesLast'
    <2>1. Counters'
      BY <1>1 DEF RulesIInv, Counters
    <2>2. BelowMeansBelow'
      BY <1>1 DEF RulesIInv, BelowMeansBelow
    <2>3. CarriesLast'
      BY <1>1 DEF RulesIInv, CarriesLast
    <2> QED
      BY <2>1, <2>2, <2>3
  <1>4. NotTooMany'
    <2>1. Active' \subseteq Active
      BY <1>1 DEF Active
    <2> QED
      BY <2>1, FewerActive DEF RulesIInv
  <1>5. AllowedOrFirst'
    BY DEF RulesIInv, decisions, risk, AllowedOrFirst, Forbidden, Cooling,
           LossLimitReached, DailyLimitReached, NewDay
  <1> QED
    BY <1>2, <1>3, <1>4, <1>5 DEF RulesIInv

(* The same when no check is made.                                         *)
LEMMA OneUnchecked ==
  ASSUME RulesIInv, NEW c \in Pairs, NEW p \in Position,
         pos' = [pos EXCEPT ![c] = p],
         UNCHANGED <<setting, quote, decisions, risk, openedLate, history>>,
         p.st \in {"pending", "open"} => pos[c].st \in {"pending", "open"},
         p.count \in {0, pos[c].count},
         p.count > 0 => p.reason = pos[c].reason,
         p.st = "open" => p.high >= p.entry /\ p.below = 0
  PROVE  RulesIInv'
  <1>1. /\ verdicts' \in [Pairs -> Verdict \X Verdict]
        /\ belowFor' \in [Pairs -> 0 .. 2]
        /\ asked' \in [Pairs -> BOOLEAN]
        /\ verdicts' = verdicts /\ belowFor' = belowFor /\ asked' = asked
    BY DEF RulesIInv, Types, history
  <1>2. belowFor'[c] >= 0
    BY <1>1
  <1>3. /\ p.count > 0 => p.reason # None
        /\ ~asked'[c] => p.count < 2 /\ (p.count = 1 => verdicts'[c][2] = p.reason)
    BY <1>1 DEF RulesIInv, Counters, CarriesLast
  <1>4. p.st = "open" => p.high >= p.entry /\ p.below <= belowFor'[c]
    BY <1>2
  <1>5. UNCHANGED <<setting, quote, decisions, risk, openedLate>>
    OBVIOUS
  <1> QED
    BY <1>1, <1>3, <1>4, <1>5, OnePosition

LEMMA FalsePumpInv ==
  ASSUME RulesIInv, NEW c \in Pairs, FalsePump(c)
  PROVE  RulesIInv'
  <1>1. /\ pos' = [pos EXCEPT ![c] = NoPosition]
        /\ UNCHANGED <<setting, quote, decisions, risk, openedLate, history>>
    BY DEF FalsePump
  <1> DEFINE p == NoPosition
  <1>2. p \in Position /\ p.count = 0 /\ p.st \notin {"pending", "open"}
    BY NoPositionType DEF None
  <1> HIDE DEF p
  <1>3. /\ p.st \in {"pending", "open"} => pos[c].st \in {"pending", "open"}
        /\ p.count \in {0, pos[c].count}
        /\ p.count > 0 => p.reason = pos[c].reason
        /\ p.st = "open" => p.high >= p.entry /\ p.below = 0
    BY <1>2
  <1>4. pos' = [pos EXCEPT ![c] = p]
    BY <1>1 DEF p
  <1> QED
    BY <1>1, <1>2, <1>3, <1>4, OneUnchecked

LEMMA RepositionInv ==
  ASSUME RulesIInv, NEW c \in Pairs, Reposition(c)
  PROVE  RulesIInv'
  <1> DEFINE p == [pos[c] EXCEPT !.entry = quote[c].price, !.sinceCheck = 0]
  <1>1. pos' = [pos EXCEPT ![c] = p]
    BY DEF Reposition, RulesIInv, Types, Position
  <1>2. p \in Position /\ p.st = "pending" /\ p.count = pos[c].count
        /\ p.reason = pos[c].reason /\ pos[c].st = "pending"
    <2>1. pos[c] \in Position /\ quote[c].price \in Nat /\ pos[c].st = "pending"
      BY DEF Reposition, Due, RulesIInv, Types, Quote
    <2>2. 0 \in 0 .. Minute
      BY RulesAssumption
    <2> QED
      BY <2>1, <2>2 DEF Position
  <1> HIDE DEF p
  <1>3. UNCHANGED <<setting, quote, decisions, risk, openedLate, history>>
    BY DEF Reposition
  <1> QED
    BY <1>1, <1>2, <1>3, OneUnchecked

LEMMA BuyFilledInv ==
  ASSUME RulesIInv, NEW c \in Pairs, BuyFilled(c)
  PROVE  RulesIInv'
  <1>0. pos[c] \in Position /\ pos[c].st = "pending"
        /\ UNCHANGED <<setting, quote, decisions, risk, openedLate, history>>
    BY DEF BuyFilled, RulesIInv, Types
  <1>a. CASE pos' = [pos EXCEPT ![c].st = "open", ![c].high = pos[c].entry,
                               ![c].sinceCheck = 0, ![c].below = 0]
    <2> DEFINE p == [pos[c] EXCEPT !.st = "open", !.high = pos[c].entry,
                               !.sinceCheck = 0, !.below = 0]
    <2>1. pos' = [pos EXCEPT ![c] = p]
      BY <1>a DEF RulesIInv, Types, Position
    <2>2. p \in Position /\ p.st = "open" /\ p.count = pos[c].count
          /\ p.reason = pos[c].reason /\ p.high >= p.entry /\ p.below = 0
      <3>1. 0 \in 0 .. Minute /\ pos[c].entry \in Nat /\ 0 \in 0 .. 2
        BY <1>0, RulesAssumption DEF Position
      <3>2. /\ p.st = "open" /\ p.high = pos[c].entry /\ p.below = 0 /\ p.sinceCheck = 0
            /\ p.count = pos[c].count /\ p.reason = pos[c].reason
            /\ p.entry = pos[c].entry /\ p.held = pos[c].held
        BY <1>0 DEF Position
      <3>3. p \in Position
        BY <1>0, <3>1 DEF Position
      <3> QED
        BY <3>1, <3>2, <3>3
    <2> HIDE DEF p
    <2> QED
      BY <1>0, <2>1, <2>2, OneUnchecked
  <1>b. CASE pos' = [pos EXCEPT ![c] = Selling(pos[c])]
    <2>1. Selling(pos[c]) \in Position /\ Selling(pos[c]).st = "selling"
          /\ Selling(pos[c]).count = 0
      BY <1>0, SellingType
    <2> QED
      <3> DEFINE p == Selling(pos[c])
      <3>1. p \in Position /\ p.st = "selling" /\ p.count = 0
            /\ pos' = [pos EXCEPT ![c] = p]
        BY <1>b, <2>1
      <3> HIDE DEF p
      <3>2. /\ p.st \in {"pending", "open"} => pos[c].st \in {"pending", "open"}
            /\ p.count \in {0, pos[c].count}
            /\ p.count > 0 => p.reason = pos[c].reason
            /\ p.st = "open" => p.high >= p.entry /\ p.below = 0
        BY <3>1
      <3> QED
        BY <1>0, <3>1, <3>2, OneUnchecked
  <1> QED
    BY <1>a, <1>b DEF BuyFilled

(* A sale books profit and loss and forgets the position; a loss starts    *)
(* counting positions opened against the rules again.                      *)
LEMMA SellFilledInv ==
  ASSUME RulesIInv, NEW c \in Pairs, SellFilled(c)
  PROVE  RulesIInv'
  <1> USE RulesAssumption
  <1> DEFINE gain == quote[c].price - pos[c].entry
  <1>1. gain \in Int
    BY DEF RulesIInv, Types, Quote, Position
  <1>2. /\ pos[c].st = "selling" /\ profit' = profit + gain
        /\ pos' = [pos EXCEPT ![c] = NoPosition]
        /\ IF gain > 0 THEN UNCHANGED <<dailyLoss, sinceLoss, openedLate>>
           ELSE dailyLoss' = dailyLoss - gain /\ sinceLoss' = 0 /\ openedLate' = 0
        /\ verdicts' = [verdicts EXCEPT ![c] = <<None, None>>]
        /\ belowFor' = [belowFor EXCEPT ![c] = 0]
        /\ asked' = [asked EXCEPT ![c] = FALSE]
        /\ UNCHANGED <<setting, quote, decisions, running, bounds>>
    BY DEF SellFilled
  <1> HIDE DEF gain
  <1>3. NoPosition \in Position /\ NoPosition.st = None /\ NoPosition.count = 0
    BY NoPositionType
  <1>4. pos'[c] = NoPosition /\ \A d \in Pairs \ {c} : pos'[d] = pos[d]
    BY <1>2 DEF RulesIInv, Types
  <1>5. Types'
    BY <1>1, <1>2, <1>3 DEF RulesIInv, Types, decisions, Never, Verdict
  <1>6. Counters' /\ BelowMeansBelow' /\ CarriesLast'
    BY <1>2, <1>3, <1>4 DEF RulesIInv, Types, Counters, BelowMeansBelow, CarriesLast, None
  <1>7. NotTooMany'
    <2>1. Active' \subseteq Active
      BY <1>3, <1>4 DEF Active, None
    <2> QED
      BY <2>1, FewerActive DEF RulesIInv
  <1>8. AllowedOrFirst'
    BY <1>1, <1>2 DEF RulesIInv, Types, decisions, AllowedOrFirst, Forbidden, Cooling,
           LossLimitReached, DailyLimitReached, NewDay
  <1> QED
    BY <1>5, <1>6, <1>7, <1>8 DEF RulesIInv

LEMMA RunEnds ==
  ASSUME RulesIInv, MaxLossCheck \/ StopBot
  PROVE  RulesIInv'
  <1>1. UNCHANGED <<setting, quote, decisions, pos, profit, dailyLoss, sinceLoss,
                    history, openedLate>>
    BY DEF MaxLossCheck, StopBot
  <1>2. Types' /\ AllowedOrFirst'
    BY <1>1 DEF RulesIInv, Types, decisions, history, AllowedOrFirst, Forbidden,
           Cooling, LossLimitReached, DailyLimitReached, NewDay
  <1>3. Counters' /\ BelowMeansBelow' /\ CarriesLast' /\ NotTooMany'
    BY <1>1 DEF RulesIInv, Counters, BelowMeansBelow, CarriesLast, NotTooMany, Active,
           history
  <1> QED
    BY <1>2, <1>3 DEF RulesIInv

-----------------------------------------------------------------------------
(* The checks of an open position.                                         *)

(* A quote moves the ATH up, never down, and forgets the minutes below it  *)
(* when it reaches it.                                                     *)
LEMMA TrackedKeeps ==
  ASSUME RulesIInv, NEW c \in Pairs, pos[c].st = "open"
  PROVE  /\ Tracked(c) \in Position
         /\ Tracked(c).st = "open" /\ Tracked(c).entry = pos[c].entry
         /\ Tracked(c).high >= Tracked(c).entry /\ Tracked(c).high >= quote[c].price
         /\ Tracked(c).count = pos[c].count /\ Tracked(c).reason = pos[c].reason
         /\ Tracked(c).below = IF quote[c].price >= pos[c].high THEN 0 ELSE pos[c].below
         /\ Tracked(c).high = LargerOf(pos[c].high, quote[c].price)
  <1>1. pos[c] \in Position /\ quote[c].price \in Nat /\ pos[c].high >= pos[c].entry
    BY DEF RulesIInv, Types, Quote, Counters
  <1> DEFINE high == LargerOf(pos[c].high, quote[c].price)
             below == IF quote[c].price >= pos[c].high THEN 0 ELSE pos[c].below
  <1>2. Tracked(c) = [pos[c] EXCEPT !.high = high, !.below = below]
    BY <1>1 DEF Tracked, Position
  <1>3. /\ high \in Nat /\ high >= pos[c].high /\ high >= quote[c].price
        /\ below \in 0 .. 2 /\ pos[c].entry \in Nat /\ pos[c].high \in Nat
    BY <1>1 DEF LargerOf, Position
  <1> HIDE DEF high, below
  <1>4. /\ Tracked(c) \in Position
        /\ Tracked(c).st = "open" /\ Tracked(c).entry = pos[c].entry
        /\ Tracked(c).count = pos[c].count /\ Tracked(c).reason = pos[c].reason
        /\ Tracked(c).below = below /\ Tracked(c).high = high
    BY <1>1, <1>2, <1>3 DEF Position
  <1>5. Tracked(c).high >= Tracked(c).entry /\ Tracked(c).high >= quote[c].price
    BY <1>1, <1>3, <1>4
  <1> QED
    BY <1>4, <1>5 DEF high, below

LEMMA SeenKeeps ==
  ASSUME RulesIInv, NEW c \in Pairs, NEW n \in {0, 1}, Seen(c, n)
  PROVE  /\ belowFor' \in [Pairs -> 0 .. 2]
         /\ \A d \in Pairs \ {c} : belowFor'[d] = belowFor[d]
         /\ belowFor'[c] = IF quote[c].price >= pos[c].high THEN 0
                           ELSE SmallerOf(belowFor[c] + n, 2)
  BY DEF Seen, RulesIInv, Types, SmallerOf

(* Closing or keeping position p.                                          *)
LEMMA CloseOrKeep ==
  ASSUME RulesIInv, NEW c \in Pairs, NEW p \in Position, p.st = "open",
         pos[c].st = "open",
         Close(c, p) \/ Keep(c, p)
  PROVE  /\ asked' \in [Pairs -> BOOLEAN]
         /\ \A d \in Pairs \ {c} : asked'[d] = asked[d]
         /\ \/ pos' = [pos EXCEPT ![c] = p]
            \/ pos' = [pos EXCEPT ![c] = Selling(p)]
         /\ Close(c, p) => asked'[c]
         /\ ~Close(c, p) => asked'[c] = asked[c]
         /\ Selling(p) \in Position /\ Selling(p).st = "selling" /\ Selling(p).count = 0
  <1>1. Selling(p) \in Position /\ Selling(p).st = "selling" /\ Selling(p).count = 0
    BY SellingType
  <1> QED
    BY <1>1 DEF Close, Keep, RulesIInv, Types

LEMMA MonitorBetweenInv ==
  ASSUME RulesIInv, NEW c \in Pairs, MonitorBetween(c)
  PROVE  RulesIInv'
  <1> DEFINE p == Tracked(c)
  <1>1. /\ pos[c].st = "open"
        /\ IF p.count >= 2 THEN Close(c, p) ELSE Keep(c, p)
        /\ Seen(c, 0)
        /\ UNCHANGED <<setting, quote, decisions, risk, verdicts, openedLate>>
    BY DEF MonitorBetween
  <1>2. /\ p \in Position /\ p.st = "open"
        /\ p.high >= p.entry /\ p.count = pos[c].count /\ p.reason = pos[c].reason
        /\ p.below = IF quote[c].price >= pos[c].high THEN 0 ELSE pos[c].below
    BY <1>1, TrackedKeeps
  <1> HIDE DEF p
  <1>3. /\ belowFor' \in [Pairs -> 0 .. 2]
        /\ \A d \in Pairs \ {c} : belowFor'[d] = belowFor[d]
        /\ belowFor'[c] = IF quote[c].price >= pos[c].high THEN 0
                          ELSE SmallerOf(belowFor[c] + 0, 2)
    BY <1>1, SeenKeeps
  <1>4. p.below <= belowFor'[c]
    BY <1>1, <1>2, <1>3 DEF RulesIInv, BelowMeansBelow, SmallerOf, Types, Position
  <1>5. /\ asked' \in [Pairs -> BOOLEAN]
        /\ \A d \in Pairs \ {c} : asked'[d] = asked[d]
        /\ \/ pos' = [pos EXCEPT ![c] = p]
           \/ pos' = [pos EXCEPT ![c] = Selling(p)]
        /\ asked[c] => asked'[c]
        /\ Selling(p) \in Position /\ Selling(p).st = "selling" /\ Selling(p).count = 0
    <2>1. Close(c, p) \/ Keep(c, p)
      BY <1>1
    <2>2. /\ asked' \in [Pairs -> BOOLEAN]
          /\ \A d \in Pairs \ {c} : asked'[d] = asked[d]
          /\ \/ pos' = [pos EXCEPT ![c] = p]
             \/ pos' = [pos EXCEPT ![c] = Selling(p)]
          /\ Close(c, p) => asked'[c]
          /\ ~Close(c, p) => asked'[c] = asked[c]
          /\ Selling(p) \in Position /\ Selling(p).st = "selling" /\ Selling(p).count = 0
      BY <1>1, <1>2, <2>1, CloseOrKeep
    <2> QED
      BY <2>2
  <1>6. verdicts' = verdicts /\ verdicts' \in [Pairs -> Verdict \X Verdict]
    BY <1>1 DEF RulesIInv, Types
  <1>7. /\ p.count > 0 => p.reason # None
        /\ ~asked'[c] => p.count < 2 /\ (p.count = 1 => verdicts'[c][2] = p.reason)
    BY <1>2, <1>5, <1>6 DEF RulesIInv, Counters, CarriesLast
  <1>8. UNCHANGED <<setting, quote, decisions, risk, openedLate>>
        /\ \A d \in Pairs \ {c} : /\ verdicts'[d] = verdicts[d]
                                /\ belowFor'[d] = belowFor[d] /\ asked'[d] = asked[d]
    BY <1>1, <1>3, <1>5, <1>6
  <1>a. CASE pos' = [pos EXCEPT ![c] = p]
    <2>1. /\ p.st \in {"pending", "open"} => pos[c].st \in {"pending", "open"}
          /\ p.st = "open" => p.high >= p.entry /\ p.below <= belowFor'[c]
      BY <1>1, <1>2, <1>4
    <2>2. asked' \in [Pairs -> BOOLEAN]
      BY <1>5
    <2>3. p \in Position
      BY <1>2
    <2> QED
      BY <1>a, <2>1, <2>2, <2>3, <1>3, <1>6, <1>7, <1>8, OnePosition
  <1>b. CASE pos' = [pos EXCEPT ![c] = Selling(p)]
    <2> DEFINE q == Selling(p)
    <2>1. q \in Position /\ q.st = "selling" /\ q.count = 0
          /\ pos' = [pos EXCEPT ![c] = q]
      BY <1>b, <1>5
    <2> HIDE DEF q
    <2>2. /\ q.st \in {"pending", "open"} => pos[c].st \in {"pending", "open"}
          /\ q.count > 0 => q.reason # None
          /\ q.st = "open" => q.high >= q.entry /\ q.below <= belowFor'[c]
          /\ ~asked'[c] => q.count < 2 /\ (q.count = 1 => verdicts'[c][2] = q.reason)
      BY <2>1
    <2> QED
      BY <2>1, <2>2, <1>3, <1>5, <1>6, <1>8, OnePosition
  <1> QED
    BY <1>5, <1>a, <1>b

(* The minute check counts a minute below the ATH, and a reason found in   *)
(* two checks in a row is confirmed.                                       *)
LEMMA ConfirmKeeps ==
  ASSUME NEW p \in Position, NEW reason \in Reasons \cup {None},
         p.count > 0 => p.reason # None
  PROVE  /\ Confirm(p, reason) \in Position
         /\ Confirm(p, reason).st = p.st /\ Confirm(p, reason).below = p.below
         /\ Confirm(p, reason).high = p.high /\ Confirm(p, reason).entry = p.entry
         /\ Confirm(p, reason).reason = reason
         /\ Confirm(p, reason).count =
               IF reason = None THEN 0
               ELSE IF p.reason = reason THEN SmallerOf(p.count + 1, 2) ELSE 1
  <1>1. p.count \in 0 .. 2 /\ SmallerOf(p.count + 1, 2) \in 0 .. 2
    BY DEF Position, SmallerOf
  <1>a. CASE reason = None
    <2>1. Confirm(p, reason) = [p EXCEPT !.reason = None, !.count = 0]
      BY <1>a DEF Confirm
    <2> DEFINE r == [p EXCEPT !.reason = None]
    <2>2. /\ r \in Position /\ r.reason = None
          /\ r.st = p.st /\ r.below = p.below /\ r.high = p.high /\ r.entry = p.entry
      BY DEF Position
    <2>3. Confirm(p, reason) = [r EXCEPT !.count = 0]
      BY <2>1 DEF Position
    <2> HIDE DEF r
    <2> QED
      BY <1>a, <2>2, <2>3 DEF Position
  <1>b. CASE reason # None /\ p.reason # reason
    <2>1. Confirm(p, reason) = [p EXCEPT !.reason = reason, !.count = 1]
      BY <1>b DEF Confirm
    <2> DEFINE r == [p EXCEPT !.reason = reason]
    <2>2. /\ r \in Position /\ r.reason = reason
          /\ r.st = p.st /\ r.below = p.below /\ r.high = p.high /\ r.entry = p.entry
      BY DEF Position
    <2>3. Confirm(p, reason) = [r EXCEPT !.count = 1]
      BY <2>1 DEF Position
    <2> HIDE DEF r
    <2> QED
      BY <1>b, <2>2, <2>3 DEF Position
  <1>c. CASE reason # None /\ p.reason = reason
    <2>1. Confirm(p, reason) = [p EXCEPT !.count = SmallerOf(@ + 1, 2)]
      BY <1>c DEF Confirm
    <2> QED
      BY <1>1, <1>c, <2>1 DEF Position
  <1> QED
    BY <1>a, <1>b, <1>c

(* What MonitorMinute decides, spelled out: the position it closes or      *)
(* keeps, and the verdict it records.                                      *)
LEMMA MinuteCheck ==
  ASSUME RulesIInv, NEW c \in Pairs, MonitorMinute(c)
  PROVE  \E p \in Position, found \in Verdict :
            /\ p.st = "open" /\ p.high >= p.entry
            /\ p.below <= belowFor'[c]
            /\ p.count > 0 => p.reason # None
            /\ verdicts' = [verdicts EXCEPT ![c] = <<@[2], found>>]
            /\ \/ /\ Close(c, p)
                  /\ \/ found = "ath_decline"
                     \/ found # None /\ (~asked[c] => verdicts[c][2] = found)
               \/ /\ Keep(c, p)
                  /\ p.count < 2 /\ (p.count = 1 => p.reason = found)
  <1> DEFINE t == [Tracked(c) EXCEPT !.sinceCheck = 0]
             reason == Reason(c, t.high)
             n == IF quote[c].price < t.high THEN t.below + 1 ELSE 0
             counted == IF reason = None /\ target = 1 THEN CountBelow(t, c) ELSE t
             decline == reason = None /\ target = 1 /\ counted.below >= 2
             confirmed == IF decline THEN counted ELSE Confirm(counted, reason)
             found == IF decline THEN "ath_decline" ELSE reason
             closed == [confirmed EXCEPT !.below = SmallerOf(@, 2)]
             sells == decline \/ (reason # None /\ confirmed.count >= 2)
  <1>1. /\ pos[c].st = "open" /\ Seen(c, 1)
        /\ verdicts' = [verdicts EXCEPT ![c] = <<@[2], found>>]
        /\ IF sells THEN Close(c, closed) ELSE Keep(c, confirmed)
    BY DEF MonitorMinute
  <1>2. /\ t \in Position /\ t.st = "open" /\ t.high >= t.entry
        /\ t.count = pos[c].count /\ t.reason = pos[c].reason
        /\ t.below = IF quote[c].price >= pos[c].high THEN 0 ELSE pos[c].below
        /\ t.high = LargerOf(pos[c].high, quote[c].price)
    <2>1. 0 \in 0 .. Minute
      BY RulesAssumption
    <2>2. t \in Position
      BY <1>1, <2>1, TrackedKeeps DEF Position
    <2>3. /\ t.st = Tracked(c).st /\ t.high = Tracked(c).high
          /\ t.entry = Tracked(c).entry /\ t.count = Tracked(c).count
          /\ t.reason = Tracked(c).reason /\ t.below = Tracked(c).below
      BY <1>1, TrackedKeeps DEF Position
    <2> QED
      BY <1>1, <2>2, <2>3, TrackedKeeps
  <1>3. reason \in Reasons \cup {None}
    BY <1>2, ReasonType DEF Position
  <1>4. CountBelow(t, c) = [t EXCEPT !.below = n]
    BY <1>2 DEF CountBelow, Position
  <1> HIDE DEF t, reason
  <1>5. belowFor'[c] = IF quote[c].price >= pos[c].high THEN 0
                       ELSE SmallerOf(belowFor[c] + 1, 2)
    BY <1>1, SeenKeeps
  <1>6. /\ n \in Nat /\ SmallerOf(n, 2) \in 0 .. 2 /\ SmallerOf(n, 2) <= belowFor'[c]
        /\ t.below <= belowFor'[c]
    <2>1. /\ pos[c].below <= belowFor[c] /\ pos[c].below \in 0 .. 2
          /\ belowFor[c] \in 0 .. 2 /\ pos[c].high \in Nat /\ quote[c].price \in Nat
      BY <1>1 DEF RulesIInv, Types, BelowMeansBelow, Position, Quote
    <2> QED
      BY <1>2, <1>5, <2>1 DEF SmallerOf, LargerOf
  <1> HIDE DEF n
  <1>7. t.count > 0 => t.reason # None
    BY <1>2 DEF RulesIInv, Counters
  <1>8. found \in Verdict
    BY <1>3 DEF Verdict
  <1>9. ~asked[c] => t.count < 2 /\ (t.count = 1 => verdicts[c][2] = t.reason)
    BY <1>2 DEF RulesIInv, CarriesLast
  <1>a. CASE decline
    <2>1. counted = [t EXCEPT !.below = n]
      BY <1>4, <1>a
    <2>2. closed = [t EXCEPT !.below = SmallerOf(n, 2)]
      BY <1>2, <1>a, <2>1 DEF Position
    <2>3. /\ closed \in Position /\ closed.st = "open" /\ closed.high = t.high
          /\ closed.entry = t.entry /\ closed.below = SmallerOf(n, 2)
          /\ closed.count = t.count /\ closed.reason = t.reason
      BY <1>2, <1>6, <2>2 DEF Position
    <2>4. found = "ath_decline" /\ Close(c, closed)
      BY <1>1, <1>a
    <2> HIDE DEF closed, found
    <2> QED
      BY <1>1, <1>2, <1>6, <1>7, <1>8, <2>3, <2>4
  <1>b. CASE ~decline
    <2>1. /\ counted \in Position /\ counted.st = "open" /\ counted.high = t.high
          /\ counted.entry = t.entry /\ counted.below <= belowFor'[c]
          /\ counted.count = t.count /\ counted.reason = t.reason
      <3>1. CASE reason = None /\ target = 1
        <4>1. counted = [t EXCEPT !.below = n]
          BY <1>4, <3>1
        <4>2. counted.below = n
          BY <1>2, <4>1 DEF Position
        <4>3. n < 2
          BY <1>b, <1>6, <3>1, <4>2
        <4>4. n \in 0 .. 2 /\ n <= belowFor'[c]
          BY <1>6, <4>3 DEF SmallerOf
        <4> HIDE DEF counted
        <4> QED
          BY <1>2, <4>1, <4>2, <4>4 DEF Position
      <3>2. CASE ~(reason = None /\ target = 1)
        <4>1. counted = t
          BY <3>2
        <4> QED
          BY <1>2, <1>6, <4>1
      <3> QED
        BY <3>1, <3>2
    <2>2. confirmed = Confirm(counted, reason) /\ found = reason
      BY <1>b
    <2> DEFINE k == IF reason = None THEN 0
                    ELSE IF counted.reason = reason THEN SmallerOf(counted.count + 1, 2)
                    ELSE 1
    <2>3. /\ confirmed \in Position /\ confirmed.st = "open"
          /\ confirmed.high = t.high /\ confirmed.entry = t.entry
          /\ confirmed.below <= belowFor'[c] /\ confirmed.reason = reason
          /\ confirmed.count = k
      BY <1>3, <1>7, <2>1, <2>2, ConfirmKeeps
    <2>4. t.count \in 0 .. 2
      BY <1>2 DEF Position
    <2>5. sells <=> reason # None /\ confirmed.count >= 2
      BY <1>b
    <2> HIDE DEF counted, decline, confirmed, closed, sells, found
    <2>c. CASE sells
      <3>1. reason # None /\ confirmed.count >= 2
        BY <2>5, <2>c
      <3>2. closed = confirmed
        <4>1. confirmed.below \in 0 .. 2
          BY <2>3 DEF Position
        <4>2. SmallerOf(confirmed.below, 2) = confirmed.below
          BY <4>1 DEF SmallerOf
        <4>3. closed = [confirmed EXCEPT !.below = SmallerOf(confirmed.below, 2)]
          BY <2>3 DEF closed, Position
        <4> QED
          BY <2>3, <4>2, <4>3 DEF Position
      <3>3. counted.reason = reason /\ t.count >= 1
        BY <2>1, <2>3, <2>4, <3>1 DEF SmallerOf
      <3>4. ~asked[c] => verdicts[c][2] = found
        BY <1>9, <2>1, <2>2, <2>4, <3>3
      <3>5. Close(c, confirmed)
        BY <1>1, <2>c, <3>2
      <3>6. confirmed.count > 0 => confirmed.reason # None
        BY <2>3, <3>1
      <3> QED
        BY <1>1, <1>2, <1>8, <2>2, <2>3, <3>1, <3>4, <3>5, <3>6
    <2>d. CASE ~sells
      <3>1. Keep(c, confirmed)
        BY <1>1, <2>d
      <3>2. /\ confirmed.count < 2 /\ (confirmed.count = 1 => confirmed.reason = found)
            /\ confirmed.count > 0 => confirmed.reason # None
        BY <2>2, <2>3, <2>4, <2>5, <2>1, <2>d DEF SmallerOf
      <3> QED
        BY <1>1, <1>2, <1>8, <2>3, <3>1, <3>2
    <2> QED
      BY <2>c, <2>d
  <1> QED
    BY <1>a, <1>b

LEMMA MonitorMinuteInv ==
  ASSUME RulesIInv, NEW c \in Pairs, MonitorMinute(c)
  PROVE  RulesIInv'
  <1>1. PICK p \in Position, found \in Verdict :
            /\ p.st = "open" /\ p.high >= p.entry
            /\ p.below <= belowFor'[c]
            /\ p.count > 0 => p.reason # None
            /\ verdicts' = [verdicts EXCEPT ![c] = <<@[2], found>>]
            /\ \/ /\ Close(c, p)
                  /\ \/ found = "ath_decline"
                     \/ found # None /\ (~asked[c] => verdicts[c][2] = found)
               \/ /\ Keep(c, p)
                  /\ p.count < 2 /\ (p.count = 1 => p.reason = found)
    BY MinuteCheck
  <1>2. /\ pos[c].st = "open" /\ Seen(c, 1)
        /\ UNCHANGED <<setting, quote, decisions, risk, openedLate>>
    BY DEF MonitorMinute
  <1>3. /\ belowFor' \in [Pairs -> 0 .. 2]
        /\ \A d \in Pairs \ {c} : belowFor'[d] = belowFor[d]
    BY <1>2, SeenKeeps
  <1>4. /\ verdicts' \in [Pairs -> Verdict \X Verdict]
        /\ \A d \in Pairs \ {c} : verdicts'[d] = verdicts[d]
        /\ verdicts'[c][2] = found
    <2>1. verdicts \in [Pairs -> Verdict \X Verdict]
      BY DEF RulesIInv, Types
    <2>2. verdicts[c][2] \in Verdict
      BY <2>1
    <2>3. verdicts' = [verdicts EXCEPT ![c] = <<verdicts[c][2], found>>]
      BY <1>1
    <2> QED
      BY <2>1, <2>2, <2>3
  <1>5. /\ asked' \in [Pairs -> BOOLEAN]
        /\ \A d \in Pairs \ {c} : asked'[d] = asked[d]
        /\ \/ pos' = [pos EXCEPT ![c] = p]
           \/ pos' = [pos EXCEPT ![c] = Selling(p)]
        /\ Selling(p) \in Position /\ Selling(p).st = "selling" /\ Selling(p).count = 0
    BY <1>1, <1>2, CloseOrKeep
  <1>6. ~asked'[c] => p.count < 2 /\ (p.count = 1 => verdicts'[c][2] = p.reason)
    <2>1. CASE Close(c, p)
      <3>1. asked'[c]
        BY <2>1 DEF Close, RulesIInv, Types
      <3> QED
        BY <3>1
    <2>2. CASE p.count < 2 /\ (p.count = 1 => p.reason = found)
      BY <1>4, <2>2
    <2> QED
      BY <1>1, <2>1, <2>2
  <1>7. \A d \in Pairs \ {c} : /\ verdicts'[d] = verdicts[d]
                             /\ belowFor'[d] = belowFor[d] /\ asked'[d] = asked[d]
    BY <1>3, <1>4, <1>5
  <1>a. CASE pos' = [pos EXCEPT ![c] = p]
    BY <1>a, <1>1, <1>2, <1>3, <1>4, <1>5, <1>6, <1>7, OnePosition
  <1>b. CASE pos' = [pos EXCEPT ![c] = Selling(p)]
    <2> DEFINE q == Selling(p)
    <2>1. q \in Position /\ q.st = "selling" /\ q.count = 0
          /\ pos' = [pos EXCEPT ![c] = q]
      BY <1>b, <1>5
    <2> HIDE DEF q
    <2>2. /\ q.st \in {"pending", "open"} => pos[c].st \in {"pending", "open"}
          /\ q.count > 0 => q.reason # None
          /\ q.st = "open" => q.high >= q.entry /\ q.below <= belowFor'[c]
          /\ ~asked'[c] => q.count < 2 /\ (q.count = 1 => verdicts'[c][2] = q.reason)
      BY <2>1
    <2> QED
      BY <2>1, <2>2, <1>2, <1>3, <1>4, <1>5, <1>7, OnePosition
  <1> QED
    BY <1>5, <1>a, <1>b

-----------------------------------------------------------------------------
(* The theorems.                                                           *)

LEMMA NextInv ==
  ASSUME RulesIInv, [Next]_vars
  PROVE  RulesIInv'
  <1>1. CASE Tick
    BY <1>1, TickInv
  <1>2. CASE TakeSignals
    BY <1>2, TakeSignalsInv
  <1>3. CASE LoopStep
    BY <1>3, CheckSignalInv, OpenPositionInv DEF LoopStep
  <1>4. CASE MaxLossCheck \/ StopBot
    BY <1>4, RunEnds
  <1>5. ASSUME NEW c \in Pairs, NEW q \in Quotes(c), HandleCoinUpdate(c, q)
        PROVE  RulesIInv'
    BY <1>5, HandleCoinUpdateInv
  <1>6. ASSUME NEW c \in Pairs,
               FalsePump(c) \/ Reposition(c) \/ Monitor(c) \/ BuyFilled(c) \/ SellFilled(c)
        PROVE  RulesIInv'
    BY <1>6, FalsePumpInv, RepositionInv, BuyFilledInv, SellFilledInv,
       MonitorBetweenInv, MonitorMinuteInv DEF Monitor
  <1>7. CASE UNCHANGED vars
    <2>1. Types' /\ AllowedOrFirst'
      BY <1>7 DEF RulesIInv, Types, vars, decisions, risk, history, AllowedOrFirst,
             Forbidden, Cooling, LossLimitReached, DailyLimitReached, NewDay
    <2>2. Counters' /\ BelowMeansBelow' /\ CarriesLast' /\ NotTooMany'
      BY <1>7 DEF RulesIInv, vars, history, Counters, BelowMeansBelow, CarriesLast,
             NotTooMany, Active
    <2> QED
      BY <2>1, <2>2 DEF RulesIInv
  <1> QED
    BY <1>1, <1>2, <1>3, <1>4, <1>5, <1>6, <1>7 DEF Next

LEMMA AlwaysInv == Spec => []RulesIInv
  BY InitInv, NextInv, PTL DEF Spec

(* The counters of the exit rules mean what they say, no more positions    *)
(* are open than allowed, and after a loss at most one is opened against   *)
(* cooldown and limits: the one whose check had passed when the loss was   *)
(* booked (checkEntryConditions, openPosition, checkExitConditions).       *)
THEOREM RulesAreKept == Spec => []RulesInv
  BY InvImplies, AlwaysInv, PTL

(* No step first tries a sale without two minute checks that agreed.       *)
LEMMA ConfirmedStep ==
  ASSUME RulesIInv, [Next]_vars, NEW c \in Pairs, asked'[c], ~asked[c]
  PROVE  \/ verdicts'[c][1] = verdicts'[c][2] /\ verdicts'[c][2] # None
         \/ verdicts'[c][2] = "ath_decline"
  <1>1. CASE UNCHANGED asked
    BY <1>1
  <1>2. ASSUME NEW d \in Pairs, MonitorMinute(d)
        PROVE  \/ verdicts'[c][1] = verdicts'[c][2] /\ verdicts'[c][2] # None
               \/ verdicts'[c][2] = "ath_decline"
    <2>1. PICK p \in Position, found \in Verdict :
            /\ verdicts' = [verdicts EXCEPT ![d] = <<@[2], found>>]
            /\ \/ /\ Close(d, p)
                  /\ \/ found = "ath_decline"
                     \/ found # None /\ (~asked[d] => verdicts[d][2] = found)
               \/ Keep(d, p)
      BY <1>2, MinuteCheck
    <2>2. Close(d, p) /\ c = d
      BY <2>1 DEF Close, Keep, RulesIInv, Types
    <2>3. found = "ath_decline" \/ (found # None /\ verdicts[c][2] = found)
      BY <2>1, <2>2 DEF Keep
    <2>4. verdicts'[c] = <<verdicts[c][2], found>>
      BY <2>1, <2>2 DEF RulesIInv, Types
    <2>5. verdicts'[c][1] = verdicts[c][2] /\ verdicts'[c][2] = found
      BY <2>4
    <2> QED
      BY <2>3, <2>5
  <1>3. ASSUME NEW d \in Pairs, MonitorBetween(d)
        PROVE  FALSE
    <2>1. pos[d].st = "open" /\ asked' # asked => Close(d, Tracked(d)) /\ Tracked(d).count >= 2
      BY <1>3 DEF MonitorBetween, Keep
    <2>2. pos[d].st = "open" /\ asked' # asked
      BY <1>3 DEF MonitorBetween
    <2>3. c = d
      BY <2>1, <2>2 DEF Close, RulesIInv, Types
    <2>4. pos[d].count >= 2
      BY <2>1, <2>2, TrackedKeeps
    <2>5. pos[d].count < 2
      BY <2>3 DEF RulesIInv, CarriesLast
    <2>6. pos[d].count \in 0 .. 2
      BY DEF RulesIInv, Types, Position
    <2> QED
      BY <2>4, <2>5, <2>6
  <1>4. ASSUME NEW d \in Pairs, SellFilled(d)
        PROVE  FALSE
    BY <1>4 DEF SellFilled, RulesIInv, Types
  <1>5. ASSUME NEW d \in Pairs, FalsePump(d) \/ Reposition(d) \/ BuyFilled(d)
        PROVE  UNCHANGED asked
    BY <1>5 DEF FalsePump, Reposition, BuyFilled, history
  <1>6. ASSUME NEW d \in Pairs, NEW q \in Quotes(d), HandleCoinUpdate(d, q)
        PROVE  UNCHANGED asked
    BY <1>6 DEF HandleCoinUpdate, history
  <1>7. ASSUME Tick \/ TakeSignals \/ LoopStep \/ MaxLossCheck \/ StopBot
        PROVE  UNCHANGED asked
    BY <1>7 DEF Tick, TakeSignals, LoopStep, CheckSignal, OpenPosition, MaxLossCheck,
           StopBot, history
  <1>8. UNCHANGED vars => UNCHANGED asked
    BY DEF vars, history
  <1> QED
    BY <1>1, <1>2, <1>3, <1>4, <1>5, <1>6, <1>7, <1>8 DEF Next, Monitor

(* A position is first sold only after two minute checks in a row found    *)
(* the same reason, or the decline from the ATH, which counts two minutes  *)
(* itself (the two-minute confirmation of monitorExits).                   *)
THEOREM SoldOnConfirmation == Spec => ConfirmedTwice
  <1>1. RulesIInv /\ [Next]_vars =>
           [\A c \in Pairs : asked'[c] /\ ~asked[c] =>
              \/ verdicts'[c][1] = verdicts'[c][2] /\ verdicts'[c][2] # None
              \/ verdicts'[c][2] = "ath_decline"]_vars
    BY ConfirmedStep
  <1> QED
    BY <1>1, AlwaysInv, PTL DEF Spec, ConfirmedTwice
=============================================================================
