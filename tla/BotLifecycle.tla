---------------------------- MODULE BotLifecycle ----------------------------
(* Starting, stopping, editing, deleting and restoring market-maker bots.  *)
(* A bot lives in three places that change at different moments: its       *)
(* record in Redis (and the index of running bots), the service's map of   *)
(* instances, and the list of ticker handlers of its pair.  Requests of    *)
(* several users, the goroutine that restores bots at boot and the bots'   *)
(* own goroutines change them, one locked section or Redis call at a time. *)
EXTENDS Naturals, Sequences, FiniteSets

CONSTANTS
    Bots,           \* the bots that were created
    Live,           \* those that trade with real money
    Pairs,          \* the pairs they may trade
    PairOf,         \* the pair of each bot
    Requests,       \* HTTP requests that may be in progress together
    MaxRequests,    \* bound: how many requests are made
    MaxInstances,   \* bound: how many instances one process creates
    MaxCrashes      \* bound: how often the process dies and comes back

ASSUME BotAssumption ==
    /\ Bots # {} /\ Live \subseteq Bots
    /\ IsFiniteSet(Requests) /\ Requests \cap {"boot", "loop"} = {}
    /\ PairOf \in [Bots -> Pairs]
    /\ MaxRequests \in Nat
    /\ MaxInstances \in Nat
    /\ MaxCrashes \in Nat

(* Who acts: requests, the restore goroutine, and the goroutine of a bot   *)
(* (one bot's at a time: a bound).                                         *)
Procs == Requests \cup {"boot", "loop"}
Instances == 1 .. MaxInstances
None == 0

VARIABLES
    record,      \* BotConfig.Status in Redis, or "deleted"
    index,       \* the members of the Redis set of running bots
    instances,   \* s.instances: the instance of each bot, or None
    inst,        \* every BotInstance: its bot, its loop, whether StopChan is closed
    made,        \* how many instances this process has created
    handlers,    \* SubscriptionManager.subscribers: the instances' handlers
    listening,   \* the order monitor is subscribed to the user's orders
    proc,        \* where each process is
    restoring,   \* the bots the restore goroutine has still to restore
    up,          \* the process is running
    crashes,     \* how often it has died
    requests,    \* how many requests were made
    wanted,      \* history: the last command in effect was a start
    orderly      \* history: no two operations overlapped, no write was torn

redis == <<record, index>>
memory == <<instances, inst, made, handlers>>
history == <<wanted, orderly>>
outside == <<listening, restoring, up, crashes, requests>>
vars == <<redis, memory, outside, proc, history>>

Statuses == {"stopped", "running", "error"}
Idle(b) == [pc |-> "idle", bot |-> b, inst |-> None, old |-> "stopped"]
NoBot == CHOOSE b \in Bots : TRUE
NoInstance == [bot |-> NoBot, loop |-> "none", closed |-> FALSE]
At(p, pc) == up /\ proc[p].pc = pc
Bot(p) == proc[p].bot
Startable(b) == record[b] \notin {"running", "deleted"}

Init ==
    /\ record = [b \in Bots |-> "stopped"]
    /\ index = {}
    /\ instances = [b \in Bots |-> None]
    /\ inst = [i \in Instances |-> NoInstance]
    /\ made = 0
    /\ handlers = [p \in Pairs |-> <<>>]
    /\ listening = TRUE
    /\ proc = [p \in Procs |-> Idle(NoBot)]
    /\ restoring = {}
    /\ up = TRUE
    /\ crashes = 0
    /\ requests = 0
    /\ wanted = [b \in Bots |-> FALSE]
    /\ orderly = TRUE

(*-------------------------- steps of a process ---------------------------*)
Goto(p, pc) == proc' = [proc EXCEPT ![p].pc = pc]
Finish(p) == proc' = [proc EXCEPT ![p] = Idle(NoBot)]

(* Somebody else is busy with a bot of the same pair.                      *)
Overlaps(p, b) ==
    \/ b \in restoring /\ p # "boot"
    \/ \E q \in Procs \ {p} : proc[q].pc # "idle" /\ PairOf[Bot(q)] = PairOf[b]

Begin(p, b, pc, i, old) ==
    /\ up /\ proc[p].pc = "idle"
    /\ proc' = [proc EXCEPT ![p] = [pc |-> pc, bot |-> b, inst |-> i, old |-> old]]
    /\ orderly' = (orderly /\ ~Overlaps(p, b))

Ask(p, b, pc, i, old) ==
    /\ requests < MaxRequests
    /\ requests' = requests + 1
    /\ Begin(p, b, pc, i, old)

(* Unsubscribe compares %p of the closures, which is the same for every    *)
(* handler StartBot makes: the first handler of the pair goes.  The        *)
(* reference count is the length of the list, and the channel is           *)
(* subscribed while it is not 0.                                           *)
FirstRemoved(q) == IF q = <<>> THEN q ELSE Tail(q)

(* Mutant: every pair loses its first handler.                             *)
UnsubscribedEverywhere(b) == [p \in Pairs |-> FirstRemoved(handlers[p])]

Unsubscribed(b) == [handlers EXCEPT ![PairOf[b]] = FirstRemoved(@)]

(* UpdateStatus: the record first, the index after it.                     *)
RecordStatus(p, status, next) ==
    /\ record[Bot(p)] # "deleted"
    /\ record' = [record EXCEPT ![Bot(p)] = status]
    /\ proc' = [proc EXCEPT ![p].pc = next, ![p].old = record[Bot(p)]]

Reindexed(old, b, status) ==
    CASE old = status       -> index
      [] status = "running" -> index \cup {b}
      [] old = "running"    -> index \ {b}
      [] OTHER              -> index

IndexStatus(p, status) == index' = Reindexed(proc[p].old, Bot(p), status)

(*-------------------------------- StartBot -------------------------------*)
StartBot(p, b) ==
    /\ Startable(b)
    /\ Ask(p, b, "start", None, "stopped")
    /\ UNCHANGED <<redis, memory, listening, restoring, up, crashes, wanted>>

(* The map is looked up; a live bot needs its user's private WebSocket.    *)
StartLookup(p) ==
    /\ At(p, "start")
    /\ IF instances[Bot(p)] # None \/ (Bot(p) \in Live /\ ~listening)
       THEN Finish(p) ELSE Goto(p, "subscribe")
    /\ UNCHANGED <<redis, memory, outside, history>>

StartSubscribe(p) ==
    /\ At(p, "subscribe")
    /\ \/ /\ made < MaxInstances
          /\ made' = made + 1
          /\ inst' = [inst EXCEPT ![made + 1].bot = Bot(p)]
          /\ handlers' = [handlers EXCEPT ![PairOf[Bot(p)]] = Append(@, made + 1)]
          /\ proc' = [proc EXCEPT ![p].pc = "publish", ![p].inst = made + 1]
       \/ (* the first subscriber of a pair could not connect *)
          /\ handlers[PairOf[Bot(p)]] = <<>>
          /\ Finish(p)
          /\ UNCHANGED <<made, inst, handlers>>
    /\ UNCHANGED <<redis, instances, outside, history>>

StartRecord(p) ==
    /\ At(p, "publish")
    /\ \/ /\ RecordStatus(p, "running", "published")
          /\ wanted' = [wanted EXCEPT ![Bot(p)] = @ \/ p \in Requests]
          /\ UNCHANGED handlers
       \/ (* Redis failed or the bot is gone *)
          /\ handlers' = Unsubscribed(Bot(p))
          /\ Finish(p)
          /\ UNCHANGED <<record, wanted>>
    /\ UNCHANGED <<index, instances, inst, made, outside, orderly>>

StartIndex(p) ==
    /\ At(p, "published")
    /\ IndexStatus(p, "running")
    /\ Goto(p, "insert")
    /\ UNCHANGED <<record, memory, outside, history>>

(* Mutant: the handler of an instance that is not used is left behind.     *)
StartInsertKeepsHandler(p) ==
    LET b == Bot(p)
        i == proc[p].inst
    IN  /\ At(p, "insert")
        /\ \/ /\ instances[b] = None
              /\ instances' = [instances EXCEPT ![b] = i]
              /\ inst' = [inst EXCEPT ![i].loop = "running"]
           \/ instances[b] # None /\ UNCHANGED <<instances, inst>>
        /\ Finish(p)
        /\ UNCHANGED <<redis, made, handlers, outside, history>>

(* The second look at the map, under s.mu, then go runBot.                 *)
StartInsert(p) ==
    LET b == Bot(p)
        i == proc[p].inst
    IN  /\ At(p, "insert")
        /\ \/ /\ instances[b] = None
              /\ instances' = [instances EXCEPT ![b] = i]
              /\ inst' = [inst EXCEPT ![i].loop = "running"]
              /\ UNCHANGED handlers
           \/ /\ instances[b] # None
              /\ handlers' = Unsubscribed(b)
              /\ UNCHANGED <<instances, inst>>
        /\ Finish(p)
        /\ UNCHANGED <<redis, made, outside, history>>

(*-------------------------------- StopBot --------------------------------*)
StopBot(p, b) ==
    /\ record[b] = "running"
    /\ Ask(p, b, "find", None, "stopped")
    /\ UNCHANGED <<redis, memory, listening, restoring, up, crashes, wanted>>

StopFind(p) ==
    LET i == instances[Bot(p)]
    IN  /\ At(p, "find")
        /\ proc' = [proc EXCEPT ![p].inst = i,
                                ![p].pc = IF i = None THEN "stopped" ELSE "close"]
        /\ UNCHANGED <<redis, memory, outside, history>>

(* The panic of closing a closed channel is recovered here.                *)
StopClose(p) ==
    /\ At(p, "close")
    /\ inst' = [inst EXCEPT ![proc[p].inst].closed = TRUE]
    /\ proc' = [proc EXCEPT ![p].pc = "unsubscribe", ![p].inst = None]
    /\ UNCHANGED <<redis, instances, made, handlers, outside, history>>

StopUnsubscribe(p) ==
    /\ At(p, "unsubscribe")
    /\ handlers' = Unsubscribed(Bot(p))
    /\ Goto(p, "delete")
    /\ UNCHANGED <<redis, instances, inst, made, outside, history>>

(* Mutant: the map keeps the stopped instance.                             *)
StopKeepsEntry(p) ==
    /\ At(p, "delete")
    /\ Goto(p, "stopped")
    /\ UNCHANGED <<redis, memory, outside, history>>

(* Whatever instance the map holds for the bot by now goes.                *)
StopDelete(p) ==
    /\ At(p, "delete")
    /\ instances' = [instances EXCEPT ![Bot(p)] = None]
    /\ Goto(p, "stopped")
    /\ UNCHANGED <<redis, inst, made, handlers, outside, history>>

StopRecord(p) ==
    /\ At(p, "stopped")
    /\ \/ RecordStatus(p, "stopped", "unlisted") /\ UNCHANGED orderly
       \/ (* Redis failed or the bot is gone: StopBot returns the error *)
          Finish(p) /\ orderly' = FALSE /\ UNCHANGED record
    /\ UNCHANGED <<index, memory, outside, wanted>>

StopIndex(p) ==
    /\ At(p, "unlisted")
    /\ IndexStatus(p, "stopped")
    /\ wanted' = [wanted EXCEPT ![Bot(p)] = FALSE]
    /\ Finish(p)
    /\ UNCHANGED <<record, memory, outside, orderly>>

(*--------------------------- UpdateBot, DeleteBot ------------------------*)
(* UpdateBot writes back the whole record it read, status included.        *)
UpdateBot(p, b) ==
    /\ Startable(b)
    /\ Ask(p, b, "update", None, record[b])
    /\ UNCHANGED <<redis, memory, listening, restoring, up, crashes, wanted>>

WriteBack(p) ==
    /\ At(p, "update")
    /\ record' = [record EXCEPT ![Bot(p)] = proc[p].old]
    /\ Finish(p)
    /\ UNCHANGED <<index, memory, outside, history>>

DeleteBot(p, b) ==
    /\ Startable(b)
    /\ Ask(p, b, "erase", None, "stopped")
    /\ UNCHANGED <<redis, memory, listening, restoring, up, crashes, wanted>>

(* The repository reads the record again; the set of running bots loses    *)
(* the bot only if that says running.                                      *)
Erase(p) ==
    LET b == Bot(p)
    IN  /\ At(p, "erase")
        /\ record' = [record EXCEPT ![b] = "deleted"]
        /\ index' = IF record[b] = "running" THEN index \ {b} ELSE index
        /\ Finish(p)
        /\ UNCHANGED <<memory, outside, history>>

(*---------------------- a bot's own goroutine ----------------------------*)
Looping(i) == inst[i].loop = "running"

(* UpdateBalance, UpdateStats and UpdateTracking read the whole record and *)
(* write it back, status included.                                         *)
SaveBalance(i) ==
    LET b == inst[i].bot
    IN  /\ Looping(i) /\ record[b] # "deleted"
        /\ Begin("loop", b, "update", None, record[b])
        /\ UNCHANGED <<redis, memory, outside, wanted>>

(* stopBotWithError, called by the loop of i, stops the instance the map   *)
(* holds for the bot.                                                      *)
ErrorStop(i) ==
    LET b == inst[i].bot
    IN  /\ Looping(i) /\ b \in Live /\ instances[b] # None
        /\ Begin("loop", b, "errcheck", instances[b], "stopped")
        /\ UNCHANGED <<redis, memory, outside, wanted>>

ErrorCheck ==
    /\ At("loop", "errcheck")
    /\ Goto("loop", IF inst[proc["loop"].inst].closed THEN "errrecord" ELSE "errclose")
    /\ UNCHANGED <<redis, memory, outside, history>>

ErrorClose ==
    LET i == proc["loop"].inst
    IN  /\ At("loop", "errclose")
        /\ ~inst[i].closed
        /\ inst' = [inst EXCEPT ![i].closed = TRUE]
        /\ Goto("loop", "errrecord")
        /\ UNCHANGED <<redis, instances, made, handlers, outside, history>>

ErrorRecord ==
    /\ At("loop", "errrecord")
    /\ \/ RecordStatus("loop", "error", "errindex") /\ UNCHANGED orderly
       \/ (* Redis failed or the bot is gone: logged *)
          Goto("loop", "errunsub") /\ orderly' = FALSE /\ UNCHANGED record
    /\ wanted' = [wanted EXCEPT ![Bot("loop")] = FALSE]
    /\ UNCHANGED <<index, memory, outside>>

ErrorIndex ==
    /\ At("loop", "errindex")
    /\ IndexStatus("loop", "error")
    /\ Goto("loop", "errunsub")
    /\ UNCHANGED <<record, memory, outside, history>>

ErrorUnsubscribe ==
    /\ At("loop", "errunsub")
    /\ handlers' = Unsubscribed(Bot("loop"))
    /\ Goto("loop", "errdelete")
    /\ UNCHANGED <<redis, instances, inst, made, outside, history>>

ErrorDelete ==
    /\ At("loop", "errdelete")
    /\ instances' = [instances EXCEPT ![Bot("loop")] = None]
    /\ Finish("loop")
    /\ UNCHANGED <<redis, inst, made, handlers, outside, history>>

(* runBot leaves its loop between two tickers.                             *)
LoopExit(i) ==
    /\ up /\ Looping(i) /\ inst[i].closed
    /\ proc["loop"].pc = "idle" \/ Bot("loop") # inst[i].bot
    /\ inst' = [inst EXCEPT ![i].loop = "exited"]
    /\ UNCHANGED <<redis, instances, made, handlers, outside, proc, history>>

(*------------------- the process: death, boot, restore -------------------*)
(* All that is in memory is gone; a status write may be half done.         *)
Die ==
    /\ up' = FALSE
    /\ instances' = [b \in Bots |-> None]
    /\ inst' = [i \in Instances |-> NoInstance]
    /\ made' = 0
    /\ handlers' = [p \in Pairs |-> <<>>]
    /\ listening' = FALSE
    /\ restoring' = {}
    /\ proc' = [p \in Procs |-> Idle(NoBot)]
    /\ UNCHANGED <<redis, crashes, requests, wanted>>

Torn == {"published", "unlisted", "errindex", "resetting"}
Crash ==
    /\ up /\ crashes < MaxCrashes
    /\ Die
    /\ orderly' = (orderly /\ \A p \in Procs : proc[p].pc \notin Torn)

(* Nothing recovers when stopBotWithError closes a channel StopBot closed  *)
(* after the check.                                                        *)
ClosePanic ==
    /\ At("loop", "errclose") /\ inst[proc["loop"].inst].closed
    /\ Die
    /\ orderly' = FALSE

(* Mutant: every bot that exists is restored.                              *)
BootRestoresAll ==
    /\ ~up /\ crashes < MaxCrashes
    /\ up' = TRUE
    /\ crashes' = crashes + 1
    /\ restoring' = {b \in Bots : record[b] # "deleted"}
    /\ UNCHANGED <<redis, memory, listening, requests, proc, history>>

(* ListByStatus(running), at once after the start of the process.          *)
Boot ==
    /\ ~up /\ crashes < MaxCrashes
    /\ up' = TRUE
    /\ crashes' = crashes + 1
    /\ restoring' = {b \in index : record[b] # "deleted"}
    /\ UNCHANGED <<redis, memory, listening, requests, proc, history>>

(* SubscribeAllUsersWithAPIKeys, a goroutine of its own, got through.      *)
MonitorReady ==
    /\ up /\ ~listening
    /\ listening' = TRUE
    /\ UNCHANGED <<redis, memory, restoring, up, crashes, requests, proc, history>>

(* The restore goroutine: status stopped, then StartBot, bot by bot.       *)
Restore(b) ==
    /\ b \in restoring
    /\ Begin("boot", b, "reset", None, "stopped")
    /\ restoring' = restoring \ {b}
    /\ UNCHANGED <<redis, memory, listening, up, crashes, requests, wanted>>

ResetRecord ==
    /\ At("boot", "reset")
    /\ \/ RecordStatus("boot", "stopped", "resetting")
       \/ record[Bot("boot")] = "deleted" /\ Finish("boot") /\ UNCHANGED record
    /\ UNCHANGED <<index, memory, outside, history>>

ResetIndex ==
    /\ At("boot", "resetting")
    /\ IndexStatus("boot", "stopped")
    /\ Goto("boot", "restart")
    /\ UNCHANGED <<record, memory, outside, history>>

Restart ==
    /\ At("boot", "restart")
    /\ IF Startable(Bot("boot")) THEN Goto("boot", "start") ELSE Finish("boot")
    /\ UNCHANGED <<redis, memory, outside, history>>

(*-----------------------------------------------------------------------*)
Request(p, b) == StartBot(p, b) \/ StopBot(p, b) \/ UpdateBot(p, b) \/ DeleteBot(p, b)

Starting(p) ==
    \/ StartLookup(p) \/ StartSubscribe(p) \/ StartRecord(p)
    \/ StartIndex(p) \/ StartInsert(p)

Stopping(p) ==
    \/ StopFind(p) \/ StopClose(p) \/ StopUnsubscribe(p)
    \/ StopDelete(p) \/ StopRecord(p) \/ StopIndex(p)

ErrorStopping ==
    \/ ErrorCheck \/ ErrorClose \/ ErrorRecord
    \/ ErrorIndex \/ ErrorUnsubscribe \/ ErrorDelete \/ ClosePanic

Restoring == ResetRecord \/ ResetIndex \/ Restart \/ \E b \in Bots : Restore(b)

Next ==
    \/ \E p \in Requests, b \in Bots : Request(p, b)
    \/ \E p \in Requests \cup {"boot"} : Starting(p)
    \/ \E p \in Requests : Stopping(p) \/ Erase(p)
    \/ \E p \in Requests \cup {"loop"} : WriteBack(p)
    \/ \E i \in Instances : SaveBalance(i) \/ ErrorStop(i) \/ LoopExit(i)
    \/ ErrorStopping
    \/ Restoring
    \/ Crash \/ Boot \/ MonitorReady

Spec == Init /\ [][Next]_vars

(*------------------------------ properties -------------------------------*)
TypeOK ==
    /\ record \in [Bots -> Statuses \cup {"deleted"}]
    /\ index \subseteq Bots
    /\ instances \in [Bots -> Instances \cup {None}]
    /\ inst \in [Instances -> [bot : Bots, loop : {"none", "running", "exited"},
                               closed : BOOLEAN]]
    /\ made \in 0 .. MaxInstances
    /\ handlers \in [Pairs -> Seq(Instances)]
    /\ restoring \subseteq Bots
    /\ \A p \in Procs : /\ Bot(p) \in Bots
                        /\ proc[p].inst \in Instances \cup {None}
                        /\ proc[p].old \in Statuses
    /\ crashes \in 0 .. MaxCrashes /\ requests \in 0 .. MaxRequests
    /\ wanted \in [Bots -> BOOLEAN]
    /\ {listening, up, orderly} \subseteq BOOLEAN

(* Nobody is in the middle of an operation.                                *)
Quiet == up /\ restoring = {} /\ \A p \in Procs : proc[p].pc = "idle"

(* The instances of b whose loop will handle the next ticker.              *)
Trading(b) == {i \in Instances : inst[i].bot = b /\ Looping(i) /\ ~inst[i].closed}

(* As long as operations do not overlap, the record, the index, the map    *)
(* and the goroutines agree on which bots run, through failed starts,      *)
(* error stops, crashes and restores.                                      *)
StatusIsTrue ==
    orderly /\ Quiet =>
        \A b \in Bots :
            /\ Trading(b) = {instances[b]} \ {None}
            /\ record[b] = "running" <=> instances[b] # None
            /\ record[b] = "running" <=> b \in index

(* A bot that runs gets the tickers of its pair (StartBot subscribes,      *)
(* others unsubscribe).                                                    *)
RunningBotHearsTicks ==
    orderly /\ Quiet =>
        \A b \in Bots : \A i \in Trading(b) :
            \E k \in DOMAIN handlers[PairOf[b]] : handlers[PairOf[b]][k] = i

(* However requests, errors and crashes interleave, handlers do not pile   *)
(* up: when all is quiet a pair has no more of them than bots that trade.  *)
HandlersDoNotLeak ==
    Quiet => \A pair \in Pairs :
        Len(handlers[pair]) <=
            Cardinality(UNION {Trading(b) : b \in {c \in Bots : PairOf[c] = pair}})

(* No bot trades against the last command carried out for it, a restore    *)
(* after a crash included.                                                 *)
TradesOnlyIfWanted ==
    orderly /\ Quiet => \A b \in Bots : Trading(b) # {} => wanted[b]

(* "Restore running bots after server restart" (main.go): a bot that was   *)
(* started, and not stopped since, runs once the restore is over.          *)
RunningBotsAreRestored ==
    orderly /\ Quiet => \A b \in Bots : wanted[b] => Trading(b) # {}

(* What holds however operations overlap: types, and no handler is left    *)
(* behind.                                                                 *)
LifecycleInv == TypeOK /\ HandlersDoNotLeak
=============================================================================
