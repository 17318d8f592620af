------------------------------ MODULE PrivateWS ------------------------------
(***************************************************************************)
(* The private WebSocket of one user: PrivateWSClient                      *)
(* (private_ws_client.go) with its reader, its writers and its reconnect   *)
(* loop, the subscription that OrderMonitor keeps of it (order_monitor.go) *)
(* and the API key it is opened with (apikey_service.go).                  *)
(*                                                                         *)
(* Every SubscribeUserOrders that gets past its checks makes a new client  *)
(* object.  The goroutines of an object follow each other: Connect starts  *)
(* a reader, a reader that ends starts the reconnect loop, and that calls  *)
(* Connect; so "loop" says where the one that is alive is.  Writers do     *)
(* not: every Connect starts one, nothing closes c.done, and they all take *)
(* messages from the one channel.  Connect holds the mutex c.mu that Close *)
(* and the writers need, so it is one step.                                *)
(***************************************************************************)
EXTENDS Naturals, Sequences, FiniteSets

CONSTANTS
    Objects,       \* bound: client objects, 1 .. as many as calls
    Budgets        \* bounds: pairs of calls of SubscribeUserOrders and of
                   \* troubles (refused dials, expired or refused tokens,
                   \* drops) that a behaviour may contain

ASSUME PrivateWSAssumption ==
    /\ IsFiniteSet(Objects) /\ Objects = 1 .. Cardinality(Objects)
    /\ Budgets \subseteq Objects \X Nat

None == 0
Requests == {"connect", "subscribe"}

VARIABLES
    obj,        \* PrivateWSClient objects
    link,       \* the last connection of each object, as the exchange has it
    entry,      \* OrderMonitor.wsClients of the user: an object or None
    wait,       \* the call that holds OrderMonitor.mu and waits, or NoWait
    waiting,    \* calls of SubscribeUserOrders before the mutex
    deleting,   \* a call of UnsubscribeUserOrders before the mutex
    key,        \* whether the user has an API key
    confirmed,  \* objects whose subscription the exchange ever accepted
    calls, troubles     \* what is left of the budget

monitor == <<entry, wait, waiting, deleting>>
bounds == <<calls, troubles>>
vars == <<obj, link, monitor, key, confirmed, bounds>>

(* Channels of capacity one: <<>> or <<value>>.                            *)
NoObject ==
    [up |-> FALSE, failed |-> FALSE, auth |-> <<>>, sub |-> <<>>,
     chan |-> <<>>, idle |-> 0, held |-> [m \in Requests |-> 0], loop |-> "none"]
NoLink == [st |-> "none", auth |-> FALSE, sub |-> FALSE, in |-> <<>>, out |-> <<>>]
NoWait == [o |-> None, stale |-> FALSE, auth |-> <<>>, sub |-> <<>>, authed |-> FALSE]

Init ==
    /\ obj = [o \in Objects |-> NoObject]
    /\ link = [o \in Objects |-> NoLink]
    /\ entry = None /\ wait = NoWait /\ waiting = 0 /\ deleting = FALSE
    /\ key = FALSE /\ confirmed = {}
    /\ \E b \in Budgets : calls = b[1] /\ troubles = b[2]

Trouble == troubles > 0 /\ troubles' = troubles - 1
NoTrouble == troubles' = troubles

-----------------------------------------------------------------------------
(* PrivateWSClient.                                                        *)

(* A non-blocking send to a channel of capacity one.                       *)
Signal(ch, value) == IF ch = <<>> THEN <<value>> ELSE ch

(* Close, and what the exchange sees of it.                                *)
Closed(c) == [c EXCEPT !.up = FALSE]
Ended(l, st) == [NoLink EXCEPT !.st = st, !.out = l.out]
Hangup(l) == IF l.st = "open" THEN Ended(l, "closed") ELSE l

(* Connect: the flag is cleared and the channels are new whatever follows; *)
(* then a reader, a writer and two requests for whichever writer.          *)
Fresh(c) == [c EXCEPT !.failed = FALSE, !.auth = <<>>, !.sub = <<>>]
Connected(c) ==
    [Fresh(c) EXCEPT !.up = TRUE, !.loop = "read", !.idle = @ + 1,
                     !.chan = @ \o <<"connect", "subscribe">>]

(* A waiting call keeps the channels it has looked up.                     *)
KeepChannels(o) ==
    wait' = IF wait.o = o /\ ~wait.stale
            THEN [wait EXCEPT !.stale = TRUE, !.auth = obj[o].auth, !.sub = obj[o].sub]
            ELSE wait

(* writePump.                                                              *)
WriterTakes(o) ==
    /\ obj[o].idle > 0 /\ obj[o].chan # <<>>
    /\ obj' = [obj EXCEPT ![o].idle = @ - 1, ![o].chan = Tail(@),
                          ![o].held[Head(obj[o].chan)] = @ + 1]
    /\ UNCHANGED <<link, monitor, key, confirmed, bounds>>

WriterDrops(o, m) ==
    /\ obj[o].held[m] > 0 /\ ~obj[o].up
    /\ obj' = [obj EXCEPT ![o].held[m] = @ - 1, ![o].idle = @ + 1]
    /\ UNCHANGED <<link, monitor, key, confirmed, bounds>>

WriterWrites(o, m) ==
    /\ obj[o].held[m] > 0 /\ obj[o].up
    /\ IF link[o].st = "open"
       THEN /\ link' = [link EXCEPT ![o].in = Append(@, m)]
            /\ obj' = [obj EXCEPT ![o].held[m] = @ - 1, ![o].idle = @ + 1]
       ELSE /\ link' = link
            /\ \/ obj' = [obj EXCEPT ![o].held[m] = @ - 1, ![o].idle = @ + 1]
               \/ obj' = [obj EXCEPT ![o] = [Closed(obj[o]) EXCEPT !.held[m] = @ - 1]]
    /\ UNCHANGED <<monitor, key, confirmed, bounds>>

(* handleMessage.                                                          *)
HandleExpired(o) ==
    /\ obj' = [obj EXCEPT ![o] = [Closed(obj[o]) EXCEPT !.auth = Signal(@, FALSE)]]
    /\ link' = [link EXCEPT ![o] = [Hangup(link[o]) EXCEPT !.out = Tail(@)]]
HandleError(o) ==
    /\ obj' = [obj EXCEPT ![o] = [Closed(obj[o]) EXCEPT !.auth = Signal(@, FALSE),
                                                   !.failed = TRUE]]
    /\ link' = [link EXCEPT ![o] = [Hangup(link[o]) EXCEPT !.out = Tail(@)]]
HandleConnect(o) ==
    /\ obj' = [obj EXCEPT ![o].failed = FALSE, ![o].auth = Signal(@, TRUE)]
    /\ link' = [link EXCEPT ![o].out = Tail(@)]
HandleSubscribe(o) ==
    /\ obj' = [obj EXCEPT ![o].sub = Signal(@, TRUE)]
    /\ link' = [link EXCEPT ![o].out = Tail(@)]

Receive(o) ==
    /\ obj[o].loop = "read" /\ link[o].out # <<>>
    /\ \/ Head(link[o].out) = "expired" /\ HandleExpired(o)
       \/ Head(link[o].out) = "error" /\ HandleError(o)
       \/ Head(link[o].out) = "connected" /\ HandleConnect(o)
       \/ Head(link[o].out) = "subscribed" /\ HandleSubscribe(o)
    /\ UNCHANGED <<monitor, key, confirmed, bounds>>

(* An order update is passed on by the reader itself, which needs          *)
(* OrderMonitor.mu for reading.                                            *)
PassOn(o) ==
    /\ obj[o].loop = "read"
    /\ link[o].out # <<>> /\ Head(link[o].out) = "update"
    /\ wait = NoWait
    /\ link' = [link EXCEPT ![o].out = Tail(@)]
    /\ UNCHANGED <<obj, monitor, key, confirmed, bounds>>

(* ReadMessage fails: by a close frame, behind what was sent before it, or *)
(* because the connection is gone.  Codes 3501 and 1008 are the end, any   *)
(* other end starts the reconnect loop.                                    *)
ReaderEnds(o, c) ==
    /\ obj' = [obj EXCEPT ![o] =
                 [Closed(c) EXCEPT !.loop = IF c.failed THEN "ended" ELSE "retry"]]
    /\ link' = [link EXCEPT ![o] = [Hangup(link[o]) EXCEPT !.out = <<>>]]

ReadFails(o) ==
    LET st == link[o].st
        signalled == [obj[o] EXCEPT !.auth = Signal(@, FALSE), !.sub = Signal(@, FALSE)]
    IN
    /\ obj[o].loop = "read"
    /\ \/ /\ st = "rejected" /\ link[o].out = <<>>
          /\ ReaderEnds(o, [signalled EXCEPT !.failed = TRUE])
       \/ /\ st = "stale" /\ link[o].out = <<>>
          /\ ReaderEnds(o, obj[o])
       \/ /\ st = "closed" \/ ~obj[o].up
          /\ ReaderEnds(o, signalled)
    /\ UNCHANGED <<monitor, key, confirmed, bounds>>

(* Mutant: one failed dial ends the loop.                                  *)
ReconnectOnce(o) ==
    /\ obj[o].loop = "retry" /\ ~obj[o].failed /\ ~obj[o].up
    /\ \/ /\ obj' = [obj EXCEPT ![o] = Connected(@)]
          /\ link' = [link EXCEPT ![o] = [NoLink EXCEPT !.st = "open"]]
          /\ NoTrouble
       \/ /\ obj' = [obj EXCEPT ![o] = [Fresh(@) EXCEPT !.loop = "none"]]
          /\ link' = link
          /\ Trouble
    /\ KeepChannels(o)
    /\ UNCHANGED <<entry, waiting, deleting, key, confirmed, calls>>

(* The reconnect loop: it looks at nothing but its flags.                  *)
Reconnect(o) ==
    /\ obj[o].loop = "retry" /\ ~obj[o].failed /\ ~obj[o].up
    /\ \/ /\ obj' = [obj EXCEPT ![o] = Connected(@)]
          /\ link' = [link EXCEPT ![o] = [NoLink EXCEPT !.st = "open"]]
          /\ NoTrouble
       \/ /\ obj' = [obj EXCEPT ![o] = Fresh(@)]
          /\ link' = link
          /\ Trouble
    /\ KeepChannels(o)
    /\ UNCHANGED <<entry, waiting, deleting, key, confirmed, calls>>

-----------------------------------------------------------------------------
(* OrderMonitor.                                                           *)

Free == wait = NoWait
NewObject == CHOOSE o \in Objects :
    /\ obj[o] = NoObject
    /\ \A p \in Objects : obj[p] = NoObject => o <= p

(* SubscribeUserOrders up to its Connect; the mutex is kept while it waits.*)
Subscribe ==
    /\ Free /\ waiting > 0
    /\ waiting' = waiting - 1
    /\ IF entry # None \/ ~key
       THEN UNCHANGED <<obj, link, wait, troubles>>
       ELSE \/ /\ NoTrouble
               /\ obj' = [obj EXCEPT ![NewObject] = Connected(@)]
               /\ link' = [link EXCEPT ![NewObject] = [NoLink EXCEPT !.st = "open"]]
               /\ wait' = [NoWait EXCEPT !.o = NewObject]
            \/ Trouble /\ UNCHANGED <<obj, link, wait>>
    /\ UNCHANGED <<entry, deleting, key, confirmed, calls>>

(* WaitForSubscription: what the channels it knows hold.                   *)
AuthSeen == IF wait.stale THEN wait.auth ELSE obj[wait.o].auth
SubSeen == IF wait.stale THEN wait.sub ELSE obj[wait.o].sub

WaitAuth ==
    /\ ~Free /\ ~wait.authed
    /\ AuthSeen = <<TRUE>>
    /\ wait' = [wait EXCEPT !.authed = TRUE, !.auth = <<>>]
    /\ obj' = IF wait.stale THEN obj ELSE [obj EXCEPT ![wait.o].auth = <<>>]
    /\ UNCHANGED <<link, entry, waiting, deleting, key, confirmed, bounds>>

(* Mutant: the subscription is not waited for.                             *)
WaitSubSkipped ==
    /\ ~Free /\ wait.authed
    /\ entry' = wait.o /\ wait' = NoWait
    /\ UNCHANGED <<obj, link, waiting, deleting, key, confirmed, bounds>>

WaitSub ==
    /\ ~Free /\ wait.authed
    /\ SubSeen = <<TRUE>>
    /\ entry' = wait.o /\ wait' = NoWait
    /\ obj' = IF wait.stale THEN obj ELSE [obj EXCEPT ![wait.o].sub = <<>>]
    /\ UNCHANGED <<link, waiting, deleting, key, confirmed, bounds>>

(* Mutant: only an answer ends the wait.                                   *)
GiveUpOnAnswer ==
    /\ ~Free
    /\ IF wait.authed THEN SubSeen = <<FALSE>> ELSE AuthSeen = <<FALSE>>
    /\ wait' = NoWait
    /\ obj' = [obj EXCEPT ![wait.o] = Closed(@)]
    /\ link' = [link EXCEPT ![wait.o] = Hangup(@)]
    /\ UNCHANGED <<entry, waiting, deleting, key, confirmed, bounds>>

(* Refused, or five seconds have passed: the object is closed and given up *)
(* by the monitor, though its reconnect loop does not know.                *)
GiveUp ==
    /\ ~Free
    /\ wait' = NoWait
    /\ obj' = [obj EXCEPT ![wait.o] = Closed(@)]
    /\ link' = [link EXCEPT ![wait.o] = Hangup(@)]
    /\ UNCHANGED <<entry, waiting, deleting, key, confirmed, bounds>>

(* UnsubscribeUserOrders.                                                  *)
Unsubscribe ==
    /\ deleting /\ Free
    /\ deleting' = FALSE /\ entry' = None
    /\ IF entry = None THEN UNCHANGED <<obj, link>>
       ELSE /\ obj' = [obj EXCEPT ![entry] = Closed(@)]
            /\ link' = [link EXCEPT ![entry] = Hangup(@)]
    /\ UNCHANGED <<wait, waiting, key, confirmed, bounds>>

-----------------------------------------------------------------------------
(* Callers: APIKeyService saves a key and subscribes in the background;    *)
(* boot, Copilot and the validation of a key subscribe too.                *)

Call ==
    /\ calls > 0
    /\ calls' = calls - 1 /\ waiting' = waiting + 1
    /\ UNCHANGED <<obj, link, entry, wait, deleting, key, confirmed, troubles>>

CreateKey ==
    /\ calls > 0 /\ ~deleting
    /\ key' = TRUE
    /\ calls' = calls - 1 /\ waiting' = waiting + 1
    /\ UNCHANGED <<obj, link, entry, wait, deleting, confirmed, troubles>>

DeleteKey ==
    /\ key /\ ~deleting
    /\ key' = FALSE /\ deleting' = TRUE
    /\ UNCHANGED <<obj, link, entry, wait, waiting, confirmed, bounds>>

-----------------------------------------------------------------------------
(* The exchange.  A connection starts with "connect", then one "subscribe";*)
(* what comes out of order is refused and ends the connection.             *)

Reply(o, msg) == link' = [link EXCEPT ![o].in = Tail(@), ![o].out = Append(@, msg)]

Serve(o) ==
    LET m == Head(link[o].in) l == link[o] IN
    /\ l.st = "open" /\ l.in # <<>>
    /\ \/ /\ m = "connect" /\ ~l.auth /\ NoTrouble
          /\ link' = [link EXCEPT ![o].auth = TRUE, ![o].in = Tail(@),
                                  ![o].out = Append(@, "connected")]
          /\ confirmed' = confirmed
       \/ /\ m = "connect" /\ ~l.auth /\ Trouble
          /\ \E msg \in {"expired", "error"} : Reply(o, msg)
          /\ confirmed' = confirmed
       \/ /\ m = "subscribe" /\ l.auth /\ ~l.sub /\ NoTrouble
          /\ link' = [link EXCEPT ![o].sub = TRUE, ![o].in = Tail(@),
                                  ![o].out = Append(@, "subscribed")]
          /\ confirmed' = confirmed \cup {o}
       \/ /\ IF m = "connect" THEN l.auth ELSE ~l.auth \/ l.sub
          /\ NoTrouble
          /\ link' = [link EXCEPT ![o] = Ended(@, "rejected")]
          /\ confirmed' = confirmed
    /\ UNCHANGED <<obj, monitor, key, calls>>

(* An order update; one at a time is on its way.                           *)
Publish(o) ==
    /\ link[o].st = "open" /\ link[o].sub
    /\ \A i \in DOMAIN link[o].out : link[o].out[i] # "update"
    /\ link' = [link EXCEPT ![o].out = Append(@, "update")]
    /\ UNCHANGED <<obj, monitor, key, confirmed, bounds>>

Drop(o) ==
    /\ link[o].st = "open" /\ Trouble
    /\ \E st \in {"stale", "closed"} : link' = [link EXCEPT ![o] = Ended(@, st)]
    /\ UNCHANGED <<obj, monitor, key, confirmed, calls>>

-----------------------------------------------------------------------------
Writer(o) ==
    WriterTakes(o) \/ \E m \in Requests : WriterDrops(o, m) \/ WriterWrites(o, m)
Reader(o) == Receive(o) \/ PassOn(o) \/ ReadFails(o) \/ Reconnect(o)
Monitor == Subscribe \/ WaitAuth \/ WaitSub \/ GiveUp \/ Unsubscribe

Next ==
    \/ \E o \in Objects : Writer(o) \/ Reader(o) \/ Serve(o) \/ Publish(o) \/ Drop(o)
    \/ Monitor
    \/ Call \/ CreateKey \/ DeleteKey

Spec == Init /\ [][Next]_vars

(* Goroutines run, the exchange answers, five seconds pass.                *)
Fairness ==
    /\ \A o \in Objects : WF_vars(Writer(o)) /\ WF_vars(Reader(o)) /\ WF_vars(Serve(o))
    /\ WF_vars(Monitor)
FairSpec == Spec /\ Fairness

-----------------------------------------------------------------------------
(* Properties.                                                             *)

(* Types; who waits has an object that is not registered.                  *)
TypeOK ==
    /\ entry \in Objects \cup {None} /\ wait.o \in Objects \cup {None}
    /\ key \in BOOLEAN /\ waiting \in Nat
    /\ \A o \in Objects :
         /\ obj[o].auth \in {<<>>, <<TRUE>>, <<FALSE>>}
         /\ obj[o].sub \in {<<>>, <<TRUE>>, <<FALSE>>}
         /\ obj[o].loop \in {"none", "read", "retry", "ended"}
         /\ obj[o].idle \in Nat
    /\ ~Free => entry = None

(* "Subscribed ... (verified)": the monitor registers a client only when   *)
(* the exchange has accepted its subscription, whatever drops, stale       *)
(* channels and reconnects happened while it waited (SubscribeUserOrders). *)
Verified == entry # None => entry \in confirmed

(* Once an API key's deletion is over, nobody is registered with it, with  *)
(* whatever subscription it raced (APIKeyService.Delete).                  *)
DeletedIsUnsubscribed == ~key /\ ~deleting => entry = None

(* The registered client is subscribed again after every loss of its       *)
(* connection, dial that failed and token that expired, unless the exchange*)
(* refuses it: also for the order in which its writers, one more after     *)
(* each reconnect, have sent its two requests.                             *)
Subscribed(o) == obj[o].up /\ link[o].st = "open" /\ link[o].sub
ComesBack ==
    \A o \in Objects :
        entry = o ~> \/ Subscribed(o) \/ entry # o
                     \/ obj[o].loop = "ended" \/ link[o].st = "rejected"

(* Nobody keeps OrderMonitor.mu for good: not the call that waits for      *)
(* confirmations that went to channels replaced by a reconnect, nor one    *)
(* whose reader is waiting for that mutex to pass an update on.            *)
MutexIsReleased == ~Free ~> Free

(* "Track if authentication failed": a client believes it was refused only *)
(* if the exchange refused what it sent in the right order.                *)
FailedMeansRefused ==
    \A o \in Objects : obj[o].failed => link[o].st # "rejected"

(* Whom the order monitor believes to be subscribed, while connections     *)
(* drop, calls time out and keys are replaced.                             *)
MonitorInv == TypeOK /\ Verified /\ DeletedIsUnsubscribed
=============================================================================
