-------------------------------- MODULE WSHub --------------------------------
(***************************************************************************)
(* How news reaches the browsers: the market updates that                  *)
(* NotificationService collects and publishes (notification_service.go),   *)
(* Redis Pub/Sub, the listener that takes the messages, the hub            *)
(* (ws_hub.go) and the two pumps of every connection.                      *)
(*                                                                         *)
(* There is one pair, whose state is a version number.  Broadcasts carry   *)
(* the version; messages to a user carry nothing.  The array behind a      *)
(* user's slice of clients is modelled, since SendToUser goes on reading   *)
(* it after it has released the lock.                                      *)
(***************************************************************************)
EXTENDS Naturals, Sequences, FiniteSets

CONSTANTS
    Clients,      \* connections, numbered in the order they are opened
    UserOf,       \* the user of each
    Capacity,     \* of a client's Send channel
    MaxVersion,   \* bound: market updates
    MaxMessages,  \* bound: messages published for users
    MaxLost       \* bound: publications that fail

ASSUME WSHubAssumption ==
    /\ IsFiniteSet(Clients) /\ Clients = 1 .. Cardinality(Clients)
    /\ Capacity \in Nat \ {0}
    /\ {MaxVersion, MaxMessages, MaxLost} \subseteq Nat

Users == {UserOf[c] : c \in Clients}
None == 0

VARIABLES
    coin,        \* version of the pair
    batch,       \* whether marketUpdateBatch holds the pair
    flushing,    \* the flusher holds a batch it has not published
    broadcasts,  \* published for all, not yet taken by the listener
    directs,     \* published for a user, not yet taken
    listener,    \* what the goroutine of StartPubSubListener does
    hub,         \* the broadcast Run works on, or None
    clients,     \* h.clients
    userConns,   \* h.userConns: the array and the length of the slice
    conn,        \* connections: socket, Send channel and whether the hub has
                 \* closed it; the version shown, and whether one is due
    panicked,    \* the process has died
    messages, lost

publisher == <<coin, batch, flushing>>
redis == <<broadcasts, directs>>
maps == <<clients, userConns>>
bounds == <<messages, lost>>
vars == <<publisher, redis, listener, hub, maps, conn, panicked, bounds>>

Idle == [pc |-> "idle", msg |-> None, user |-> None, arr |-> <<>>, own |-> FALSE,
         n |-> 0, i |-> 0]
NoSlice == [arr |-> <<>>, len |-> 0]
(* sock: not yet open, open, closed (its reader waits for the hub), gone.  *)
NewConn == [sock |-> "none", send |-> <<>>, closed |-> FALSE,
            due |-> FALSE, shown |-> 0]
Gone == [NewConn EXCEPT !.sock = "gone", !.closed = TRUE]

Init ==
    /\ coin = 0 /\ batch = FALSE /\ flushing = FALSE
    /\ broadcasts = <<>> /\ directs = <<>>
    /\ listener = Idle /\ hub = None
    /\ clients = {} /\ userConns = [u \in Users |-> NoSlice]
    /\ conn = [c \in Clients |-> NewConn]
    /\ panicked = FALSE /\ messages = 0 /\ lost = 0

-----------------------------------------------------------------------------
(* NotificationService.                                                    *)

(* A market update: the batch holds a pointer to the coin, not a copy.     *)
NotifyMarketUpdate ==
    /\ coin < MaxVersion
    /\ coin' = coin + 1 /\ batch' = TRUE
    /\ conn' = [c \in Clients |-> [conn[c] EXCEPT !.due = conn[c].sock = "open"]]
    /\ UNCHANGED <<flushing, redis, listener, hub, maps, panicked, bounds>>

FlushTake ==
    /\ batch /\ ~flushing
    /\ batch' = FALSE /\ flushing' = TRUE
    /\ UNCHANGED <<coin, redis, listener, hub, maps, conn, panicked, bounds>>

(* Broadcast: what the coin is by now is published, or an error is logged. *)
FlushPublish ==
    /\ flushing /\ flushing' = FALSE
    /\ \/ broadcasts' = Append(broadcasts, coin) /\ lost' = lost
       \/ lost < MaxLost /\ lost' = lost + 1 /\ broadcasts' = broadcasts
    /\ UNCHANGED <<coin, batch, directs, listener, hub, maps, conn, panicked, messages>>

NotifyUser(u) ==
    /\ messages < MaxMessages
    /\ messages' = messages + 1
    /\ directs' = Append(directs, u)
    /\ UNCHANGED <<publisher, broadcasts, listener, hub, maps, conn, panicked, lost>>

-----------------------------------------------------------------------------
(* StartPubSubListener: one message at a time.                             *)

(* Mutant: messages overtake each other.                                   *)
ListenBroadcastAny ==
    \E i \in DOMAIN broadcasts :
    /\ listener = Idle
    /\ listener' = [Idle EXCEPT !.pc = "broadcast", !.msg = broadcasts[i]]
    /\ broadcasts' = SubSeq(broadcasts, 1, i - 1)
                     \o SubSeq(broadcasts, i + 1, Len(broadcasts))
    /\ UNCHANGED <<publisher, directs, hub, maps, conn, panicked, bounds>>

ListenBroadcast ==
    /\ listener = Idle /\ broadcasts # <<>>
    /\ listener' = [Idle EXCEPT !.pc = "broadcast", !.msg = Head(broadcasts)]
    /\ broadcasts' = Tail(broadcasts)
    /\ UNCHANGED <<publisher, directs, hub, maps, conn, panicked, bounds>>

(* SendToUser: the slice is read under the lock ...                        *)
ListenDirect ==
    LET u == Head(directs) IN
    /\ listener = Idle /\ directs # <<>>
    /\ directs' = Tail(directs)
    /\ listener' = IF userConns[u].len = 0 THEN Idle
                   ELSE [Idle EXCEPT !.pc = "send", !.user = u, !.n = userConns[u].len,
                                     !.i = 1]
    /\ UNCHANGED <<publisher, broadcasts, hub, maps, conn, panicked, bounds>>

(* ... and its elements are read without it.                               *)
Element == IF listener.own THEN listener.arr[listener.i]
           ELSE userConns[listener.user].arr[listener.i]
SendNext ==
    LET c == Element IN
    /\ listener.pc = "send"
    /\ IF conn[c].closed
       THEN panicked' = TRUE /\ UNCHANGED <<conn, listener>>
       ELSE /\ panicked' = panicked
            /\ conn' = IF Len(conn[c].send) = Capacity THEN conn
                       ELSE [conn EXCEPT ![c].send = Append(@, None)]
            /\ listener' = IF listener.i = listener.n THEN Idle
                           ELSE [listener EXCEPT !.i = @ + 1]
    /\ UNCHANGED <<publisher, redis, hub, maps, bounds>>

-----------------------------------------------------------------------------
(* WSHub.Run.                                                              *)

(* The listener keeps an array that the slice leaves.                      *)
Detach(u) ==
    listener' = IF listener.user = u /\ ~listener.own
                THEN [listener EXCEPT !.own = TRUE, !.arr = userConns[u].arr]
                ELSE listener

(* append: in place while the capacity lasts, else in an array of twice    *)
(* the size.                                                               *)
Grown(arr, c) ==
    [i \in 1 .. (IF arr = <<>> THEN 1 ELSE 2 * Len(arr)) |->
        IF i <= Len(arr) THEN arr[i] ELSE IF i = Len(arr) + 1 THEN c ELSE None]

(* ServeWS: the hub takes the client, then its pumps start.                *)
Register(c) ==
    LET u == UserOf[c] s == userConns[u] IN
    /\ hub = None
    /\ conn[c].sock = "none" /\ \A d \in 1 .. (c - 1) : conn[d].sock # "none"
    /\ clients' = clients \cup {c}
    /\ IF s.len < Len(s.arr)
       THEN /\ userConns' = [userConns EXCEPT ![u].arr[s.len + 1] = c, ![u].len = @ + 1]
            /\ listener' = listener
       ELSE /\ userConns' = [userConns EXCEPT ![u] = [arr |-> Grown(s.arr, c),
                                                      len |-> s.len + 1]]
            /\ Detach(u)
    /\ conn' = [conn EXCEPT ![c].sock = "open"]
    /\ UNCHANGED <<publisher, redis, hub, panicked, bounds>>

(* append(conns[:i], conns[i+1:]...) moves the elements within the array.  *)
Removed(s, c) ==
    LET i == CHOOSE j \in 1 .. s.len : s.arr[j] = c
    IN  [arr |-> [j \in DOMAIN s.arr |->
                    IF j \in i .. (s.len - 1) THEN s.arr[j + 1] ELSE s.arr[j]],
         len |-> s.len - 1]
Remove(s, c) == IF c \in {s.arr[j] : j \in 1 .. s.len} THEN Removed(s, c) ELSE s

Unregister(c) ==
    LET u == UserOf[c] s == Remove(userConns[u], c) IN
    /\ hub = None /\ conn[c].sock = "closed"
    /\ clients' = clients \ {c}
    /\ conn' = [conn EXCEPT ![c] = Gone]
    /\ IF c \notin clients THEN UNCHANGED <<userConns, listener>>
       ELSE /\ userConns' = [userConns EXCEPT ![u] = IF s.len = 0 THEN NoSlice ELSE s]
            /\ IF s.len = 0 THEN Detach(u) ELSE listener' = listener
    /\ UNCHANGED <<publisher, redis, hub, panicked, bounds>>

(* The listener hands a broadcast over, and the hub offers it to everyone: *)
(* a client whose channel is full loses it and its place among the clients,*)
(* but not the one in userConns.                                           *)
HandOver ==
    /\ listener.pc = "broadcast" /\ hub = None
    /\ hub' = listener.msg /\ listener' = Idle
    /\ UNCHANGED <<publisher, redis, maps, conn, panicked, bounds>>

Offered(c) == [conn[c] EXCEPT !.send = Append(@, hub)]
Full == {c \in clients : Len(conn[c].send) = Capacity}

(* Mutant: a full client misses the message.                               *)
FanOutSkipping ==
    /\ hub # None /\ hub' = None
    /\ clients' = clients
    /\ conn' = [c \in Clients |-> IF c \in clients \ Full THEN Offered(c) ELSE conn[c]]
    /\ UNCHANGED <<publisher, redis, listener, userConns, panicked, bounds>>

(* Mutant: the closed client stays registered.                             *)
FanOutKeeps ==
    /\ hub # None /\ hub' = None
    /\ conn' = [c \in Clients |->
                  IF c \in Full THEN [conn[c] EXCEPT !.closed = TRUE]
                  ELSE IF c \in clients THEN Offered(c) ELSE conn[c]]
    /\ UNCHANGED <<publisher, redis, listener, maps, panicked, bounds>>

(* Mutant: a full client is waited for.                                    *)
FanOutBlocking ==
    /\ hub # None /\ hub' = None
    /\ Full = {} /\ clients' = clients
    /\ conn' = [c \in Clients |-> IF c \in clients THEN Offered(c) ELSE conn[c]]
    /\ UNCHANGED <<publisher, redis, listener, userConns, panicked, bounds>>

FanOut ==
    /\ hub # None /\ hub' = None
    /\ clients' = clients \ Full
    /\ conn' = [c \in Clients |->
                  IF c \in Full THEN [conn[c] EXCEPT !.closed = TRUE]
                  ELSE IF c \in clients THEN Offered(c) ELSE conn[c]]
    /\ UNCHANGED <<publisher, redis, listener, userConns, panicked, bounds>>

-----------------------------------------------------------------------------
(* The pumps.                                                              *)

Newest(c, m) == IF m = None THEN conn[c].shown ELSE m

(* What WritePump takes it writes; when the hub has closed the channel and *)
(* all is taken it closes the socket.  It ends with the socket, and so does*)
(* ReadPump, which then waits for the hub to unregister its client.        *)
WritePump(c) ==
    /\ conn[c].sock = "open"
    /\ \/ /\ conn[c].send # <<>>
          /\ conn' = [conn EXCEPT ![c].send = Tail(@),
                                  ![c].shown = Newest(c, Head(conn[c].send))]
       \/ /\ conn[c].send = <<>> /\ conn[c].closed
          /\ conn' = [conn EXCEPT ![c].sock = "closed"]
    /\ UNCHANGED <<publisher, redis, listener, hub, maps, panicked, bounds>>

(* The browser leaves, or does not answer a ping within 60 seconds.        *)
Leave(c) ==
    /\ conn[c].sock = "open"
    /\ conn' = [conn EXCEPT ![c].sock = "closed"]
    /\ UNCHANGED <<publisher, redis, listener, hub, maps, panicked, bounds>>

-----------------------------------------------------------------------------
Flush == FlushTake \/ FlushPublish
Listener == ListenBroadcast \/ ListenDirect \/ SendNext \/ HandOver
Run(c) == Unregister(c)

Next ==
    /\ ~panicked
    /\ \/ NotifyMarketUpdate \/ Flush \/ Listener \/ FanOut
       \/ \E u \in Users : NotifyUser(u)
       \/ \E c \in Clients : Register(c) \/ Run(c) \/ WritePump(c) \/ Leave(c)

Spec == Init /\ [][Next]_vars

(* The hub's select and the goroutines go on while the process lives.      *)
Alive(A) == ~panicked /\ A
Fairness ==
    /\ WF_vars(Alive(Flush)) /\ WF_vars(Alive(Listener)) /\ WF_vars(Alive(FanOut))
    /\ \A c \in Clients : SF_vars(Alive(Run(c))) /\ WF_vars(Alive(WritePump(c)))
FairSpec == Spec /\ Fairness

-----------------------------------------------------------------------------
(* Properties.                                                             *)

(* Types; nobody's channel is over its capacity.                           *)
TypeOK ==
    /\ coin \in 0 .. MaxVersion /\ {batch, flushing, panicked} \subseteq BOOLEAN
    /\ clients \subseteq Clients
    /\ \A u \in Users : userConns[u].len <= Len(userConns[u].arr)
    /\ \A c \in Clients :
         /\ Len(conn[c].send) <= Capacity
         /\ conn[c].sock \in {"none", "open", "closed", "gone"}

(* No channel is closed twice, which would end the process: a client that  *)
(* a broadcast has closed is not closed again when its reader unregisters  *)
(* it (Run).                                                               *)
ClosedOnce == \A c \in clients : ~conn[c].closed

(* A registered client is in its user's slice exactly once, whatever was   *)
(* appended to and moved within the array.                                 *)
InItsSlice ==
    \A c \in clients : LET s == userConns[UserOf[c]] IN
        Cardinality({j \in 1 .. s.len : s.arr[j] = c}) = 1

(* Who is still registered and has nothing left to be written has been     *)
(* shown the latest version of a pair that changed since it joined: slow   *)
(* clients are dropped, never left behind.                                 *)
Quiet == ~batch /\ ~flushing /\ broadcasts = <<>> /\ listener = Idle /\ hub = None
LatestIsShown ==
    Quiet /\ lost = 0 =>
        \A c \in clients : conn[c].sock = "open" /\ conn[c].send = <<>>
                           /\ conn[c].due => conn[c].shown = coin

(* A browser never sees a pair go back to an older version.                *)
NeverOlder == [][\A c \in Clients : conn'[c].sock = "open" =>
                    conn'[c].shown >= conn[c].shown]_vars

(* Connections that have ended leave the hub, though readers wait for a    *)
(* hub that may be busy with broadcasts to clients nobody writes for: again*)
(* and again there is none left.                                           *)
EndedIsForgotten ==
    []<>(panicked \/ \A c \in clients : conn[c].sock # "closed")

(* "Buffer full, handled by unregistering later": nothing is sent on a     *)
(* closed channel.                                                         *)
NoPanic == ~panicked

(* What the hub's own data keep to.                                        *)
HubInv == TypeOK /\ ClosedOnce /\ InItsSlice
=============================================================================
