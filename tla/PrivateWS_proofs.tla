-------------------------- MODULE PrivateWS_proofs --------------------------
(***************************************************************************)
(* Proofs about PrivateWS: whom the order monitor believes to be           *)
(* subscribed.                                                             *)
(***************************************************************************)
EXTENDS PrivateWS, FiniteSetTheorems, TLAPS

-----------------------------------------------------------------------------
(* Types.                                                                  *)
Channels == {<<>>, <<TRUE>>, <<FALSE>>}
Replies == {"connected", "subscribed", "expired", "error", "update"}
ObjectType ==
    [up : BOOLEAN, failed : BOOLEAN, auth : Channels, sub : Channels,
     chan : Seq(Requests), idle : Nat, held : [Requests -> Nat],
     loop : {"none", "read", "retry", "ended"}]
LinkType ==
    [st : {"none", "open", "closed", "stale", "rejected"}, auth : BOOLEAN,
     sub : BOOLEAN, in : Seq(Requests), out : Seq(Replies)]
WaitType ==
    [o : Objects \cup {None}, stale : BOOLEAN, auth : Channels, sub : Channels,
     authed : BOOLEAN]

Types ==
    /\ obj \in [Objects -> ObjectType]
    /\ link \in [Objects -> LinkType]
    /\ wait \in WaitType
    /\ entry \in Objects \cup {None}
    /\ waiting \in Nat /\ calls \in Nat
    /\ key \in BOOLEAN /\ deleting \in BOOLEAN

(* The inductive invariant.                                                *)

(* Every call that may still make a client object finds one that was never *)
(* used: objects are made in their order, and there are as many as calls.  *)
Used == {o \in Objects : obj[o].loop # "none"}
EnoughObjects ==
    /\ \A o \in Objects \ Used : obj[o] = NoObject
    /\ \E n \in 0 .. Cardinality(Objects) :
          Used = 1 .. n /\ n + waiting + calls <= Cardinality(Objects)

(* Whoever says "subscribed" - a reply on its way, the channel of an       *)
(* object, one that the waiting call kept - says so of a subscription that *)
(* the exchange has accepted.                                              *)
SaidOf(o) ==
    \/ \E i \in DOMAIN link[o].out : link[o].out[i] = "subscribed"
    \/ obj[o].sub = <<TRUE>>
    \/ wait.o = o /\ wait.sub = <<TRUE>>
SaidIsTrue == \A o \in Objects : SaidOf(o) => o \in confirmed

(* A call that waits holds the mutex: nobody is registered meanwhile, and  *)
(* the key it started with is there or about to be unsubscribed.           *)
WaitsAlone ==
    /\ ~Free => wait.o \in Objects /\ entry = None
    /\ ~Free \/ entry # None => key \/ deleting

PrivateInv == Types /\ EnoughObjects /\ SaidIsTrue /\ WaitsAlone /\ Verified

-----------------------------------------------------------------------------
(* What the operators return.                                              *)

LEMMA CountType ==
  /\ Cardinality(Objects) \in Nat
  /\ Objects = 1 .. Cardinality(Objects)
  /\ None \notin Objects
  BY PrivateWSAssumption, FS_CardinalityType DEF None

LEMMA SignalFacts ==
  ASSUME NEW ch \in Channels, NEW value \in BOOLEAN
  PROVE  /\ Signal(ch, value) \in Channels
         /\ Signal(ch, FALSE) = <<TRUE>> => ch = <<TRUE>>
  <1>1. Signal(ch, value) \in Channels
    BY DEF Signal, Channels
  <1>2. <<FALSE>> # <<TRUE>>
    <2>1. <<FALSE>>[1] = FALSE /\ <<TRUE>>[1] = TRUE
      OBVIOUS
    <2> QED
      BY <2>1
  <1>3. Signal(ch, FALSE) = <<TRUE>> => ch = <<TRUE>>
    BY <1>2 DEF Signal
  <1> QED
    BY <1>1, <1>3

LEMMA NoObjectType == NoObject \in ObjectType /\ NoObject.loop = "none"
  BY DEF NoObject, ObjectType, Channels, Requests

(* One field of an object, or of a connection, at a time.                  *)
LEMMA ObjectFields ==
  /\ \A c \in ObjectType, v \in BOOLEAN :
       /\ [c EXCEPT !.up = v] \in ObjectType /\ [c EXCEPT !.up = v].up = v
       /\ [c EXCEPT !.up = v].sub = c.sub /\ [c EXCEPT !.up = v].loop = c.loop
  /\ \A c \in ObjectType, v \in BOOLEAN :
       /\ [c EXCEPT !.failed = v] \in ObjectType /\ [c EXCEPT !.failed = v].failed = v
       /\ [c EXCEPT !.failed = v].sub = c.sub /\ [c EXCEPT !.failed = v].loop = c.loop
  /\ \A c \in ObjectType, v \in Channels :
       /\ [c EXCEPT !.auth = v] \in ObjectType /\ [c EXCEPT !.auth = v].auth = v
       /\ [c EXCEPT !.auth = v].sub = c.sub /\ [c EXCEPT !.auth = v].loop = c.loop
  /\ \A c \in ObjectType, v \in Channels :
       /\ [c EXCEPT !.sub = v] \in ObjectType /\ [c EXCEPT !.sub = v].sub = v
       /\ [c EXCEPT !.sub = v].loop = c.loop
  /\ \A c \in ObjectType, v \in {"none", "read", "retry", "ended"} :
       /\ [c EXCEPT !.loop = v] \in ObjectType /\ [c EXCEPT !.loop = v].loop = v
       /\ [c EXCEPT !.loop = v].sub = c.sub
  /\ \A c \in ObjectType, v \in Nat :
       /\ [c EXCEPT !.idle = v] \in ObjectType /\ [c EXCEPT !.idle = v].idle = v
       /\ [c EXCEPT !.idle = v].sub = c.sub /\ [c EXCEPT !.idle = v].loop = c.loop
  /\ \A c \in ObjectType, v \in Seq(Requests) :
       /\ [c EXCEPT !.chan = v] \in ObjectType /\ [c EXCEPT !.chan = v].chan = v
       /\ [c EXCEPT !.chan = v].sub = c.sub /\ [c EXCEPT !.chan = v].loop = c.loop
  /\ \A c \in ObjectType, v \in [Requests -> Nat] :
       /\ [c EXCEPT !.held = v] \in ObjectType /\ [c EXCEPT !.held = v].held = v
       /\ [c EXCEPT !.held = v].sub = c.sub /\ [c EXCEPT !.held = v].loop = c.loop
  BY DEF ObjectType

LEMMA LinkFields ==
  /\ \A c \in LinkType, v \in Seq(Requests) :
       /\ [c EXCEPT !.in = v] \in LinkType /\ [c EXCEPT !.in = v].in = v
       /\ [c EXCEPT !.in = v].out = c.out
  /\ \A c \in LinkType, v \in Seq(Replies) :
       /\ [c EXCEPT !.out = v] \in LinkType /\ [c EXCEPT !.out = v].out = v
  /\ \A c \in LinkType, v \in BOOLEAN :
       /\ [c EXCEPT !.auth = v] \in LinkType /\ [c EXCEPT !.auth = v].auth = v
       /\ [c EXCEPT !.auth = v].out = c.out
  /\ \A c \in LinkType, v \in BOOLEAN :
       /\ [c EXCEPT !.sub = v] \in LinkType /\ [c EXCEPT !.sub = v].sub = v
       /\ [c EXCEPT !.sub = v].out = c.out
  BY DEF LinkType

LEMMA ClosedFacts ==
  ASSUME NEW c \in ObjectType
  PROVE  /\ Closed(c) \in ObjectType
         /\ Closed(c).sub = c.sub /\ Closed(c).loop = c.loop
         /\ Closed(NoObject) = NoObject
  <1>1. Closed(c) \in ObjectType
    BY DEF Closed, ObjectType
  <1>2. Closed(c).sub = c.sub /\ Closed(c).loop = c.loop
    BY DEF Closed, ObjectType
  <1>3. Closed(NoObject) = NoObject
    <2>1. \A n \in ObjectType : n.up = FALSE => [n EXCEPT !.up = FALSE] = n
      BY DEF ObjectType
    <2>2. NoObject.up = FALSE
      BY DEF NoObject
    <2> QED
      BY ONLY <2>1, <2>2, NoObjectType DEF Closed
  <1> QED
    BY <1>1, <1>2, <1>3

LEMMA FreshFacts ==
  ASSUME NEW c \in ObjectType
  PROVE  /\ Fresh(c) \in ObjectType
         /\ Fresh(c).sub = <<>> /\ Fresh(c).loop = c.loop
  BY DEF Fresh, ObjectType, Channels

LEMMA ConnectedFacts ==
  ASSUME NEW c \in ObjectType
  PROVE  /\ Connected(c) \in ObjectType
         /\ Connected(c).sub = <<>> /\ Connected(c).loop = "read"
  <1>1. Fresh(c) \in ObjectType /\ Fresh(c).sub = <<>>
    BY FreshFacts
  <1>2. <<"connect", "subscribe">> \in Seq(Requests)
    BY DEF Requests
  <1>3. Fresh(c).chan \o <<"connect", "subscribe">> \in Seq(Requests)
    BY <1>1, <1>2 DEF ObjectType
  <1> DEFINE d == Fresh(c)
             e == Connected(c)
  <1>4. e = [d EXCEPT !.up = TRUE, !.loop = "read", !.idle = d.idle + 1,
                      !.chan = d.chan \o <<"connect", "subscribe">>]
    BY DEF Connected
  <1> HIDE DEF d, e
  <1>5. d \in ObjectType /\ d.sub = <<>> /\ d.chan \o <<"connect", "subscribe">> \in Seq(Requests)
    BY <1>1, <1>3 DEF d
  <1>6. e.loop = "read" /\ e.sub = <<>>
    BY <1>4, <1>5 DEF ObjectType
  <1>7. e \in ObjectType
    <2>1. \A x \in ObjectType : /\ [x EXCEPT !.up = TRUE] \in ObjectType
                               /\ [x EXCEPT !.up = TRUE].idle = x.idle
      BY DEF ObjectType
    <2>2. \A x \in ObjectType : /\ [x EXCEPT !.loop = "read"] \in ObjectType
                               /\ [x EXCEPT !.loop = "read"].idle = x.idle
      BY DEF ObjectType
    <2>3. \A x \in ObjectType, n \in Nat : [x EXCEPT !.idle = n] \in ObjectType
      BY DEF ObjectType
    <2>4. \A x \in ObjectType, s \in Seq(Requests) : [x EXCEPT !.chan = s] \in ObjectType
      BY DEF ObjectType
    <2>5. d.idle + 1 \in Nat
      BY <1>5 DEF ObjectType
    <2> QED
      BY ONLY <1>4, <1>5, <2>1, <2>2, <2>3, <2>4, <2>5
  <1> QED
    BY <1>6, <1>7 DEF e

LEMMA NoLinkType == NoLink \in LinkType /\ [NoLink EXCEPT !.st = "open"] \in LinkType
                    /\ [NoLink EXCEPT !.st = "open"].out = <<>>
  <1>1. <<>> \in Seq(Requests) /\ <<>> \in Seq(Replies)
    OBVIOUS
  <1>2. NoLink \in LinkType
    BY <1>1 DEF NoLink, LinkType
  <1>3. [NoLink EXCEPT !.st = "open"] \in LinkType
    BY <1>2 DEF LinkType
  <1>4. [NoLink EXCEPT !.st = "open"].out = <<>>
    BY DEF NoLink
  <1> QED
    BY <1>2, <1>3, <1>4

LEMMA EndedFacts ==
  ASSUME NEW l \in LinkType, NEW st \in {"closed", "stale", "rejected"}
  PROVE  /\ Ended(l, st) \in LinkType /\ Ended(l, st).out = l.out
         /\ Hangup(l) \in LinkType /\ Hangup(l).out = l.out
  <1>1. \A s \in {"closed", "stale", "rejected"} : Ended(l, s) \in LinkType /\ Ended(l, s).out = l.out
    BY NoLinkType DEF Ended, NoLink, LinkType
  <1> QED
    BY <1>1 DEF Hangup

(* Nothing new is said when a reply is taken.                              *)
LEMMA TailFacts ==
  ASSUME NEW T, NEW s \in Seq(T), s # <<>>
  PROVE  /\ Tail(s) \in Seq(T) /\ Head(s) \in T /\ Head(s) = s[1] /\ 1 \in DOMAIN s
         /\ \A i \in DOMAIN Tail(s) : \E j \in DOMAIN s : Tail(s)[i] = s[j]
  <1>1. Len(s) \in Nat /\ Len(s) > 0 /\ DOMAIN s = 1 .. Len(s)
    OBVIOUS
  <1>2. Tail(s) \in Seq(T) /\ Head(s) \in T /\ Head(s) = s[1]
    BY <1>1
  <1>3. ASSUME NEW i \in DOMAIN Tail(s) PROVE \E j \in DOMAIN s : Tail(s)[i] = s[j]
    <2>1. i \in 1 .. Len(s) - 1 /\ Tail(s)[i] = s[i + 1]
      BY <1>1
    <2> QED
      BY <1>1, <2>1
  <1> QED
    BY <1>1, <1>2, <1>3

LEMMA AppendFacts ==
  ASSUME NEW T, NEW s \in Seq(T), NEW e \in T
  PROVE  /\ Append(s, e) \in Seq(T)
         /\ \A i \in DOMAIN Append(s, e) : Append(s, e)[i] = e \/ \E j \in DOMAIN s : Append(s, e)[i] = s[j]
  <1>1. \A i \in DOMAIN Append(s, e) : i \in DOMAIN s \/ i = Len(s) + 1
    OBVIOUS
  <1> QED
    BY <1>1

-----------------------------------------------------------------------------
(* How a step moves an object and its connection.                          *)

OnItsWay(o) == \E i \in DOMAIN link[o].out : link[o].out[i] = "subscribed"

(* One object becomes c, saying nothing that the exchange did not say; it  *)
(* is not made by this, nor unmade.                                        *)
Becomes(o, c) ==
    /\ c \in ObjectType /\ obj' = [obj EXCEPT ![o] = c]
    /\ c.sub = <<TRUE>> => obj[o].sub = <<TRUE>> \/ OnItsWay(o)
    /\ c.loop = "none" <=> obj[o].loop = "none"
    /\ obj[o] = NoObject => c = NoObject
ObjectsMove == obj' = obj \/ \E o \in Objects : \E c : Becomes(o, c)

(* One connection becomes l, bringing only what the exchange has accepted. *)
LinkBecomes(o, l) ==
    /\ l \in LinkType /\ link' = [link EXCEPT ![o] = l]
    /\ \A i \in DOMAIN l.out : l.out[i] = "subscribed" => OnItsWay(o) \/ o \in confirmed'
LinksMove == link' = link \/ \E o \in Objects : \E l : LinkBecomes(o, l)

LEMMA WriterMoves ==
  ASSUME Types, NEW o \in Objects, Writer(o)
  PROVE  ObjectsMove /\ LinksMove
  <1>0. obj[o] \in ObjectType /\ link[o] \in LinkType /\ obj \in [Objects -> ObjectType]
        /\ link \in [Objects -> LinkType]
    BY DEF Types
  <1>1. NoObject.idle = 0 /\ \A m \in Requests : NoObject.held[m] = 0
    BY DEF NoObject
  <1>2. CASE WriterTakes(o)
    <2> DEFINE m == Head(obj[o].chan)
               h == [obj[o].held EXCEPT ![m] = @ + 1]
               c1 == [obj[o] EXCEPT !.idle = obj[o].idle - 1]
               s == Tail(obj[o].chan)
               c2 == [c1 EXCEPT !.chan = s]
               c == [c2 EXCEPT !.held = h]
    <2>1. obj' = [obj EXCEPT ![o] = c] /\ link' = link /\ obj[o].idle > 0 /\ obj[o].chan # <<>>
      BY <1>0, <1>2 DEF WriterTakes, ObjectType
    <2>2. m \in Requests /\ s \in Seq(Requests) /\ obj[o].idle - 1 \in Nat
          /\ obj[o].held \in [Requests -> Nat]
      BY <1>0, <2>1 DEF ObjectType
    <2>3. h \in [Requests -> Nat]
      BY <2>2
    <2> HIDE DEF h, m, s
    <2>4. c \in ObjectType /\ c.sub = obj[o].sub /\ c.loop = obj[o].loop
      <3>1. c1 \in ObjectType /\ c1.sub = obj[o].sub /\ c1.loop = obj[o].loop
        BY ONLY <1>0, <2>2, ObjectFields
      <3> HIDE DEF c1
      <3>2. c2 \in ObjectType /\ c2.sub = obj[o].sub /\ c2.loop = obj[o].loop
        BY ONLY <3>1, <2>2, ObjectFields
      <3> HIDE DEF c2
      <3> QED
        BY ONLY <3>2, <2>3, ObjectFields
    <2>5. obj[o] # NoObject
      BY <1>1, <2>1
    <2> HIDE DEF c
    <2>6. Becomes(o, c)
      BY <2>1, <2>4, <2>5 DEF Becomes
    <2> QED
      BY <2>1, <2>6 DEF ObjectsMove, LinksMove
  <1>3. ASSUME NEW m \in Requests, WriterDrops(o, m) \/ WriterWrites(o, m)
        PROVE  ObjectsMove /\ LinksMove
    <2> DEFINE h == [obj[o].held EXCEPT ![m] = @ - 1]
               c1 == [obj[o] EXCEPT !.held = h]
               c == [c1 EXCEPT !.idle = obj[o].idle + 1]
               d1 == Closed(obj[o])
               d == [d1 EXCEPT !.held = h]
               q == Append(link[o].in, m)
               l == [link[o] EXCEPT !.in = q]
    <2>1. obj[o].held[m] > 0 /\ obj[o].held[m] \in Nat /\ obj[o].held \in [Requests -> Nat]
      BY <1>0, <1>3 DEF WriterDrops, WriterWrites, ObjectType
    <2>2. obj[o] # NoObject /\ h \in [Requests -> Nat]
          /\ obj[o].idle + 1 \in Nat /\ q \in Seq(Requests)
      BY <1>0, <1>1, <2>1 DEF ObjectType, LinkType
    <2>3. /\ obj[o].held[m] - 1 = h[m] /\ d1.held = obj[o].held
          /\ c = [obj[o] EXCEPT !.held[m] = @ - 1, !.idle = @ + 1]
          /\ d = [Closed(obj[o]) EXCEPT !.held[m] = @ - 1]
          /\ l = [link[o] EXCEPT !.in = Append(@, m)]
      BY <1>0, <2>1 DEF ObjectType, LinkType, Closed
    <2>4. \/ link' = [link EXCEPT ![o] = l] /\ obj' = [obj EXCEPT ![o] = c]
          \/ link' = link /\ obj' = [obj EXCEPT ![o] = c]
          \/ link' = link /\ obj' = [obj EXCEPT ![o] = d]
      <3>1. [obj EXCEPT ![o].held[m] = @ - 1, ![o].idle = @ + 1] = [obj EXCEPT ![o] = c]
        BY <1>0 DEF ObjectType
      <3>2. [obj EXCEPT ![o] = [Closed(obj[o]) EXCEPT !.held[m] = @ - 1]] = [obj EXCEPT ![o] = d]
        BY <1>0, <2>3
      <3>3. [link EXCEPT ![o].in = Append(@, m)] = [link EXCEPT ![o] = l]
        BY <1>0
      <3> HIDE DEF c, d, l, h, q
      <3> QED
        BY <1>3, <3>1, <3>2, <3>3 DEF WriterDrops, WriterWrites
    <2> HIDE DEF h, q
    <2>5. c \in ObjectType /\ c.sub = obj[o].sub /\ c.loop = obj[o].loop
      <3>1. c1 \in ObjectType /\ c1.sub = obj[o].sub /\ c1.loop = obj[o].loop
        BY ONLY <1>0, <2>2, ObjectFields
      <3> HIDE DEF c1
      <3> QED
        BY ONLY <3>1, <2>2, ObjectFields
    <2>6. d \in ObjectType /\ d.sub = obj[o].sub /\ d.loop = obj[o].loop
      <3>1. d1 \in ObjectType /\ d1.sub = obj[o].sub /\ d1.loop = obj[o].loop
        BY <1>0, ClosedFacts
      <3> HIDE DEF d1
      <3> QED
        BY ONLY <3>1, <2>2, ObjectFields
    <2>7. l \in LinkType /\ l.out = link[o].out
      BY ONLY <1>0, <2>2, LinkFields
    <2> HIDE DEF c, d, l
    <2>8. Becomes(o, c) \/ Becomes(o, d)
      BY <2>2, <2>4, <2>5, <2>6 DEF Becomes
    <2>9. link' = link \/ LinkBecomes(o, l)
      BY <2>4, <2>7 DEF LinkBecomes, OnItsWay
    <2> QED
      BY <2>8, <2>9 DEF ObjectsMove, LinksMove
  <1> QED
    BY <1>2, <1>3 DEF Writer

(* The reader and its reconnect loop work on an object that was made.      *)
LEMMA ReceiveMoves ==
  ASSUME Types, NEW o \in Objects, Receive(o)
  PROVE  ObjectsMove /\ LinksMove
  <1>0. obj[o] \in ObjectType /\ link[o] \in LinkType /\ obj \in [Objects -> ObjectType]
        /\ link \in [Objects -> LinkType] /\ obj[o] # NoObject
    BY NoObjectType DEF Types, Receive
  <1>1. link[o].out \in Seq(Replies) /\ link[o].out # <<>> /\ obj[o].auth \in Channels
        /\ obj[o].sub \in Channels
    BY <1>0 DEF Receive, LinkType, ObjectType
  <1>2. /\ Tail(link[o].out) \in Seq(Replies) /\ Head(link[o].out) = link[o].out[1]
        /\ 1 \in DOMAIN link[o].out
        /\ \A i \in DOMAIN Tail(link[o].out) :
              \E j \in DOMAIN link[o].out : Tail(link[o].out)[i] = link[o].out[j]
    BY ONLY <1>1, TailFacts
  <1> DEFINE q == Tail(link[o].out)
             k == [Hangup(link[o]) EXCEPT !.out = q]
             l == [link[o] EXCEPT !.out = q]
             a == Signal(obj[o].auth, FALSE)
             b == Signal(obj[o].auth, TRUE)
             s == Signal(obj[o].sub, TRUE)
             x == Closed(obj[o])
             c1 == [x EXCEPT !.auth = a]
             c2 == [c1 EXCEPT !.failed = TRUE]
             d1 == [obj[o] EXCEPT !.failed = FALSE]
             d2 == [d1 EXCEPT !.auth = b]
             d3 == [obj[o] EXCEPT !.sub = s]
  <1>3. q \in Seq(Replies) /\ a \in Channels /\ b \in Channels /\ s \in Channels
    BY <1>1, <1>2, SignalFacts
  <1>4. Hangup(link[o]) \in LinkType
    BY <1>0, EndedFacts
  <1>5. x \in ObjectType /\ x.sub = obj[o].sub /\ x.loop = obj[o].loop
    BY <1>0, ClosedFacts
  <1>6. x.auth = obj[o].auth
    BY <1>0 DEF Closed, ObjectType
  <1>7. \/ obj' = [obj EXCEPT ![o] = c1] /\ link' = [link EXCEPT ![o] = k]
        \/ obj' = [obj EXCEPT ![o] = c2] /\ link' = [link EXCEPT ![o] = k]
        \/ obj' = [obj EXCEPT ![o] = d2] /\ link' = [link EXCEPT ![o] = l]
        \/ /\ obj' = [obj EXCEPT ![o] = d3] /\ link' = [link EXCEPT ![o] = l]
           /\ Head(link[o].out) = "subscribed"
    <2>1. CASE HandleExpired(o)
      BY <2>1, <1>0, <1>6, EndedFacts DEF HandleExpired
    <2>2. CASE HandleError(o)
      <3>1. c2 = [x EXCEPT !.auth = Signal(@, FALSE), !.failed = TRUE]
        BY <1>6
      <3>2. k = [Hangup(link[o]) EXCEPT !.out = Tail(@)]
        BY <1>0, EndedFacts
      <3> HIDE DEF c2, k
      <3> QED
        BY <2>2, <3>1, <3>2 DEF HandleError
    <2>3. CASE HandleConnect(o)
      <3>1. obj' = [obj EXCEPT ![o] = d2]
        BY <2>3, <1>0 DEF HandleConnect, ObjectType
      <3>2. link' = [link EXCEPT ![o] = l]
        BY <2>3, <1>0 DEF HandleConnect
      <3> QED
        BY <3>1, <3>2
    <2>4. CASE HandleSubscribe(o) /\ Head(link[o].out) = "subscribed"
      BY <2>4, <1>0 DEF HandleSubscribe
    <2> QED
      BY <2>1, <2>2, <2>3, <2>4 DEF Receive
  <1> HIDE DEF q, a, b, s, x
  <1>8. \A y \in {c1, c2, d2} : y \in ObjectType /\ y.sub = obj[o].sub /\ y.loop = obj[o].loop
    <2>1. c1 \in ObjectType /\ c1.sub = obj[o].sub /\ c1.loop = obj[o].loop
      BY ONLY <1>3, <1>5, ObjectFields
    <2> HIDE DEF c1
    <2>2. c2 \in ObjectType /\ c2.sub = obj[o].sub /\ c2.loop = obj[o].loop
      BY ONLY <2>1, ObjectFields
    <2>3. d1 \in ObjectType /\ d1.sub = obj[o].sub /\ d1.loop = obj[o].loop
      BY ONLY <1>0, ObjectFields
    <2> HIDE DEF d1, c2
    <2>4. d2 \in ObjectType /\ d2.sub = obj[o].sub /\ d2.loop = obj[o].loop
      BY ONLY <2>3, <1>3, ObjectFields
    <2> HIDE DEF d2
    <2> QED
      BY <2>1, <2>2, <2>4
  <1>9. d3 \in ObjectType /\ d3.loop = obj[o].loop
    BY ONLY <1>0, <1>3, ObjectFields
  <1>10. \A m \in {k, l} : m \in LinkType /\ m.out = q
    <2>1. k \in LinkType /\ k.out = q
      BY ONLY <1>3, <1>4, LinkFields
    <2>2. l \in LinkType /\ l.out = q
      BY ONLY <1>0, <1>3, LinkFields
    <2> QED
      BY <2>1, <2>2
  <1>11. \A i \in DOMAIN q : q[i] = "subscribed" => OnItsWay(o)
    BY <1>2 DEF q, OnItsWay
  <1>12. Head(link[o].out) = "subscribed" => OnItsWay(o)
    BY <1>2 DEF OnItsWay
  <1> HIDE DEF c1, c2, d1, d2, d3, k, l
  <1>13. \E c : Becomes(o, c)
    BY <1>0, <1>7, <1>8, <1>9, <1>12 DEF Becomes
  <1>14. \E m : LinkBecomes(o, m)
    BY <1>7, <1>10, <1>11 DEF LinkBecomes
  <1> QED
    BY <1>13, <1>14 DEF ObjectsMove, LinksMove

LEMMA PassOnMoves ==
  ASSUME Types, NEW o \in Objects, PassOn(o)
  PROVE  LinksMove
  <1>1. link[o] \in LinkType /\ link \in [Objects -> LinkType]
    BY DEF Types
  <1>2. link[o].out \in Seq(Replies) /\ link[o].out # <<>>
    BY <1>1 DEF PassOn, LinkType
  <1> DEFINE q == Tail(link[o].out)
             l == [link[o] EXCEPT !.out = q]
  <1>3. q \in Seq(Replies) /\ \A i \in DOMAIN q : \E j \in DOMAIN link[o].out : q[i] = link[o].out[j]
    BY ONLY <1>2, TailFacts
  <1>4. link' = [link EXCEPT ![o] = l]
    BY <1>1 DEF PassOn
  <1> HIDE DEF q
  <1>5. l \in LinkType /\ l.out = q
    BY ONLY <1>1, <1>3, LinkFields
  <1> HIDE DEF l
  <1>6. LinkBecomes(o, l)
    BY <1>3, <1>4, <1>5 DEF LinkBecomes, OnItsWay
  <1> QED
    BY <1>6 DEF LinksMove

LEMMA ReadFailsMoves ==
  ASSUME Types, NEW o \in Objects, ReadFails(o)
  PROVE  ObjectsMove /\ LinksMove
  <1>0. obj[o] \in ObjectType /\ link[o] \in LinkType /\ obj \in [Objects -> ObjectType]
        /\ link \in [Objects -> LinkType] /\ obj[o] # NoObject /\ obj[o].loop # "none"
    BY NoObjectType DEF Types, ReadFails
  <1>1. obj[o].auth \in Channels /\ obj[o].sub \in Channels
    BY <1>0 DEF ObjectType
  <1> DEFINE a == Signal(obj[o].auth, FALSE)
             s == Signal(obj[o].sub, FALSE)
             c1 == [obj[o] EXCEPT !.auth = a]
             c2 == [c1 EXCEPT !.sub = s]
             c3 == [c2 EXCEPT !.failed = TRUE]
             h == Hangup(link[o])
             nothing == <<>>
             l == [h EXCEPT !.out = nothing]
  <1>2. a \in Channels /\ s \in Channels /\ (s = <<TRUE>> => obj[o].sub = <<TRUE>>)
    BY <1>1, SignalFacts
  <1>3. ReaderEnds(o, c3) \/ ReaderEnds(o, c2) \/ ReaderEnds(o, obj[o])
    <2>1. c2 = [obj[o] EXCEPT !.auth = Signal(@, FALSE), !.sub = Signal(@, FALSE)]
      BY <1>0 DEF ObjectType
    <2> HIDE DEF c2
    <2> QED
      BY <2>1 DEF ReadFails
  <1>4. nothing \in Seq(Replies) /\ h \in LinkType
    BY <1>0, EndedFacts
  <1> HIDE DEF a, s, h, nothing
  <1>5. c2 \in ObjectType /\ c2.sub = s
    <2>1. c1 \in ObjectType
      BY ONLY <1>0, <1>2, ObjectFields
    <2> HIDE DEF c1
    <2> QED
      BY ONLY <2>1, <1>2, ObjectFields
  <1>6. c3 \in ObjectType /\ c3.sub = s
    <2> HIDE DEF c2
    <2> QED
      BY ONLY <1>5, ObjectFields
  <1>7. l \in LinkType /\ l.out = <<>>
    <2>1. l \in LinkType /\ l.out = nothing
      BY ONLY <1>4, LinkFields
    <2> QED
      BY <2>1 DEF nothing
  <1> HIDE DEF c2, c3, l
  <1>8. PICK x \in {c2, c3, obj[o]} : ReaderEnds(o, x)
    BY <1>3
  <1> DEFINE n == IF x.failed THEN "ended" ELSE "retry"
             y == Closed(x)
             z == [y EXCEPT !.loop = n]
  <1>9. obj' = [obj EXCEPT ![o] = z] /\ link' = [link EXCEPT ![o] = l]
    BY <1>8 DEF ReaderEnds, l, h, nothing
  <1>10. x \in ObjectType /\ (x.sub = <<TRUE>> => obj[o].sub = <<TRUE>>)
    BY <1>0, <1>2, <1>5, <1>6
  <1>11. y \in ObjectType /\ y.sub = x.sub
    BY <1>10, ClosedFacts
  <1>12. n \in {"none", "read", "retry", "ended"} /\ n # "none"
    OBVIOUS
  <1> HIDE DEF y, n
  <1>13. z \in ObjectType /\ z.sub = x.sub /\ z.loop = n
    <2>1. \A v \in {"none", "read", "retry", "ended"} :
             LET e == [y EXCEPT !.loop = v] IN
             e \in ObjectType /\ e.loop = v /\ e.sub = y.sub
      BY ONLY <1>11, ObjectFields
    <2> QED
      BY ONLY <1>11, <1>12, <2>1
  <1> HIDE DEF z
  <1>14. Becomes(o, z)
    BY <1>0, <1>9, <1>10, <1>12, <1>13 DEF Becomes
  <1>15. LinkBecomes(o, l)
    BY <1>7, <1>9 DEF LinkBecomes
  <1> QED
    BY <1>14, <1>15 DEF ObjectsMove, LinksMove

(* What a waiting call keeps of the channels of its object is what they    *)
(* held.                                                                   *)
WaitKept ==
    /\ wait' \in WaitType /\ wait'.o = wait.o
    /\ Free' <=> Free
    /\ \A o \in Objects : wait'.o = o /\ wait'.sub = <<TRUE>> => SaidOf(o)

LEMMA ReconnectMoves ==
  ASSUME Types, NEW o \in Objects, Reconnect(o)
  PROVE  ObjectsMove /\ LinksMove /\ WaitKept
  <1>0. obj[o] \in ObjectType /\ link[o] \in LinkType /\ obj \in [Objects -> ObjectType]
        /\ link \in [Objects -> LinkType] /\ obj[o] # NoObject /\ obj[o].loop # "none"
    BY NoObjectType DEF Types, Reconnect
  <1> DEFINE c == Connected(obj[o])
             d == Fresh(obj[o])
             l == [NoLink EXCEPT !.st = "open"]
  <1>1. \/ obj' = [obj EXCEPT ![o] = c] /\ link' = [link EXCEPT ![o] = l]
        \/ obj' = [obj EXCEPT ![o] = d] /\ link' = link
    BY <1>0 DEF Reconnect
  <1>2. c \in ObjectType /\ c.sub = <<>> /\ c.loop = "read"
    BY <1>0, ConnectedFacts
  <1>3. d \in ObjectType /\ d.sub = <<>> /\ d.loop = obj[o].loop
    BY <1>0, FreshFacts
  <1>4. l \in LinkType /\ l.out = <<>>
    BY NoLinkType
  <1>5. <<>> # <<TRUE>>
    OBVIOUS
  <1> HIDE DEF c, d, l
  <1>6. \E x : Becomes(o, x)
    BY <1>0, <1>1, <1>2, <1>3, <1>5 DEF Becomes
  <1>7. link' = link \/ LinkBecomes(o, l)
    BY <1>1, <1>4 DEF LinkBecomes
  <1>8. WaitKept
    <2>1. wait \in WaitType
      BY DEF Types
    <2>2. CASE wait.o = o /\ ~wait.stale
      <3> DEFINE w1 == [wait EXCEPT !.stale = TRUE]
                 w2 == [w1 EXCEPT !.auth = obj[o].auth]
                 w == [w2 EXCEPT !.sub = obj[o].sub]
      <3>1. wait' = [wait EXCEPT !.stale = TRUE, !.auth = obj[o].auth, !.sub = obj[o].sub]
        BY <2>2 DEF Reconnect, KeepChannels
      <3>2. wait' = w
        BY <3>1
      <3>3. w \in WaitType /\ w.o = o /\ w.sub = obj[o].sub
        BY <1>0, <2>1, <2>2 DEF WaitType, ObjectType
      <3>4. o # NoWait.o
        BY CountType DEF NoWait
      <3> QED
        BY <2>2, <3>2, <3>3, <3>4 DEF WaitKept, SaidOf, Free
    <2>3. CASE ~(wait.o = o /\ ~wait.stale)
      BY <2>1, <2>3 DEF Reconnect, KeepChannels, WaitKept, SaidOf, Free
    <2> QED
      BY <2>2, <2>3
  <1> QED
    BY <1>6, <1>7, <1>8 DEF ObjectsMove, LinksMove

-----------------------------------------------------------------------------
(* The exchange.                                                           *)

LEMMA ServeMoves ==
  ASSUME Types, NEW o \in Objects, Serve(o)
  PROVE  LinksMove /\ confirmed \subseteq confirmed'
  <1>0. link[o] \in LinkType /\ link \in [Objects -> LinkType]
    BY DEF Types
  <1>1. link[o].in \in Seq(Requests) /\ link[o].in # <<>> /\ link[o].out \in Seq(Replies)
    BY <1>0 DEF Serve, LinkType
  <1>2. Tail(link[o].in) \in Seq(Requests)
    BY ONLY <1>1, TailFacts
  <1> DEFINE t == Tail(link[o].in)
             q(msg) == Append(link[o].out, msg)
             l1 == [link[o] EXCEPT !.in = t]
             l2(msg) == [l1 EXCEPT !.out = q(msg)]
             l3 == [l2("connected") EXCEPT !.auth = TRUE]
             l4 == [l2("subscribed") EXCEPT !.sub = TRUE]
             l5 == Ended(link[o], "rejected")
  <1>3. \A msg \in Replies :
           /\ q(msg) \in Seq(Replies)
           /\ \A i \in DOMAIN q(msg) : q(msg)[i] = "subscribed" => OnItsWay(o) \/ msg = "subscribed"
    BY <1>1, AppendFacts DEF OnItsWay
  <1>4. /\ confirmed \subseteq confirmed'
        /\ \/ link' = [link EXCEPT ![o] = l3]
           \/ \E msg \in {"expired", "error"} : link' = [link EXCEPT ![o] = l2(msg)]
           \/ link' = [link EXCEPT ![o] = l4] /\ o \in confirmed'
           \/ link' = [link EXCEPT ![o] = l5]
    <2>1. [link EXCEPT ![o].auth = TRUE, ![o].in = Tail(@), ![o].out = Append(@, "connected")]
            = [link EXCEPT ![o] = l3]
      BY <1>0 DEF LinkType
    <2>2. [link EXCEPT ![o].sub = TRUE, ![o].in = Tail(@), ![o].out = Append(@, "subscribed")]
            = [link EXCEPT ![o] = l4]
      BY <1>0 DEF LinkType
    <2>3. \A msg : [link EXCEPT ![o].in = Tail(@), ![o].out = Append(@, msg)]
            = [link EXCEPT ![o] = l2(msg)]
      BY <1>0 DEF LinkType
    <2> HIDE DEF l2, l3, l4
    <2> QED
      BY <2>1, <2>2, <2>3 DEF Serve, Reply
  <1> HIDE DEF t, q
  <1>5. l1 \in LinkType /\ l1.out = link[o].out
    <2>1. t \in Seq(Requests)
      BY <1>2 DEF t
    <2> QED
      BY ONLY <1>0, <2>1, LinkFields
  <1> HIDE DEF l1
  <1>6. \A msg \in Replies : l2(msg) \in LinkType /\ l2(msg).out = q(msg)
    BY ONLY <1>3, <1>5, LinkFields
  <1> HIDE DEF l2
  <1>7. "connected" \in Replies /\ "subscribed" \in Replies /\ {"expired", "error"} \subseteq Replies
    BY DEF Replies
  <1>8. l3 \in LinkType /\ l3.out = q("connected")
    BY ONLY <1>6, <1>7, LinkFields
  <1>9. l4 \in LinkType /\ l4.out = q("subscribed")
    <2> DEFINE k == l2("subscribed")
    <2>1. k \in LinkType /\ k.out = q("subscribed") /\ l4 = [k EXCEPT !.sub = TRUE]
      BY ONLY <1>6, <1>7 DEF l4
    <2> HIDE DEF k, l4
    <2> QED
      BY ONLY <2>1, LinkFields
  <1>10. l5 \in LinkType /\ l5.out = link[o].out
    BY <1>0, EndedFacts
  <1> HIDE DEF l3, l4, l5
  <1>11. CASE link' = [link EXCEPT ![o] = l3]
    <2>1. LinkBecomes(o, l3)
      BY <1>3, <1>7, <1>8, <1>11 DEF LinkBecomes
    <2> QED
      BY <1>4, <2>1 DEF LinksMove
  <1>12. CASE \E msg \in {"expired", "error"} : link' = [link EXCEPT ![o] = l2(msg)]
    <2> PICK msg \in {"expired", "error"} : link' = [link EXCEPT ![o] = l2(msg)]
      BY <1>12
    <2>1. LinkBecomes(o, l2(msg))
      BY <1>3, <1>6, <1>7 DEF LinkBecomes
    <2> QED
      BY <1>4, <2>1 DEF LinksMove
  <1>13. CASE link' = [link EXCEPT ![o] = l4] /\ o \in confirmed'
    <2>1. LinkBecomes(o, l4)
      BY <1>7, <1>9, <1>13 DEF LinkBecomes
    <2> QED
      BY <1>4, <2>1 DEF LinksMove
  <1>14. CASE link' = [link EXCEPT ![o] = l5]
    <2>1. LinkBecomes(o, l5)
      BY <1>10, <1>14 DEF LinkBecomes, OnItsWay
    <2> QED
      BY <1>4, <2>1 DEF LinksMove
  <1> QED
    BY <1>4, <1>11, <1>12, <1>13, <1>14

LEMMA PublishMoves ==
  ASSUME Types, NEW o \in Objects, Publish(o) \/ Drop(o)
  PROVE  LinksMove
  <1>0. link[o] \in LinkType /\ link \in [Objects -> LinkType]
    BY DEF Types
  <1> DEFINE q == Append(link[o].out, "update")
             l == [link[o] EXCEPT !.out = q]
  <1>1. link[o].out \in Seq(Replies) /\ "update" \in Replies
    BY <1>0 DEF LinkType, Replies
  <1>2. q \in Seq(Replies) /\ \A i \in DOMAIN q : q[i] = "subscribed" => OnItsWay(o)
    BY <1>1, AppendFacts DEF OnItsWay
  <1>3. CASE Publish(o)
    <2>1. link' = [link EXCEPT ![o] = l]
      BY <1>3, <1>0 DEF Publish
    <2> HIDE DEF q
    <2>2. l \in LinkType /\ l.out = q
      BY ONLY <1>0, <1>2, LinkFields
    <2> HIDE DEF l
    <2> QED
      <3>1. LinkBecomes(o, l)
        BY <1>2, <2>1, <2>2 DEF LinkBecomes
      <3> QED
        BY <3>1 DEF LinksMove
  <1>4. CASE Drop(o)
    <2> PICK st \in {"stale", "closed"} : link' = [link EXCEPT ![o] = Ended(@, st)]
      BY <1>4 DEF Drop
    <2> DEFINE e == Ended(link[o], st)
    <2>1. link' = [link EXCEPT ![o] = e] /\ e \in LinkType /\ e.out = link[o].out
      BY <1>0, EndedFacts
    <2> HIDE DEF e
    <2>2. LinkBecomes(o, e)
      BY <2>1 DEF LinkBecomes, OnItsWay
    <2> QED
      BY <2>2 DEF LinksMove
  <1> QED
    BY <1>3, <1>4

-----------------------------------------------------------------------------
(* What such moves keep.                                                   *)

LEMMA MovesKeepTypes ==
  ASSUME Types, ObjectsMove, LinksMove
  PROVE  obj' \in [Objects -> ObjectType] /\ link' \in [Objects -> LinkType]
  <1>1. obj \in [Objects -> ObjectType] /\ link \in [Objects -> LinkType]
    BY DEF Types
  <1>2. obj' \in [Objects -> ObjectType]
    BY <1>1 DEF ObjectsMove, Becomes
  <1>3. link' \in [Objects -> LinkType]
    BY <1>1 DEF LinksMove, LinkBecomes
  <1> QED
    BY <1>2, <1>3

LEMMA MovesKeepObjects ==
  ASSUME Types, EnoughObjects, ObjectsMove,
         waiting' \in Nat, calls' \in Nat, waiting' + calls' <= waiting + calls
  PROVE  EnoughObjects'
  <1>1. obj \in [Objects -> ObjectType]
    BY DEF Types
  <1>2. \A o \in Objects : obj'[o].loop = "none" <=> obj[o].loop = "none"
    BY <1>1 DEF ObjectsMove, Becomes
  <1>3. \A o \in Objects : obj[o] = NoObject => obj'[o] = NoObject
    BY <1>1 DEF ObjectsMove, Becomes
  <1>4. Used' = Used
    BY <1>2 DEF Used
  <1>5. \A o \in Objects \ Used' : obj'[o] = NoObject
    BY <1>3, <1>4 DEF EnoughObjects
  <1>6. \E n \in 0 .. Cardinality(Objects) :
          Used' = 1 .. n /\ n + waiting' + calls' <= Cardinality(Objects)
    <2> PICK n \in 0 .. Cardinality(Objects) :
          Used = 1 .. n /\ n + waiting + calls <= Cardinality(Objects)
      BY DEF EnoughObjects
    <2>1. waiting \in Nat /\ calls \in Nat
      BY DEF Types
    <2>2. n + waiting' + calls' <= Cardinality(Objects)
      <3>1. \A a, b, c, d, e, m \in Nat : c + d <= a + b /\ e + a + b <= m => e + c + d <= m
        OBVIOUS
      <3>2. Cardinality(Objects) \in Nat /\ n \in Nat
        BY CountType
      <3> QED
        BY <2>1, <3>1, <3>2
    <2>3. Used' = 1 .. n
      BY <1>4
    <2> QED
      BY <2>2, <2>3
  <1> QED
    BY <1>5, <1>6 DEF EnoughObjects

LEMMA MovesSayTheTruth ==
  ASSUME Types, SaidIsTrue, ObjectsMove, LinksMove, confirmed \subseteq confirmed',
         \A o \in Objects : wait'.o = o /\ wait'.sub = <<TRUE>> => SaidOf(o)
  PROVE  SaidIsTrue'
  <1>1. obj \in [Objects -> ObjectType] /\ link \in [Objects -> LinkType]
    BY DEF Types
  <1> SUFFICES ASSUME NEW o \in Objects, SaidOf(o)' PROVE o \in confirmed'
    BY DEF SaidIsTrue
  <1>2. CASE \E i \in DOMAIN link'[o].out : link'[o].out[i] = "subscribed"
    <2>1. OnItsWay(o) \/ o \in confirmed'
      <3>1. CASE link' = link
        BY <1>2, <3>1 DEF OnItsWay
      <3>2. CASE \E p \in Objects : \E l : LinkBecomes(p, l)
        <4> PICK p \in Objects : \E l : LinkBecomes(p, l)
          BY <3>2
        <4> PICK l : LinkBecomes(p, l)
          OBVIOUS
        <4>1. CASE p = o
          <5>1. link'[o] = l
            BY <1>1, <4>1 DEF LinkBecomes
          <5> QED
            BY <1>2, <4>1, <5>1 DEF LinkBecomes
        <4>2. CASE p # o
          <5>1. link'[o] = link[o]
            BY <1>1, <4>2 DEF LinkBecomes
          <5> QED
            BY <1>2, <5>1 DEF OnItsWay
        <4> QED
          BY <4>1, <4>2
      <3> QED
        BY <3>1, <3>2 DEF LinksMove
    <2>2. OnItsWay(o) => SaidOf(o)
      BY DEF OnItsWay, SaidOf
    <2> QED
      BY <2>1, <2>2 DEF SaidIsTrue
  <1>3. CASE obj'[o].sub = <<TRUE>>
    <2>1. obj[o].sub = <<TRUE>> \/ OnItsWay(o)
      BY <1>1, <1>3 DEF ObjectsMove, Becomes
    <2> QED
      BY <2>1 DEF OnItsWay, SaidOf, SaidIsTrue
  <1>4. CASE wait'.o = o /\ wait'.sub = <<TRUE>>
    BY <1>4 DEF SaidIsTrue
  <1> QED
    BY <1>2, <1>3, <1>4 DEF SaidOf

(* A step of a client or of the exchange.                                  *)
LEMMA ClientsKeepInv ==
  ASSUME PrivateInv, ObjectsMove, LinksMove, WaitKept, confirmed \subseteq confirmed',
         UNCHANGED <<entry, waiting, deleting, key, calls>>
  PROVE  PrivateInv'
  <1>1. Types'
    BY MovesKeepTypes DEF PrivateInv, Types, WaitKept
  <1>2. EnoughObjects'
    <2>1. waiting \in Nat /\ calls \in Nat
      BY DEF PrivateInv, Types
    <2>2. waiting' \in Nat /\ calls' \in Nat /\ waiting' + calls' <= waiting + calls
      BY <2>1
    <2> QED
      BY <2>2, MovesKeepObjects DEF PrivateInv
  <1>3. SaidIsTrue'
    BY MovesSayTheTruth DEF PrivateInv, WaitKept
  <1>4. WaitsAlone' /\ Verified'
    BY DEF PrivateInv, WaitsAlone, Verified, WaitKept
  <1> QED
    BY <1>1, <1>2, <1>3, <1>4 DEF PrivateInv

LEMMA ClientNext ==
  ASSUME PrivateInv, NEW o \in Objects,
         Writer(o) \/ Reader(o) \/ Serve(o) \/ Publish(o) \/ Drop(o)
  PROVE  PrivateInv'
  <1>0. Types
    BY DEF PrivateInv
  <1>1. wait' = wait => WaitKept
    BY <1>0 DEF WaitKept, SaidOf, Types, Free
  <1>2. CASE Writer(o)
    <2>1. ObjectsMove /\ LinksMove
      BY <1>0, <1>2, WriterMoves
    <2>2. UNCHANGED <<monitor, key, confirmed, bounds>>
      BY <1>2 DEF Writer, WriterTakes, WriterDrops, WriterWrites
    <2> QED
      BY <1>1, <2>1, <2>2, ClientsKeepInv DEF monitor, bounds
  <1>3. CASE Receive(o)
    <2>1. ObjectsMove /\ LinksMove
      BY <1>0, <1>3, ReceiveMoves
    <2> QED
      BY <1>1, <1>3, <2>1, ClientsKeepInv DEF monitor, bounds, Receive
  <1>4. CASE PassOn(o)
    <2>1. LinksMove /\ ObjectsMove
      BY <1>0, <1>4, PassOnMoves DEF PassOn, ObjectsMove
    <2> QED
      BY <1>1, <1>4, <2>1, ClientsKeepInv DEF monitor, bounds, PassOn
  <1>5. CASE ReadFails(o)
    <2>1. ObjectsMove /\ LinksMove
      BY <1>0, <1>5, ReadFailsMoves
    <2> QED
      BY <1>1, <1>5, <2>1, ClientsKeepInv DEF monitor, bounds, ReadFails
  <1>6. CASE Reconnect(o)
    <2>1. ObjectsMove /\ LinksMove /\ WaitKept
      BY <1>0, <1>6, ReconnectMoves
    <2> QED
      BY <1>6, <2>1, ClientsKeepInv DEF Reconnect
  <1>7. CASE Serve(o)
    <2>1. ObjectsMove /\ LinksMove /\ confirmed \subseteq confirmed'
      BY <1>0, <1>7, ServeMoves DEF Serve, ObjectsMove
    <2> QED
      BY <1>1, <1>7, <2>1, ClientsKeepInv DEF monitor, Serve
  <1>8. CASE Publish(o) \/ Drop(o)
    <2>1. ObjectsMove /\ LinksMove
      BY <1>0, <1>8, PublishMoves DEF Publish, Drop, ObjectsMove
    <2> QED
      BY <1>1, <1>8, <2>1, ClientsKeepInv DEF monitor, bounds, Publish, Drop
  <1> QED
    BY <1>2, <1>3, <1>4, <1>5, <1>6, <1>7, <1>8 DEF Reader

-----------------------------------------------------------------------------
(* The order monitor and its callers.                                      *)

(* Subscribe uses the first object that was never used.                    *)
LEMMA NewObjectFacts ==
  ASSUME PrivateInv, waiting > 0
  PROVE  /\ NewObject \in Objects /\ obj[NewObject] = NoObject
         /\ \E n \in 0 .. Cardinality(Objects) :
              /\ Used = 1 .. n /\ NewObject = n + 1
              /\ n + waiting + calls <= Cardinality(Objects)
  <1> PICK n \in 0 .. Cardinality(Objects) :
        Used = 1 .. n /\ n + waiting + calls <= Cardinality(Objects)
    BY DEF PrivateInv, EnoughObjects
  <1>1. waiting \in Nat /\ calls \in Nat /\ obj \in [Objects -> ObjectType]
    BY DEF PrivateInv, Types
  <1>2. n + 1 \in Objects /\ n + 1 \notin Used
    BY <1>1, CountType
  <1>3. \A o \in Objects : obj[o] = NoObject <=> o \notin Used
    BY NoObjectType DEF PrivateInv, EnoughObjects, Used
  <1>4. \A o \in Objects : o \notin Used <=> n + 1 <= o
    BY CountType
  <1>5. obj[n + 1] = NoObject /\ \A p \in Objects : obj[p] = NoObject => n + 1 <= p
    BY <1>2, <1>3, <1>4
  <1>6. \A o \in Objects : obj[o] = NoObject /\ (\A p \in Objects : obj[p] = NoObject => o <= p)
                           => o = n + 1
    BY <1>2, <1>5, CountType
  <1>7. NewObject = n + 1
    BY <1>2, <1>5, <1>6 DEF NewObject
  <1> QED
    BY <1>2, <1>5, <1>7

LEMMA SubscribeNext ==
  ASSUME PrivateInv, Subscribe
  PROVE  PrivateInv'
  <1>0. Types /\ waiting \in Nat /\ calls \in Nat /\ obj \in [Objects -> ObjectType]
        /\ link \in [Objects -> LinkType]
    BY DEF PrivateInv, Types
  <1>1. /\ Free /\ waiting > 0 /\ waiting' = waiting - 1 /\ waiting' \in Nat
        /\ UNCHANGED <<entry, deleting, key, confirmed, calls>>
    BY <1>0 DEF Subscribe
  <1>2. CASE UNCHANGED <<obj, link, wait>>
    <2>1. Types'
      BY <1>1, <1>2 DEF PrivateInv, Types
    <2>2. EnoughObjects'
      BY <1>0, <1>1, <1>2, MovesKeepObjects DEF PrivateInv, ObjectsMove
    <2>3. SaidIsTrue'
      BY <1>1, <1>2 DEF PrivateInv, SaidIsTrue, SaidOf
    <2>4. WaitsAlone' /\ Verified'
      BY <1>1, <1>2 DEF PrivateInv, WaitsAlone, Verified, Free
    <2> QED
      BY <2>1, <2>2, <2>3, <2>4 DEF PrivateInv
  <1>3. CASE /\ entry = None /\ key
             /\ obj' = [obj EXCEPT ![NewObject] = Connected(@)]
             /\ link' = [link EXCEPT ![NewObject] = [NoLink EXCEPT !.st = "open"]]
             /\ wait' = [NoWait EXCEPT !.o = NewObject]
    <2> DEFINE o == NewObject
               c == Connected(obj[o])
               l == [NoLink EXCEPT !.st = "open"]
    <2>1. o \in Objects /\ obj[o] = NoObject
      BY <1>1, NewObjectFacts
    <2> PICK n \in 0 .. Cardinality(Objects) :
          Used = 1 .. n /\ o = n + 1 /\ n + waiting + calls <= Cardinality(Objects)
      BY <1>1, NewObjectFacts
    <2>2. c \in ObjectType /\ c.sub = <<>> /\ c.loop = "read"
      BY <1>0, <2>1, ConnectedFacts
    <2>3. l \in LinkType /\ l.out = <<>>
      BY NoLinkType
    <2>4. wait'.o = o /\ wait'.sub = <<>> /\ wait' \in WaitType /\ NoWait.o = None
      BY <1>3, <2>1 DEF NoWait, WaitType, Channels
    <2>5. obj' = [obj EXCEPT ![o] = c] /\ link' = [link EXCEPT ![o] = l]
      BY <1>3
    <2> HIDE DEF o, c, l
    <2>6. Types'
      BY <1>0, <1>1, <2>1, <2>2, <2>3, <2>4, <2>5 DEF Types
    <2>7. EnoughObjects'
      <3>1. Used' = Used \cup {o}
        BY <1>0, <2>1, <2>2, <2>5 DEF Used
      <3>2. n + 1 \in 0 .. Cardinality(Objects) /\ Used' = 1 .. (n + 1)
        BY <2>1, <3>1, CountType
      <3>3. n + 1 + waiting' + calls' <= Cardinality(Objects)
        BY <1>0, <1>1, CountType
      <3>4. \A p \in Objects \ Used' : obj'[p] = NoObject
        BY <1>0, <2>1, <2>5, <3>1 DEF PrivateInv, EnoughObjects
      <3> QED
        BY <3>2, <3>3, <3>4 DEF EnoughObjects
    <2>8. SaidIsTrue'
      <3> SUFFICES ASSUME NEW p \in Objects, SaidOf(p)' PROVE p \in confirmed'
        BY DEF SaidIsTrue
      <3>1. <<>> # <<TRUE>>
        OBVIOUS
      <3>2. CASE p = o
        <4>1. obj'[p].sub = <<>> /\ link'[p].out = <<>> /\ wait'.sub = <<>>
          BY <1>0, <2>2, <2>3, <2>4, <2>5, <3>2
        <4> QED
          BY <3>1, <4>1 DEF SaidOf
      <3>3. CASE p # o
        <4>1. obj'[p] = obj[p] /\ link'[p] = link[p] /\ wait'.sub = <<>>
          BY <1>0, <2>4, <2>5, <3>3
        <4> QED
          BY <1>1, <3>1, <4>1 DEF SaidOf, SaidIsTrue, PrivateInv
      <3> QED
        BY <3>2, <3>3
    <2>9. WaitsAlone' /\ Verified'
      BY <1>1, <1>3, <2>1, <2>4 DEF WaitsAlone, Verified, Free, PrivateInv
    <2> QED
      BY <2>6, <2>7, <2>8, <2>9 DEF PrivateInv
  <1> QED
    BY <1>2, <1>3 DEF Subscribe

(* The monitor closes an object, or takes what a channel of it holds.      *)
LEMMA MonitorMoves ==
  ASSUME Types, NEW o \in Objects,
         \/ /\ obj' = [obj EXCEPT ![o] = Closed(@)]
            /\ link' = [link EXCEPT ![o] = Hangup(@)]
         \/ /\ obj[o].auth # <<>> /\ obj' = [obj EXCEPT ![o].auth = <<>>]
            /\ link' = link
         \/ /\ obj[o].sub # <<>> /\ obj' = [obj EXCEPT ![o].sub = <<>>]
            /\ link' = link
  PROVE  ObjectsMove /\ LinksMove
  <1>0. obj[o] \in ObjectType /\ link[o] \in LinkType /\ obj \in [Objects -> ObjectType]
        /\ link \in [Objects -> LinkType]
    BY DEF Types
  <1> DEFINE e == <<>>
             c == Closed(obj[o])
             d1 == [obj[o] EXCEPT !.auth = e]
             d2 == [obj[o] EXCEPT !.sub = e]
             l == Hangup(link[o])
  <1>1. \/ obj' = [obj EXCEPT ![o] = c] /\ link' = [link EXCEPT ![o] = l]
        \/ obj[o].auth # <<>> /\ obj' = [obj EXCEPT ![o] = d1] /\ link' = link
        \/ obj[o].sub # <<>> /\ obj' = [obj EXCEPT ![o] = d2] /\ link' = link
    BY <1>0
  <1>2. NoObject.auth = <<>> /\ NoObject.sub = <<>> /\ e \in Channels /\ e # <<TRUE>>
    BY DEF NoObject, Channels
  <1>3. c \in ObjectType /\ c.sub = obj[o].sub /\ c.loop = obj[o].loop
        /\ (obj[o] = NoObject => c = NoObject)
    BY <1>0, ClosedFacts
  <1>4. l \in LinkType /\ l.out = link[o].out
    BY <1>0, EndedFacts
  <1> HIDE DEF c, l, e
  <1>5. d1 \in ObjectType /\ d1.sub = obj[o].sub /\ d1.loop = obj[o].loop
    BY ONLY <1>0, <1>2, ObjectFields
  <1>6. d2 \in ObjectType /\ d2.sub = e /\ d2.loop = obj[o].loop
    BY ONLY <1>0, <1>2, ObjectFields
  <1> HIDE DEF d1, d2
  <1>7. Becomes(o, c) \/ Becomes(o, d1) \/ Becomes(o, d2)
    BY <1>1, <1>2, <1>3, <1>5, <1>6 DEF Becomes
  <1>8. link' = link \/ LinkBecomes(o, l)
    BY <1>1, <1>4 DEF LinkBecomes, OnItsWay
  <1> QED
    BY <1>7, <1>8 DEF ObjectsMove, LinksMove

LEMMA WaitNext ==
  ASSUME PrivateInv, WaitAuth \/ WaitSub \/ GiveUp \/ Unsubscribe
  PROVE  PrivateInv'
  <1>0. Types /\ wait \in WaitType /\ waiting \in Nat /\ calls \in Nat
        /\ (~Free => wait.o \in Objects)
    BY DEF PrivateInv, Types, WaitsAlone
  <1>1. UNCHANGED <<waiting, calls, key, confirmed>>
    BY DEF WaitAuth, WaitSub, GiveUp, Unsubscribe, bounds
  <1>2. ObjectsMove /\ LinksMove
    <2>1. <<TRUE>> # <<>>
      OBVIOUS
    <2>2. CASE UNCHANGED <<obj, link>>
      BY <2>2 DEF ObjectsMove, LinksMove
    <2>3. CASE ~UNCHANGED <<obj, link>>
      <3>1. CASE WaitAuth
        BY <1>0, <2>1, <2>3, <3>1, MonitorMoves DEF WaitAuth, AuthSeen
      <3>2. CASE WaitSub
        BY <1>0, <2>1, <2>3, <3>2, MonitorMoves DEF WaitSub, SubSeen
      <3>3. CASE GiveUp
        BY <1>0, <3>3, MonitorMoves DEF GiveUp
      <3>4. CASE Unsubscribe
        <4>1. entry \in Objects
          BY <1>0, <2>3, <3>4 DEF Unsubscribe, Types
        <4> QED
          BY <1>0, <2>3, <3>4, <4>1, MonitorMoves DEF Unsubscribe
      <3> QED
        BY <3>1, <3>2, <3>3, <3>4
    <2> QED
      BY <2>2, <2>3
  <1>3. EnoughObjects'
    BY <1>0, <1>1, <1>2, MovesKeepObjects DEF PrivateInv
  <1>4. NoWait \in WaitType /\ NoWait.o = None /\ None \notin Objects
    BY CountType DEF NoWait, WaitType, Channels
  <1>5. \/ wait' = wait \/ wait' = NoWait
        \/ wait' = [wait EXCEPT !.authed = TRUE, !.auth = <<>>] /\ ~Free
    BY DEF WaitAuth, WaitSub, GiveUp, Unsubscribe
  <1>6. /\ wait' \in WaitType
        /\ \/ wait' = NoWait
           \/ wait'.o = wait.o /\ wait'.sub = wait.sub /\ (~Free' => ~Free)
    <2>1. CASE wait' = [wait EXCEPT !.authed = TRUE, !.auth = <<>>] /\ ~Free
      <3> DEFINE w1 == [wait EXCEPT !.authed = TRUE]
                 w == [w1 EXCEPT !.auth = <<>>]
      <3>1. w \in WaitType /\ w.o = wait.o /\ w.sub = wait.sub
        BY <1>0 DEF WaitType, Channels
      <3> QED
        BY <2>1, <3>1
    <2> QED
      BY <1>0, <1>4, <1>5, <2>1 DEF Free
  <1>7. SaidIsTrue'
    <2>1. \A o \in Objects : wait'.o = o /\ wait'.sub = <<TRUE>> => SaidOf(o)
      BY <1>4, <1>6 DEF SaidOf
    <2> QED
      BY <1>0, <1>1, <1>2, <2>1, MovesSayTheTruth DEF PrivateInv
  <1>8. entry' = entry \/ entry' = None \/ WaitSub
    BY DEF WaitAuth, WaitSub, GiveUp, Unsubscribe
  <1>9. WaitSub => /\ entry' = wait.o /\ wait' = NoWait /\ wait.o \in confirmed
                   /\ ~Free /\ deleting' = deleting
    <2> SUFFICES ASSUME WaitSub PROVE wait.o \in confirmed
      BY DEF WaitSub
    <2>1. wait.o \in Objects /\ SubSeen = <<TRUE>>
      BY <1>0 DEF WaitSub
    <2> QED
      BY <2>1 DEF SubSeen, SaidOf, SaidIsTrue, PrivateInv
  <1>10. Types'
    <2>1. obj' \in [Objects -> ObjectType] /\ link' \in [Objects -> LinkType]
      BY <1>0, <1>2, MovesKeepTypes
    <2>2. entry' \in Objects \cup {None}
      BY <1>0, <1>8, <1>9 DEF Types
    <2>3. deleting' \in BOOLEAN
      BY <1>0 DEF Types, WaitAuth, WaitSub, GiveUp, Unsubscribe
    <2> QED
      BY <1>0, <1>1, <1>6, <2>1, <2>2, <2>3 DEF Types
  <1>11. Verified'
    BY <1>1, <1>8, <1>9 DEF Verified, PrivateInv
  <1>12. WaitsAlone'
    <2>1. CASE WaitAuth
      BY <1>0, <1>1, <1>6, <2>1 DEF WaitAuth, WaitsAlone, PrivateInv, Free
    <2>2. CASE WaitSub
      BY <1>1, <1>9, <2>2 DEF WaitsAlone, PrivateInv, Free
    <2>3. CASE GiveUp
      BY <1>1, <2>3 DEF GiveUp, WaitsAlone, PrivateInv, Free
    <2>4. CASE Unsubscribe
      BY <1>1, <2>4 DEF Unsubscribe, WaitsAlone, PrivateInv, Free
    <2> QED
      BY <2>1, <2>2, <2>3, <2>4
  <1> QED
    BY <1>3, <1>7, <1>10, <1>11, <1>12 DEF PrivateInv

LEMMA CallersNext ==
  ASSUME PrivateInv, Call \/ CreateKey \/ DeleteKey
  PROVE  PrivateInv'
  <1>1. UNCHANGED <<obj, link, entry, wait, confirmed>>
    BY DEF Call, CreateKey, DeleteKey, bounds
  <1>2. waiting' \in Nat /\ calls' \in Nat /\ waiting' + calls' <= waiting + calls
    BY DEF Call, CreateKey, DeleteKey, bounds, PrivateInv, Types
  <1>3. key' \in BOOLEAN /\ deleting' \in BOOLEAN /\ (key \/ deleting => key' \/ deleting')
    BY DEF Call, CreateKey, DeleteKey, PrivateInv, Types
  <1>4. Types'
    BY <1>1, <1>2, <1>3 DEF PrivateInv, Types
  <1>5. EnoughObjects'
    BY <1>1, <1>2, MovesKeepObjects DEF PrivateInv, ObjectsMove
  <1>6. SaidIsTrue'
    BY <1>1 DEF PrivateInv, SaidIsTrue, SaidOf
  <1>7. WaitsAlone' /\ Verified'
    BY <1>1, <1>3 DEF PrivateInv, WaitsAlone, Verified, Free
  <1> QED
    BY <1>4, <1>5, <1>6, <1>7 DEF PrivateInv

-----------------------------------------------------------------------------
(* Theorem.                                                                *)

LEMMA InitPrivate ==
  ASSUME Init
  PROVE  PrivateInv
  <1>1. obj = [o \in Objects |-> NoObject] /\ link = [o \in Objects |-> NoLink]
        /\ entry = None /\ wait = NoWait /\ waiting = 0 /\ deleting = FALSE
        /\ key = FALSE /\ confirmed = {}
    BY DEF Init
  <1>2. calls \in Objects
    BY PrivateWSAssumption DEF Init
  <1>3. Types
    <2>1. NoWait \in WaitType
      BY DEF NoWait, WaitType, Channels
    <2>2. calls \in Nat
      BY <1>2, CountType
    <2>3. obj \in [Objects -> ObjectType] /\ link \in [Objects -> LinkType]
      BY <1>1, NoObjectType, NoLinkType
    <2> QED
      BY <1>1, <2>1, <2>2, <2>3 DEF Types
  <1>4. EnoughObjects
    <2>1. Used = {}
      BY <1>1, NoObjectType DEF Used
    <2>2. 0 \in 0 .. Cardinality(Objects) /\ Used = 1 .. 0 /\ 0 + waiting + calls <= Cardinality(Objects)
      BY <1>1, <1>2, <2>1, CountType
    <2> QED
      BY <1>1, <2>2 DEF EnoughObjects
  <1>5. SaidIsTrue
    <2>1. <<>> # <<TRUE>> /\ NoObject.sub = <<>> /\ NoWait.sub = <<>> /\ NoLink.out = <<>>
      BY DEF NoObject, NoWait, NoLink
    <2>2. ASSUME NEW o \in Objects PROVE ~SaidOf(o)
      <3>1. obj[o].sub = <<>> /\ wait.sub = <<>> /\ link[o].out = <<>>
        BY <1>1, <2>1
      <3>2. DOMAIN link[o].out = {}
        BY <3>1
      <3> QED
        BY <2>1, <3>1, <3>2 DEF SaidOf
    <2> QED
      BY <2>2 DEF SaidIsTrue
  <1>6. WaitsAlone /\ Verified
    BY <1>1 DEF WaitsAlone, Verified, Free
  <1> QED
    BY <1>3, <1>4, <1>5, <1>6 DEF PrivateInv

LEMMA PrivateNext ==
  ASSUME PrivateInv, [Next]_vars
  PROVE  PrivateInv'
  <1>1. CASE UNCHANGED vars
    BY <1>1 DEF vars, monitor, bounds, PrivateInv, Types, EnoughObjects, Used, SaidIsTrue,
                SaidOf, WaitsAlone, Verified, Free
  <1>2. CASE Next
    BY <1>2, ClientNext, SubscribeNext, WaitNext, CallersNext DEF Next, Monitor
  <1> QED
    BY <1>1, <1>2

LEMMA PrivateImplies ==
  ASSUME PrivateInv
  PROVE  MonitorInv
  <1>1. TypeOK
    BY DEF PrivateInv, Types, TypeOK, ObjectType, WaitType, Channels, WaitsAlone
  <1>2. DeletedIsUnsubscribed
    BY DEF PrivateInv, WaitsAlone, DeletedIsUnsubscribed
  <1> QED
    BY <1>1, <1>2 DEF MonitorInv, PrivateInv

(* Whom the order monitor registers is subscribed and whoever deleted his  *)
(* API key is not registered any more (SubscribeUserOrders,                *)
(* UnsubscribeUserOrders), for every number of client objects, calls and   *)
(* troubles.                                                               *)
THEOREM MonitorIsRight == Spec => []MonitorInv
  <1>1. Init => PrivateInv
    BY InitPrivate
  <1>2. PrivateInv /\ [Next]_vars => PrivateInv'
    BY PrivateNext
  <1>3. PrivateInv => MonitorInv
    BY PrivateImplies
  <1> QED
    BY <1>1, <1>2, <1>3, PTL DEF Spec
=============================================================================
