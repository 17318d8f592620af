----------------------------- MODULE WSHub_proofs -----------------------------
(***************************************************************************)
(* Proofs about WSHub: the hub's tables, and what a browser is shown.      *)
(***************************************************************************)
EXTENDS WSHub, FiniteSetTheorems, TLAPS

-----------------------------------------------------------------------------
(* Types.                                                                  *)
ListenerType ==
    [pc : {"idle", "broadcast", "send"}, msg : Nat, user : Users \cup {None},
     arr : Seq(Nat), own : BOOLEAN, n : Nat, i : Nat]
SliceType == [arr : Seq(Nat), len : Nat]
ConnType ==
    [sock : {"none", "open", "closed", "gone"}, send : Seq(Nat), closed : BOOLEAN,
     due : BOOLEAN, shown : Nat]

Types ==
    /\ coin \in 0 .. MaxVersion
    /\ batch \in BOOLEAN /\ flushing \in BOOLEAN /\ panicked \in BOOLEAN
    /\ broadcasts \in Seq(Nat) /\ directs \in Seq(Users)
    /\ listener \in ListenerType /\ hub \in Nat
    /\ clients \subseteq Clients
    /\ userConns \in [Users -> SliceType]
    /\ \A u \in Users : userConns[u].len <= Len(userConns[u].arr)
    /\ conn \in [Clients -> ConnType]
    /\ \A c \in Clients : Len(conn[c].send) <= Capacity
    /\ lost \in Nat

(* The inductive invariant.                                                *)

(* A slice holds nobody twice; who is registered is in that of its user,   *)
(* and who has not come yet is in none.                                    *)
In(s, c) == \E j \in 1 .. s.len : s.arr[j] = c
Distinct(s) == \A i, j \in 1 .. s.len : s.arr[i] = s.arr[j] => i = j
Slices ==
    /\ \A u \in Users : Distinct(userConns[u])
    /\ \A c \in clients : In(userConns[UserOf[c]], c)
    /\ \A c \in Clients : conn[c].sock = "none" =>
          /\ c \notin clients /\ ~conn[c].closed /\ ~conn[c].due
          /\ \A u \in Users : ~In(userConns[u], c)

(* Versions stay in their order all the way: what is shown, what waits in  *)
(* a channel, what the hub and the listener hold, what Redis still has and *)
(* what the pair is by now.                                                *)
Sorted(k) ==
    /\ \A i, j \in DOMAIN k.send :
          i <= j /\ k.send[i] # None /\ k.send[j] # None => k.send[i] <= k.send[j]
    /\ \A i \in DOMAIN k.send : k.send[i] # None => k.shown <= k.send[i]
Below(k, v) == k.shown <= v /\ \A i \in DOMAIN k.send : k.send[i] <= v
Behind(v) == hub <= v /\ \A c \in Clients : Below(conn[c], v)
Heard == listener.pc = "broadcast"
InOrder ==
    /\ \A c \in Clients : Sorted(conn[c])
    /\ hub # None => Behind(hub)
    /\ Heard => Behind(listener.msg) /\ listener.msg <= coin
    /\ \A i \in DOMAIN broadcasts :
         /\ Behind(broadcasts[i]) /\ broadcasts[i] <= coin
         /\ Heard => listener.msg <= broadcasts[i]
         /\ \A j \in DOMAIN broadcasts : i <= j => broadcasts[i] <= broadcasts[j]
    /\ Behind(coin)

(* A version that is due is somewhere on this way, unless its publication  *)
(* failed.                                                                 *)
Carries(k, v) == k.shown = v \/ \E i \in DOMAIN k.send : k.send[i] = v
Coming ==
    \/ batch \/ flushing
    \/ \E i \in DOMAIN broadcasts : broadcasts[i] = coin
    \/ Heard /\ listener.msg = coin
    \/ hub = coin
NothingMissed ==
    lost = 0 => \A c \in clients : conn[c].sock = "open" /\ conn[c].due =>
                    Coming \/ Carries(conn[c], coin)

HubIInv == Types /\ Slices /\ ClosedOnce /\ InOrder /\ NothingMissed

-----------------------------------------------------------------------------
(* What the operators do.                                                  *)

LEMMA ClientFacts ==
  /\ Clients \subseteq Nat /\ None \notin Clients
  /\ Capacity \in Nat \ {0} /\ MaxVersion \in Nat
  /\ \A c \in Clients : UserOf[c] \in Users
  BY WSHubAssumption, FS_CardinalityType DEF None, Users

LEMMA TailFacts ==
  ASSUME NEW s \in Seq(Nat), s # <<>>
  PROVE  /\ Tail(s) \in Seq(Nat) /\ Len(Tail(s)) = Len(s) - 1 /\ Head(s) \in Nat
         /\ Head(s) = s[1] /\ 1 \in DOMAIN s /\ DOMAIN s \subseteq Nat
         /\ \A i \in DOMAIN Tail(s) : i + 1 \in DOMAIN s /\ i \in Nat /\ Tail(s)[i] = s[i + 1]
         /\ \A i \in DOMAIN s : i = 1 \/ (i - 1 \in DOMAIN Tail(s) /\ Tail(s)[i - 1] = s[i])
  <1>1. Len(s) \in Nat /\ Len(s) > 0 /\ DOMAIN s = 1 .. Len(s)
    OBVIOUS
  <1>2. Tail(s) \in Seq(Nat) /\ Len(Tail(s)) = Len(s) - 1 /\ Head(s) = s[1] /\ Head(s) \in Nat
    BY <1>1
  <1>3. DOMAIN Tail(s) = 1 .. (Len(s) - 1)
    BY <1>1, <1>2
  <1>4. \A i \in 1 .. (Len(s) - 1) : Tail(s)[i] = s[i + 1]
    BY <1>1
  <1> QED
    BY <1>1, <1>2, <1>3, <1>4

LEMMA AppendFacts ==
  ASSUME NEW s \in Seq(Nat), NEW e \in Nat
  PROVE  /\ Append(s, e) \in Seq(Nat) /\ Len(Append(s, e)) = Len(s) + 1
         /\ DOMAIN s \subseteq Nat /\ Len(s) \in Nat
         /\ \A i \in DOMAIN Append(s, e) :
              \/ i \in DOMAIN s /\ Append(s, e)[i] = s[i] /\ i < Len(s) + 1
              \/ i = Len(s) + 1 /\ Append(s, e)[i] = e
         /\ \A i \in DOMAIN s : i \in DOMAIN Append(s, e) /\ Append(s, e)[i] = s[i]
         /\ Len(s) + 1 \in DOMAIN Append(s, e) /\ Append(s, e)[Len(s) + 1] = e
  OBVIOUS

(* A message is written: what was the head of the channel is shown.        *)
LEMMA Writes ==
  ASSUME NEW k \in ConnType, NEW d \in ConnType, k.send # <<>>, Sorted(k),
         d.send = Tail(k.send),
         d.shown = IF Head(k.send) = None THEN k.shown ELSE Head(k.send)
  PROVE  /\ Sorted(d) /\ d.shown >= k.shown
         /\ \A v \in Nat : Below(k, v) => Below(d, v)
         /\ \A v \in Nat : Below(k, v) /\ Carries(k, v) => Carries(d, v)
  <1>1. k.send \in Seq(Nat) /\ k.shown \in Nat
    BY DEF ConnType
  <1> DEFINE s == k.send
             t == d.send
  <1>2. /\ Head(s) \in Nat /\ Head(s) = s[1] /\ 1 \in DOMAIN s /\ DOMAIN s \subseteq Nat
        /\ \A i \in DOMAIN t : i + 1 \in DOMAIN s /\ i \in Nat /\ t[i] = s[i + 1]
        /\ \A i \in DOMAIN s : i = 1 \/ (i - 1 \in DOMAIN t /\ t[i - 1] = s[i])
    BY ONLY <1>1, k.send # <<>>, d.send = Tail(k.send), TailFacts
  <1>3. \A i \in DOMAIN s : s[i] \in Nat
    BY <1>1
  <1>4. d.shown = IF s[1] = None THEN k.shown ELSE s[1]
    BY <1>2
  <1>5. /\ \A i, j \in DOMAIN s :
             i <= j /\ s[i] # None /\ s[j] # None => s[i] <= s[j]
        /\ \A i \in DOMAIN s : s[i] # None => k.shown <= s[i]
    BY DEF Sorted
  <1>6. d.shown >= k.shown
    BY <1>1, <1>2, <1>4, <1>5
  <1>7. Sorted(d)
    <2>1. ASSUME NEW i \in DOMAIN t, NEW j \in DOMAIN t, i <= j, t[i] # None, t[j] # None
          PROVE  t[i] <= t[j]
      <3>1. i + 1 \in DOMAIN s /\ j + 1 \in DOMAIN s /\ i + 1 <= j + 1
            /\ t[i] = s[i + 1] /\ t[j] = s[j + 1]
        BY <1>2, <2>1
      <3> QED
        BY <1>5, <2>1, <3>1
    <2>2. ASSUME NEW i \in DOMAIN t, t[i] # None PROVE d.shown <= t[i]
      <3>1. i + 1 \in DOMAIN s /\ 1 <= i + 1 /\ t[i] = s[i + 1]
        BY <1>2
      <3> QED
        BY <1>2, <1>4, <1>5, <2>2, <3>1
    <2> QED
      BY <2>1, <2>2 DEF Sorted
  <1>8. ASSUME NEW v \in Nat, Below(k, v) PROVE Below(d, v)
    BY <1>2, <1>4, <1>8 DEF Below
  <1>9. ASSUME NEW v \in Nat, Below(k, v), Carries(k, v) PROVE Carries(d, v)
    <2>1. CASE k.shown = v
      BY <1>1, <1>2, <1>3, <1>4, <1>5, <1>9, <2>1 DEF Carries, Below
    <2>2. CASE \E i \in DOMAIN s : s[i] = v
      <3> PICK i \in DOMAIN s : s[i] = v
        BY <2>2
      <3>1. CASE i = 1
        <4>1. k.shown <= v
          BY <1>9 DEF Below
        <4>2. s[1] = None => k.shown = v
          BY <1>1, <3>1, <4>1 DEF None
        <4> QED
          BY <1>4, <3>1, <4>2 DEF Carries
      <3>2. CASE i # 1
        BY <1>2, <3>2 DEF Carries
      <3> QED
        BY <3>1, <3>2
    <2> QED
      BY <1>9, <2>1, <2>2 DEF Carries
  <1> QED
    BY <1>6, <1>7, <1>8, <1>9

(* A message is put into a channel.                                        *)
LEMMA Receives ==
  ASSUME NEW k \in ConnType, NEW d, NEW m \in Nat, Sorted(k),
         m # None => Below(k, m), d.send = Append(k.send, m), d.shown = k.shown
  PROVE  /\ Sorted(d)
         /\ \A v \in Nat : Below(k, v) /\ m <= v => Below(d, v)
         /\ \A v \in Nat : Carries(k, v) => Carries(d, v)
         /\ Carries(d, m)
  <1>1. k.send \in Seq(Nat)
    BY DEF ConnType
  <1> DEFINE s == k.send
             t == d.send
  <1>2. /\ DOMAIN s \subseteq Nat /\ Len(s) \in Nat
        /\ \A i \in DOMAIN t : \/ i \in DOMAIN s /\ t[i] = s[i] /\ i < Len(s) + 1
                               \/ i = Len(s) + 1 /\ t[i] = m
        /\ \A i \in DOMAIN s : i \in DOMAIN t /\ t[i] = s[i]
        /\ Len(s) + 1 \in DOMAIN t /\ t[Len(s) + 1] = m
    BY ONLY <1>1, d.send = Append(k.send, m), m \in Nat, AppendFacts
  <1>3. Sorted(d)
    <2>1. ASSUME NEW i \in DOMAIN t, NEW j \in DOMAIN t, i <= j, t[i] # None, t[j] # None
          PROVE  t[i] <= t[j]
      <3>1. CASE j \in DOMAIN s /\ j < Len(s) + 1
        <4>1. i \in DOMAIN s /\ t[i] = s[i] /\ t[j] = s[j]
          BY <1>2, <2>1, <3>1
        <4> QED
          BY <2>1, <3>1, <4>1 DEF Sorted
      <3>2. CASE j = Len(s) + 1
        BY <1>2, <2>1, <3>2 DEF Below
      <3> QED
        BY <1>2, <3>1, <3>2
    <2>2. ASSUME NEW i \in DOMAIN t, t[i] # None PROVE d.shown <= t[i]
      BY <1>2, <2>2 DEF Sorted, Below
    <2> QED
      BY <2>1, <2>2 DEF Sorted
  <1>4. \A v \in Nat : Below(k, v) /\ m <= v => Below(d, v)
    BY <1>2 DEF Below
  <1>5. Carries(d, m) /\ \A v \in Nat : Carries(k, v) => Carries(d, v)
    BY <1>2 DEF Carries
  <1> QED
    BY <1>3, <1>4, <1>5

(* A client is appended to a slice.                                        *)
LEMMA Appends ==
  ASSUME NEW s \in SliceType, NEW t, NEW c \in Clients, s.len <= Len(s.arr),
         \/ s.len < Len(s.arr) /\ t = [s EXCEPT !.arr[s.len + 1] = c, !.len = @ + 1]
         \/ s.len = Len(s.arr) /\ t = [arr |-> Grown(s.arr, c), len |-> s.len + 1]
  PROVE  /\ t \in SliceType /\ t.len <= Len(t.arr)
         /\ Distinct(s) /\ ~In(s, c) => Distinct(t)
         /\ \A d \in Nat : In(t, d) <=> In(s, d) \/ d = c
  <1>1. /\ s.arr \in Seq(Nat) /\ s.len \in Nat /\ Len(s.arr) \in Nat /\ c \in Nat
        /\ DOMAIN s.arr = 1 .. Len(s.arr) /\ \A i \in 1 .. Len(s.arr) : s.arr[i] \in Nat
    BY ClientFacts DEF SliceType
  <1>2. /\ t.len = s.len + 1 /\ t.arr \in Seq(Nat) /\ t.len <= Len(t.arr) /\ t \in SliceType
        /\ \A i \in 1 .. s.len : t.arr[i] = s.arr[i]
        /\ t.arr[s.len + 1] = c
    <2>1. CASE s.len < Len(s.arr) /\ t = [s EXCEPT !.arr[s.len + 1] = c, !.len = @ + 1]
      <3> DEFINE a == [s.arr EXCEPT ![s.len + 1] = c]
      <3>1. /\ a \in Seq(Nat) /\ Len(a) = Len(s.arr) /\ a[s.len + 1] = c
            /\ \A i \in 1 .. s.len : a[i] = s.arr[i]
        BY <1>1, <2>1
      <3>2. t = [s EXCEPT !.arr = a, !.len = s.len + 1]
        BY <2>1
      <3> HIDE DEF a
      <3>3. t = [arr |-> a, len |-> s.len + 1]
        BY <3>2 DEF SliceType
      <3> QED
        BY <1>1, <2>1, <3>1, <3>3 DEF SliceType
    <2>2. CASE s.len = Len(s.arr) /\ t = [arr |-> Grown(s.arr, c), len |-> s.len + 1]
      <3> DEFINE a == Grown(s.arr, c)
                 n == IF s.arr = <<>> THEN 1 ELSE 2 * Len(s.arr)
      <3>1. n \in Nat /\ n >= s.len + 1
        <4>1. s.arr # <<>> => Len(s.arr) > 0
          BY <1>1
        <4> QED
          BY <1>1, <2>2, <4>1
      <3>2. a = [i \in 1 .. n |-> IF i <= Len(s.arr) THEN s.arr[i]
                                  ELSE IF i = Len(s.arr) + 1 THEN c ELSE None]
        BY DEF Grown
      <3> HIDE DEF a, n
      <3>3. a \in [1 .. n -> Nat]
        BY <1>1, <3>1, <3>2 DEF None
      <3>4. a \in Seq(Nat) /\ Len(a) = n
        BY <3>1, <3>3
      <3>5. a[s.len + 1] = c /\ \A i \in 1 .. s.len : a[i] = s.arr[i]
        BY <1>1, <2>2, <3>1, <3>2
      <3>6. t.arr = a /\ t.len = s.len + 1 /\ t = [arr |-> a, len |-> s.len + 1]
        BY <2>2 DEF a
      <3> QED
        BY <1>1, <3>1, <3>4, <3>5, <3>6 DEF SliceType
    <2> QED
      BY <2>1, <2>2
  <1>3. 1 .. t.len = (1 .. s.len) \cup {s.len + 1} /\ s.len + 1 \notin 1 .. s.len
    BY <1>1, <1>2
  <1>4. ASSUME Distinct(s), ~In(s, c) PROVE Distinct(t)
    BY <1>2, <1>3, <1>4 DEF Distinct, In
  <1>5. \A d \in Nat : In(t, d) <=> In(s, d) \/ d = c
    BY <1>2, <1>3 DEF In
  <1> QED
    BY <1>2, <1>4, <1>5

(* A client is taken out of a slice.                                       *)
LEMMA Removes ==
  ASSUME NEW s \in SliceType, NEW c \in Clients, s.len <= Len(s.arr), Distinct(s)
  PROVE  LET t == Remove(s, c) IN
         /\ t \in SliceType /\ t.len <= Len(t.arr) /\ Distinct(t)
         /\ \A d \in Nat : In(t, d) <=> In(s, d) /\ d # c
  <1> DEFINE t == Remove(s, c)
             m == CHOOSE j \in 1 .. s.len : s.arr[j] = c
             a == [j \in DOMAIN s.arr |->
                     IF j \in m .. (s.len - 1) THEN s.arr[j + 1] ELSE s.arr[j]]
  <1>1. /\ s.arr \in Seq(Nat) /\ s.len \in Nat /\ Len(s.arr) \in Nat /\ c \in Nat
        /\ DOMAIN s.arr = 1 .. Len(s.arr) /\ \A i \in 1 .. Len(s.arr) : s.arr[i] \in Nat
    BY ClientFacts DEF SliceType
  <1>2. CASE ~In(s, c)
    <2>1. t = s
      BY <1>2 DEF Remove, In
    <2> QED
      BY <1>1, <1>2, <2>1 DEF SliceType
  <1>3. CASE In(s, c)
    <2>1. m \in 1 .. s.len /\ s.arr[m] = c
      BY <1>3 DEF In
    <2>2. t = [arr |-> a, len |-> s.len - 1]
      BY <1>3 DEF Remove, Removed, In
    <2> HIDE DEF t, m
    <2>3. a \in [1 .. Len(s.arr) -> Nat]
      <3>1. \A j \in m .. (s.len - 1) : j + 1 \in 1 .. Len(s.arr)
        BY <1>1, <2>1
      <3> QED
        BY <1>1, <3>1
    <2>4. /\ \A j \in 1 .. (m - 1) : a[j] = s.arr[j] /\ j \in 1 .. s.len
          /\ \A j \in m .. (s.len - 1) : a[j] = s.arr[j + 1] /\ j + 1 \in 1 .. s.len
      <3>1. m \in Nat /\ m <= s.len /\ 1 <= m
        BY <1>1, <2>1
      <3>2. ASSUME NEW j \in 1 .. (m - 1) PROVE a[j] = s.arr[j] /\ j \in 1 .. s.len
        <4>1. j \in DOMAIN s.arr /\ j \notin m .. (s.len - 1) /\ j \in 1 .. s.len
          BY <1>1, <3>1
        <4> QED
          BY <4>1
      <3>3. ASSUME NEW j \in m .. (s.len - 1)
            PROVE  a[j] = s.arr[j + 1] /\ j + 1 \in 1 .. s.len
        <4>1. j \in DOMAIN s.arr /\ j + 1 \in 1 .. s.len
          BY <1>1, <3>1
        <4> QED
          BY <4>1
      <3> QED
        BY <3>2, <3>3
    <2> HIDE DEF a
    <2>5. a \in Seq(Nat) /\ Len(a) = Len(s.arr)
      <3> DEFINE n == Len(s.arr)
      <3>1. n \in Nat /\ a \in [1 .. n -> Nat]
        BY <1>1, <2>3
      <3> HIDE DEF n
      <3>2. a \in Seq(Nat) /\ Len(a) = n
        BY ONLY <3>1
      <3> QED
        BY <3>2 DEF n
    <2>6. t.arr = a /\ t.len = s.len - 1
      BY <2>2
    <2>7. t \in SliceType /\ t.len <= Len(t.arr)
      BY <1>1, <2>1, <2>2, <2>5, <2>6 DEF SliceType
    <2>8. 1 .. t.len = (1 .. (m - 1)) \cup (m .. (s.len - 1))
      BY <1>1, <2>1, <2>6
    <2> DEFINE old(j) == IF j < m THEN j ELSE j + 1
    <2>9. \A j \in 1 .. t.len : old(j) \in 1 .. s.len /\ old(j) # m /\ t.arr[j] = s.arr[old(j)]
      <3>1. ASSUME NEW j \in 1 .. (m - 1)
            PROVE  old(j) \in 1 .. s.len /\ old(j) # m /\ t.arr[j] = s.arr[old(j)]
        <4>1. old(j) = j /\ j # m
          BY <1>1, <2>1
        <4> QED
          BY <2>4, <2>6, <4>1
      <3>2. ASSUME NEW j \in m .. (s.len - 1)
            PROVE  old(j) \in 1 .. s.len /\ old(j) # m /\ t.arr[j] = s.arr[old(j)]
        <4>1. old(j) = j + 1 /\ j + 1 # m
          BY <1>1, <2>1
        <4> QED
          BY <2>4, <2>6, <4>1
      <3> HIDE DEF old
      <3> QED
        BY <2>8, <3>1, <3>2
    <2>10. \A i, j \in 1 .. t.len : old(i) = old(j) => i = j
      BY <1>1, <2>1
    <2> HIDE DEF old
    <2>11. Distinct(t)
      BY <2>9, <2>10 DEF Distinct
    <2>12. ASSUME NEW d \in Nat, In(t, d) PROVE In(s, d) /\ d # c
      <3> PICK j \in 1 .. t.len : t.arr[j] = d
        BY <2>12 DEF In
      <3>1. s.arr[old(j)] = d /\ old(j) \in 1 .. s.len /\ old(j) # m
        BY <2>9
      <3> QED
        BY <2>1, <3>1 DEF In, Distinct
    <2>13. ASSUME NEW d \in Nat, In(s, d), d # c PROVE In(t, d)
      <3> PICK i \in 1 .. s.len : s.arr[i] = d
        BY <2>13 DEF In
      <3>1. i # m
        BY <2>1, <2>13
      <3>2. CASE i < m
        <4>1. i \in 1 .. (m - 1)
          BY <1>1, <2>1, <3>2
        <4> QED
          BY <2>4, <2>6, <2>8, <4>1 DEF In
      <3>3. CASE i > m
        <4>1. i - 1 \in m .. (s.len - 1) /\ (i - 1) + 1 = i
          BY <1>1, <2>1, <3>3
        <4>2. a[i - 1] = d
          BY <2>4, <4>1
        <4> QED
          BY <2>6, <2>8, <4>1, <4>2 DEF In
      <3> QED
        BY <1>1, <2>1, <3>1, <3>2, <3>3
    <2> QED
      BY <2>7, <2>11, <2>12, <2>13 DEF t
  <1> QED
    BY <1>2, <1>3

LEMMA Alike ==
  ASSUME NEW k, NEW d, d.send = k.send, d.shown = k.shown
  PROVE  /\ Sorted(d) <=> Sorted(k)
         /\ \A v : (Below(d, v) <=> Below(k, v)) /\ (Carries(d, v) <=> Carries(k, v))
  BY DEF Sorted, Below, Carries

LEMMA BehindMore ==
  ASSUME Types, NEW v \in Nat, NEW w \in Nat, Behind(v), v <= w
  PROVE  Behind(w)
  <1>1. hub \in Nat /\ \A c \in Clients : conn[c].shown \in Nat /\ conn[c].send \in Seq(Nat)
    BY DEF Types, ConnType
  <1>2. ASSUME NEW c \in Clients, Below(conn[c], v) PROVE Below(conn[c], w)
    <2>1. conn[c].shown \in Nat /\ \A i \in DOMAIN conn[c].send : conn[c].send[i] \in Nat
      BY <1>1
    <2> QED
      BY <1>2, <2>1 DEF Below
  <1> QED
    BY <1>1, <1>2 DEF Behind

(* Nothing moves in the channels, and the hub has what it had.             *)
LEMMA SameWay ==
  ASSUME hub' = hub,
         \A c \in Clients : conn'[c].send = conn[c].send /\ conn'[c].shown = conn[c].shown
  PROVE  /\ \A v : Behind(v)' <=> Behind(v)
         /\ \A c \in Clients : Sorted(conn[c])' <=> Sorted(conn[c])
         /\ \A c \in Clients : \A v : Carries(conn'[c], v) <=> Carries(conn[c], v)
  <1>1. \A c \in Clients : Sorted(conn'[c]) <=> Sorted(conn[c])
    BY Alike
  <1>2. \A c \in Clients : \A v : Below(conn'[c], v) <=> Below(conn[c], v)
    BY Alike
  <1>3. \A c \in Clients : \A v : Carries(conn'[c], v) <=> Carries(conn[c], v)
    BY Alike
  <1> QED
    BY <1>1, <1>2, <1>3 DEF Behind

-----------------------------------------------------------------------------
(* NotificationService and the listener.                                   *)

LEMMA UpdateNext ==
  ASSUME HubIInv, NotifyMarketUpdate
  PROVE  HubIInv'
  <1>0. Types /\ coin \in Nat /\ coin < MaxVersion /\ coin' = coin + 1 /\ batch' = TRUE
        /\ conn \in [Clients -> ConnType]
    BY ClientFacts DEF HubIInv, Types, NotifyMarketUpdate
  <1>1. UNCHANGED <<flushing, broadcasts, directs, listener, hub, clients, userConns,
                    panicked, messages, lost>>
    BY DEF NotifyMarketUpdate, redis, maps, bounds
  <1>2. \A c \in Clients : conn'[c] = [conn[c] EXCEPT !.due = (conn[c].sock = "open")]
    BY DEF NotifyMarketUpdate
  <1>3. conn' \in [Clients -> ConnType] /\ \A c \in Clients :
          /\ conn'[c].send = conn[c].send /\ conn'[c].shown = conn[c].shown
          /\ conn'[c].sock = conn[c].sock /\ conn'[c].closed = conn[c].closed
          /\ conn'[c].sock = "none" => ~conn'[c].due
    <2>1. \A k \in ConnType, b \in BOOLEAN : LET d == [k EXCEPT !.due = b] IN
             d \in ConnType /\ d.send = k.send /\ d.shown = k.shown /\ d.sock = k.sock
             /\ d.closed = k.closed /\ d.due = b
      BY DEF ConnType
    <2>2. DOMAIN conn' = Clients /\ conn' = [c \in Clients |-> conn'[c]]
      BY DEF NotifyMarketUpdate
    <2>3. ASSUME NEW c \in Clients
          PROVE  /\ conn'[c] \in ConnType /\ conn'[c].send = conn[c].send
                 /\ conn'[c].shown = conn[c].shown /\ conn'[c].sock = conn[c].sock
                 /\ conn'[c].closed = conn[c].closed
                 /\ conn'[c].sock = "none" => ~conn'[c].due
      <3> DEFINE k == conn[c]
                 b == (conn[c].sock = "open")
      <3>1. k \in ConnType /\ b \in BOOLEAN /\ conn'[c] = [k EXCEPT !.due = b]
        BY <1>0, <1>2
      <3> HIDE DEF k, b
      <3>2. conn'[c] \in ConnType /\ conn'[c].send = k.send /\ conn'[c].shown = k.shown
            /\ conn'[c].sock = k.sock /\ conn'[c].closed = k.closed /\ conn'[c].due = b
        BY ONLY <3>1, <2>1
      <3> QED
        BY <3>2 DEF k, b
    <2> QED
      BY <2>2, <2>3
  <1>4. Types'
    <2>1. coin' \in 0 .. MaxVersion
      BY <1>0, ClientFacts
    <2> QED
      BY <1>0, <1>1, <1>3, <2>1 DEF Types
  <1>5. Slices' /\ ClosedOnce'
    <2>1. Slices'
      BY <1>1, <1>3 DEF HubIInv, Slices
    <2>2. ClosedOnce'
      BY <1>0, <1>1, <1>3 DEF HubIInv, ClosedOnce, Types
    <2> QED
      BY <2>1, <2>2
  <1>6. InOrder'
    <2>1. Behind(coin + 1)
      BY <1>0, BehindMore DEF HubIInv, InOrder
    <2>2. \A v : Behind(v)' <=> Behind(v)
      BY <1>1, <1>3, SameWay
    <2>3. \A c \in Clients : Sorted(conn[c])'
      BY <1>1, <1>3, SameWay DEF HubIInv, InOrder
    <2>4. Behind(coin)'
      BY <1>0, <2>1, <2>2 DEF Behind
    <2>5. Heard => listener.msg <= coin + 1
      BY <1>0 DEF HubIInv, InOrder, Types, ListenerType
    <2>6. \A i \in DOMAIN broadcasts : broadcasts[i] <= coin + 1
      BY <1>0 DEF HubIInv, InOrder, Types
    <2> QED
      BY <1>0, <1>1, <2>2, <2>3, <2>4, <2>5, <2>6 DEF HubIInv, InOrder, Heard, Behind
  <1>7. NothingMissed'
    BY <1>0 DEF NothingMissed, Coming
  <1> QED
    BY <1>4, <1>5, <1>6, <1>7 DEF HubIInv

(* A step that leaves the hub and its clients as they are.                 *)
LEMMA AroundTheHub ==
  ASSUME HubIInv, UNCHANGED <<coin, hub, clients, userConns, conn>>
  PROVE  /\ Slices' /\ ClosedOnce'
         /\ \A v : Behind(v)' <=> Behind(v)
         /\ \A c \in Clients : Sorted(conn[c])'
         /\ (lost' = 0 => lost = 0) /\ (Coming => Coming') => NothingMissed'
  <1>1. Slices' /\ ClosedOnce'
    BY DEF HubIInv, Slices, ClosedOnce, In, Distinct
  <1>2. \A v : Behind(v)' <=> Behind(v)
    BY DEF Behind
  <1>3. \A c \in Clients : Sorted(conn[c])'
    BY DEF HubIInv, InOrder
  <1>4. (lost' = 0 => lost = 0) /\ (Coming => Coming') => NothingMissed'
    BY DEF HubIInv, NothingMissed
  <1> QED
    BY <1>1, <1>2, <1>3, <1>4

LEMMA FlushNext ==
  ASSUME HubIInv, Flush \/ \E u \in Users : NotifyUser(u)
  PROVE  HubIInv'
  <1>0. Types /\ coin \in Nat /\ UNCHANGED <<coin, hub, clients, userConns, conn, listener, panicked>>
        /\ broadcasts \in Seq(Nat) /\ lost \in Nat
    BY ClientFacts DEF HubIInv, Types, Flush, FlushTake, FlushPublish, NotifyUser,
                       publisher, redis, maps, bounds
  <1>1. CASE broadcasts' = broadcasts
    <2>1. Types'
      <3>1. directs' \in Seq(Users) /\ batch' \in BOOLEAN /\ flushing' \in BOOLEAN /\ lost' \in Nat
        <4>1. CASE FlushTake \/ FlushPublish
          <5>1. lost' \in Nat
            BY <1>0, <4>1 DEF FlushTake, FlushPublish, bounds
          <5>2. directs' = directs /\ flushing' \in BOOLEAN
            BY <4>1 DEF FlushTake, FlushPublish, redis
          <5>3. batch' = batch \/ batch' = FALSE
            BY <4>1 DEF FlushTake, FlushPublish
          <5>4. batch \in BOOLEAN /\ directs \in Seq(Users)
            BY <1>0 DEF Types
          <5> QED
            BY <5>1, <5>2, <5>3, <5>4
        <4>2. CASE \E u \in Users : NotifyUser(u)
          <5> PICK u \in Users : NotifyUser(u)
            BY <4>2
          <5>1. directs' = Append(directs, u) /\ directs \in Seq(Users)
                /\ batch' = batch /\ flushing' = flushing /\ lost' = lost
            BY <1>0 DEF Types, NotifyUser, publisher
          <5>2. directs' \in Seq(Users)
            BY <5>1
          <5> QED
            BY <1>0, <5>1, <5>2 DEF Types
        <4> QED
          BY <4>1, <4>2 DEF Flush
      <3> QED
        BY <1>0, <1>1, <3>1 DEF Types
    <2>2. InOrder'
      BY <1>0, <1>1, AroundTheHub DEF HubIInv, InOrder, Heard
    <2>3. (lost' = 0 => lost = 0) /\ (lost' = 0 => (Coming => Coming'))
      BY <1>0, <1>1 DEF Flush, FlushTake, FlushPublish, NotifyUser, publisher, redis,
                       bounds, Coming, Heard
    <2>4. NothingMissed'
      BY <1>0, <2>3, AroundTheHub DEF NothingMissed
    <2> QED
      BY <1>0, <2>1, <2>2, <2>4, AroundTheHub DEF HubIInv
  <1>2. CASE FlushPublish /\ broadcasts' = Append(broadcasts, coin) /\ lost' = lost
    <2> DEFINE t == Append(broadcasts, coin)
    <2>1. /\ t \in Seq(Nat) /\ Len(broadcasts) \in Nat /\ DOMAIN broadcasts \subseteq Nat
          /\ \A i \in DOMAIN t :
               \/ i \in DOMAIN broadcasts /\ t[i] = broadcasts[i] /\ i < Len(broadcasts) + 1
               \/ i = Len(broadcasts) + 1 /\ t[i] = coin
          /\ \A i \in DOMAIN broadcasts : i \in DOMAIN t /\ t[i] = broadcasts[i]
          /\ Len(broadcasts) + 1 \in DOMAIN t /\ t[Len(broadcasts) + 1] = coin
      BY <1>0, AppendFacts
    <2>2. broadcasts' = t /\ flushing' = FALSE /\ UNCHANGED <<batch, directs, messages, lost>>
      BY <1>2 DEF FlushPublish
    <2> HIDE DEF t
    <2>3. Types'
      BY <1>0, <2>1, <2>2 DEF Types
    <2>4. ASSUME NEW i \in DOMAIN t
          PROVE  /\ Behind(t[i]) /\ t[i] <= coin
                 /\ Heard => listener.msg <= t[i]
                 /\ \A j \in DOMAIN t : i <= j => t[i] <= t[j]
      <3>1. CASE i \in DOMAIN broadcasts /\ t[i] = broadcasts[i] /\ i < Len(broadcasts) + 1
        BY <1>0, <2>1, <3>1 DEF HubIInv, InOrder
      <3>2. CASE i = Len(broadcasts) + 1 /\ t[i] = coin
        <4>1. \A j \in DOMAIN t : i <= j => j = i
          BY <2>1, <3>2
        <4>2. Heard => listener.msg <= coin
          BY DEF HubIInv, InOrder
        <4> QED
          BY <1>0, <3>2, <4>1, <4>2 DEF HubIInv, InOrder
      <3> QED
        BY <2>1, <3>1, <3>2
    <2>5. InOrder'
      <3>1. \A v : Behind(v)' <=> Behind(v)
        BY <1>0, AroundTheHub
      <3>2. \A c \in Clients : Sorted(conn[c])'
        BY <1>0, AroundTheHub
      <3> QED
        BY <1>0, <2>2, <2>4, <3>1, <3>2 DEF HubIInv, InOrder, Heard, Behind
    <2>6. Coming'
      BY <1>0, <2>1, <2>2 DEF Coming
    <2> QED
      BY <1>0, <2>2, <2>3, <2>5, <2>6, AroundTheHub DEF HubIInv
  <1>3. \/ broadcasts' = broadcasts
        \/ FlushPublish /\ broadcasts' = Append(broadcasts, coin) /\ lost' = lost
    BY DEF Flush, FlushTake, FlushPublish, NotifyUser, redis
  <1> QED
    BY <1>1, <1>2, <1>3

LEMMA IdleFacts ==
  /\ Idle \in ListenerType /\ Idle.pc = "idle"
  /\ \A m \in Nat : LET l == [Idle EXCEPT !.pc = "broadcast", !.msg = m] IN
       l \in ListenerType /\ l.pc = "broadcast" /\ l.msg = m
  /\ \A u \in Users, n \in Nat : LET l == [Idle EXCEPT !.pc = "send", !.user = u, !.n = n, !.i = 1] IN
       l \in ListenerType /\ l.pc = "send"
  <1>1. <<>> \in Seq(Nat)
    OBVIOUS
  <1> QED
    BY <1>1 DEF Idle, ListenerType, None

LEMMA ListenBroadcastNext ==
  ASSUME HubIInv, ListenBroadcast
  PROVE  HubIInv'
  <1>0. Types /\ broadcasts \in Seq(Nat) /\ broadcasts # <<>> /\ listener = Idle
        /\ UNCHANGED <<publisher, directs, hub, maps, conn, panicked, bounds>>
    BY DEF HubIInv, Types, ListenBroadcast
  <1> DEFINE s == broadcasts
             t == Tail(broadcasts)
  <1>1. /\ t \in Seq(Nat) /\ Head(s) \in Nat /\ Head(s) = s[1] /\ 1 \in DOMAIN s
        /\ DOMAIN s \subseteq Nat
        /\ \A i \in DOMAIN t : i + 1 \in DOMAIN s /\ i \in Nat /\ t[i] = s[i + 1]
        /\ \A i \in DOMAIN s : i = 1 \/ (i - 1 \in DOMAIN t /\ t[i - 1] = s[i])
    BY <1>0, TailFacts
  <1>2. /\ listener' \in ListenerType /\ listener'.pc = "broadcast" /\ listener'.msg = s[1]
        /\ broadcasts' = t
    BY <1>0, <1>1, IdleFacts DEF ListenBroadcast
  <1>3. UNCHANGED <<coin, batch, flushing, directs, hub, clients, userConns, conn, panicked, lost>>
    BY <1>0 DEF publisher, maps, bounds
  <1>4. Heard' /\ ~Heard
    BY <1>0, <1>2, IdleFacts DEF Heard
  <1> HIDE DEF t
  <1>5. Types'
    BY <1>0, <1>1, <1>2, <1>3 DEF Types
  <1>6. /\ Behind(s[1]) /\ s[1] <= coin
        /\ \A i \in DOMAIN t :
             /\ Behind(t[i]) /\ t[i] <= coin /\ s[1] <= t[i]
             /\ \A j \in DOMAIN t : i <= j => t[i] <= t[j]
    <2>1. /\ Behind(s[1]) /\ s[1] <= coin
          /\ \A i \in DOMAIN s : /\ Behind(s[i]) /\ s[i] <= coin
                                 /\ \A j \in DOMAIN s : i <= j => s[i] <= s[j]
      BY <1>1 DEF HubIInv, InOrder
    <2>2. ASSUME NEW i \in DOMAIN t
          PROVE  /\ Behind(t[i]) /\ t[i] <= coin /\ s[1] <= t[i]
                 /\ \A j \in DOMAIN t : i <= j => t[i] <= t[j]
      <3>1. i + 1 \in DOMAIN s /\ t[i] = s[i + 1] /\ 1 <= i + 1
        BY <1>1
      <3>2. ASSUME NEW j \in DOMAIN t, i <= j PROVE t[i] <= t[j]
        <4>1. j + 1 \in DOMAIN s /\ t[j] = s[j + 1] /\ i + 1 <= j + 1
          BY <1>1, <3>2
        <4> QED
          BY <2>1, <3>1, <4>1
      <3>3. Behind(t[i]) /\ t[i] <= coin /\ s[1] <= t[i]
        BY <1>1, <2>1, <3>1
      <3> QED
        BY <3>2, <3>3
    <2> QED
      BY <2>1, <2>2
  <1>7. InOrder'
    <2>1. \A v : Behind(v)' <=> Behind(v)
      BY <1>3, AroundTheHub
    <2>2. \A c \in Clients : Sorted(conn[c])'
      BY <1>3, AroundTheHub
    <2>3. (hub # None => Behind(hub))'
      BY <1>3, <2>1 DEF HubIInv, InOrder, Behind
    <2>4. (Heard => Behind(listener.msg) /\ listener.msg <= coin)'
      BY <1>2, <1>3, <1>6, <2>1 DEF Behind
    <2>5. (\A i \in DOMAIN broadcasts :
         /\ Behind(broadcasts[i]) /\ broadcasts[i] <= coin
         /\ Heard => listener.msg <= broadcasts[i]
         /\ \A j \in DOMAIN broadcasts : i <= j => broadcasts[i] <= broadcasts[j])'
      BY <1>2, <1>3, <1>6, <2>1 DEF Behind
    <2>6. Behind(coin)'
      BY <1>3, <2>1 DEF HubIInv, InOrder, Behind
    <2> QED
      BY <2>2, <2>3, <2>4, <2>5, <2>6 DEF InOrder
  <1>8. Coming => Coming'
    BY <1>1, <1>2, <1>3, <1>4 DEF Coming
  <1> QED
    BY <1>3, <1>5, <1>7, <1>8, AroundTheHub DEF HubIInv

LEMMA ListenDirectNext ==
  ASSUME HubIInv, ListenDirect
  PROVE  HubIInv'
  <1>0. /\ Types /\ directs \in Seq(Users) /\ directs # <<>> /\ listener = Idle
        /\ directs' = Tail(directs)
        /\ UNCHANGED <<coin, batch, flushing, broadcasts, hub, clients, userConns, conn,
                       panicked, lost>>
    BY DEF HubIInv, Types, ListenDirect, publisher, maps, bounds
  <1> DEFINE u == Head(directs)
             n == userConns[u].len
  <1>1. directs' \in Seq(Users) /\ u \in Users
    BY <1>0
  <1>2. listener' = Idle \/ listener' = [Idle EXCEPT !.pc = "send", !.user = u, !.n = n, !.i = 1]
    BY DEF ListenDirect
  <1>3. n \in Nat
    BY <1>0, <1>1 DEF Types, SliceType
  <1> HIDE DEF n, u
  <1>4. listener' \in ListenerType /\ listener'.pc # "broadcast"
    <2> DEFINE l == [Idle EXCEPT !.pc = "send", !.user = u, !.n = n, !.i = 1]
    <2>1. l \in ListenerType /\ l.pc = "send"
      <3>1. \A w \in Users, m \in Nat :
              LET k == [Idle EXCEPT !.pc = "send", !.user = w, !.n = m, !.i = 1] IN
              k \in ListenerType /\ k.pc = "send"
        BY IdleFacts
      <3> QED
        BY ONLY <1>1, <1>3, <3>1
    <2> HIDE DEF l
    <2>2. listener' = Idle \/ listener' = l
      BY <1>2 DEF l
    <2> QED
      BY <2>1, <2>2, IdleFacts
  <1>5. ~Heard /\ ~Heard'
    BY <1>0, <1>4, IdleFacts DEF Heard
  <1>6. Types'
    BY <1>0, <1>1, <1>4 DEF Types
  <1>7. InOrder'
    BY <1>0, <1>5, AroundTheHub DEF HubIInv, InOrder, Behind
  <1>8. Coming => Coming'
    BY <1>0, <1>5 DEF Coming
  <1> QED
    BY <1>0, <1>6, <1>7, <1>8, AroundTheHub DEF HubIInv

LEMMA HandOverNext ==
  ASSUME HubIInv, HandOver
  PROVE  HubIInv'
  <1>0. /\ Types /\ Heard /\ hub = None /\ hub' = listener.msg /\ listener' = Idle
        /\ UNCHANGED <<coin, batch, flushing, broadcasts, directs, clients, userConns, conn,
                       panicked, lost>>
    BY DEF HubIInv, Types, HandOver, publisher, redis, maps, bounds, Heard
  <1>1. listener.msg \in Nat /\ ~Heard' /\ listener' \in ListenerType
    BY <1>0, IdleFacts DEF Heard, Types, ListenerType
  <1>2. Types'
    BY <1>0, <1>1 DEF Types
  <1>3. Slices' /\ ClosedOnce'
    BY <1>0 DEF HubIInv, Slices, ClosedOnce, In, Distinct
  <1>4. \A v : Behind(v) /\ listener.msg <= v => Behind(v)'
    BY <1>0 DEF Behind
  <1>5. InOrder'
    <2>1. Behind(listener.msg) /\ listener.msg <= coin
      BY <1>0 DEF HubIInv, InOrder
    <2>2. Behind(hub)'
      BY <1>0, <1>1, <1>4, <2>1 DEF Behind
    <2>3. Behind(coin)'
      BY <1>0, <1>4, <2>1 DEF HubIInv, InOrder, Behind
    <2>4. \A c \in Clients : Sorted(conn[c])'
      BY <1>0 DEF HubIInv, InOrder
    <2>5. \A i \in DOMAIN broadcasts : Behind(broadcasts[i])'
      BY <1>0, <1>4 DEF HubIInv, InOrder, Behind
    <2> QED
      BY <1>0, <1>1, <2>2, <2>3, <2>4, <2>5 DEF HubIInv, InOrder, Behind
  <1>6. Coming => Coming'
    <2>1. CASE hub = coin
      <3>1. coin = 0 /\ listener.msg <= 0
        BY <1>0, <2>1 DEF HubIInv, InOrder, None
      <3> QED
        BY <1>0, <1>1, <3>1 DEF Coming
    <2>2. CASE hub # coin
      BY <1>0, <2>2 DEF Coming, Heard
    <2> QED
      BY <2>1, <2>2
  <1>7. NothingMissed'
    BY <1>0, <1>6 DEF HubIInv, NothingMissed
  <1> QED
    BY <1>2, <1>3, <1>5, <1>7 DEF HubIInv

-----------------------------------------------------------------------------
(* The hub and the pumps.                                                  *)

(* A step within the way: what comes behind a version stays behind it.     *)
LEMMA WayKept ==
  ASSUME HubIInv, UNCHANGED <<coin, broadcasts>>, hub' = hub \/ hub' = None,
         Heard' => Heard /\ listener'.msg = listener.msg,
         \A c \in Clients : Sorted(conn'[c]),
         \A c \in Clients : \A v \in Nat : Behind(v) => Below(conn'[c], v)
  PROVE  InOrder'
  <1>0. hub \in Nat /\ coin \in Nat /\ (Heard => listener.msg \in Nat)
        /\ \A i \in DOMAIN broadcasts : broadcasts[i] \in Nat
    BY ClientFacts DEF HubIInv, Types, ListenerType
  <1>1. \A v \in Nat : Behind(v) => Behind(v)'
    BY <1>0 DEF Behind, None
  <1>2. (hub # None => Behind(hub))'
    BY <1>0, <1>1 DEF HubIInv, InOrder, Behind
  <1>3. (Heard => Behind(listener.msg) /\ listener.msg <= coin)'
    BY <1>0, <1>1 DEF HubIInv, InOrder, Behind
  <1>4. Behind(coin)'
    BY <1>0, <1>1 DEF HubIInv, InOrder, Behind
  <1>5. \A i \in DOMAIN broadcasts : Behind(broadcasts[i])'
    BY <1>0, <1>1 DEF HubIInv, InOrder
  <1>6. (\A i \in DOMAIN broadcasts :
         /\ Behind(broadcasts[i]) /\ broadcasts[i] <= coin
         /\ Heard => listener.msg <= broadcasts[i]
         /\ \A j \in DOMAIN broadcasts : i <= j => broadcasts[i] <= broadcasts[j])'
    BY <1>5 DEF HubIInv, InOrder, Behind
  <1>7. (\A c \in Clients : Sorted(conn[c]))'
    OBVIOUS
  <1> QED
    BY <1>2, <1>3, <1>4, <1>6, <1>7 DEF InOrder

(* One client's connection becomes d; it is not closed by this.            *)
LEMMA OneConnNext ==
  ASSUME HubIInv, NEW c \in Clients, NEW d \in ConnType,
         conn' = [conn EXCEPT ![c] = d],
         UNCHANGED <<coin, batch, flushing, broadcasts, directs, hub, clients, userConns, lost>>,
         listener' \in ListenerType, panicked' \in BOOLEAN,
         Heard' <=> Heard, Heard => listener'.msg = listener.msg,
         d.sock = "none" => conn[c].sock = "none",
         d.closed = conn[c].closed, d.due = conn[c].due,
         d.sock = "open" => conn[c].sock = "open",
         Len(d.send) <= Capacity, Sorted(d),
         \A v \in Nat : Below(conn[c], v) => Below(d, v),
         \A v \in Nat : Below(conn[c], v) /\ Carries(conn[c], v) => Carries(d, v)
  PROVE  HubIInv'
  <1>0. Types /\ conn \in [Clients -> ConnType] /\ clients \subseteq Clients /\ coin \in Nat
        /\ conn'[c] = d /\ \A e \in Clients : e # c => conn'[e] = conn[e]
    BY ClientFacts DEF HubIInv, Types
  <1>1. Types'
    BY <1>0 DEF Types
  <1>2. Slices'
    BY <1>0 DEF HubIInv, Slices, In, Distinct
  <1>3. ClosedOnce'
    BY <1>0 DEF HubIInv, ClosedOnce
  <1>4. InOrder'
    <2>1. ASSUME NEW e \in Clients PROVE Sorted(conn'[e])
      BY <1>0 DEF HubIInv, InOrder
    <2>2. ASSUME NEW e \in Clients, NEW v \in Nat, Behind(v) PROVE Below(conn'[e], v)
      BY <1>0, <2>2 DEF Behind
    <2> QED
      BY <2>1, <2>2, WayKept
  <1>5. Below(conn[c], coin)
    BY DEF HubIInv, InOrder, Behind
  <1>6. NothingMissed'
    <2>1. Coming => Coming'
      BY DEF Coming
    <2>2. ASSUME lost = 0, NEW e \in clients, conn'[e].sock = "open", conn'[e].due
          PROVE  Coming' \/ Carries(conn'[e], coin)
      <3>1. conn[e].sock = "open" /\ conn[e].due
        BY <1>0, <2>2
      <3>2. Coming \/ Carries(conn[e], coin)
        BY <2>2, <3>1 DEF HubIInv, NothingMissed
      <3> QED
        BY <1>0, <1>5, <2>1, <3>2
    <2> QED
      BY <2>2 DEF NothingMissed
  <1> QED
    BY <1>1, <1>2, <1>3, <1>4, <1>6 DEF HubIInv

LEMMA PumpNext ==
  ASSUME HubIInv, NEW c \in Clients, WritePump(c) \/ Leave(c)
  PROVE  HubIInv' /\ conn'[c].shown >= conn[c].shown
  <1>0. /\ conn \in [Clients -> ConnType] /\ conn[c] \in ConnType /\ conn[c].sock = "open"
        /\ UNCHANGED <<coin, batch, flushing, broadcasts, directs, hub, clients, userConns,
                       lost, listener, panicked>>
        /\ listener \in ListenerType /\ panicked \in BOOLEAN
        /\ Len(conn[c].send) <= Capacity /\ Sorted(conn[c])
    BY DEF HubIInv, Types, InOrder, WritePump, Leave, publisher, redis, maps, bounds
  <1>1. CASE conn[c].send # <<>> /\ conn' = [conn EXCEPT ![c].send = Tail(@),
                                  ![c].shown = Newest(c, Head(conn[c].send))]
    <2> DEFINE k == conn[c]
               t == Tail(k.send)
               n == IF Head(k.send) = None THEN k.shown ELSE Head(k.send)
               d == [k EXCEPT !.send = t, !.shown = n]
    <2>1. conn' = [conn EXCEPT ![c] = d]
      BY <1>0, <1>1 DEF Newest
    <2>2. k \in ConnType /\ k.send \in Seq(Nat) /\ k.shown \in Nat /\ k.send # <<>>
      BY <1>0, <1>1 DEF ConnType
    <2>3. t \in Seq(Nat) /\ Len(t) = Len(k.send) - 1 /\ Head(k.send) \in Nat
      BY <2>2, TailFacts
    <2>4. n \in Nat
      BY <2>2, <2>3
    <2> HIDE DEF t, n
    <2>5. d \in ConnType /\ d.send = t /\ d.shown = n /\ d.sock = k.sock
          /\ d.closed = k.closed /\ d.due = k.due
      BY <2>2, <2>3, <2>4 DEF ConnType
    <2> HIDE DEF d
    <2>6. /\ Sorted(d) /\ d.shown >= k.shown
          /\ \A v \in Nat : Below(k, v) => Below(d, v)
          /\ \A v \in Nat : Below(k, v) /\ Carries(k, v) => Carries(d, v)
      BY <1>0, <2>2, <2>5, Writes DEF t, n
    <2>7. Len(d.send) <= Capacity
      BY <1>0, <2>2, <2>3, <2>5, ClientFacts
    <2>8. Heard' <=> Heard
      BY <1>0 DEF Heard
    <2>9. HubIInv'
      BY <1>0, <2>1, <2>5, <2>6, <2>7, <2>8, OneConnNext
    <2> QED
      BY <1>0, <2>1, <2>6, <2>9
  <1>2. CASE conn' = [conn EXCEPT ![c].sock = "closed"]
    <2> DEFINE k == conn[c]
               d == [k EXCEPT !.sock = "closed"]
    <2>1. conn' = [conn EXCEPT ![c] = d]
      BY <1>0, <1>2
    <2>2. d \in ConnType /\ d.send = k.send /\ d.shown = k.shown /\ d.sock = "closed"
          /\ d.closed = k.closed /\ d.due = k.due
      BY <1>0 DEF ConnType
    <2> HIDE DEF d
    <2>3. /\ Sorted(d)
          /\ \A v \in Nat : Below(k, v) => Below(d, v)
          /\ \A v \in Nat : Below(k, v) /\ Carries(k, v) => Carries(d, v)
      BY <1>0, <2>2, Alike
    <2>4. Heard' <=> Heard
      BY <1>0 DEF Heard
    <2>5. HubIInv'
      BY <1>0, <2>1, <2>2, <2>3, <2>4, OneConnNext
    <2>6. conn'[c].shown = conn[c].shown /\ conn[c].shown \in Nat
      BY <1>0, <2>1, <2>2 DEF ConnType
    <2> QED
      BY <2>5, <2>6
  <1> QED
    BY <1>1, <1>2 DEF WritePump, Leave

LEMMA SendNextNext ==
  ASSUME HubIInv, SendNext
  PROVE  HubIInv' /\ \A c \in Clients : conn'[c].shown = conn[c].shown
  <1>0. /\ conn \in [Clients -> ConnType] /\ listener \in ListenerType /\ listener.pc = "send"
        /\ UNCHANGED <<coin, batch, flushing, broadcasts, directs, hub, clients, userConns, lost>>
        /\ panicked \in BOOLEAN /\ panicked' \in BOOLEAN /\ Types
    BY DEF HubIInv, Types, SendNext, publisher, redis, maps, bounds
  <1>1. listener' \in ListenerType /\ listener'.pc # "broadcast"
    <2>1. \A l \in ListenerType : LET k == [l EXCEPT !.i = @ + 1] IN
             k \in ListenerType /\ k.pc = l.pc
      BY DEF ListenerType
    <2>2. listener' = Idle \/ listener' = listener \/ listener' = [listener EXCEPT !.i = @ + 1]
      BY DEF SendNext
    <2>3. listener' \in ListenerType /\ listener'.pc \in {"idle", "send"}
      <3>1. CASE listener' = Idle \/ listener' = listener
        BY <1>0, <3>1, IdleFacts
      <3>2. CASE listener' = [listener EXCEPT !.i = @ + 1]
        BY ONLY <1>0, <2>1, <3>2
      <3> QED
        BY <2>2, <3>1, <3>2
    <2> QED
      BY <2>3
  <1>2. ~Heard /\ ~Heard'
    BY <1>0, <1>1 DEF Heard
  <1>3. CASE conn' = conn
    <2>1. Types'
      BY <1>0, <1>1, <1>3 DEF Types
    <2>2. InOrder'
      BY <1>0, <1>2, <1>3, AroundTheHub DEF HubIInv, InOrder, Behind
    <2>3. Coming => Coming'
      BY <1>0, <1>2 DEF Coming
    <2> QED
      BY <1>0, <1>3, <2>1, <2>2, <2>3, AroundTheHub DEF HubIInv
  <1>4. ASSUME NEW c \in Clients, Len(conn[c].send) # Capacity,
               conn' = [conn EXCEPT ![c].send = Append(@, None)]
        PROVE  HubIInv' /\ \A e \in Clients : conn'[e].shown = conn[e].shown
    <2> DEFINE k == conn[c]
               t == Append(k.send, None)
               d == [k EXCEPT !.send = t]
    <2>1. conn' = [conn EXCEPT ![c] = d]
      BY <1>0, <1>4
    <2>2. k \in ConnType /\ k.send \in Seq(Nat) /\ None \in Nat /\ Sorted(k)
          /\ Len(k.send) <= Capacity
      BY <1>0 DEF ConnType, None, HubIInv, InOrder, Types
    <2>3. t \in Seq(Nat) /\ Len(t) = Len(k.send) + 1 /\ Len(k.send) \in Nat
      BY <2>2, AppendFacts
    <2>4. Len(t) <= Capacity
      BY <1>4, <2>2, <2>3, ClientFacts
    <2> HIDE DEF t
    <2>5. d \in ConnType /\ d.send = t /\ d.shown = k.shown /\ d.sock = k.sock
          /\ d.closed = k.closed /\ d.due = k.due
      BY <2>2, <2>3 DEF ConnType
    <2> HIDE DEF d
    <2>6. /\ Sorted(d)
          /\ \A v \in Nat : Below(k, v) => Below(d, v)
          /\ \A v \in Nat : Carries(k, v) => Carries(d, v)
      <3>1. \A v \in Nat : None <= v
        BY DEF None
      <3>2. d.send = Append(k.send, None) /\ d.shown = k.shown
        BY <2>5 DEF t
      <3> HIDE DEF k
      <3> QED
        BY <2>2, <3>1, <3>2, Receives
    <2>7. HubIInv'
      BY <1>0, <1>1, <1>2, <2>1, <2>4, <2>5, <2>6, OneConnNext
    <2>8. \A e \in Clients : conn'[e].shown = conn[e].shown
      BY <1>0, <2>1, <2>5
    <2> QED
      BY <2>7, <2>8
  <1>5. \/ conn' = conn
        \/ \E c \in Clients : /\ Len(conn[c].send) # Capacity
                              /\ conn' = [conn EXCEPT ![c].send = Append(@, None)]
    BY <1>0 DEF SendNext
  <1> QED
    BY <1>3, <1>4, <1>5

(* A broadcast is offered to everyone.                                     *)
LEMMA FanOutNext ==
  ASSUME HubIInv, FanOut
  PROVE  HubIInv' /\ \A c \in Clients : conn'[c].shown = conn[c].shown
  <1>0. /\ Types /\ conn \in [Clients -> ConnType] /\ clients \subseteq Clients
        /\ hub \in Nat /\ coin \in Nat /\ hub # None /\ hub' = None
        /\ Full \subseteq clients /\ clients' = clients \ Full
        /\ UNCHANGED <<coin, batch, flushing, broadcasts, directs, listener, userConns,
                       panicked, lost>>
    BY ClientFacts DEF HubIInv, Types, FanOut, publisher, redis, bounds, Full
  <1>1. Behind(hub) /\ \A c \in Clients : Below(conn[c], hub) /\ Below(conn[c], coin)
    BY <1>0 DEF HubIInv, InOrder, Behind
  <1>2. ASSUME NEW c \in Clients
        PROVE  /\ conn'[c] \in ConnType /\ Len(conn'[c].send) <= Capacity
               /\ conn'[c].sock = conn[c].sock /\ conn'[c].due = conn[c].due
               /\ conn'[c].shown = conn[c].shown
               /\ c \notin Full => conn'[c].closed = conn[c].closed
               /\ Sorted(conn'[c])
               /\ \A v \in Nat : Behind(v) => Below(conn'[c], v)
               /\ Carries(conn[c], coin) => Carries(conn'[c], coin)
               /\ c \in clients' => Carries(conn'[c], hub)
    <2> DEFINE k == conn[c]
    <2>0. k \in ConnType /\ k.send \in Seq(Nat) /\ Sorted(k) /\ Len(k.send) <= Capacity
          /\ Below(k, hub)
      BY <1>0, <1>1 DEF ConnType, HubIInv, InOrder, Types
    <2>1. CASE c \in Full
      <3> DEFINE d == [k EXCEPT !.closed = TRUE]
      <3>1. conn'[c] = d
        BY <2>1 DEF FanOut
      <3>2. d \in ConnType /\ d.send = k.send /\ d.shown = k.shown /\ d.sock = k.sock
            /\ d.due = k.due
        BY <2>0 DEF ConnType
      <3> HIDE DEF d
      <3>3. /\ Sorted(d) /\ \A v \in Nat : Below(k, v) => Below(d, v)
            /\ Carries(k, coin) => Carries(d, coin)
        BY <2>0, <3>2, Alike
      <3>4. c \notin clients'
        BY <1>0, <2>1
      <3> QED
        BY <2>0, <2>1, <3>1, <3>2, <3>3, <3>4 DEF Behind
    <2>2. CASE c \in clients \ Full
      <3> DEFINE t == Append(k.send, hub)
                 d == [k EXCEPT !.send = t]
      <3>1. conn'[c] = d
        BY <2>2 DEF FanOut, Offered
      <3>2. t \in Seq(Nat) /\ Len(t) = Len(k.send) + 1 /\ Len(k.send) \in Nat
        BY <1>0, <2>0, AppendFacts
      <3>3. Len(t) <= Capacity
        BY <2>0, <2>2, <3>2, ClientFacts DEF Full
      <3> HIDE DEF t
      <3>4. d \in ConnType /\ d.send = t /\ d.shown = k.shown /\ d.sock = k.sock
            /\ d.due = k.due /\ d.closed = k.closed
        BY <2>0, <3>2 DEF ConnType
      <3> HIDE DEF d
      <3>5. d.send = Append(k.send, hub)
        BY <3>4 DEF t
      <3>6. /\ Sorted(d) /\ \A v \in Nat : Below(k, v) /\ hub <= v => Below(d, v)
            /\ (Carries(k, coin) => Carries(d, coin)) /\ Carries(d, hub)
        <4> HIDE DEF k
        <4> QED
          BY <1>0, <2>0, <3>4, <3>5, Receives
      <3> QED
        BY <1>0, <2>2, <3>1, <3>3, <3>4, <3>6 DEF Behind
    <2>3. CASE c \notin clients
      <3>1. conn'[c] = conn[c] /\ c \notin clients' /\ c \notin Full
        BY <1>0, <2>3 DEF FanOut
      <3> QED
        BY <2>0, <3>1 DEF Behind
    <2> QED
      BY <2>1, <2>2, <2>3
  <1>3. conn' \in [Clients -> ConnType]
    <2>1. conn' = [c \in Clients |-> conn'[c]]
      BY DEF FanOut
    <2> QED
      BY <1>2, <2>1
  <1>4. Types'
    <2>1. hub' \in Nat
      BY <1>0 DEF None
    <2> QED
      BY <1>0, <1>2, <1>3, <2>1 DEF Types
  <1>5. Slices'
    <2>1. \A c \in Clients : conn'[c].sock = "none" =>
             conn[c].sock = "none" /\ c \notin Full /\ ~conn'[c].closed /\ ~conn'[c].due
      BY <1>0, <1>2 DEF HubIInv, Slices
    <2> QED
      BY <1>0, <2>1 DEF HubIInv, Slices, In, Distinct
  <1>6. ClosedOnce'
    BY <1>0, <1>2 DEF HubIInv, ClosedOnce
  <1>7. InOrder'
    <2>1. Heard' => Heard /\ listener'.msg = listener.msg
      BY <1>0 DEF Heard
    <2> QED
      BY <1>0, <1>2, <2>1, WayKept
  <1>8. NothingMissed'
    <2>1. Coming => Coming' \/ hub = coin
      BY <1>0 DEF Coming, Heard
    <2>2. ASSUME lost = 0, NEW c \in clients', conn'[c].sock = "open", conn'[c].due
          PROVE  Coming' \/ Carries(conn'[c], coin)
      <3>1. c \in clients /\ c \in Clients /\ conn[c].sock = "open" /\ conn[c].due
        BY <1>0, <1>2, <2>2
      <3>2. Coming \/ Carries(conn[c], coin)
        BY <2>2, <3>1 DEF HubIInv, NothingMissed
      <3>3. Carries(conn'[c], hub)
        BY <1>2, <2>2, <3>1
      <3> QED
        BY <1>2, <2>1, <3>1, <3>2, <3>3
    <2> QED
      BY <1>0, <2>2 DEF NothingMissed
  <1> QED
    BY <1>2, <1>4, <1>5, <1>6, <1>7, <1>8 DEF HubIInv

(* The listener keeps an array: it hears what it heard.                    *)
LEMMA DetachFacts ==
  ASSUME Types, NEW u \in Users, \/ listener' = listener \/ Detach(u)
  PROVE  /\ listener' \in ListenerType /\ (Heard' <=> Heard)
         /\ listener'.msg = listener.msg
  <1>1. listener \in ListenerType /\ userConns[u].arr \in Seq(Nat)
    BY DEF Types, SliceType
  <1>2. \A l \in ListenerType, a \in Seq(Nat) : LET k == [l EXCEPT !.own = TRUE, !.arr = a] IN
          k \in ListenerType /\ k.pc = l.pc /\ k.msg = l.msg
    BY DEF ListenerType
  <1> DEFINE a == userConns[u].arr
             k == [listener EXCEPT !.own = TRUE, !.arr = a]
  <1>3. listener' = listener \/ listener' = k
    BY DEF Detach
  <1> HIDE DEF a
  <1>4. k \in ListenerType /\ k.pc = listener.pc /\ k.msg = listener.msg
    BY ONLY <1>1, <1>2 DEF a
  <1> HIDE DEF k
  <1> QED
    BY <1>1, <1>3, <1>4 DEF Heard

LEMMA RegisterNext ==
  ASSUME HubIInv, NEW c \in Clients, Register(c)
  PROVE  HubIInv' /\ \A d \in Clients : conn'[d].shown = conn[d].shown
  <1> DEFINE u == UserOf[c]
             s == userConns[u]
             k == conn[c]
             d == [k EXCEPT !.sock = "open"]
  <1>0. /\ Types /\ conn \in [Clients -> ConnType] /\ clients \subseteq Clients
        /\ coin \in Nat /\ u \in Users /\ Clients \subseteq Nat
        /\ userConns \in [Users -> SliceType] /\ s \in SliceType /\ s.len \in Nat
        /\ Len(s.arr) \in Nat /\ s.len <= Len(s.arr)
        /\ hub = None /\ conn[c].sock = "none" /\ clients' = clients \cup {c}
        /\ UNCHANGED <<coin, batch, flushing, broadcasts, directs, hub, panicked, lost>>
    <2>1. /\ hub = None /\ conn[c].sock = "none" /\ clients' = clients \cup {c}
          /\ UNCHANGED <<coin, batch, flushing, broadcasts, directs, hub, panicked, lost>>
      BY DEF Register, publisher, redis, bounds
    <2>2. Types /\ conn \in [Clients -> ConnType] /\ clients \subseteq Clients
          /\ coin \in Nat /\ u \in Users /\ Clients \subseteq Nat
          /\ userConns \in [Users -> SliceType] /\ s.len <= Len(s.arr)
      BY ClientFacts DEF HubIInv, Types
    <2>3. s \in SliceType /\ s.len \in Nat /\ Len(s.arr) \in Nat
      BY <2>2 DEF SliceType
    <2> QED
      BY <2>1, <2>2, <2>3
  <1>1. c \notin clients /\ ~k.closed /\ ~k.due /\ \A w \in Users : ~In(userConns[w], c)
    BY <1>0 DEF HubIInv, Slices
  <1>2. conn' = [conn EXCEPT ![c] = d]
    BY <1>0 DEF Register
  <1>3. d \in ConnType /\ d.sock = "open" /\ d.send = k.send /\ d.shown = k.shown
        /\ d.closed = k.closed /\ d.due = k.due
    BY <1>0 DEF ConnType
  <1>4. PICK t : /\ userConns' = [userConns EXCEPT ![u] = t]
                 /\ \/ s.len < Len(s.arr) /\ t = [s EXCEPT !.arr[s.len + 1] = c, !.len = @ + 1]
                    \/ s.len = Len(s.arr) /\ t = [arr |-> Grown(s.arr, c), len |-> s.len + 1]
    <2>1. CASE s.len < Len(s.arr)
      <3>1. userConns' = [userConns EXCEPT ![u].arr[s.len + 1] = c, ![u].len = @ + 1]
        BY <2>1 DEF Register
      <3>2. userConns' = [userConns EXCEPT ![u] = [s EXCEPT !.arr[s.len + 1] = c, !.len = @ + 1]]
        BY <1>0, <3>1
      <3> QED
        BY <2>1, <3>2
    <2>2. CASE s.len = Len(s.arr)
      <3>1. ~(s.len < Len(s.arr))
        BY <1>0, <2>2
      <3> QED
        BY <2>2, <3>1 DEF Register
    <2>3. s.len < Len(s.arr) \/ s.len = Len(s.arr)
      BY <1>0
    <2> QED
      BY <2>1, <2>2, <2>3
  <1>5. /\ t \in SliceType /\ t.len <= Len(t.arr) /\ Distinct(t)
        /\ \A e \in Nat : In(t, e) <=> In(s, e) \/ e = c
    <2>1. ~In(s, c) /\ Distinct(s)
      BY <1>0, <1>1 DEF HubIInv, Slices
    <2> HIDE DEF s
    <2> QED
      BY <1>0, <1>4, <2>1, Appends
  <1>6. listener' \in ListenerType /\ (Heard' <=> Heard) /\ listener'.msg = listener.msg
    <2>1. listener' = listener \/ Detach(u)
      BY DEF Register
    <2> HIDE DEF u
    <2> QED
      BY <1>0, <2>1, DetachFacts
  <1> HIDE DEF d, u
  <1>7. Types'
    <2>1. clients' \subseteq Clients
      BY <1>0
    <2>2. userConns' \in [Users -> SliceType]
          /\ \A w \in Users : userConns'[w].len <= Len(userConns'[w].arr)
      BY <1>0, <1>4, <1>5 DEF Types
    <2>3. conn' \in [Clients -> ConnType] /\ \A e \in Clients : Len(conn'[e].send) <= Capacity
      BY <1>0, <1>2, <1>3 DEF Types
    <2> QED
      BY <1>0, <1>6, <2>1, <2>2, <2>3 DEF Types
  <1>8. Slices'
    <2>1. \A w \in Users : Distinct(userConns'[w])
      BY <1>0, <1>4, <1>5 DEF HubIInv, Slices
    <2>2. \A w \in Users : \A e \in Clients :
             In(userConns'[w], e) <=> In(userConns[w], e) \/ (w = u /\ e = c)
      BY <1>0, <1>4, <1>5
    <2>3. \A e \in clients' : In(userConns'[UserOf[e]], e)
      BY <1>0, <2>2, ClientFacts DEF HubIInv, Slices, u
    <2>4. ASSUME NEW e \in Clients, conn'[e].sock = "none"
          PROVE  /\ e \notin clients' /\ ~conn'[e].closed /\ ~conn'[e].due
                 /\ \A w \in Users : ~In(userConns'[w], e)
      <3>1. e # c /\ conn'[e] = conn[e]
        BY <1>0, <1>2, <1>3, <2>4
      <3> QED
        BY <1>0, <2>2, <2>4, <3>1 DEF HubIInv, Slices
    <2> QED
      BY <2>1, <2>3, <2>4 DEF Slices
  <1>9. ClosedOnce'
    BY <1>0, <1>1, <1>2, <1>3 DEF HubIInv, ClosedOnce
  <1>10. \A e \in Clients : conn'[e].send = conn[e].send /\ conn'[e].shown = conn[e].shown
    BY <1>0, <1>2, <1>3
  <1>11. InOrder'
    <2>1. /\ \A v : Behind(v)' <=> Behind(v)
          /\ \A e \in Clients : Sorted(conn[e])' <=> Sorted(conn[e])
      BY <1>0, <1>10, SameWay
    <2>2. \A e \in Clients : Sorted(conn'[e])
      BY <2>1 DEF HubIInv, InOrder
    <2>3. \A e \in Clients : \A v \in Nat : Behind(v) => Below(conn'[e], v)
      BY <2>1 DEF Behind
    <2> QED
      BY <1>0, <1>6, <2>2, <2>3, WayKept
  <1>12. NothingMissed'
    <2>1. Coming => Coming'
      BY <1>0, <1>6 DEF Coming
    <2>2. ASSUME lost = 0, NEW e \in clients', conn'[e].sock = "open", conn'[e].due
          PROVE  Coming' \/ Carries(conn'[e], coin)
      <3>1. e # c /\ e \in clients /\ conn'[e] = conn[e]
        BY <1>0, <1>1, <1>2, <1>3, <2>2
      <3> QED
        BY <2>1, <2>2, <3>1 DEF HubIInv, NothingMissed
    <2> QED
      BY <1>0, <2>2 DEF NothingMissed
  <1> QED
    BY <1>7, <1>8, <1>9, <1>10, <1>11, <1>12 DEF HubIInv

LEMMA UnregisterNext ==
  ASSUME HubIInv, NEW c \in Clients, Unregister(c)
  PROVE  HubIInv' /\ \A d \in Clients : conn'[d].sock = "open" => conn'[d].shown = conn[d].shown
  <1> DEFINE u == UserOf[c]
             s == userConns[u]
             t == Remove(s, c)
             r == IF t.len = 0 THEN NoSlice ELSE t
  <1>0. /\ Types /\ conn \in [Clients -> ConnType] /\ clients \subseteq Clients
        /\ coin \in Nat /\ u \in Users /\ Clients \subseteq Nat
        /\ userConns \in [Users -> SliceType] /\ s \in SliceType /\ s.len <= Len(s.arr)
        /\ Distinct(s)
        /\ hub = None /\ clients' = clients \ {c} /\ conn' = [conn EXCEPT ![c] = Gone]
        /\ UNCHANGED <<coin, batch, flushing, broadcasts, directs, hub, panicked, lost>>
    BY ClientFacts DEF HubIInv, Types, Slices, Unregister, publisher, redis, bounds
  <1>1. Gone \in ConnType /\ Gone.sock = "gone" /\ Gone.send = <<>> /\ Gone.shown = 0
        /\ Len(<<>>) = 0 /\ DOMAIN <<>> = {}
    <2>1. <<>> \in Seq(Nat) /\ Len(<<>>) = 0 /\ DOMAIN <<>> = {}
      OBVIOUS
    <2>2. NewConn \in ConnType /\ NewConn.send = <<>> /\ NewConn.shown = 0
      BY <2>1 DEF NewConn, ConnType
    <2>3. \A k \in ConnType : LET d == [k EXCEPT !.sock = "gone", !.closed = TRUE] IN
            d \in ConnType /\ d.sock = "gone" /\ d.send = k.send /\ d.shown = k.shown
      BY DEF ConnType
    <2>4. Gone = [NewConn EXCEPT !.sock = "gone", !.closed = TRUE]
      BY DEF Gone
    <2> QED
      BY ONLY <2>1, <2>2, <2>3, <2>4
  <1>2. /\ r \in SliceType /\ r.len <= Len(r.arr) /\ Distinct(r)
        /\ \A e \in Nat : In(r, e) <=> In(s, e) /\ e # c
    <2> HIDE DEF s
    <2>1. /\ t \in SliceType /\ t.len <= Len(t.arr) /\ Distinct(t)
          /\ \A e \in Nat : In(t, e) <=> In(s, e) /\ e # c
      BY <1>0, Removes
    <2> HIDE DEF t
    <2>2. CASE t.len = 0
      <3>1. NoSlice \in SliceType /\ NoSlice.len = 0 /\ NoSlice.len <= Len(NoSlice.arr)
        <4>1. <<>> \in Seq(Nat) /\ Len(<<>>) = 0
          OBVIOUS
        <4> QED
          BY <4>1 DEF NoSlice, SliceType
      <3>2. \A x : x.len = 0 => Distinct(x) /\ \A e : ~In(x, e)
        BY DEF Distinct, In
      <3> QED
        BY <2>1, <2>2, <3>1, <3>2
    <2>3. CASE t.len # 0
      BY <2>1, <2>3
    <2> QED
      BY <2>2, <2>3
  <1>3. userConns' = userConns \/ userConns' = [userConns EXCEPT ![u] = r]
    BY DEF Unregister
  <1>4. listener' \in ListenerType /\ (Heard' <=> Heard) /\ listener'.msg = listener.msg
    <2>1. listener' = listener \/ Detach(u)
      BY DEF Unregister
    <2> HIDE DEF u
    <2> QED
      BY <1>0, <2>1, DetachFacts
  <1> HIDE DEF r, t, u
  <1>5. \A e \in Clients : e # c => conn'[e] = conn[e]
    BY <1>0
  <1>6. conn'[c] = Gone
    BY <1>0
  <1>7. Types'
    <2>1. userConns' \in [Users -> SliceType]
          /\ \A w \in Users : userConns'[w].len <= Len(userConns'[w].arr)
      BY <1>0, <1>2, <1>3 DEF Types
    <2>2. conn' \in [Clients -> ConnType]
      BY <1>0, <1>1
    <2>3. \A e \in Clients : Len(conn'[e].send) <= Capacity
      BY <1>0, <1>1, <1>5, <1>6, ClientFacts DEF Types
    <2> QED
      BY <1>0, <1>4, <2>1, <2>2, <2>3 DEF Types
  <1>8. Slices'
    <2>1. \A w \in Users : Distinct(userConns'[w])
      BY <1>0, <1>2, <1>3 DEF HubIInv, Slices
    <2>2. \A w \in Users : \A e \in Clients :
            /\ In(userConns'[w], e) => In(userConns[w], e)
            /\ e # c /\ In(userConns[w], e) => In(userConns'[w], e)
      BY <1>0, <1>2, <1>3
    <2>3. \A e \in clients' : In(userConns'[UserOf[e]], e)
      BY <1>0, <2>2, ClientFacts DEF HubIInv, Slices
    <2>4. ASSUME NEW e \in Clients, conn'[e].sock = "none"
          PROVE  /\ e \notin clients' /\ ~conn'[e].closed /\ ~conn'[e].due
                 /\ \A w \in Users : ~In(userConns'[w], e)
      <3>1. e # c /\ conn'[e] = conn[e]
        BY <1>1, <1>5, <1>6, <2>4
      <3> QED
        BY <1>0, <2>2, <2>4, <3>1 DEF HubIInv, Slices
    <2> QED
      BY <2>1, <2>3, <2>4 DEF Slices
  <1>9. ClosedOnce'
    BY <1>0, <1>5 DEF HubIInv, ClosedOnce
  <1>10. InOrder'
    <2>1. Sorted(Gone) /\ \A v \in Nat : Below(Gone, v)
      BY <1>1 DEF Sorted, Below
    <2>2. \A e \in Clients : Sorted(conn'[e])
      BY <1>5, <1>6, <2>1 DEF HubIInv, InOrder
    <2>3. \A e \in Clients : \A v \in Nat : Behind(v) => Below(conn'[e], v)
      BY <1>5, <1>6, <2>1 DEF Behind
    <2> QED
      BY <1>0, <1>4, <2>2, <2>3, WayKept
  <1>11. NothingMissed'
    <2>1. Coming => Coming'
      BY <1>0, <1>4 DEF Coming
    <2>2. ASSUME lost = 0, NEW e \in clients', conn'[e].sock = "open", conn'[e].due
          PROVE  Coming' \/ Carries(conn'[e], coin)
      <3>1. e \in clients /\ conn'[e] = conn[e]
        BY <1>0, <1>5, <2>2
      <3> QED
        BY <2>1, <2>2, <3>1 DEF HubIInv, NothingMissed
    <2> QED
      BY <1>0, <2>2 DEF NothingMissed
  <1>12. \A d \in Clients : conn'[d].sock = "open" => conn'[d].shown = conn[d].shown
    BY <1>1, <1>5, <1>6
  <1> QED
    BY <1>7, <1>8, <1>9, <1>10, <1>11, <1>12 DEF HubIInv

-----------------------------------------------------------------------------
(* Theorems.                                                               *)

LEMMA InitHub == Init => HubIInv
  <1> SUFFICES ASSUME Init PROVE HubIInv
    OBVIOUS
  <1>0. <<>> \in Seq(Nat) /\ <<>> \in Seq(Users) /\ Len(<<>>) = 0 /\ DOMAIN <<>> = {}
    OBVIOUS
  <1>1. NewConn \in ConnType /\ NewConn.send = <<>> /\ NewConn.shown = 0
        /\ ~NewConn.closed /\ ~NewConn.due
    BY <1>0 DEF NewConn, ConnType
  <1>2. NoSlice \in SliceType /\ NoSlice.len = 0 /\ NoSlice.arr = <<>>
    BY <1>0 DEF NoSlice, SliceType
  <1>3. \A c \in Clients : conn[c] = NewConn
    BY DEF Init
  <1>4. \A u \in Users : userConns[u] = NoSlice
    BY DEF Init
  <1>5. conn \in [Clients -> ConnType] /\ userConns \in [Users -> SliceType]
    BY <1>1, <1>2 DEF Init
  <1>6. coin = 0 /\ hub = 0 /\ lost = 0 /\ listener = Idle /\ broadcasts = <<>>
        /\ directs = <<>> /\ clients = {} /\ batch = FALSE /\ flushing = FALSE
        /\ panicked = FALSE
    BY DEF Init, None
  <1>7. Types
    <2>1. \A c \in Clients : Len(conn[c].send) <= Capacity
      BY <1>0, <1>1, <1>3, ClientFacts
    <2>2. \A u \in Users : userConns[u].len <= Len(userConns[u].arr)
      BY <1>0, <1>2, <1>4
    <2>3. coin \in 0 .. MaxVersion
      BY <1>6, ClientFacts
    <2> QED
      BY <1>0, <1>5, <1>6, <2>1, <2>2, <2>3, IdleFacts DEF Types
  <1>8. Slices /\ ClosedOnce
    <2>1. \A u \in Users : 1 .. userConns[u].len = {}
      BY <1>2, <1>4
    <2> QED
      BY <1>1, <1>3, <1>6, <2>1 DEF Slices, In, Distinct, ClosedOnce
  <1>9. InOrder
    <2>1. \A c \in Clients : Sorted(conn[c]) /\ \A v \in Nat : Below(conn[c], v)
      BY <1>0, <1>1, <1>3 DEF Sorted, Below
    <2>2. ~Heard
      BY <1>6, IdleFacts DEF Heard
    <2>3. Behind(coin)
      BY <1>6, <2>1 DEF Behind
    <2> QED
      BY <1>0, <1>6, <2>1, <2>2, <2>3 DEF InOrder, None
  <1>10. NothingMissed
    BY <1>6 DEF NothingMissed
  <1> QED
    BY <1>7, <1>8, <1>9, <1>10 DEF HubIInv

NoneGoesBack == \A c \in Clients : conn'[c].sock = "open" => conn'[c].shown >= conn[c].shown

LEMMA HubNext ==
  ASSUME HubIInv, [Next]_vars
  PROVE  HubIInv' /\ NoneGoesBack
  <1>0. \A c \in Clients : conn[c].shown \in Nat
    BY DEF HubIInv, Types, ConnType
  <1>1. CASE UNCHANGED vars
    <2>1. HubIInv'
      BY <1>1 DEF vars, publisher, redis, maps, bounds, HubIInv, Types, Slices, ClosedOnce,
                  InOrder, NothingMissed, Coming, Heard, Behind
    <2> QED
      BY <1>0, <1>1, <2>1 DEF vars, NoneGoesBack
  <1>2. CASE NotifyMarketUpdate
    <2>1. \A c \in Clients : conn'[c].shown = conn[c].shown
      BY <1>2 DEF NotifyMarketUpdate, HubIInv, Types, ConnType
    <2> QED
      BY <1>0, <1>2, <2>1, UpdateNext DEF NoneGoesBack
  <1>3. CASE Flush \/ (\E u \in Users : NotifyUser(u)) \/ ListenBroadcast \/ ListenDirect \/ HandOver
    <2>1. conn' = conn
      BY <1>3 DEF Flush, FlushTake, FlushPublish, NotifyUser, ListenBroadcast, ListenDirect, HandOver
    <2>2. HubIInv'
      BY <1>3, FlushNext, ListenBroadcastNext, ListenDirectNext, HandOverNext
    <2> QED
      BY <1>0, <2>1, <2>2 DEF NoneGoesBack
  <1>4. CASE SendNext
    BY <1>0, <1>4, SendNextNext DEF NoneGoesBack
  <1>5. CASE FanOut
    BY <1>0, <1>5, FanOutNext DEF NoneGoesBack
  <1>6. ASSUME NEW c \in Clients, Register(c) \/ Run(c)
        PROVE  HubIInv' /\ NoneGoesBack
    BY <1>0, <1>6, RegisterNext, UnregisterNext DEF NoneGoesBack, Run
  <1>7. ASSUME NEW c \in Clients, WritePump(c) \/ Leave(c)
        PROVE  HubIInv' /\ NoneGoesBack
    <2>1. HubIInv' /\ conn'[c].shown >= conn[c].shown
      BY <1>7, PumpNext
    <2>2. \A d \in Clients : d # c => conn'[d] = conn[d]
      BY <1>7 DEF WritePump, Leave, HubIInv, Types
    <2> QED
      BY <1>0, <2>1, <2>2 DEF NoneGoesBack
  <1> QED
    BY <1>1, <1>2, <1>3, <1>4, <1>5, <1>6, <1>7 DEF Next, Listener

LEMMA HubImplies ==
  ASSUME HubIInv
  PROVE  HubInv /\ LatestIsShown
  <1>1. TypeOK
    BY DEF HubIInv, Types, TypeOK, ConnType
  <1>2. ASSUME NEW c \in clients
        PROVE  Cardinality({j \in 1 .. userConns[UserOf[c]].len :
                              userConns[UserOf[c]].arr[j] = c}) = 1
    <2> DEFINE s == userConns[UserOf[c]]
    <2>1. In(s, c) /\ Distinct(s)
      BY ClientFacts DEF HubIInv, Slices, Types
    <2> PICK j \in 1 .. s.len : s.arr[j] = c
      BY <2>1 DEF In
    <2>2. {i \in 1 .. s.len : s.arr[i] = c} = {j}
      BY <2>1 DEF Distinct
    <2> QED
      BY <2>2, FS_Singleton
  <1>3. InItsSlice
    BY <1>2 DEF InItsSlice
  <1>4. LatestIsShown
    <2> SUFFICES ASSUME Quiet, lost = 0, NEW c \in clients, conn[c].sock = "open",
                        conn[c].send = <<>>, conn[c].due
                 PROVE  conn[c].shown = coin
      BY DEF LatestIsShown
    <2>0. c \in Clients /\ coin \in Nat /\ conn[c].shown \in Nat /\ DOMAIN conn[c].send = {}
      BY ClientFacts DEF HubIInv, Types, ConnType
    <2>1. ~Heard /\ hub = 0 /\ DOMAIN broadcasts = {} /\ ~batch /\ ~flushing
      <3>1. ~Heard
        BY IdleFacts DEF Quiet, Heard
      <3>2. hub = 0 /\ broadcasts = <<>>
        BY DEF Quiet, None
      <3>3. ~batch /\ ~flushing
        BY DEF Quiet
      <3> QED
        BY <3>1, <3>2, <3>3
    <2>2. Coming => coin = 0
      BY <2>1 DEF Coming
    <2>3. conn[c].shown <= coin
      BY <2>0 DEF HubIInv, InOrder, Behind, Below
    <2>4. Coming \/ conn[c].shown = coin
      BY <2>0 DEF HubIInv, NothingMissed, Carries
    <2> QED
      BY <2>0, <2>2, <2>3, <2>4
  <1> QED
    BY <1>1, <1>3, <1>4 DEF HubInv, HubIInv

(* The hub's tables agree: channels are closed once, and a registered      *)
(* client is in its user's slice exactly once (WSHub.Run, SendToUser), for *)
(* every number of connections, users, messages and every capacity.        *)
THEOREM HubIsConsistent == Spec => []HubInv
  <1>1. HubIInv /\ [Next]_vars => HubIInv'
    BY HubNext
  <1>2. HubIInv => HubInv
    BY HubImplies
  <1> QED
    BY InitHub, <1>1, <1>2, PTL DEF Spec

(* Slow clients are dropped, never left behind: when nothing is on its way *)
(* and no publication was lost, a registered client with an empty channel  *)
(* shows the latest version (NotificationService, WSHub.Run).              *)
THEOREM NobodyLeftBehind == Spec => []LatestIsShown
  <1>1. HubIInv /\ [Next]_vars => HubIInv'
    BY HubNext
  <1>2. HubIInv => LatestIsShown
    BY HubImplies
  <1> QED
    BY InitHub, <1>1, <1>2, PTL DEF Spec

(* What a browser shows of a pair never goes back to an older version, on  *)
(* the way through the batch, Redis, the hub and its own channel           *)
(* (StartPubSubListener, WritePump).                                       *)
THEOREM ShownInOrder == Spec => NeverOlder
  <1>1. HubIInv /\ [Next]_vars => HubIInv'
    BY HubNext
  <1>2. HubIInv /\ [Next]_vars =>
          [\A c \in Clients : conn'[c].sock = "open" => conn'[c].shown >= conn[c].shown]_vars
    BY HubNext DEF NoneGoesBack
  <1> QED
    BY InitHub, <1>1, <1>2, PTL DEF Spec, NeverOlder
=============================================================================
