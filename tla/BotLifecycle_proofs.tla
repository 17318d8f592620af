------------------------- MODULE BotLifecycle_proofs -------------------------
(***************************************************************************)
(* Proofs about BotLifecycle: no handler is left behind however operations *)
(* overlap; and while they do not overlap, the record, the index, the map  *)
(* and the goroutines agree.                                               *)
(***************************************************************************)
EXTENDS BotLifecycle, FiniteSetTheorems, TLAPS

-----------------------------------------------------------------------------
(* Types.                                                                  *)
StarterPcs == {"publish", "published", "insert"}
CloserPcs == {"close", "errcheck", "errclose"}
HolderPcs == StarterPcs \cup {"unsubscribe", "errrecord", "errindex", "errunsub"}
OtherPcs == {"idle", "start", "subscribe", "find", "delete", "stopped", "unlisted",
             "update", "erase", "errdelete", "reset", "resetting", "restart"}
PCs == HolderPcs \cup CloserPcs \cup OtherPcs

ProcType == [pc : PCs, bot : Bots, inst : Instances \cup {None}, old : Statuses]
InstType == [bot : Bots, loop : {"none", "running", "exited"}, closed : BOOLEAN]

Types ==
    /\ record \in [Bots -> Statuses \cup {"deleted"}]
    /\ index \subseteq Bots
    /\ instances \in [Bots -> Instances \cup {None}]
    /\ inst \in [Instances -> InstType]
    /\ made \in 0 .. MaxInstances
    /\ handlers \in [Pairs -> Seq(Instances)]
    /\ restoring \subseteq Bots
    /\ proc \in [Procs -> ProcType]
    /\ crashes \in 0 .. MaxCrashes /\ requests \in 0 .. MaxRequests
    /\ wanted \in [Bots -> BOOLEAN]
    /\ listening \in BOOLEAN /\ up \in BOOLEAN /\ orderly \in BOOLEAN

(* The inductive invariant that needs no order.                            *)

(* An instance that does not exist yet is blank, and only one whose loop   *)
(* was started is in the map or has its channel closed.                    *)
Made ==
    /\ \A i \in Instances : i > made => inst[i] = NoInstance
    /\ \A i \in Instances : inst[i].closed => inst[i].loop # "none"
    /\ \A b \in Bots : instances[b] # None =>
          inst[instances[b]].bot = b /\ inst[instances[b]].loop # "none"

(* Who is starting a bot has an instance of his own that does not loop     *)
(* yet; who is about to close one has one that did.                        *)
HasNew(k) ==
    /\ k.inst \in Instances /\ k.inst <= made
    /\ inst[k.inst].bot = k.bot /\ inst[k.inst].loop = "none"
HasOld(k) ==
    k.inst \in Instances /\ inst[k.inst].bot = k.bot /\ inst[k.inst].loop # "none"
Owned ==
    /\ \A p \in Procs : proc[p].pc \in StarterPcs => HasNew(proc[p])
    /\ \A p, q \in Procs :
          proc[p].pc \in StarterPcs /\ proc[q].pc \in StarterPcs /\ p # q =>
              proc[p].inst # proc[q].inst
    /\ \A p \in Procs : proc[p].pc \in CloserPcs => HasOld(proc[p])

(* Each handler of a pair is that of an instance that trades or is the     *)
(* business of a process that will use it or remove it.                    *)
TradingOn(pair) ==
    {i \in Instances : PairOf[inst[i].bot] = pair /\ Looping(i) /\ ~inst[i].closed}
Holders(pair) == {p \in Procs : proc[p].pc \in HolderPcs /\ PairOf[Bot(p)] = pair}
Counted ==
    \A pair \in Pairs :
        Len(handlers[pair]) <= Cardinality(TradingOn(pair)) + Cardinality(Holders(pair))

LifecycleIInv == Types /\ Made /\ Owned /\ Counted

(* The inductive invariant of orderly behaviours.                          *)

(* A bot is off or on, in memory and on disk.                              *)
Off(b) == instances[b] = None /\ Trading(b) = {}
On(b) == instances[b] # None /\ Trading(b) = {instances[b]}
DiskOn(b) == record[b] = "running" /\ b \in index /\ wanted[b]
DiskOff(b) == record[b] # "running" /\ b \notin index
HalfOff(b) == record[b] # "running" /\ b \in index
Settled(b) == (Off(b) /\ DiskOff(b)) \/ (On(b) /\ DiskOn(b))

(* Where a bot is while the process k works on it.                         *)
Phase(k) ==
    /\ k.pc \in {"start", "subscribe", "publish", "erase", "restart"} =>
          Off(k.bot) /\ DiskOff(k.bot)
    /\ k.pc = "published" =>
          /\ Off(k.bot) /\ record[k.bot] = "running" /\ k.bot \notin index
          /\ wanted[k.bot] /\ k.old # "running"
    /\ k.pc \in {"insert", "stopped", "reset"} => Off(k.bot) /\ DiskOn(k.bot)
    /\ k.pc \in {"find", "close", "errcheck", "errclose"} =>
          On(k.bot) /\ DiskOn(k.bot)
    /\ k.pc \in {"close", "errcheck", "errclose"} => k.inst = instances[k.bot]
    /\ k.pc \in {"unsubscribe", "delete", "errrecord"} =>
          Trading(k.bot) = {} /\ DiskOn(k.bot)
    /\ k.pc \in {"unlisted", "resetting"} =>
          Off(k.bot) /\ HalfOff(k.bot) /\ k.old = "running"
    /\ k.pc = "errindex" =>
          Trading(k.bot) = {} /\ HalfOff(k.bot) /\ k.old = "running"
    /\ k.pc \in {"errunsub", "errdelete"} => Trading(k.bot) = {} /\ DiskOff(k.bot)
    /\ k.pc = "update" =>
          Settled(k.bot) /\ (k.old = "running" <=> record[k.bot] = "running")

Busy(p) == proc[p].pc # "idle"
Alone ==
    /\ \A p, q \in Procs : Busy(p) /\ Busy(q) /\ p # q => Bot(p) # Bot(q)
    /\ \A p \in Procs : Busy(p) => up /\ Bot(p) \notin restoring
InPhase ==
    /\ \A p \in Procs : Busy(p) => Phase(proc[p])
    /\ Busy("boot") => wanted[Bot("boot")]
Free(b) == up /\ b \notin restoring /\ \A p \in Procs : Busy(p) => Bot(p) # b
Resting ==
    /\ \A b \in Bots : Free(b) => Settled(b)
    /\ \A b \in restoring : Off(b) /\ DiskOn(b)
    /\ ~up => restoring = {} /\ \A b \in Bots : Off(b) /\ (DiskOn(b) \/ DiskOff(b))
OrderlyInv == orderly => Alone /\ InPhase /\ Resting

(* If no two bots have the same pair, a handler is removed only by who     *)
(* works on its bot.                                                       *)
OneBotPerPair == \A b, c \in Bots : PairOf[b] = PairOf[c] => b = c
Hears(b, i) == \E k \in DOMAIN handlers[PairOf[b]] : handlers[PairOf[b]][k] = i
HearsInv ==
    orderly =>
        /\ \A b \in Bots : \A i \in Trading(b) : Hears(b, i)
        /\ \A p \in Procs, b \in Bots, i \in Instances :
              proc[p].pc \in StarterPcs /\ Bot(p) = b /\ proc[p].inst = i => Hears(b, i)

-----------------------------------------------------------------------------
(* What the steps of a process do.                                         *)
Become(p, k) == proc' = [proc EXCEPT ![p] = k]

LEMMA ProcFacts ==
  ASSUME BotAssumption
  PROVE  /\ NoBot \in Bots /\ Idle(NoBot) \in ProcType /\ NoInstance \in InstType
         /\ "boot" \in Procs /\ "loop" \in Procs /\ Requests \subseteq Procs
         /\ "boot" \notin Requests /\ "loop" \notin Requests
         /\ IsFiniteSet(Procs) /\ IsFiniteSet(Instances)
         /\ MaxInstances \in Nat /\ None \notin Instances
         /\ \A b \in Bots : PairOf[b] \in Pairs
<1>1. NoBot \in Bots
  BY DEF BotAssumption, NoBot
<1>2. IsFiniteSet(Requests \cup {"boot", "loop"})
  <2>1. IsFiniteSet({"boot"}) /\ IsFiniteSet({"loop"}) /\ {"boot", "loop"} = {"boot"} \cup {"loop"}
    BY FS_Singleton
  <2> QED
    BY <2>1, FS_Union DEF BotAssumption
<1>3. IsFiniteSet(1 .. MaxInstances)
  BY FS_Interval DEF BotAssumption
<1>4. Idle(NoBot) \in ProcType /\ NoInstance \in InstType
  BY <1>1 DEF Idle, ProcType, InstType, NoInstance, PCs, OtherPcs, Statuses
<1> QED
  BY <1>1, <1>2, <1>3, <1>4 DEF BotAssumption, Procs, Instances, None

(* A process with one field or two of its state set.                       *)
LEMMA ProcFields ==
  ASSUME NEW k \in ProcType
  PROVE  /\ k.pc \in PCs /\ k.bot \in Bots /\ k.inst \in Instances \cup {None}
         /\ k.old \in Statuses
         /\ \A pc \in PCs :
              /\ [k EXCEPT !.pc = pc] \in ProcType
              /\ [k EXCEPT !.pc = pc].pc = pc /\ [k EXCEPT !.pc = pc].bot = k.bot
              /\ [k EXCEPT !.pc = pc].inst = k.inst /\ [k EXCEPT !.pc = pc].old = k.old
         /\ \A pc \in PCs : \A i \in Instances \cup {None} :
              /\ [k EXCEPT !.pc = pc, !.inst = i] \in ProcType
              /\ [k EXCEPT !.pc = pc, !.inst = i].pc = pc
              /\ [k EXCEPT !.pc = pc, !.inst = i].bot = k.bot
              /\ [k EXCEPT !.pc = pc, !.inst = i].inst = i
         /\ \A pc \in PCs : \A s \in Statuses :
              /\ [k EXCEPT !.pc = pc, !.old = s] \in ProcType
              /\ [k EXCEPT !.pc = pc, !.old = s].pc = pc
              /\ [k EXCEPT !.pc = pc, !.old = s].bot = k.bot
              /\ [k EXCEPT !.pc = pc, !.old = s].inst = k.inst
              /\ [k EXCEPT !.pc = pc, !.old = s].old = s
BY DEF ProcType

(* The three ways in which the state of a process moves on, as one.        *)
LEMMA Moves ==
  ASSUME Types, NEW p \in Procs, NEW pc \in PCs
  PROVE  /\ proc[p] \in ProcType
         /\ Goto(p, pc) => Become(p, [proc[p] EXCEPT !.pc = pc])
         /\ Finish(p) => Become(p, Idle(NoBot))
         /\ \A i : proc' = [proc EXCEPT ![p].pc = pc, ![p].inst = i]
                   => Become(p, [proc[p] EXCEPT !.pc = pc, !.inst = i])
         /\ \A i : proc' = [proc EXCEPT ![p].inst = i, ![p].pc = pc]
                   => Become(p, [proc[p] EXCEPT !.pc = pc, !.inst = i])
         /\ \A s : proc' = [proc EXCEPT ![p].pc = pc, ![p].old = s]
                   => Become(p, [proc[p] EXCEPT !.pc = pc, !.old = s])
<1>1. proc \in [Procs -> ProcType] /\ proc[p] \in ProcType
  BY DEF Types
<1>2. DOMAIN proc[p] = {"pc", "bot", "inst", "old"}
  BY <1>1 DEF ProcType
<1> QED
  BY <1>1, <1>2 DEF Goto, Finish, Become

(* Who becomes what is known; the others stay as they are.                 *)
LEMMA BecomeFacts ==
  ASSUME Types, NEW p \in Procs, NEW k \in ProcType, Become(p, k)
  PROVE  /\ proc' \in [Procs -> ProcType] /\ proc'[p] = k
         /\ \A q \in Procs : q # p => proc'[q] = proc[q]
BY DEF Types, Become

LEMMA InstFields ==
  ASSUME NEW m \in InstType
  PROVE  /\ m.bot \in Bots /\ m.loop \in {"none", "running", "exited"}
         /\ m.closed \in BOOLEAN
         /\ \A b \in Bots :
              /\ [m EXCEPT !.bot = b] \in InstType /\ [m EXCEPT !.bot = b].bot = b
              /\ [m EXCEPT !.bot = b].loop = m.loop
              /\ [m EXCEPT !.bot = b].closed = m.closed
         /\ \A l \in {"running", "exited"} :
              /\ [m EXCEPT !.loop = l] \in InstType /\ [m EXCEPT !.loop = l].bot = m.bot
              /\ [m EXCEPT !.loop = l].loop = l
              /\ [m EXCEPT !.loop = l].closed = m.closed
         /\ [m EXCEPT !.closed = TRUE] \in InstType /\ [m EXCEPT !.closed = TRUE].bot = m.bot
         /\ [m EXCEPT !.closed = TRUE].loop = m.loop
         /\ [m EXCEPT !.closed = TRUE].closed = TRUE
BY DEF InstType

(* One instance changes, and is one still.                                 *)
LEMMA InstChange ==
  ASSUME Types, NEW i \in Instances, NEW m \in InstType,
         inst' = [inst EXCEPT ![i] = m]
  PROVE  /\ inst' \in [Instances -> InstType] /\ inst'[i] = m
         /\ \A j \in Instances : j # i => inst'[j] = inst[j]
BY DEF Types

LEMMA InstMoves ==
  ASSUME Types, NEW i \in Instances
  PROVE  /\ inst[i] \in InstType
         /\ \A b : inst' = [inst EXCEPT ![i].bot = b]
                      => inst' = [inst EXCEPT ![i] = [inst[i] EXCEPT !.bot = b]]
         /\ \A l : inst' = [inst EXCEPT ![i].loop = l]
                      => inst' = [inst EXCEPT ![i] = [inst[i] EXCEPT !.loop = l]]
         /\ inst' = [inst EXCEPT ![i].closed = TRUE]
                      => inst' = [inst EXCEPT ![i] = [inst[i] EXCEPT !.closed = TRUE]]
BY DEF Types, InstType

(* The list of a pair after a handler was added or the first was removed.  *)
LEMMA HandlerLists ==
  ASSUME BotAssumption, Types, NEW b \in Bots
  PROVE  /\ PairOf[b] \in Pairs
         /\ Unsubscribed(b) \in [Pairs -> Seq(Instances)]
         /\ \A i \in Instances :
              [handlers EXCEPT ![PairOf[b]] = Append(@, i)] \in [Pairs -> Seq(Instances)]
<1>1. PairOf[b] \in Pairs /\ handlers \in [Pairs -> Seq(Instances)]
  BY ProcFacts DEF Types
<1>2. \A q \in Seq(Instances) : FirstRemoved(q) \in Seq(Instances)
  BY DEF FirstRemoved
<1>3. \A q \in Seq(Instances) : \A i \in Instances : Append(q, i) \in Seq(Instances)
  OBVIOUS
<1>4. FirstRemoved(handlers[PairOf[b]]) \in Seq(Instances)
  BY <1>1, <1>2
<1>5. Unsubscribed(b) \in [Pairs -> Seq(Instances)]
  BY <1>1, <1>4 DEF Unsubscribed
<1> QED
  BY <1>1, <1>3, <1>5

(* An instance stays one when its StopChan is closed.                      *)
LEMMA ClosedInst ==
  ASSUME NEW r \in InstType
  PROVE  [r EXCEPT !.closed = TRUE] \in InstType
BY DEF InstType

(* Types are kept by everything that keeps those of the parts.             *)
LEMMA TypesFrom ==
  ASSUME Types, NEW p \in Procs, NEW k \in ProcType, Become(p, k),
         record' \in [Bots -> Statuses \cup {"deleted"}], index' \subseteq Bots,
         instances' \in [Bots -> Instances \cup {None}],
         inst' \in [Instances -> InstType], made' \in 0 .. MaxInstances,
         handlers' \in [Pairs -> Seq(Instances)], wanted' \in [Bots -> BOOLEAN],
         orderly' \in BOOLEAN, restoring' \subseteq Bots, requests' \in 0 .. MaxRequests,
         UNCHANGED <<listening, up, crashes>>
  PROVE  Types'
BY BecomeFacts DEF Types

-----------------------------------------------------------------------------
(* Handlers are counted.                                                   *)

LEMMA OneLess ==
  ASSUME NEW S, IsFiniteSet(S), NEW x, NEW S2, IsFiniteSet(S2), S \ {x} \subseteq S2
  PROVE  /\ Cardinality(S) \in Nat /\ Cardinality(S2) \in Nat
         /\ Cardinality(S) <= Cardinality(S2) + 1
         /\ S \subseteq S2 => Cardinality(S) <= Cardinality(S2)
         /\ S \subseteq S2 /\ x \notin S /\ x \in S2 => Cardinality(S) + 1 <= Cardinality(S2)
<1>1. IsFiniteSet(S \ {x})
  BY FS_Subset
<1>2. Cardinality(S \ {x}) \in Nat /\ Cardinality(S) \in Nat /\ Cardinality(S2) \in Nat
  BY <1>1, FS_CardinalityType
<1>3. Cardinality(S) <= Cardinality(S \ {x}) + 1
  <2>1. CASE x \in S
    <3>1. Cardinality(S \ {x}) = Cardinality(S) - 1
      BY ONLY <2>1, IsFiniteSet(S), FS_RemoveElement
    <3> QED
      BY ONLY <3>1, <1>2
  <2>2. CASE x \notin S
    <3>1. S \ {x} = S
      BY <2>2
    <3> QED
      BY <3>1, <1>2
  <2> QED
    BY <2>1, <2>2
<1>4. Cardinality(S \ {x}) <= Cardinality(S2)
  BY <1>1, FS_Subset
<1>5. S \subseteq S2 => Cardinality(S) <= Cardinality(S2)
  BY FS_Subset
<1>6. ASSUME S \subseteq S2, x \notin S, x \in S2
      PROVE  Cardinality(S) + 1 <= Cardinality(S2)
  <2>1. S \subseteq S2 \ {x} /\ IsFiniteSet(S2 \ {x})
    BY <1>6, FS_Subset
  <2>2. Cardinality(S) <= Cardinality(S2 \ {x}) /\ Cardinality(S2 \ {x}) \in Nat
    BY <2>1, FS_Subset, FS_CardinalityType
  <2>3. Cardinality(S2 \ {x}) = Cardinality(S2) - 1
    BY <1>6, FS_RemoveElement
  <2> QED
    BY <2>2, <2>3, <1>2
<1> QED
  BY <1>2, <1>3, <1>4, <1>5, <1>6

(* A set with an element more is larger.                                   *)
LEMMA OneMore ==
  ASSUME NEW H, NEW K, IsFiniteSet(H), IsFiniteSet(K), H \subseteq K,
         NEW p, p \notin H, p \in K
  PROVE  Cardinality(H) + 1 <= Cardinality(K)
<1>1. H \subseteq K \ {p}
  OBVIOUS
<1>2. IsFiniteSet(K \ {p}) /\ Cardinality(K \ {p}) = Cardinality(K) - 1
  BY FS_RemoveElement
<1>3. Cardinality(H) <= Cardinality(K \ {p})
  BY ONLY <1>1, <1>2, FS_Subset
<1> QED
  BY <1>2, <1>3, FS_CardinalityType

(* The five ways in which the count of a pair can change.                  *)
LEMMA Sums ==
  ASSUME NEW T, NEW U, NEW H, NEW K, IsFiniteSet(T), IsFiniteSet(U),
         IsFiniteSet(H), IsFiniteSet(K), NEW n \in Nat, NEW m \in Nat,
         n <= Cardinality(T) + Cardinality(H), NEW p, NEW i
  PROVE  LET Enough == m <= Cardinality(U) + Cardinality(K)
         IN  /\ m <= n /\ T \subseteq U /\ H \subseteq K => Enough
             /\ m <= n + 1 /\ T \subseteq U /\ H \subseteq K /\ p \notin H /\ p \in K
                  => Enough
             /\ m <= n /\ T \ {i} \subseteq U /\ H \subseteq K /\ p \notin H /\ p \in K
                  => Enough
             /\ m <= n - 1 /\ T \subseteq U /\ H \ {p} \subseteq K => Enough
             /\ m <= n /\ T \subseteq U /\ i \notin T /\ i \in U /\ H \ {p} \subseteq K
                  => Enough
             /\ m = 0 => Enough
<1> DEFINE t == Cardinality(T) u == Cardinality(U) h == Cardinality(H) k == Cardinality(K)
<1>1. t \in Nat /\ u \in Nat /\ h \in Nat /\ k \in Nat
  BY FS_CardinalityType
<1>2. T \ {i} \subseteq U => t <= u + 1
  BY ONLY OneLess, IsFiniteSet(T), IsFiniteSet(U)
<1>3. T \subseteq U => t <= u
  BY ONLY FS_Subset, IsFiniteSet(U)
<1>4. T \subseteq U /\ i \notin T /\ i \in U => t + 1 <= u
  <2>1. T \subseteq U => T \ {i} \subseteq U
    OBVIOUS
  <2> QED
    BY ONLY <2>1, OneLess, IsFiniteSet(T), IsFiniteSet(U)
<1>5. H \ {p} \subseteq K => h <= k + 1
  BY ONLY OneLess, IsFiniteSet(H), IsFiniteSet(K)
<1>6. H \subseteq K => h <= k
  BY ONLY FS_Subset, IsFiniteSet(K)
<1>7. H \subseteq K /\ p \notin H /\ p \in K => h + 1 <= k
  <2>1. H \subseteq K => H \ {p} \subseteq K
    OBVIOUS
  <2> QED
    BY ONLY <2>1, OneLess, IsFiniteSet(H), IsFiniteSet(K)
<1>8. n <= t + h
  OBVIOUS
<1> HIDE DEF t, u, h, k
<1>9. /\ m <= n /\ T \subseteq U /\ H \subseteq K => m <= u + k
      /\ m <= n + 1 /\ T \subseteq U /\ H \subseteq K /\ p \notin H /\ p \in K => m <= u + k
      /\ m <= n /\ T \ {i} \subseteq U /\ H \subseteq K /\ p \notin H /\ p \in K => m <= u + k
      /\ m <= n - 1 /\ T \subseteq U /\ H \ {p} \subseteq K => m <= u + k
      /\ m <= n /\ T \subseteq U /\ i \notin T /\ i \in U /\ H \ {p} \subseteq K => m <= u + k
      /\ m = 0 => m <= u + k
  BY <1>1, <1>2, <1>3, <1>4, <1>5, <1>6, <1>7, <1>8
<1> QED
  BY <1>9 DEF u, k

(* The same, one by one: no handler more and nobody less to hold one.      *)
LEMMA CountKept ==
  ASSUME NEW T, NEW U, NEW H, NEW K, IsFiniteSet(T), IsFiniteSet(U),
         IsFiniteSet(H), IsFiniteSet(K), NEW n \in Nat, NEW m \in Nat,
         n <= Cardinality(T) + Cardinality(H),
         m <= n, T \subseteq U, H \subseteq K
  PROVE  m <= Cardinality(U) + Cardinality(K)
BY Sums

(* A starter adds a handler that it holds itself.                          *)
LEMMA CountAdded ==
  ASSUME NEW T, NEW U, NEW H, NEW K, IsFiniteSet(T), IsFiniteSet(U),
         IsFiniteSet(H), IsFiniteSet(K), NEW n \in Nat, NEW m \in Nat,
         n <= Cardinality(T) + Cardinality(H), NEW p,
         m <= n + 1, T \subseteq U, H \subseteq K, p \notin H, p \in K
  PROVE  m <= Cardinality(U) + Cardinality(K)
BY Sums

(* A holder takes a handler away and holds it no longer.                   *)
LEMMA CountDropped ==
  ASSUME NEW T, NEW U, NEW H, NEW K, IsFiniteSet(T), IsFiniteSet(U),
         IsFiniteSet(H), IsFiniteSet(K), NEW n \in Nat, NEW m \in Nat,
         n <= Cardinality(T) + Cardinality(H), NEW p,
         m <= n - 1, T \subseteq U, H \ {p} \subseteq K
  PROVE  m <= Cardinality(U) + Cardinality(K)
BY Sums

(* No handler is left.                                                     *)
LEMMA CountEmpty ==
  ASSUME NEW T, NEW U, NEW H, NEW K, IsFiniteSet(T), IsFiniteSet(U),
         IsFiniteSet(H), IsFiniteSet(K), NEW n \in Nat, NEW m \in Nat,
         n <= Cardinality(T) + Cardinality(H),
         m = 0
  PROVE  m <= Cardinality(U) + Cardinality(K)
BY Sums

(* In a state all the sets are finite and the numbers natural.             *)
LEMMA CountTypes ==
  ASSUME BotAssumption, Types, NEW pair \in Pairs
  PROVE  /\ IsFiniteSet(TradingOn(pair)) /\ IsFiniteSet(Holders(pair))
         /\ Len(handlers[pair]) \in Nat
<1>1. TradingOn(pair) \subseteq Instances /\ Holders(pair) \subseteq Procs
  BY DEF TradingOn, Holders
<1>2. IsFiniteSet(TradingOn(pair)) /\ IsFiniteSet(Holders(pair))
  BY ONLY <1>1, FS_Subset, ProcFacts, BotAssumption
<1>3. Len(handlers[pair]) \in Nat
  BY DEF Types
<1> QED
  BY <1>2, <1>3

LEMMA CountTypes2 ==
  ASSUME BotAssumption, Types', NEW pair \in Pairs
  PROVE  /\ IsFiniteSet(TradingOn(pair)') /\ IsFiniteSet(Holders(pair)')
         /\ Len(handlers'[pair]) \in Nat
<1>1. TradingOn(pair)' \subseteq Instances /\ Holders(pair)' \subseteq Procs
  BY DEF TradingOn, Holders
<1>2. IsFiniteSet(TradingOn(pair)') /\ IsFiniteSet(Holders(pair)')
  BY ONLY <1>1, FS_Subset, ProcFacts, BotAssumption
<1>3. Len(handlers'[pair]) \in Nat
  BY DEF Types
<1> QED
  BY <1>2, <1>3

(* A step that leaves the handlers and the instances alone and keeps the   *)
(* business of its process.                                                *)
LEMMA KeepStep ==
  ASSUME BotAssumption, LifecycleIInv, Types', NEW p \in Procs, NEW k \in ProcType,
         Become(p, k), UNCHANGED <<inst, made, handlers>>,
         \A b \in Bots : instances'[b] \in {instances[b], None},
         k.pc \in StarterPcs =>
             proc[p].pc \in StarterPcs /\ k.inst = proc[p].inst /\ k.bot = proc[p].bot,
         k.pc \in CloserPcs => HasOld(k),
         proc[p].pc \in HolderPcs => k.pc \in HolderPcs /\ k.bot = proc[p].bot
  PROVE  LifecycleIInv'
<1>1. /\ proc'[p] = k /\ \A q \in Procs : q # p => proc'[q] = proc[q]
  BY BecomeFacts DEF LifecycleIInv
<1>2. Made'
  BY DEF LifecycleIInv, Made
<1>3. Owned'
  BY <1>1 DEF LifecycleIInv, Owned, HasNew, HasOld
<1>4. Counted'
  <2> SUFFICES ASSUME NEW pair \in Pairs
               PROVE  Len(handlers'[pair])
                        <= Cardinality(TradingOn(pair)') + Cardinality(Holders(pair)')
    BY DEF Counted
  <2>1. TradingOn(pair)' = TradingOn(pair)
    BY DEF TradingOn, Looping
  <2>2. Holders(pair) \subseteq Holders(pair)'
    BY <1>1 DEF Holders, Bot
  <2>3. handlers'[pair] = handlers[pair]
    OBVIOUS
  <2>4. Len(handlers[pair]) <= Cardinality(TradingOn(pair)) + Cardinality(Holders(pair))
    BY DEF LifecycleIInv, Counted
  <2>5. Len(handlers[pair]) \in Nat /\ Len(handlers[pair]) <= Len(handlers[pair])
    BY CountTypes DEF LifecycleIInv
  <2> QED
    BY <2>1, <2>2, <2>3, <2>4, <2>5, CountKept, CountTypes, CountTypes2 DEF LifecycleIInv
<1> QED
  BY <1>2, <1>3, <1>4 DEF LifecycleIInv

(* Unsubscribing shortens the list of the pair, and no other.              *)
LEMMA UnsubscribedLists ==
  ASSUME BotAssumption, Types, NEW b \in Bots, handlers' = Unsubscribed(b)
  PROVE  /\ Len(handlers'[PairOf[b]]) = 0
            \/ Len(handlers'[PairOf[b]]) = Len(handlers[PairOf[b]]) - 1
         /\ \A pair \in Pairs : pair # PairOf[b] => handlers'[pair] = handlers[pair]
<1>1. PairOf[b] \in Pairs /\ handlers \in [Pairs -> Seq(Instances)]
  BY ProcFacts DEF Types
<1>2. handlers'[PairOf[b]] = FirstRemoved(handlers[PairOf[b]])
  BY <1>1 DEF Unsubscribed
<1>3. \A q \in Seq(Instances) : Len(FirstRemoved(q)) = 0 \/ Len(FirstRemoved(q)) = Len(q) - 1
  BY DEF FirstRemoved
<1>4. \A pair \in Pairs : pair # PairOf[b] => handlers'[pair] = handlers[pair]
  BY <1>1 DEF Unsubscribed
<1> QED
  BY <1>1, <1>2, <1>3, <1>4

(* A step that removes a handler and ends the business of its process.     *)
LEMMA DropStep ==
  ASSUME BotAssumption, LifecycleIInv, Types', NEW p \in Procs, NEW k \in ProcType,
         Become(p, k), UNCHANGED <<inst, made, instances>>,
         handlers' = Unsubscribed(Bot(p)), proc[p].pc \in HolderPcs, k.pc \in OtherPcs
  PROVE  LifecycleIInv'
<1>1. /\ proc'[p] = k /\ \A q \in Procs : q # p => proc'[q] = proc[q]
  BY BecomeFacts DEF LifecycleIInv
<1>2. Made'
  BY DEF LifecycleIInv, Made
<1>3. k.pc \notin StarterPcs /\ k.pc \notin CloserPcs /\ k.pc \notin HolderPcs
  BY DEF StarterPcs, CloserPcs, HolderPcs, OtherPcs
<1>4. Owned'
  BY <1>1, <1>3 DEF LifecycleIInv, Owned, HasNew, HasOld
<1>5. Bot(p) \in Bots
  BY DEF LifecycleIInv, Types, ProcType, Bot
<1>6. Counted'
  <2> SUFFICES ASSUME NEW pair \in Pairs
               PROVE  Len(handlers'[pair])
                        <= Cardinality(TradingOn(pair)') + Cardinality(Holders(pair)')
    BY DEF Counted
  <2>1. TradingOn(pair)' = TradingOn(pair)
    BY DEF TradingOn, Looping
  <2>2. Holders(pair) \ {p} \subseteq Holders(pair)'
    BY <1>1 DEF Holders, Bot
  <2>3. pair # PairOf[Bot(p)] => handlers'[pair] = handlers[pair] /\ p \notin Holders(pair)
    BY UnsubscribedLists, <1>5 DEF Holders, LifecycleIInv
  <2>4. Len(handlers[pair]) <= Cardinality(TradingOn(pair)) + Cardinality(Holders(pair))
    BY DEF LifecycleIInv, Counted
  <2>5. /\ Len(handlers[pair]) \in Nat /\ Len(handlers[pair]) <= Len(handlers[pair])
        /\ \/ Len(handlers'[pair]) = 0 \/ Len(handlers'[pair]) <= Len(handlers[pair]) - 1
           \/ Len(handlers'[pair]) <= Len(handlers[pair]) /\ Holders(pair) \subseteq Holders(pair)'
    BY CountTypes, UnsubscribedLists, <1>5, <2>2, <2>3 DEF LifecycleIInv
  <2>6. TradingOn(pair) \subseteq TradingOn(pair)'
    BY <2>1
  <2>7. /\ IsFiniteSet(TradingOn(pair)) /\ IsFiniteSet(Holders(pair))
        /\ IsFiniteSet(TradingOn(pair)') /\ IsFiniteSet(Holders(pair)')
        /\ Len(handlers'[pair]) \in Nat
    BY CountTypes, CountTypes2 DEF LifecycleIInv
  <2>8. CASE Len(handlers'[pair]) = 0
    BY ONLY <2>4, <2>5, <2>7, <2>8, CountEmpty
  <2>9. CASE Len(handlers'[pair]) <= Len(handlers[pair]) - 1
    BY ONLY <2>2, <2>4, <2>5, <2>6, <2>7, <2>9, CountDropped
  <2>10. CASE Len(handlers'[pair]) <= Len(handlers[pair])
              /\ Holders(pair) \subseteq Holders(pair)'
    BY ONLY <2>4, <2>5, <2>6, <2>7, <2>10, CountKept
  <2> QED
    BY ONLY <2>5, <2>8, <2>9, <2>10
<1> QED
  BY <1>2, <1>4, <1>6 DEF LifecycleIInv

(* A step that closes the channel of the instance its process has found.   *)
LEMMA CloseStep ==
  ASSUME BotAssumption, LifecycleIInv, Types', NEW p \in Procs, NEW k \in ProcType,
         Become(p, k), UNCHANGED <<handlers, made, instances>>,
         proc[p].pc \in CloserPcs, inst' = [inst EXCEPT ![proc[p].inst].closed = TRUE],
         k.pc \in {"unsubscribe", "errrecord"}, k.bot = proc[p].bot
  PROVE  LifecycleIInv'
<1> DEFINE i == proc[p].inst
<1>1. /\ proc'[p] = k /\ \A q \in Procs : q # p => proc'[q] = proc[q]
  BY BecomeFacts DEF LifecycleIInv
<1>2. i \in Instances /\ inst[i].bot = proc[p].bot /\ inst[i].loop # "none"
  BY DEF LifecycleIInv, Owned, HasOld
<1> HIDE DEF i
<1>3. /\ inst'[i].bot = inst[i].bot /\ inst'[i].loop = inst[i].loop
      /\ \A j \in Instances : j # i => inst'[j] = inst[j]
      /\ inst[i] # NoInstance
  <2>1. inst' = [inst EXCEPT ![i] = [inst[i] EXCEPT !.closed = TRUE]]
    BY <1>2, InstMoves DEF LifecycleIInv, i
  <2>2. inst[i] \in InstType
    BY <1>2 DEF LifecycleIInv, Types
  <2> QED
    BY <2>1, <2>2, <1>2, InstFields, InstChange DEF LifecycleIInv, NoInstance
<1>4. k.pc \notin StarterPcs /\ k.pc \notin CloserPcs /\ k.pc \in HolderPcs
      /\ proc[p].pc \notin HolderPcs
  BY DEF StarterPcs, CloserPcs, HolderPcs
<1>6. \A j \in Instances : inst'[j].bot = inst[j].bot /\ inst'[j].loop = inst[j].loop
  BY <1>3
<1>5. Made'
  <2>1. \A j \in Instances : j > made => inst'[j] = NoInstance
    BY <1>3 DEF LifecycleIInv, Made
  <2>2. \A j \in Instances : inst'[j].closed => inst'[j].loop # "none"
    BY <1>2, <1>3 DEF LifecycleIInv, Made
  <2>3. \A b \in Bots : instances[b] # None => instances[b] \in Instances
    BY DEF LifecycleIInv, Types
  <2>4. \A b \in Bots : instances[b] # None =>
          inst'[instances[b]].bot = b /\ inst'[instances[b]].loop # "none"
    BY <1>6, <2>3 DEF LifecycleIInv, Made
  <2> QED
    BY <2>1, <2>2, <2>4 DEF Made
<1>7. Owned'
  BY <1>1, <1>4, <1>6 DEF LifecycleIInv, Owned, HasNew, HasOld
<1>8. Counted'
  <2> SUFFICES ASSUME NEW pair \in Pairs
               PROVE  Len(handlers'[pair])
                        <= Cardinality(TradingOn(pair)') + Cardinality(Holders(pair)')
    BY DEF Counted
  <2>1. TradingOn(pair) \ {i} \subseteq TradingOn(pair)'
    BY <1>3, <1>6 DEF TradingOn, Looping
  <2>2. Holders(pair) \subseteq Holders(pair)'
    BY <1>1, <1>4 DEF Holders, Bot
  <2>3. \/ TradingOn(pair) \subseteq TradingOn(pair)'
        \/ p \notin Holders(pair) /\ p \in Holders(pair)'
    <3>1. CASE PairOf[Bot(p)] = pair
      BY <1>1, <1>4, <3>1 DEF Holders, Bot
    <3>2. CASE PairOf[Bot(p)] # pair
      BY <1>2, <2>1, <3>2 DEF TradingOn, Bot
    <3> QED
      BY <3>1, <3>2
  <2>4. Len(handlers[pair]) <= Cardinality(TradingOn(pair)) + Cardinality(Holders(pair))
    BY DEF LifecycleIInv, Counted
  <2>5. /\ IsFiniteSet(TradingOn(pair)) /\ IsFiniteSet(Holders(pair))
        /\ IsFiniteSet(TradingOn(pair)') /\ IsFiniteSet(Holders(pair)')
        /\ Len(handlers[pair]) \in Nat /\ handlers'[pair] = handlers[pair]
    BY CountTypes, CountTypes2 DEF LifecycleIInv
  <2>6. CASE TradingOn(pair) \subseteq TradingOn(pair)'
    BY ONLY <2>2, <2>4, <2>5, <2>6, CountKept
  <2>7. CASE p \notin Holders(pair) /\ p \in Holders(pair)'
    <3>1. Cardinality(TradingOn(pair)) <= Cardinality(TradingOn(pair)') + 1
      BY ONLY <2>1, <2>5, OneLess
    <3>2. Cardinality(Holders(pair)) + 1 <= Cardinality(Holders(pair)')
      BY ONLY <2>2, <2>5, <2>7, OneMore
    <3> QED
      BY ONLY <2>4, <2>5, <3>1, <3>2, FS_CardinalityType
  <2> QED
    BY <2>3, <2>6, <2>7
<1> QED
  BY <1>5, <1>7, <1>8 DEF LifecycleIInv

(* A step that makes an instance and adds its handler.                     *)
LEMMA NewStep ==
  ASSUME BotAssumption, LifecycleIInv, Types', NEW p \in Procs, NEW k \in ProcType,
         Become(p, k), UNCHANGED instances, made < MaxInstances, made' = made + 1,
         inst' = [inst EXCEPT ![made + 1].bot = Bot(p)],
         handlers' = [handlers EXCEPT ![PairOf[Bot(p)]] = Append(@, made + 1)],
         proc[p].pc = "subscribe", k.pc = "publish", k.inst = made + 1, k.bot = Bot(p)
  PROVE  LifecycleIInv'
<1> DEFINE n == made + 1
<1>1. /\ proc'[p] = k /\ \A q \in Procs : q # p => proc'[q] = proc[q]
  BY BecomeFacts DEF LifecycleIInv
<1>2. n \in Instances /\ n > made /\ Bot(p) \in Bots
  BY DEF LifecycleIInv, Types, Instances, ProcType, Bot, BotAssumption
<1>3. inst[n] = NoInstance
  BY <1>2 DEF LifecycleIInv, Made
<1> HIDE DEF n
<1>4. /\ inst'[n].bot = Bot(p) /\ inst'[n].loop = "none" /\ inst'[n].closed = FALSE
      /\ \A j \in Instances : j # n => inst'[j] = inst[j]
  <2>1. inst' = [inst EXCEPT ![n] = [inst[n] EXCEPT !.bot = Bot(p)]]
    BY <1>2, InstMoves DEF LifecycleIInv, n
  <2>2. inst[n] \in InstType
    BY <1>2 DEF LifecycleIInv, Types
  <2>3. /\ [inst[n] EXCEPT !.bot = Bot(p)] \in InstType
        /\ [inst[n] EXCEPT !.bot = Bot(p)].bot = Bot(p)
        /\ [inst[n] EXCEPT !.bot = Bot(p)].loop = inst[n].loop
        /\ [inst[n] EXCEPT !.bot = Bot(p)].closed = inst[n].closed
    <3>1. \A b \in Bots : /\ [inst[n] EXCEPT !.bot = b] \in InstType
                          /\ [inst[n] EXCEPT !.bot = b].bot = b
                          /\ [inst[n] EXCEPT !.bot = b].loop = inst[n].loop
                          /\ [inst[n] EXCEPT !.bot = b].closed = inst[n].closed
      BY ONLY <2>2 DEF InstType
    <3> QED
      BY ONLY <3>1, <1>2
  <2>4. inst[n].loop = "none" /\ inst[n].closed = FALSE
    BY <1>3 DEF NoInstance
  <2>5. Types
    BY DEF LifecycleIInv
  <2> QED
    BY ONLY <2>1, <2>3, <2>4, <2>5, <1>2, InstChange
<1>5. \A q \in Procs : proc[q].pc \in StarterPcs => proc[q].inst # n
  BY <1>2, n = made + 1 DEF LifecycleIInv, Owned, HasNew, Instances, n, Types, BotAssumption
<1>6. \A q \in Procs : proc[q].pc \in CloserPcs => proc[q].inst # n
  BY <1>3 DEF LifecycleIInv, Owned, HasOld, NoInstance
<1>7. \A b \in Bots : instances[b] # n
  BY <1>2, <1>3 DEF LifecycleIInv, Made, NoInstance, None, Instances, BotAssumption
<1>8. k.pc \in StarterPcs /\ k.pc \notin CloserPcs /\ k.pc \in HolderPcs
      /\ proc[p].pc \notin HolderPcs
  BY DEF StarterPcs, CloserPcs, HolderPcs
<1>9. made \in Nat /\ made' = made + 1 /\ n = made + 1
  BY DEF LifecycleIInv, Types, n, BotAssumption
<1>10. Made'
  <2>1. \A i \in Instances : i > made' => inst'[i] = NoInstance
    BY <1>4, <1>9 DEF LifecycleIInv, Made, Instances, BotAssumption
  <2>2. \A i \in Instances : inst'[i].closed => inst'[i].loop # "none"
    BY <1>4 DEF LifecycleIInv, Made
  <2>3. ASSUME NEW b \in Bots, instances[b] # None
        PROVE  inst'[instances[b]].bot = b /\ inst'[instances[b]].loop # "none"
    <3>1. instances[b] \in Instances
      BY <2>3 DEF LifecycleIInv, Types
    <3>2. inst'[instances[b]] = inst[instances[b]]
      BY <1>4, <1>7, <3>1
    <3> QED
      BY <2>3, <3>2 DEF LifecycleIInv, Made
  <2> QED
    BY <2>1, <2>2, <2>3 DEF Made
<1>11. Owned'
  <2>1. \A q \in Procs : proc'[q].pc \in StarterPcs => HasNew(proc[q])' 
    <3> SUFFICES ASSUME NEW q \in Procs, proc'[q].pc \in StarterPcs PROVE HasNew(proc[q])'
      OBVIOUS
    <3>1. CASE q = p
      BY <1>1, <1>2, <1>4, <1>9, <3>1 DEF HasNew, n
    <3>2. CASE q # p
      <4>1. proc'[q] = proc[q] /\ HasNew(proc[q]) /\ proc[q].inst # n
        BY <1>1, <1>5, <3>2 DEF LifecycleIInv, Owned
      <4>2. proc[q].inst \in Nat
        BY <4>1 DEF HasNew, Instances, BotAssumption
      <4> QED
        BY <4>1, <4>2, <1>4, <1>9 DEF HasNew
    <3> QED
      BY <3>1, <3>2
  <2>2. \A q, r \in Procs : proc'[q].pc \in StarterPcs /\ proc'[r].pc \in StarterPcs
            /\ q # r => proc'[q].inst # proc'[r].inst
    BY <1>1, <1>5, <1>8 DEF LifecycleIInv, Owned, n
  <2>3. \A q \in Procs : proc'[q].pc \in CloserPcs => HasOld(proc[q])'
    <3> SUFFICES ASSUME NEW q \in Procs, proc'[q].pc \in CloserPcs PROVE HasOld(proc[q])'
      OBVIOUS
    <3>1. q # p /\ proc'[q] = proc[q]
      BY <1>1, <1>8
    <3>2. HasOld(proc[q]) /\ proc[q].inst # n
      BY <3>1, <1>6 DEF LifecycleIInv, Owned
    <3> QED
      BY <3>1, <3>2, <1>4 DEF HasOld
  <2> QED
    BY <2>1, <2>2, <2>3 DEF Owned
<1>12. Counted'
  <2> SUFFICES ASSUME NEW pair \in Pairs
               PROVE  Len(handlers'[pair])
                        <= Cardinality(TradingOn(pair)') + Cardinality(Holders(pair)')
    BY DEF Counted
  <2>1. TradingOn(pair) \subseteq TradingOn(pair)'
    <3>1. inst[n].loop = "none"
      BY <1>3 DEF NoInstance
    <3> QED
      BY <3>1, <1>4 DEF TradingOn, Looping
  <2>2. Holders(pair) \subseteq Holders(pair)'
    BY <1>1, <1>8 DEF Holders, Bot
  <2>3. Len(handlers[pair]) <= Cardinality(TradingOn(pair)) + Cardinality(Holders(pair))
    BY DEF LifecycleIInv, Counted
  <2>4. /\ IsFiniteSet(TradingOn(pair)) /\ IsFiniteSet(Holders(pair))
        /\ IsFiniteSet(TradingOn(pair)') /\ IsFiniteSet(Holders(pair)')
        /\ Len(handlers[pair]) \in Nat /\ Len(handlers'[pair]) \in Nat
    BY CountTypes, CountTypes2 DEF LifecycleIInv
  <2>5. handlers \in [Pairs -> Seq(Instances)] /\ PairOf[Bot(p)] \in Pairs
    BY <1>2, ProcFacts DEF LifecycleIInv, Types
  <2>6. CASE pair = PairOf[Bot(p)]
    <3>1. p \notin Holders(pair) /\ p \in Holders(pair)'
      BY <1>1, <1>8, <2>6 DEF Holders, Bot
    <3>2. Len(handlers'[pair]) <= Len(handlers[pair]) + 1
      BY <2>5, <2>6, <1>2 DEF n
    <3> QED
      BY ONLY <2>1, <2>2, <2>3, <2>4, <3>1, <3>2, CountAdded
  <2>7. CASE pair # PairOf[Bot(p)]
    <3>1. handlers'[pair] = handlers[pair]
      BY <2>5, <2>7
    <3> QED
      BY ONLY <2>1, <2>2, <2>3, <2>4, <3>1, CountKept
  <2> QED
    BY <2>6, <2>7
<1> QED
  BY <1>10, <1>11, <1>12 DEF LifecycleIInv

(* A step that takes the new instance of its process into use.             *)
LEMMA InsertStep ==
  ASSUME BotAssumption, LifecycleIInv, Types', NEW p \in Procs, NEW k \in ProcType,
         Become(p, k), UNCHANGED <<handlers, made>>,
         proc[p].pc = "insert", k.pc = "idle",
         instances' = [instances EXCEPT ![Bot(p)] = proc[p].inst],
         inst' = [inst EXCEPT ![proc[p].inst].loop = "running"]
  PROVE  LifecycleIInv'
<1> DEFINE i == proc[p].inst
<1>1. /\ proc'[p] = k /\ \A q \in Procs : q # p => proc'[q] = proc[q]
  BY BecomeFacts DEF LifecycleIInv
<1>2. k.pc \notin StarterPcs /\ k.pc \notin CloserPcs /\ k.pc \notin HolderPcs
      /\ proc[p].pc \in StarterPcs
  BY DEF StarterPcs, CloserPcs, HolderPcs
<1>3. /\ i \in Instances /\ i <= made /\ inst[i].bot = Bot(p) /\ inst[i].loop = "none"
      /\ ~inst[i].closed /\ Bot(p) \in Bots
  <2>1. HasNew(proc[p]) /\ (i \in Instances /\ inst[i].closed => inst[i].loop # "none")
    BY <1>2 DEF LifecycleIInv, Owned, Made
  <2> QED
    BY <2>1 DEF HasNew, LifecycleIInv, Types, ProcType, Bot
<1>4. /\ instances'[Bot(p)] = i
      /\ \A b \in Bots : b # Bot(p) => instances'[b] = instances[b]
  BY <1>3 DEF LifecycleIInv, Types
<1>5. \A q \in Procs : q # p /\ proc[q].pc \in StarterPcs => proc[q].inst # i
  BY <1>2 DEF LifecycleIInv, Owned
<1> HIDE DEF i
<1>6. /\ inst'[i].bot = Bot(p) /\ inst'[i].loop = "running" /\ ~inst'[i].closed
      /\ \A j \in Instances : j # i => inst'[j] = inst[j]
  <2>1. inst' = [inst EXCEPT ![i] = [inst[i] EXCEPT !.loop = "running"]]
    BY <1>3, InstMoves DEF LifecycleIInv, i
  <2>2. inst[i] \in InstType /\ Types
    BY <1>3 DEF LifecycleIInv, Types
  <2>3. /\ [inst[i] EXCEPT !.loop = "running"] \in InstType
        /\ [inst[i] EXCEPT !.loop = "running"].bot = inst[i].bot
        /\ [inst[i] EXCEPT !.loop = "running"].loop = "running"
        /\ [inst[i] EXCEPT !.loop = "running"].closed = inst[i].closed
    BY ONLY <2>2, InstFields
  <2> QED
    BY ONLY <2>1, <2>2, <2>3, <1>3, InstChange
<1>7. Made'
  <2>1. \A j \in Instances : j > made => inst'[j] = NoInstance
    <3>1. made \in Nat /\ Instances \subseteq Nat
      BY DEF LifecycleIInv, Types, Instances, BotAssumption
    <3> QED
      BY <3>1, <1>3, <1>6 DEF LifecycleIInv, Made
  <2>2. \A j \in Instances : inst'[j].closed => inst'[j].loop # "none"
    BY <1>6 DEF LifecycleIInv, Made
  <2>3. \A b \in Bots : instances[b] # None => instances[b] \in Instances
    BY DEF LifecycleIInv, Types
  <2>4. \A b \in Bots : instances'[b] # None =>
          inst'[instances'[b]].bot = b /\ inst'[instances'[b]].loop # "none"
    BY <1>3, <1>4, <1>6, <2>3 DEF LifecycleIInv, Made
  <2> QED
    BY <2>1, <2>2, <2>4 DEF Made
<1>8. Owned'
  <2>1. \A q \in Procs : proc'[q].pc \in StarterPcs => HasNew(proc[q])'
    BY <1>1, <1>2, <1>5, <1>6 DEF LifecycleIInv, Owned, HasNew
  <2>2. \A q, r \in Procs : proc'[q].pc \in StarterPcs /\ proc'[r].pc \in StarterPcs
            /\ q # r => proc'[q].inst # proc'[r].inst
    BY <1>1, <1>2 DEF LifecycleIInv, Owned
  <2>3. \A q \in Procs : proc'[q].pc \in CloserPcs => HasOld(proc[q])'
    <3> SUFFICES ASSUME NEW q \in Procs, proc'[q].pc \in CloserPcs PROVE HasOld(proc[q])'
      OBVIOUS
    <3>1. q # p /\ proc'[q] = proc[q]
      BY <1>1, <1>2
    <3>2. HasOld(proc[q])
      BY <3>1 DEF LifecycleIInv, Owned
    <3> QED
      BY <3>1, <3>2, <1>3, <1>6 DEF HasOld
  <2> QED
    BY <2>1, <2>2, <2>3 DEF Owned
<1>9. Counted'
  <2> SUFFICES ASSUME NEW pair \in Pairs
               PROVE  Len(handlers'[pair])
                        <= Cardinality(TradingOn(pair)') + Cardinality(Holders(pair)')
    BY DEF Counted
  <2>1. TradingOn(pair) \subseteq TradingOn(pair)'
    BY <1>3, <1>6 DEF TradingOn, Looping
  <2>2. Holders(pair) \ {p} \subseteq Holders(pair)'
    BY <1>1 DEF Holders, Bot
  <2>3. \/ i \notin TradingOn(pair) /\ i \in TradingOn(pair)'
        \/ Holders(pair) \subseteq Holders(pair)'
    <3>1. CASE PairOf[Bot(p)] = pair
      BY <1>3, <1>6, <3>1 DEF TradingOn, Looping
    <3>2. CASE PairOf[Bot(p)] # pair
      BY <2>2, <3>2 DEF Holders
    <3> QED
      BY <3>1, <3>2
  <2>4. Len(handlers[pair]) <= Cardinality(TradingOn(pair)) + Cardinality(Holders(pair))
    BY DEF LifecycleIInv, Counted
  <2>5. /\ IsFiniteSet(TradingOn(pair)) /\ IsFiniteSet(Holders(pair))
        /\ IsFiniteSet(TradingOn(pair)') /\ IsFiniteSet(Holders(pair)')
        /\ Len(handlers[pair]) \in Nat /\ handlers'[pair] = handlers[pair]
    BY CountTypes, CountTypes2 DEF LifecycleIInv
  <2>6. CASE i \notin TradingOn(pair) /\ i \in TradingOn(pair)'
    <3>1. Cardinality(TradingOn(pair)) + 1 <= Cardinality(TradingOn(pair)')
      BY ONLY <2>1, <2>5, <2>6, OneMore
    <3>2. Cardinality(Holders(pair)) <= Cardinality(Holders(pair)') + 1
      BY ONLY <2>2, <2>5, OneLess
    <3> QED
      BY ONLY <2>4, <2>5, <3>1, <3>2, FS_CardinalityType
  <2>7. CASE Holders(pair) \subseteq Holders(pair)'
    BY ONLY <2>1, <2>4, <2>5, <2>7, CountKept
  <2> QED
    BY <2>3, <2>6, <2>7
<1> QED
  BY <1>7, <1>8, <1>9 DEF LifecycleIInv

(* The loop of a closed instance ends: it was not trading any more.        *)
LEMMA ExitStep ==
  ASSUME BotAssumption, LifecycleIInv, NEW i \in Instances, LoopExit(i)
  PROVE  LifecycleIInv' /\ \A j \in Instances : /\ inst'[j].bot = inst[j].bot
                                                /\ inst'[j].closed = inst[j].closed
                                                /\ ~inst[j].closed => inst'[j] = inst[j]
<1>1. /\ inst[i].closed /\ inst[i].loop = "running" /\ inst[i] \in InstType
      /\ inst' = [inst EXCEPT ![i].loop = "exited"]
      /\ UNCHANGED <<redis, instances, made, handlers, outside, proc, history>>
  BY DEF LoopExit, Looping, LifecycleIInv, Types
<1>2. /\ inst'[i].bot = inst[i].bot /\ inst'[i].loop = "exited"
      /\ inst'[i].closed = inst[i].closed /\ inst' \in [Instances -> InstType]
      /\ \A j \in Instances : j # i => inst'[j] = inst[j]
  <2>1. inst' = [inst EXCEPT ![i] = [inst[i] EXCEPT !.loop = "exited"]] /\ Types
    BY <1>1, InstMoves DEF LifecycleIInv
  <2>2. /\ [inst[i] EXCEPT !.loop = "exited"] \in InstType
        /\ [inst[i] EXCEPT !.loop = "exited"].bot = inst[i].bot
        /\ [inst[i] EXCEPT !.loop = "exited"].loop = "exited"
        /\ [inst[i] EXCEPT !.loop = "exited"].closed = inst[i].closed
    BY ONLY <1>1, InstFields
  <2> QED
    BY ONLY <2>1, <2>2, InstChange
<1>3. \A j \in Instances : /\ inst'[j].bot = inst[j].bot /\ inst'[j].closed = inst[j].closed
                           /\ inst'[j].loop = "none" <=> inst[j].loop = "none"
                           /\ ~inst[j].closed => inst'[j] = inst[j]
  <2> TAKE j \in Instances
  <2>1. CASE j = i
    BY <1>1, <1>2, <2>1
  <2>2. CASE j # i
    BY <1>2, <2>2
  <2> QED
    BY <2>1, <2>2
<1>4. Types'
  BY <1>1, <1>2 DEF LifecycleIInv, Types, redis, outside, history
<1>5. Made'
  <2>1. \A j \in Instances : j > made => inst'[j] = NoInstance
    <3>1. ~NoInstance.closed
      BY DEF NoInstance
    <3> QED
      BY <3>1, <1>3 DEF LifecycleIInv, Made
  <2>2. \A j \in Instances : inst'[j].closed => inst'[j].loop # "none"
    BY <1>3 DEF LifecycleIInv, Made
  <2>3. \A b \in Bots : instances[b] # None => instances[b] \in Instances
    BY DEF LifecycleIInv, Types
  <2>4. \A b \in Bots : instances[b] # None =>
          inst'[instances[b]].bot = b /\ inst'[instances[b]].loop # "none"
    BY <1>3, <2>3 DEF LifecycleIInv, Made
  <2> QED
    BY <1>1, <2>1, <2>2, <2>4 DEF Made
<1>6. Owned'
  BY <1>1, <1>3 DEF LifecycleIInv, Owned, HasNew, HasOld
<1>7. Counted'
  <2>1. \A pair \in Pairs : TradingOn(pair)' = TradingOn(pair)
    BY <1>3 DEF TradingOn, Looping
  <2>2. \A pair \in Pairs : Holders(pair)' = Holders(pair)
    BY <1>1 DEF Holders, Bot
  <2> QED
    BY <1>1, <2>1, <2>2 DEF LifecycleIInv, Counted
<1> QED
  BY <1>3, <1>4, <1>5, <1>6, <1>7 DEF LifecycleIInv

(* Nothing of what is in memory is left.                                   *)
LEMMA DieStep ==
  ASSUME BotAssumption, LifecycleIInv, Die, orderly' \in BOOLEAN
  PROVE  LifecycleIInv'
<1>1. Types'
  <2>1. /\ instances' \in [Bots -> Instances \cup {None}]
        /\ inst' \in [Instances -> InstType] /\ handlers' \in [Pairs -> Seq(Instances)]
        /\ proc' \in [Procs -> ProcType] /\ made' \in 0 .. MaxInstances
    <3>1. NoInstance \in InstType /\ Idle(NoBot) \in ProcType /\ MaxInstances \in Nat
          /\ <<>> \in Seq(Instances)
      BY ProcFacts
    <3> QED
      BY <3>1 DEF Die
  <2> QED
    BY <2>1 DEF LifecycleIInv, Types, Die, redis
<1>2. \A p \in Procs : proc'[p].pc = "idle"
  BY DEF Die, Idle
<1>3. \A i \in Instances : inst'[i] = NoInstance
  BY DEF Die
<1>4. Made' /\ Owned'
  BY <1>2, <1>3 DEF Made, Owned, NoInstance, StarterPcs, CloserPcs, Die
<1>5. Counted'
  <2> SUFFICES ASSUME NEW pair \in Pairs
               PROVE  Len(handlers'[pair])
                        <= Cardinality(TradingOn(pair)') + Cardinality(Holders(pair)')
    BY DEF Counted
  <2>1. Len(handlers'[pair]) = 0
    BY DEF Die
  <2>2. Cardinality(TradingOn(pair)') \in Nat /\ Cardinality(Holders(pair)') \in Nat
    BY <1>1, CountTypes2, FS_CardinalityType
  <2> QED
    BY <2>1, <2>2
<1> QED
  BY <1>1, <1>4, <1>5 DEF LifecycleIInv

-----------------------------------------------------------------------------
(* Every action is a step of one of these kinds.                           *)

(* KeepStep with the types of what it may change.                          *)
LEMMA KeepTyped ==
  ASSUME BotAssumption, LifecycleIInv, NEW p \in Procs, NEW k \in ProcType, Become(p, k),
         UNCHANGED <<inst, made, handlers, listening, up, crashes>>,
         record' \in [Bots -> Statuses \cup {"deleted"}], index' \subseteq Bots,
         instances' = instances \/ instances' = [instances EXCEPT ![Bot(p)] = None],
         wanted' \in [Bots -> BOOLEAN], orderly' \in BOOLEAN, restoring' \subseteq Bots,
         requests' \in 0 .. MaxRequests,
         k.pc \in StarterPcs =>
             proc[p].pc \in StarterPcs /\ k.inst = proc[p].inst /\ k.bot = proc[p].bot,
         k.pc \in CloserPcs => HasOld(k),
         proc[p].pc \in HolderPcs => k.pc \in HolderPcs /\ k.bot = proc[p].bot
  PROVE  LifecycleIInv'
<1>1. /\ instances' \in [Bots -> Instances \cup {None}]
      /\ \A b \in Bots : instances'[b] \in {instances[b], None}
  BY DEF LifecycleIInv, Types, Bot, ProcType
<1>2. Types'
  BY <1>1, TypesFrom DEF LifecycleIInv, Types
<1> QED
  BY <1>1, <1>2, KeepStep

(* A process takes up an operation.                                        *)
BeginPcs == {"start", "find", "update", "erase", "errcheck", "reset"}
LEMMA BeginStep ==
  ASSUME BotAssumption, LifecycleIInv, NEW p \in Procs, NEW b \in Bots,
         NEW pc \in BeginPcs, NEW i \in Instances \cup {None}, NEW old \in Statuses,
         Begin(p, b, pc, i, old),
         UNCHANGED <<redis, memory, listening, up, crashes, wanted>>,
         restoring' \subseteq Bots, requests' \in 0 .. MaxRequests,
         pc = "errcheck" => i # None /\ i = instances[b]
  PROVE  LifecycleIInv'
<1> DEFINE k == [pc |-> pc, bot |-> b, inst |-> i, old |-> old]
<1>1. /\ pc \in PCs /\ pc \notin StarterPcs
      /\ pc \in CloserPcs => pc = "errcheck"
      /\ "idle" \notin HolderPcs
  BY DEF BeginPcs, PCs, OtherPcs, HolderPcs, StarterPcs, CloserPcs
<1>2. k \in ProcType /\ k.pc = pc /\ k.inst = i /\ k.bot = b
  BY <1>1 DEF ProcType
<1>3. Become(p, k)
  BY DEF Begin, Become
<1>4. proc[p].pc = "idle" /\ orderly' \in BOOLEAN
  BY DEF Begin, LifecycleIInv, Types
<1> HIDE DEF k
<1>5. k.pc \in CloserPcs => HasOld(k)
  BY <1>1, <1>2 DEF LifecycleIInv, Made, HasOld
<1>6. UNCHANGED <<record, index, instances, inst, made, handlers, wanted>>
  BY DEF redis, memory
<1>7. /\ record \in [Bots -> Statuses \cup {"deleted"}] /\ index \subseteq Bots
      /\ wanted \in [Bots -> BOOLEAN]
  BY DEF LifecycleIInv, Types
<1> QED
  BY <1>1, <1>2, <1>3, <1>4, <1>5, <1>6, <1>7, KeepTyped

LEMMA BeginNext ==
  ASSUME BotAssumption, LifecycleIInv,
         \/ \E p \in Requests, b \in Bots : Request(p, b)
         \/ \E i \in Instances : SaveBalance(i) \/ ErrorStop(i)
         \/ \E b \in Bots : Restore(b)
  PROVE  LifecycleIInv'
<1>1. /\ requests \in 0 .. MaxRequests /\ MaxRequests \in Nat /\ restoring \subseteq Bots
      /\ record \in [Bots -> Statuses \cup {"deleted"}]
      /\ inst \in [Instances -> InstType] /\ instances \in [Bots -> Instances \cup {None}]
  BY DEF LifecycleIInv, Types, BotAssumption
<1>2. ASSUME NEW p \in Requests, NEW b \in Bots, Request(p, b)
      PROVE  LifecycleIInv'
  <2>1. p \in Procs
    BY DEF Procs
  <2>2. \E pc \in {"start", "find", "update", "erase"}, old \in Statuses :
           Ask(p, b, pc, None, old)
    BY <1>1, <1>2 DEF Request, StartBot, StopBot, UpdateBot, DeleteBot, Startable, Statuses
  <2>3. UNCHANGED <<redis, memory, listening, restoring, up, crashes, wanted>>
    BY <1>2 DEF Request, StartBot, StopBot, UpdateBot, DeleteBot
  <2>4. PICK pc \in {"start", "find", "update", "erase"} : \E old \in Statuses :
           Ask(p, b, pc, None, old)
    BY <2>2
  <2>5. PICK old \in Statuses : Ask(p, b, pc, None, old)
    BY <2>4
  <2>6. Begin(p, b, pc, None, old) /\ requests' \in 0 .. MaxRequests
    BY <1>1, <2>5 DEF Ask
  <2>7. pc \in BeginPcs /\ pc # "errcheck"
    BY DEF BeginPcs
  <2> QED
    BY <1>1, <2>1, <2>3, <2>6, <2>7, BeginStep
<1>3. ASSUME NEW i \in Instances, SaveBalance(i)
      PROVE  LifecycleIInv'
  <2>1. inst[i].bot \in Bots /\ record[inst[i].bot] \in Statuses /\ "loop" \in Procs
    BY <1>1, <1>3, ProcFacts DEF SaveBalance, InstType
  <2>2. "update" \in BeginPcs
    BY DEF BeginPcs
  <2> QED
    BY <1>1, <1>3, <2>1, <2>2, BeginStep DEF SaveBalance, outside
<1>4. ASSUME NEW i \in Instances, ErrorStop(i)
      PROVE  LifecycleIInv'
  <2>1. inst[i].bot \in Bots /\ instances[inst[i].bot] # None /\ "loop" \in Procs
    BY <1>1, <1>4, ProcFacts DEF ErrorStop, InstType
  <2>2. "errcheck" \in BeginPcs /\ "stopped" \in Statuses
    BY DEF BeginPcs, Statuses
  <2>3. instances[inst[i].bot] \in Instances \cup {None}
    BY <1>1, <2>1
  <2> QED
    BY <1>1, <1>4, <2>1, <2>2, <2>3, BeginStep DEF ErrorStop, outside
<1>5. ASSUME NEW b \in Bots, Restore(b)
      PROVE  LifecycleIInv'
  <2>1. "boot" \in Procs
    BY ProcFacts
  <2>2. "reset" \in BeginPcs /\ "stopped" \in Statuses
    BY DEF BeginPcs, Statuses
  <2>3. restoring' \subseteq Bots
    BY <1>1, <1>5 DEF Restore
  <2> QED
    BY <1>1, <1>5, <2>1, <2>2, <2>3, BeginStep DEF Restore
<1> QED
  BY <1>2, <1>3, <1>4, <1>5

(* What the two halves of UpdateStatus do.                                 *)
LEMMA RecordFacts ==
  ASSUME Types, NEW p \in Procs, NEW status \in Statuses, NEW next \in PCs,
         RecordStatus(p, status, next)
  PROVE  /\ record[Bot(p)] \in Statuses /\ Bot(p) \in Bots
         /\ record' \in [Bots -> Statuses \cup {"deleted"}]
         /\ record'[Bot(p)] = status
         /\ \A b \in Bots : b # Bot(p) => record'[b] = record[b]
         /\ \E k \in ProcType :
              /\ Become(p, k) /\ k.pc = next /\ k.bot = Bot(p) /\ k.inst = proc[p].inst
              /\ k.old = record[Bot(p)]
<1>1. /\ proc[p] \in ProcType /\ Bot(p) \in Bots /\ record[Bot(p)] \in Statuses
      /\ Bot(p) = proc[p].bot
  BY DEF RecordStatus, Types, ProcType, Bot
<1>2. /\ record' \in [Bots -> Statuses \cup {"deleted"}]
      /\ record'[Bot(p)] = status
      /\ \A b \in Bots : b # Bot(p) => record'[b] = record[b]
  BY <1>1 DEF RecordStatus, Types
<1> DEFINE k == [proc[p] EXCEPT !.pc = next, !.old = record[Bot(p)]]
<1>3. Become(p, k)
  BY Moves DEF RecordStatus
<1>4. /\ k \in ProcType /\ k.pc = next /\ k.bot = proc[p].bot /\ k.inst = proc[p].inst
      /\ k.old = record[Bot(p)]
  BY <1>1 DEF ProcType
<1> QED
  BY <1>1, <1>2, <1>3, <1>4

LEMMA IndexFacts ==
  ASSUME Types, NEW p \in Procs, NEW status \in Statuses, IndexStatus(p, status)
  PROVE  /\ index' \subseteq Bots
         /\ \A b \in Bots : b # Bot(p) => (b \in index' <=> b \in index)
         /\ proc[p].old # "running" /\ status = "running" => Bot(p) \in index'
         /\ proc[p].old = "running" /\ status # "running" => Bot(p) \notin index'
BY DEF IndexStatus, Reindexed, Types, ProcType, Bot

LEMMA GotoFacts ==
  ASSUME BotAssumption, Types, NEW p \in Procs
  PROVE  /\ \A pc \in PCs : Goto(p, pc) => \E k \in ProcType :
              /\ Become(p, k) /\ k.pc = pc /\ k.bot = proc[p].bot
              /\ k.inst = proc[p].inst /\ k.old = proc[p].old
         /\ Finish(p) => \E k \in ProcType : Become(p, k) /\ k.pc = "idle"
<1>1. proc[p] \in ProcType
  BY DEF Types
<1>2. ASSUME NEW pc \in PCs, Goto(p, pc)
      PROVE  \E k \in ProcType :
              /\ Become(p, k) /\ k.pc = pc /\ k.bot = proc[p].bot
              /\ k.inst = proc[p].inst /\ k.old = proc[p].old
  <2>1. Become(p, [proc[p] EXCEPT !.pc = pc])
    BY <1>2, Moves
  <2> QED
    BY <1>1, <2>1 DEF ProcType
<1>3. ASSUME Finish(p)
      PROVE  \E k \in ProcType : Become(p, k) /\ k.pc = "idle"
  <2>1. Become(p, Idle(NoBot)) /\ Idle(NoBot).pc = "idle" /\ Idle(NoBot) \in ProcType
    BY <1>3, ProcFacts DEF Finish, Become, Idle
  <2> QED
    BY <2>1
<1> QED
  BY <1>2, <1>3

(* The variables KeepTyped lets change, unchanged or not.                  *)
KeptTypes ==
    /\ record' \in [Bots -> Statuses \cup {"deleted"}] /\ index' \subseteq Bots
    /\ wanted' \in [Bots -> BOOLEAN] /\ orderly' \in BOOLEAN /\ restoring' \subseteq Bots
    /\ requests' \in 0 .. MaxRequests

LEMMA KeepGoto ==
  ASSUME BotAssumption, LifecycleIInv, NEW p \in Procs,
         NEW pc \in PCs, Goto(p, pc), KeptTypes,
         UNCHANGED <<inst, made, handlers, listening, up, crashes>>,
         instances' = instances \/ instances' = [instances EXCEPT ![Bot(p)] = None],
         pc \in StarterPcs => proc[p].pc \in StarterPcs,
         pc \in CloserPcs => proc[p].pc \in CloserPcs,
         proc[p].pc \in HolderPcs => pc \in HolderPcs
  PROVE  LifecycleIInv'
<1>1. PICK k \in ProcType :
        /\ Become(p, k) /\ k.pc = pc /\ k.bot = proc[p].bot
        /\ k.inst = proc[p].inst /\ k.old = proc[p].old
  BY GotoFacts DEF LifecycleIInv
<1>2. k.pc \in CloserPcs => HasOld(k)
  BY <1>1 DEF LifecycleIInv, Owned, HasOld
<1> QED
  BY <1>1, <1>2, KeepTyped DEF KeptTypes

LEMMA KeepFinish ==
  ASSUME BotAssumption, LifecycleIInv, NEW p \in Procs, Finish(p), KeptTypes,
         UNCHANGED <<inst, made, handlers, listening, up, crashes>>,
         instances' = instances \/ instances' = [instances EXCEPT ![Bot(p)] = None],
         proc[p].pc \notin HolderPcs
  PROVE  LifecycleIInv'
<1>1. PICK k \in ProcType : Become(p, k) /\ k.pc = "idle"
  BY GotoFacts DEF LifecycleIInv
<1>2. k.pc \notin StarterPcs /\ k.pc \notin CloserPcs
  BY <1>1 DEF StarterPcs, CloserPcs
<1> QED
  BY <1>1, <1>2, KeepTyped DEF KeptTypes

LEMMA KeepRecord ==
  ASSUME BotAssumption, LifecycleIInv, NEW p \in Procs, NEW status \in Statuses,
         NEW next \in PCs, RecordStatus(p, status, next),
         UNCHANGED <<index, inst, made, handlers, instances, listening, up, crashes, restoring,
                     requests>>,
         wanted' \in [Bots -> BOOLEAN], orderly' \in BOOLEAN,
         next \in StarterPcs => proc[p].pc \in StarterPcs,
         next \notin CloserPcs,
         proc[p].pc \in HolderPcs => next \in HolderPcs
  PROVE  LifecycleIInv'
<1>1. /\ record' \in [Bots -> Statuses \cup {"deleted"}]
      /\ \E k \in ProcType :
              /\ Become(p, k) /\ k.pc = next /\ k.bot = Bot(p) /\ k.inst = proc[p].inst
              /\ k.old = record[Bot(p)]
  BY RecordFacts DEF LifecycleIInv
<1>2. PICK k \in ProcType :
        /\ Become(p, k) /\ k.pc = next /\ k.bot = Bot(p) /\ k.inst = proc[p].inst
        /\ k.old = record[Bot(p)]
  BY <1>1
<1>3. KeptTypes
  BY <1>1 DEF KeptTypes, LifecycleIInv, Types
<1> QED
  BY <1>2, <1>3, KeepTyped DEF KeptTypes, Bot

LEMMA StartingNext ==
  ASSUME BotAssumption, LifecycleIInv, NEW p \in Requests \cup {"boot"}, Starting(p)
  PROVE  LifecycleIInv'
<1> USE DEF redis, memory, outside, history
<1>0. p \in Procs /\ Types /\ Bot(p) \in Bots /\ proc[p] \in ProcType
  BY DEF Procs, LifecycleIInv, Types, Bot, ProcType
<1>1. /\ record \in [Bots -> Statuses \cup {"deleted"}] /\ index \subseteq Bots
      /\ wanted \in [Bots -> BOOLEAN] /\ orderly \in BOOLEAN /\ restoring \subseteq Bots
      /\ requests \in 0 .. MaxRequests
  BY DEF LifecycleIInv, Types
<1>2. CASE StartLookup(p)
  <2>1. CASE Finish(p)
    BY <1>0, <1>1, <1>2, <2>1, KeepFinish DEF StartLookup, KeptTypes, HolderPcs, StarterPcs, At
  <2>2. CASE Goto(p, "subscribe")
    BY <1>0, <1>1, <1>2, <2>2, KeepGoto
    DEF StartLookup, KeptTypes, HolderPcs, StarterPcs, CloserPcs, OtherPcs, PCs, At
  <2> QED
    BY <1>2, <2>1, <2>2 DEF StartLookup
<1>3. CASE StartSubscribe(p)
  <2>1. CASE Finish(p) /\ UNCHANGED <<made, inst, handlers>>
    BY <1>0, <1>1, <1>3, <2>1, KeepFinish
    DEF StartSubscribe, KeptTypes, HolderPcs, StarterPcs, At
  <2>2. CASE /\ made < MaxInstances /\ made' = made + 1
             /\ inst' = [inst EXCEPT ![made + 1].bot = Bot(p)]
             /\ handlers' = [handlers EXCEPT ![PairOf[Bot(p)]] = Append(@, made + 1)]
             /\ proc' = [proc EXCEPT ![p].pc = "publish", ![p].inst = made + 1]
    <3> DEFINE k == [proc[p] EXCEPT !.pc = "publish", !.inst = made + 1]
    <3>1. made + 1 \in Instances /\ "publish" \in PCs
      BY <2>2 DEF LifecycleIInv, Types, Instances, BotAssumption, PCs, HolderPcs, StarterPcs
    <3>2. Become(p, k)
      BY <1>0, <2>2, <3>1, Moves
    <3>3. k \in ProcType /\ k.pc = "publish" /\ k.inst = made + 1 /\ k.bot = Bot(p)
      BY <1>0, <3>1 DEF ProcType, Bot
    <3> HIDE DEF k
    <3>4. inst' \in [Instances -> InstType]
      <4>1. inst[made + 1] \in InstType
        BY <3>1 DEF LifecycleIInv, Types
      <4>2. [inst[made + 1] EXCEPT !.bot = Bot(p)] \in InstType
        BY <4>1, <1>0 DEF InstType
      <4>3. inst' = [inst EXCEPT ![made + 1] = [inst[made + 1] EXCEPT !.bot = Bot(p)]]
        BY <1>0, <2>2, <3>1, InstMoves
      <4> QED
        BY <1>0, <3>1, <4>2, <4>3, InstChange
    <3>5. handlers' \in [Pairs -> Seq(Instances)]
      BY <1>0, <2>2, <3>1, HandlerLists
    <3>6. made' \in 0 .. MaxInstances
      BY <2>2, <3>1 DEF LifecycleIInv, Types, BotAssumption
    <3>7. instances \in [Bots -> Instances \cup {None}]
      BY <1>0 DEF Types
    <3>8. Types'
      BY <1>0, <1>1, <1>3, <3>2, <3>3, <3>4, <3>5, <3>6, <3>7, TypesFrom DEF StartSubscribe
    <3> QED
      BY <1>0, <1>3, <2>2, <3>2, <3>3, <3>8, NewStep DEF StartSubscribe, At
  <2> QED
    BY <1>3, <2>1, <2>2 DEF StartSubscribe
<1>4. CASE StartRecord(p)
  <2>1. CASE /\ RecordStatus(p, "running", "published")
             /\ wanted' = [wanted EXCEPT ![Bot(p)] = @ \/ p \in Requests]
             /\ UNCHANGED handlers
    <3>1. wanted' \in [Bots -> BOOLEAN]
      BY <1>1, <2>1
    <3>2. UNCHANGED <<index, inst, made, handlers, instances, listening, up, crashes, restoring,
                     requests, orderly>> /\ proc[p].pc = "publish"
      BY <1>4, <2>1 DEF StartRecord, At
    <3>3. "published" \in PCs /\ "published" \in HolderPcs /\ "published" \notin CloserPcs
          /\ "publish" \in StarterPcs /\ "running" \in Statuses
      BY DEF PCs, HolderPcs, StarterPcs, CloserPcs, Statuses
    <3> QED
      BY <1>0, <1>1, <2>1, <3>1, <3>2, <3>3, KeepRecord
  <2>2. CASE handlers' = Unsubscribed(Bot(p)) /\ Finish(p) /\ UNCHANGED <<record, wanted>>
    <3>1. PICK k \in ProcType : Become(p, k) /\ k.pc = "idle"
      BY <1>0, <2>2, GotoFacts
    <3>2. /\ UNCHANGED <<record, index, wanted, instances, inst, made, listening, restoring,
                         up, crashes, requests, orderly>>
          /\ proc[p].pc \in HolderPcs /\ k.pc \in OtherPcs
      BY <1>4, <2>2, <3>1 DEF StartRecord, At, HolderPcs, StarterPcs, OtherPcs
    <3>3. Types'
      <4>1. handlers' \in [Pairs -> Seq(Instances)]
        BY <1>0, <2>2, HandlerLists
      <4>2. /\ instances \in [Bots -> Instances \cup {None}]
            /\ inst \in [Instances -> InstType] /\ made \in 0 .. MaxInstances
        BY <1>0 DEF Types
      <4> QED
        BY <1>0, <1>1, <3>1, <3>2, <4>1, <4>2, TypesFrom
    <3> QED
      BY <1>0, <2>2, <3>1, <3>2, <3>3, DropStep
  <2> QED
    BY <1>4, <2>1, <2>2 DEF StartRecord
<1>5. CASE StartIndex(p)
  <2>1. "running" \in Statuses
    BY DEF Statuses
  <2>2. index' \subseteq Bots
    BY <1>0, <1>5, <2>1, IndexFacts DEF StartIndex
  <2>3. /\ Goto(p, "insert") /\ proc[p].pc = "published"
        /\ UNCHANGED <<record, wanted, instances, inst, made, handlers, listening, restoring,
                       up, crashes, requests, orderly>>
    BY <1>5 DEF StartIndex, At
  <2>4. KeptTypes
    BY <1>1, <2>2, <2>3 DEF KeptTypes
  <2>5. "insert" \in PCs /\ "insert" \in HolderPcs /\ "insert" \notin CloserPcs
        /\ "published" \in StarterPcs
    BY DEF PCs, HolderPcs, StarterPcs, CloserPcs
  <2> QED
    BY <1>0, <2>3, <2>4, <2>5, KeepGoto
<1>6. CASE StartInsert(p)
  <2>1. /\ Finish(p) /\ proc[p].pc = "insert"
        /\ UNCHANGED <<record, index, wanted, made, listening, restoring, up, crashes,
                       requests, orderly>>
    BY <1>6 DEF StartInsert, At
  <2>2. PICK k \in ProcType : Become(p, k) /\ k.pc = "idle"
    BY <1>0, <2>1, GotoFacts
  <2>3. /\ instances \in [Bots -> Instances \cup {None}] /\ handlers \in [Pairs -> Seq(Instances)]
        /\ inst \in [Instances -> InstType] /\ made \in 0 .. MaxInstances
    BY <1>0 DEF Types
  <2>4. CASE /\ instances' = [instances EXCEPT ![Bot(p)] = proc[p].inst]
             /\ inst' = [inst EXCEPT ![proc[p].inst].loop = "running"]
             /\ UNCHANGED handlers
    <3>1. proc[p].inst \in Instances
      BY <1>0, <2>1 DEF LifecycleIInv, Owned, HasNew, StarterPcs
    <3>2. inst' \in [Instances -> InstType]
      <4>1. [inst[proc[p].inst] EXCEPT !.loop = "running"] \in InstType
        BY <2>3, <3>1 DEF InstType
      <4>2. inst' = [inst EXCEPT ![proc[p].inst] =
                                     [inst[proc[p].inst] EXCEPT !.loop = "running"]]
        BY <1>0, <2>4, <3>1, InstMoves
      <4> QED
        BY <1>0, <3>1, <4>1, <4>2, InstChange
    <3>3. instances' \in [Bots -> Instances \cup {None}]
      BY <2>3, <2>4, <3>1
    <3>4. Types'
      BY <1>0, <1>1, <2>1, <2>2, <2>3, <2>4, <3>2, <3>3, TypesFrom
    <3> QED
      BY <1>0, <2>1, <2>2, <2>4, <3>4, InsertStep
  <2>5. CASE handlers' = Unsubscribed(Bot(p)) /\ UNCHANGED <<instances, inst>>
    <3>1. handlers' \in [Pairs -> Seq(Instances)]
      BY <1>0, <2>5, HandlerLists
    <3>2. Types'
      BY <1>0, <1>1, <2>1, <2>2, <2>3, <2>5, <3>1, TypesFrom
    <3>3. proc[p].pc \in HolderPcs /\ k.pc \in OtherPcs
      BY <2>1, <2>2 DEF HolderPcs, StarterPcs, OtherPcs
    <3> QED
      BY <1>0, <2>1, <2>2, <2>5, <3>2, <3>3, DropStep
  <2> QED
    BY <1>6, <2>4, <2>5 DEF StartInsert
<1> QED
  BY <1>2, <1>3, <1>4, <1>5, <1>6 DEF Starting

LEMMA StoppingNext ==
  ASSUME BotAssumption, LifecycleIInv, NEW p \in Requests, Stopping(p) \/ Erase(p)
  PROVE  LifecycleIInv'
<1> USE DEF redis, memory, outside, history
<1>0. p \in Procs /\ Types /\ Bot(p) \in Bots /\ proc[p] \in ProcType
  BY DEF Procs, LifecycleIInv, Types, Bot, ProcType
<1>1. /\ record \in [Bots -> Statuses \cup {"deleted"}] /\ index \subseteq Bots
      /\ wanted \in [Bots -> BOOLEAN] /\ orderly \in BOOLEAN /\ restoring \subseteq Bots
      /\ requests \in 0 .. MaxRequests
      /\ instances \in [Bots -> Instances \cup {None}] /\ handlers \in [Pairs -> Seq(Instances)]
      /\ inst \in [Instances -> InstType] /\ made \in 0 .. MaxInstances
  BY <1>0 DEF Types
<1>2. CASE StopFind(p)
  <2> DEFINE i == instances[Bot(p)]
             pc == IF i = None THEN "stopped" ELSE "close"
             k == [proc[p] EXCEPT !.pc = pc, !.inst = i]
  <2>1. i \in Instances \cup {None} /\ pc \in PCs /\ pc \notin StarterPcs
        /\ (pc \in CloserPcs => i # None)
    BY <1>0, <1>1 DEF PCs, OtherPcs, CloserPcs, StarterPcs
  <2>2. Become(p, k)
    BY <1>0, <1>2, <2>1, Moves DEF StopFind
  <2>3. k \in ProcType /\ k.pc = pc /\ k.inst = i /\ k.bot = Bot(p)
    BY <1>0, <2>1 DEF ProcType, Bot
  <2>4. k.pc \in CloserPcs => HasOld(k)
    BY <1>0, <2>1, <2>3 DEF HasOld, LifecycleIInv, Made
  <2>5. proc[p].pc \notin HolderPcs
    BY <1>2 DEF StopFind, At, HolderPcs, StarterPcs
  <2> HIDE DEF k, pc, i
  <2> QED
    BY <1>0, <1>1, <1>2, <2>1, <2>2, <2>3, <2>4, <2>5, KeepTyped DEF StopFind
<1>3. CASE StopClose(p)
  <2> DEFINE k == [proc[p] EXCEPT !.pc = "unsubscribe", !.inst = None]
  <2>1. "unsubscribe" \in PCs /\ proc[p].pc \in CloserPcs /\ None \in Instances \cup {None}
    BY <1>3 DEF PCs, HolderPcs, CloserPcs, StopClose, At
  <2>2. Become(p, k)
    BY <1>0, <1>3, <2>1, Moves DEF StopClose
  <2>3. k \in ProcType /\ k.pc = "unsubscribe" /\ k.bot = proc[p].bot
    BY <1>0, <2>1 DEF ProcType
  <2> HIDE DEF k
  <2>4. proc[p].inst \in Instances
    BY <1>0, <2>1 DEF LifecycleIInv, Owned, HasOld
  <2>5. inst' \in [Instances -> InstType]
    <3>1. inst[proc[p].inst] \in InstType
      BY <1>1, <2>4
    <3>3. [inst[proc[p].inst] EXCEPT !.closed = TRUE] \in InstType
      BY ONLY <3>1, ClosedInst
    <3>2. inst' = [inst EXCEPT ![proc[p].inst] = [inst[proc[p].inst] EXCEPT !.closed = TRUE]]
      BY <1>0, <1>3, <2>4, InstMoves DEF StopClose
    <3> QED
      BY <1>0, <2>4, <3>3, <3>2, InstChange
  <2>6. Types'
    BY <1>0, <1>1, <1>3, <2>2, <2>3, <2>5, TypesFrom DEF StopClose
  <2> QED
    BY <1>0, <1>3, <2>1, <2>2, <2>3, <2>6, CloseStep DEF StopClose
<1>4. CASE StopUnsubscribe(p)
  <2>1. /\ "delete" \in PCs /\ "delete" \in OtherPcs /\ "unsubscribe" \in HolderPcs
        /\ proc[p].pc = "unsubscribe"
    BY <1>4 DEF PCs, OtherPcs, HolderPcs, StopUnsubscribe, At
  <2>2. PICK k \in ProcType : Become(p, k) /\ k.pc = "delete"
    BY <1>0, <1>4, <2>1, GotoFacts DEF StopUnsubscribe
  <2>3. handlers' \in [Pairs -> Seq(Instances)]
    BY <1>0, <1>4, HandlerLists DEF StopUnsubscribe
  <2>4. Types'
    BY <1>0, <1>1, <1>4, <2>2, <2>3, TypesFrom DEF StopUnsubscribe
  <2> QED
    BY <1>0, <1>4, <2>1, <2>2, <2>4, DropStep DEF StopUnsubscribe
<1>5. CASE StopDelete(p)
  BY <1>0, <1>1, <1>5, KeepGoto
  DEF StopDelete, KeptTypes, PCs, OtherPcs, HolderPcs, StarterPcs, CloserPcs, At
<1>6. CASE StopRecord(p)
  <2>1. CASE RecordStatus(p, "stopped", "unlisted") /\ UNCHANGED orderly
    <3>1. /\ "stopped" \in Statuses /\ "unlisted" \in PCs /\ "unlisted" \notin StarterPcs
          /\ "unlisted" \notin CloserPcs /\ "stopped" \notin HolderPcs
          /\ proc[p].pc = "stopped"
      BY <1>6 DEF StopRecord, At, Statuses, PCs, OtherPcs, HolderPcs, StarterPcs, CloserPcs
    <3>2. UNCHANGED <<index, inst, made, handlers, instances, listening, up, crashes,
                      restoring, requests, wanted, orderly>>
      BY <1>6, <2>1 DEF StopRecord
    <3> QED
      BY <1>0, <1>1, <2>1, <3>1, <3>2, KeepRecord
  <2>2. CASE Finish(p) /\ orderly' = FALSE /\ UNCHANGED record
    BY <1>0, <1>1, <1>6, <2>2, KeepFinish DEF StopRecord, KeptTypes, HolderPcs, StarterPcs, At
  <2> QED
    BY <1>6, <2>1, <2>2 DEF StopRecord
<1>7. CASE StopIndex(p)
  <2>1. index' \subseteq Bots
    BY <1>0, <1>7, IndexFacts DEF StopIndex, Statuses
  <2>2. wanted' \in [Bots -> BOOLEAN]
    BY <1>1, <1>7 DEF StopIndex
  <2> QED
    BY <1>0, <1>1, <1>7, <2>1, <2>2, KeepFinish
    DEF StopIndex, KeptTypes, HolderPcs, StarterPcs, At
<1>8. CASE Erase(p)
  <2>1. record' \in [Bots -> Statuses \cup {"deleted"}]
    BY <1>1, <1>8 DEF Erase
  <2>2. index' \subseteq Bots
    BY <1>1, <1>8 DEF Erase
  <2> QED
    BY <1>0, <1>1, <1>8, <2>1, <2>2, KeepFinish
    DEF Erase, KeptTypes, HolderPcs, StarterPcs, At
<1> QED
  BY <1>2, <1>3, <1>4, <1>5, <1>6, <1>7, <1>8 DEF Stopping

LEMMA WriteBackNext ==
  ASSUME BotAssumption, LifecycleIInv, NEW p \in Procs, WriteBack(p)
  PROVE  LifecycleIInv'
<1> USE DEF redis, memory, outside, history
<1>1. /\ Bot(p) \in Bots /\ proc[p].old \in Statuses
      /\ record \in [Bots -> Statuses \cup {"deleted"}] /\ index \subseteq Bots
      /\ wanted \in [Bots -> BOOLEAN] /\ orderly \in BOOLEAN /\ restoring \subseteq Bots
      /\ requests \in 0 .. MaxRequests
  BY DEF LifecycleIInv, Types, Bot, ProcType
<1>2. record' \in [Bots -> Statuses \cup {"deleted"}]
  BY <1>1 DEF WriteBack
<1> QED
  BY <1>1, <1>2, KeepFinish DEF WriteBack, KeptTypes, HolderPcs, StarterPcs, At

LEMMA ErrorNext ==
  ASSUME BotAssumption, LifecycleIInv, ErrorStopping
  PROVE  LifecycleIInv'
<1> USE DEF redis, memory, outside, history
<1> DEFINE p == "loop"
<1>0. p \in Procs /\ Types /\ Bot(p) \in Bots /\ proc[p] \in ProcType
  BY ProcFacts DEF LifecycleIInv, Types, Bot, ProcType
<1>1. /\ record \in [Bots -> Statuses \cup {"deleted"}] /\ index \subseteq Bots
      /\ wanted \in [Bots -> BOOLEAN] /\ orderly \in BOOLEAN /\ restoring \subseteq Bots
      /\ requests \in 0 .. MaxRequests
      /\ instances \in [Bots -> Instances \cup {None}] /\ handlers \in [Pairs -> Seq(Instances)]
      /\ inst \in [Instances -> InstType] /\ made \in 0 .. MaxInstances
  BY <1>0 DEF Types
<1>2. CASE ErrorCheck
  <2>1. \E pc \in {"errrecord", "errclose"} : Goto(p, pc)
    BY <1>2 DEF ErrorCheck
  <2>2. PICK pc \in {"errrecord", "errclose"} : Goto(p, pc)
    BY <2>1
  <2>3. /\ pc \in PCs /\ pc \notin StarterPcs /\ proc[p].pc \in CloserPcs
        /\ proc[p].pc \notin HolderPcs
    BY <1>2 DEF ErrorCheck, At, PCs, HolderPcs, StarterPcs, CloserPcs
  <2> QED
    BY <1>0, <1>1, <1>2, <2>2, <2>3, KeepGoto DEF ErrorCheck, KeptTypes
<1>3. CASE ErrorClose
  <2>1. "errrecord" \in PCs /\ proc[p].pc \in CloserPcs
    BY <1>3 DEF PCs, HolderPcs, CloserPcs, ErrorClose, At
  <2>2. PICK k \in ProcType : Become(p, k) /\ k.pc = "errrecord" /\ k.bot = proc[p].bot
    BY <1>0, <1>3, <2>1, GotoFacts DEF ErrorClose
  <2>4. proc[p].inst \in Instances
    BY <1>0, <2>1 DEF LifecycleIInv, Owned, HasOld
  <2>5. inst' \in [Instances -> InstType]
    <3>1. inst[proc[p].inst] \in InstType
      BY <1>1, <2>4
    <3>3. [inst[proc[p].inst] EXCEPT !.closed = TRUE] \in InstType
      BY ONLY <3>1, ClosedInst
    <3>2. inst' = [inst EXCEPT ![proc[p].inst] = [inst[proc[p].inst] EXCEPT !.closed = TRUE]]
      BY <1>0, <1>3, <2>4, InstMoves DEF ErrorClose
    <3> QED
      BY <1>0, <2>4, <3>3, <3>2, InstChange
  <2>6. Types'
    BY <1>0, <1>1, <1>3, <2>2, <2>5, TypesFrom DEF ErrorClose
  <2> QED
    BY <1>0, <1>3, <2>1, <2>2, <2>6, CloseStep DEF ErrorClose
<1>4. CASE ErrorRecord
  <2>1. wanted' \in [Bots -> BOOLEAN]
    BY <1>0, <1>1, <1>4 DEF ErrorRecord
  <2>2. /\ "error" \in Statuses /\ "errindex" \in PCs /\ "errunsub" \in PCs
        /\ {"errindex", "errunsub"} \cap (StarterPcs \cup CloserPcs) = {}
        /\ "errindex" \in HolderPcs /\ "errunsub" \in HolderPcs
    BY DEF Statuses, PCs, HolderPcs, StarterPcs, CloserPcs
  <2>3. UNCHANGED <<index, inst, made, handlers, instances, listening, up, crashes,
                    restoring, requests>>
    BY <1>4 DEF ErrorRecord
  <2>4. CASE RecordStatus(p, "error", "errindex") /\ UNCHANGED orderly
    <3>1. /\ orderly' \in BOOLEAN /\ "errindex" \notin StarterPcs /\ "errindex" \notin CloserPcs
      BY <1>1, <2>2, <2>4
    <3> QED
      BY <1>0, <2>1, <2>2, <2>3, <2>4, <3>1, KeepRecord
  <2>5. CASE Goto(p, "errunsub") /\ orderly' = FALSE /\ UNCHANGED record
    <3>1. KeptTypes /\ "errunsub" \notin StarterPcs /\ "errunsub" \notin CloserPcs
      BY <1>1, <2>1, <2>2, <2>3, <2>5 DEF KeptTypes
    <3> QED
      BY <1>0, <2>2, <2>3, <2>5, <3>1, KeepGoto
  <2> QED
    BY <1>4, <2>4, <2>5 DEF ErrorRecord
<1>5. CASE ErrorIndex
  <2>1. index' \subseteq Bots
    BY <1>0, <1>5, IndexFacts DEF ErrorIndex, Statuses
  <2>2. /\ "errunsub" \in PCs /\ "errunsub" \notin StarterPcs /\ "errunsub" \notin CloserPcs
        /\ "errunsub" \in HolderPcs
    BY DEF PCs, HolderPcs, StarterPcs, CloserPcs
  <2> QED
    BY <1>0, <1>1, <1>5, <2>1, <2>2, KeepGoto DEF ErrorIndex, KeptTypes
<1>6. CASE ErrorUnsubscribe
  <2>1. /\ "errdelete" \in PCs /\ "errdelete" \in OtherPcs /\ "errunsub" \in HolderPcs
        /\ proc[p].pc = "errunsub"
    BY <1>6 DEF PCs, OtherPcs, HolderPcs, ErrorUnsubscribe, At
  <2>2. PICK k \in ProcType : Become(p, k) /\ k.pc = "errdelete"
    BY <1>0, <1>6, <2>1, GotoFacts DEF ErrorUnsubscribe
  <2>3. handlers' \in [Pairs -> Seq(Instances)]
    BY <1>0, <1>6, HandlerLists DEF ErrorUnsubscribe
  <2>4. Types'
    BY <1>0, <1>1, <1>6, <2>2, <2>3, TypesFrom DEF ErrorUnsubscribe
  <2> QED
    BY <1>0, <1>6, <2>1, <2>2, <2>4, DropStep DEF ErrorUnsubscribe
<1>7. CASE ErrorDelete
  BY <1>0, <1>1, <1>7, KeepFinish DEF ErrorDelete, KeptTypes, HolderPcs, StarterPcs, At
<1>8. CASE ClosePanic
  BY <1>8, DieStep DEF ClosePanic
<1> QED
  BY <1>2, <1>3, <1>4, <1>5, <1>6, <1>7, <1>8 DEF ErrorStopping

LEMMA RestoringNext ==
  ASSUME BotAssumption, LifecycleIInv, ResetRecord \/ ResetIndex \/ Restart
  PROVE  LifecycleIInv'
<1> USE DEF redis, memory, outside, history
<1> DEFINE p == "boot"
<1>0. p \in Procs /\ Types /\ Bot(p) \in Bots
  BY ProcFacts DEF LifecycleIInv, Types, Bot, ProcType
<1>1. /\ record \in [Bots -> Statuses \cup {"deleted"}] /\ index \subseteq Bots
      /\ wanted \in [Bots -> BOOLEAN] /\ orderly \in BOOLEAN /\ restoring \subseteq Bots
      /\ requests \in 0 .. MaxRequests
  BY <1>0 DEF Types
<1>2. /\ "resetting" \in PCs /\ "restart" \in PCs /\ "start" \in PCs
      /\ {"resetting", "restart", "start"} \cap (StarterPcs \cup CloserPcs) = {}
      /\ {"reset", "resetting", "restart"} \cap HolderPcs = {}
  BY DEF PCs, OtherPcs, HolderPcs, StarterPcs, CloserPcs
<1>3. CASE ResetRecord
  <2>1. CASE RecordStatus(p, "stopped", "resetting")
    <3>1. /\ "stopped" \in Statuses /\ proc[p].pc \notin HolderPcs
          /\ "resetting" \notin StarterPcs /\ "resetting" \notin CloserPcs
      BY <1>2, <1>3 DEF Statuses, ResetRecord, At
    <3>2. UNCHANGED <<index, inst, made, handlers, instances, listening, up, crashes,
                      restoring, requests, wanted, orderly>>
      BY <1>3 DEF ResetRecord
    <3> QED
      BY <1>0, <1>1, <1>2, <2>1, <3>1, <3>2, KeepRecord
  <2>2. CASE Finish(p) /\ UNCHANGED record
    BY <1>0, <1>1, <1>2, <1>3, <2>2, KeepFinish DEF ResetRecord, KeptTypes, At
  <2> QED
    BY <1>3, <2>1, <2>2 DEF ResetRecord
<1>4. CASE ResetIndex
  <2>1. index' \subseteq Bots
    BY <1>0, <1>4, IndexFacts DEF ResetIndex, Statuses
  <2>2. "restart" \notin StarterPcs /\ "restart" \notin CloserPcs
    BY <1>2
  <2> QED
    BY <1>0, <1>1, <1>2, <1>4, <2>1, <2>2, KeepGoto DEF ResetIndex, KeptTypes, At
<1>5. CASE Restart
  <2>1. CASE Goto(p, "start")
    <3>1. "start" \notin StarterPcs /\ "start" \notin CloserPcs
      BY <1>2
    <3> QED
      BY <1>0, <1>1, <1>2, <1>5, <2>1, <3>1, KeepGoto DEF Restart, KeptTypes, At
  <2>2. CASE Finish(p)
    BY <1>0, <1>1, <1>2, <1>5, <2>2, KeepFinish DEF Restart, KeptTypes, At
  <2> QED
    BY <1>5, <2>1, <2>2 DEF Restart
<1> QED
  BY <1>3, <1>4, <1>5

(* A crash, and what leaves the processes and their memory alone.          *)
LEMMA CrashNext ==
  ASSUME BotAssumption, LifecycleIInv,
         Crash \/ Boot \/ MonitorReady \/ UNCHANGED vars
  PROVE  LifecycleIInv'
<1>1. CASE Crash
  BY <1>1, DieStep DEF Crash, LifecycleIInv, Types
<1>2. CASE Boot \/ MonitorReady \/ UNCHANGED vars
  <2>1. UNCHANGED <<record, index, instances, inst, made, handlers, proc>>
    BY <1>2 DEF Boot, MonitorReady, vars, redis, memory
  <2>2. Types'
    <3>1. CASE Boot
      BY <3>1, <2>1 DEF LifecycleIInv, Types, Boot, BotAssumption, history
    <3>2. CASE MonitorReady
      BY <3>2, <2>1 DEF LifecycleIInv, Types, MonitorReady, history
    <3>3. CASE UNCHANGED vars
      BY <3>3, <2>1 DEF LifecycleIInv, Types, vars, outside, history
    <3> QED
      BY <1>2, <3>1, <3>2, <3>3
  <2>3. Made'
    BY <2>1 DEF LifecycleIInv, Made
  <2>4. Owned'
    BY <2>1 DEF LifecycleIInv, Owned, HasNew, HasOld
  <2>5. Counted'
    BY <2>1 DEF LifecycleIInv, Counted, TradingOn, Looping, Holders, Bot
  <2> QED
    BY <2>2, <2>3, <2>4, <2>5 DEF LifecycleIInv
<1> QED
  BY <1>1, <1>2

LEMMA LifecycleInit ==
  ASSUME BotAssumption, Init
  PROVE  LifecycleIInv
<1>1. Types
  <2>1. NoInstance \in InstType /\ Idle(NoBot) \in ProcType /\ MaxInstances \in Nat
        /\ <<>> \in Seq(Instances)
    BY ProcFacts
  <2>2. /\ instances \in [Bots -> Instances \cup {None}]
        /\ inst \in [Instances -> InstType] /\ handlers \in [Pairs -> Seq(Instances)]
        /\ proc \in [Procs -> ProcType] /\ made \in 0 .. MaxInstances
    BY <2>1 DEF Init
  <2>3. /\ record \in [Bots -> Statuses \cup {"deleted"}] /\ index \subseteq Bots
        /\ restoring \subseteq Bots /\ crashes \in 0 .. MaxCrashes
        /\ requests \in 0 .. MaxRequests /\ wanted \in [Bots -> BOOLEAN]
        /\ listening \in BOOLEAN /\ up \in BOOLEAN /\ orderly \in BOOLEAN
    BY DEF Init, Statuses, BotAssumption
  <2> QED
    BY <2>2, <2>3 DEF Types
<1>2. (\A p \in Procs : proc[p].pc = "idle") /\ \A i \in Instances : inst[i] = NoInstance
  BY DEF Init, Idle
<1>3. Made /\ Owned
  BY <1>2 DEF Made, Owned, NoInstance, StarterPcs, CloserPcs, Init
<1>4. Counted
  <2> SUFFICES ASSUME NEW pair \in Pairs
               PROVE  Len(handlers[pair])
                        <= Cardinality(TradingOn(pair)) + Cardinality(Holders(pair))
    BY DEF Counted
  <2>1. Len(handlers[pair]) = 0
    BY DEF Init
  <2>2. Cardinality(TradingOn(pair)) \in Nat /\ Cardinality(Holders(pair)) \in Nat
    BY <1>1, CountTypes, FS_CardinalityType
  <2> QED
    BY <2>1, <2>2
<1> QED
  BY <1>1, <1>3, <1>4 DEF LifecycleIInv

LEMMA LifecycleNext ==
  ASSUME BotAssumption, LifecycleIInv, [Next]_vars
  PROVE  LifecycleIInv'
<1>1. \A p \in Requests \cup {"loop"} : p \in Procs
  BY DEF Procs
<1>2. ASSUME NEW i \in Instances, LoopExit(i)
      PROVE  LifecycleIInv'
  BY <1>2, ExitStep
<1> QED
  BY <1>1, <1>2, BeginNext, StartingNext, StoppingNext, WriteBackNext, ErrorNext,
     RestoringNext, CrashNext
  DEF Next, Restoring

(* What the run checks, from the inductive invariant: when nobody is in    *)
(* the middle of an operation there is nobody to hold a handler.           *)
LEMMA LifecycleMeans ==
  ASSUME BotAssumption, LifecycleIInv
  PROVE  LifecycleInv
<1>1. TypeOK
  <2>1. \A p \in Procs : /\ Bot(p) \in Bots /\ proc[p].inst \in Instances \cup {None}
                         /\ proc[p].old \in Statuses
    BY DEF LifecycleIInv, Types, ProcType, Bot
  <2> QED
    BY <2>1 DEF TypeOK, LifecycleIInv, Types, InstType
<1>2. ASSUME Quiet, NEW pair \in Pairs
      PROVE  Len(handlers[pair]) <=
               Cardinality(UNION {Trading(b) : b \in {c \in Bots : PairOf[c] = pair}})
  <2>1. Holders(pair) = {}
    BY <1>2 DEF Holders, Quiet, HolderPcs, StarterPcs
  <2>2. TradingOn(pair) = UNION {Trading(b) : b \in {c \in Bots : PairOf[c] = pair}}
    BY DEF TradingOn, Trading, LifecycleIInv, Types, InstType
  <2>3. Cardinality(Holders(pair)) = 0
    BY <2>1, FS_EmptySet
  <2>4. Len(handlers[pair]) <= Cardinality(TradingOn(pair)) + Cardinality(Holders(pair))
    BY DEF LifecycleIInv, Counted
  <2>5. Cardinality(TradingOn(pair)) \in Nat
    BY CountTypes, FS_CardinalityType DEF LifecycleIInv
  <2> QED
    BY <2>2, <2>3, <2>4, <2>5
<1> QED
  BY <1>1, <1>2 DEF LifecycleInv, HandlersDoNotLeak

(* However requests, errors, crashes and restores interleave, types are    *)
(* kept and no ticker handler is left behind: when all is quiet a pair has *)
(* no more handlers than bots that trade on it.                            *)
THEOREM NoHandlerLeaks == Spec => []LifecycleInv
<1>1. Init => LifecycleIInv
  BY BotAssumption, LifecycleInit
<1>2. LifecycleIInv /\ [Next]_vars => LifecycleIInv'
  BY BotAssumption, LifecycleNext
<1>3. LifecycleIInv => LifecycleInv
  BY BotAssumption, LifecycleMeans
<1> QED
  BY <1>1, <1>2, <1>3, PTL DEF Spec

-----------------------------------------------------------------------------
(* As long as operations do not overlap.                                   *)

(* Nothing that concerns the bot changes.                                  *)
SameView(b) ==
    /\ record'[b] = record[b] /\ (b \in index' <=> b \in index)
    /\ instances'[b] = instances[b] /\ Trading(b)' = Trading(b)
    /\ wanted'[b] = wanted[b]

LEMMA SameViewKeeps ==
  ASSUME NEW b \in Bots, SameView(b)
  PROVE  /\ Off(b)' <=> Off(b)
         /\ On(b)' <=> On(b)
         /\ DiskOn(b)' <=> DiskOn(b)
         /\ DiskOff(b)' <=> DiskOff(b)
         /\ HalfOff(b)' <=> HalfOff(b)
         /\ Settled(b)' <=> Settled(b)
BY DEF SameView, Off, On, DiskOn, DiskOff, HalfOff, Settled

LEMMA SamePhase ==
  ASSUME NEW k \in ProcType, SameView(k.bot), Phase(k)
  PROVE  Phase(k)'
<1>1. k.bot \in Bots
  BY DEF ProcType
<1>2. /\ Off(k.bot)' <=> Off(k.bot)
      /\ On(k.bot)' <=> On(k.bot)
      /\ DiskOn(k.bot)' <=> DiskOn(k.bot)
      /\ DiskOff(k.bot)' <=> DiskOff(k.bot)
      /\ HalfOff(k.bot)' <=> HalfOff(k.bot)
      /\ Settled(k.bot)' <=> Settled(k.bot)
  BY <1>1, SameViewKeeps
<1> QED
  BY <1>2 DEF SameView, Phase

(* A step of a process that is busy with a bot concerns no other.          *)
LEMMA OrderlyFrame ==
  ASSUME BotAssumption, LifecycleIInv, OrderlyInv, orderly' => orderly,
         NEW p \in Procs, NEW k \in ProcType, Become(p, k), Busy(p),
         NEW o \in Bots, o = Bot(p),
         UNCHANGED <<restoring, up>>, k.pc = "idle" \/ k.bot = o,
         \A c \in Bots : c # o => SameView(c),
         orderly' /\ k.pc # "idle" => Phase(k)' /\ (p = "boot" => wanted'[o]),
         orderly' /\ k.pc = "idle" => Settled(o)'
  PROVE  OrderlyInv'
<1> SUFFICES ASSUME orderly'
             PROVE  Alone' /\ InPhase' /\ Resting'
  BY DEF OrderlyInv
<1>1. orderly /\ Alone /\ InPhase /\ Resting
  BY DEF OrderlyInv
<1>2. /\ proc'[p] = k /\ proc' \in [Procs -> ProcType]
      /\ \A q \in Procs : q # p => proc'[q] = proc[q]
  BY BecomeFacts DEF LifecycleIInv
<1>3. \A q \in Procs : q # p /\ Busy(q) => Bot(q) # Bot(p) /\ Bot(q) \in Bots
  BY <1>1 DEF Alone, LifecycleIInv, Types, ProcType, Bot
<1>4. up /\ Bot(p) \notin restoring /\ Bot(p) \in Bots /\ "boot" \in Procs
  BY <1>1, ProcFacts DEF Alone, LifecycleIInv, Types, ProcType, Bot
<1>5. \A q \in Procs : q # p => (Busy(q)' <=> Busy(q)) /\ Bot(q)' = Bot(q)
  BY <1>2 DEF Busy, Bot
<1>6. (Busy(p)' => k.pc # "idle" /\ Bot(p)' = Bot(p)) /\ (~Busy(p)' => k.pc = "idle")
  BY <1>2 DEF Busy, Bot
<1>7. Alone'
  <2>1. \A q, r \in Procs : Busy(q)' /\ Busy(r)' /\ q # r => Bot(q)' # Bot(r)'
    <3> SUFFICES ASSUME NEW q \in Procs, NEW r \in Procs, Busy(q)', Busy(r)', q # r
                 PROVE  Bot(q)' # Bot(r)'
      OBVIOUS
    <3>1. CASE q = p
      BY <3>1, <1>3, <1>5, <1>6
    <3>2. CASE r = p
      BY <3>2, <1>3, <1>5, <1>6
    <3>3. CASE q # p /\ r # p
      BY <3>3, <1>1, <1>5 DEF Alone
    <3> QED
      BY <3>1, <3>2, <3>3
  <2>2. \A q \in Procs : Busy(q)' => up' /\ Bot(q)' \notin restoring'
    <3> SUFFICES ASSUME NEW q \in Procs, Busy(q)' PROVE up' /\ Bot(q)' \notin restoring'
      OBVIOUS
    <3>1. CASE q = p
      BY <3>1, <1>4, <1>6
    <3>2. CASE q # p
      BY <3>2, <1>1, <1>5 DEF Alone
    <3> QED
      BY <3>1, <3>2
  <2> QED
    BY <2>1, <2>2 DEF Alone
<1>8. InPhase'
  <2>1. ASSUME NEW q \in Procs, Busy(q)'
        PROVE  Phase(proc[q])'
    <3>1. CASE q = p
      BY <1>2, <1>6, <2>1, <3>1
    <3>2. CASE q # p
      <4>1. Busy(q) /\ proc[q] \in ProcType /\ SameView(Bot(q)) /\ proc'[q] = proc[q]
        BY <1>2, <1>3, <1>5, <2>1, <3>2 DEF LifecycleIInv, Types
      <4>2. PICK m \in ProcType : m = proc[q]
        BY <4>1
      <4>3. Phase(m) /\ SameView(m.bot)
        BY <1>1, <4>1, <4>2 DEF InPhase, Bot
      <4>4. Phase(m)'
        BY <4>3, SamePhase
      <4> QED
        BY <4>1, <4>2, <4>4
    <3> QED
      BY <3>1, <3>2
  <2>2. Busy("boot")' => wanted'[Bot("boot")']
    <3>1. CASE p = "boot"
      BY <1>6, <3>1
    <3>2. CASE p # "boot"
      <4>1. Busy("boot")' => Busy("boot") /\ Bot("boot")' = Bot("boot") /\ SameView(Bot("boot"))
        BY <1>3, <1>4, <1>5, <3>2
      <4> QED
        BY <1>1, <4>1 DEF InPhase, SameView
    <3> QED
      BY <3>1, <3>2
  <2> QED
    BY <2>1, <2>2 DEF InPhase
<1>9. Resting'
  <2>1. ASSUME NEW b \in Bots, Free(b)'
        PROVE  Settled(b)'
    <3>1. CASE b = Bot(p)
      <4>1. k.pc = "idle"
        BY <1>6, <2>1, <3>1 DEF Free
      <4>2. b = o
        BY <3>1
      <4> QED
        BY <4>1, <4>2
    <3>2. CASE b # Bot(p)
      <4>1. Free(b)
        BY <1>5, <2>1, <3>2 DEF Free
      <4>2. SameView(b) /\ Settled(b)
        BY <1>1, <3>2, <4>1 DEF Resting
      <4> QED
        BY <4>2, SameViewKeeps
    <3> QED
      BY <3>1, <3>2
  <2>2. ASSUME NEW b \in restoring'
        PROVE  Off(b)' /\ DiskOn(b)'
    <3>1. b # Bot(p) /\ b \in Bots /\ b \in restoring
      BY <1>4, <2>2 DEF LifecycleIInv, Types
    <3>2. Off(b) /\ DiskOn(b) /\ SameView(b)
      BY <1>1, <3>1 DEF Resting
    <3> QED
      BY <3>1, <3>2, SameViewKeeps
  <2> QED
    BY <1>4, <2>1, <2>2 DEF Resting
<1> QED
  BY <1>7, <1>8, <1>9

(* Who takes up an operation without overlapping another finds the bot at  *)
(* rest, or waiting to be restored.                                        *)
LEMMA OrderlyBegin ==
  ASSUME BotAssumption, LifecycleIInv, OrderlyInv,
         NEW p \in Procs, NEW b \in Bots, NEW k \in ProcType, Become(p, k),
         k.bot = b, k.pc # "idle", up, ~Busy(p),
         UNCHANGED <<record, index, instances, inst, up, wanted>>,
         orderly' = (orderly /\ ~Overlaps(p, b)),
         \/ p # "boot" /\ UNCHANGED restoring /\ (Settled(b) => Phase(k))
         \/ /\ p = "boot" /\ b \in restoring /\ restoring' = restoring \ {b}
            /\ Off(b) /\ DiskOn(b) => Phase(k)
  PROVE  OrderlyInv'
<1> SUFFICES ASSUME orderly'
             PROVE  Alone' /\ InPhase' /\ Resting'
  BY DEF OrderlyInv
<1>1. orderly /\ ~Overlaps(p, b) /\ Alone /\ InPhase /\ Resting
  BY DEF OrderlyInv
<1>2. /\ proc'[p] = k /\ proc' \in [Procs -> ProcType]
      /\ \A q \in Procs : q # p => proc'[q] = proc[q]
  BY BecomeFacts DEF LifecycleIInv
<1>3. \A c \in Bots : SameView(c)
  BY DEF SameView, Trading, Looping
<1>4. \A q \in Procs : q # p /\ Busy(q) => Bot(q) # b /\ Bot(q) \in Bots
  BY <1>1 DEF Overlaps, Busy, LifecycleIInv, Types, ProcType, Bot
<1>5. \A q \in Procs : q # p => (Busy(q)' <=> Busy(q)) /\ Bot(q)' = Bot(q)
  BY <1>2 DEF Busy, Bot
<1>6. Busy(p)' /\ Bot(p)' = b
  BY <1>2 DEF Busy, Bot
<1>7. b \notin restoring' /\ (\A c \in restoring' : c \in restoring) /\ up' /\ "boot" \in Procs
  BY <1>1, ProcFacts DEF Overlaps
<1>8. Phase(k) /\ (p = "boot" => wanted[b])
  <2>1. CASE p # "boot"
    <3>1. Free(b)
      BY <1>1, <1>4, <1>7, <2>1 DEF Free, Overlaps
    <3> QED
      BY <1>1, <2>1, <3>1 DEF Resting
  <2>2. CASE p = "boot"
    BY <1>1, <2>2 DEF Resting, DiskOn
  <2> QED
    BY <2>1, <2>2
<1>9. Phase(k)'
  BY <1>3, <1>8, SamePhase DEF ProcType
<1>10. Alone'
  <2>1. \A q, r \in Procs : Busy(q)' /\ Busy(r)' /\ q # r => Bot(q)' # Bot(r)'
    <3> SUFFICES ASSUME NEW q \in Procs, NEW r \in Procs, Busy(q)', Busy(r)', q # r
                 PROVE  Bot(q)' # Bot(r)'
      OBVIOUS
    <3>1. CASE q = p
      BY <3>1, <1>4, <1>5, <1>6
    <3>2. CASE r = p
      BY <3>2, <1>4, <1>5, <1>6
    <3>3. CASE q # p /\ r # p
      BY <3>3, <1>1, <1>5 DEF Alone
    <3> QED
      BY <3>1, <3>2, <3>3
  <2>2. \A q \in Procs : Busy(q)' => up' /\ Bot(q)' \notin restoring'
    <3> SUFFICES ASSUME NEW q \in Procs, Busy(q)' PROVE up' /\ Bot(q)' \notin restoring'
      OBVIOUS
    <3>1. CASE q = p
      BY <3>1, <1>6, <1>7
    <3>2. CASE q # p
      BY <3>2, <1>1, <1>5, <1>7 DEF Alone
    <3> QED
      BY <3>1, <3>2
  <2> QED
    BY <2>1, <2>2 DEF Alone
<1>11. InPhase'
  <2>1. ASSUME NEW q \in Procs, Busy(q)'
        PROVE  Phase(proc[q])'
    <3>1. CASE q = p
      BY <1>2, <1>9, <3>1
    <3>2. CASE q # p
      <4>1. Busy(q) /\ proc[q] \in ProcType /\ SameView(Bot(q)) /\ proc'[q] = proc[q]
        BY <1>2, <1>3, <1>4, <1>5, <2>1, <3>2 DEF LifecycleIInv, Types
      <4>2. PICK m \in ProcType : m = proc[q]
        BY <4>1
      <4>3. Phase(m) /\ SameView(m.bot)
        BY <1>1, <4>1, <4>2 DEF InPhase, Bot
      <4>4. Phase(m)'
        BY <4>3, SamePhase
      <4> QED
        BY <4>1, <4>2, <4>4
    <3> QED
      BY <3>1, <3>2
  <2>2. Busy("boot")' => wanted'[Bot("boot")']
    <3>1. CASE p = "boot"
      BY <1>6, <1>8, <3>1
    <3>2. CASE p # "boot"
      BY <1>1, <1>5, <1>7, <3>2 DEF InPhase
    <3> QED
      BY <3>1, <3>2
  <2> QED
    BY <2>1, <2>2 DEF InPhase
<1>12. Resting'
  <2>1. ASSUME NEW c \in Bots, Free(c)'
        PROVE  Settled(c)'
    <3>1. c # b
      BY <1>6, <2>1 DEF Free
    <3>2. Free(c)
      <4>1. \A q \in Procs : Busy(q) => Bot(q) # c
        BY <1>5, <2>1 DEF Free
      <4>2. c \notin restoring
        BY <2>1, <3>1 DEF Free
      <4> QED
        BY <4>1, <4>2 DEF Free
    <3> QED
      BY <1>1, <1>3, <3>2, SameViewKeeps DEF Resting
  <2>2. ASSUME NEW c \in restoring'
        PROVE  Off(c)' /\ DiskOn(c)'
    <3>1. c \in Bots /\ c \in restoring
      BY <1>7, <2>2 DEF LifecycleIInv, Types
    <3> QED
      BY <1>1, <1>3, <3>1, SameViewKeeps DEF Resting
  <2> QED
    BY <1>7, <2>1, <2>2 DEF Resting
<1> QED
  BY <1>10, <1>11, <1>12

LEMMA OrderlyBeginNext ==
  ASSUME BotAssumption, LifecycleIInv, OrderlyInv,
         \/ \E p \in Requests, b \in Bots : Request(p, b)
         \/ \E i \in Instances : SaveBalance(i) \/ ErrorStop(i)
         \/ \E b \in Bots : Restore(b)
  PROVE  OrderlyInv'
<1> USE DEF redis, memory, outside, history
<1>1. /\ record \in [Bots -> Statuses \cup {"deleted"}]
      /\ inst \in [Instances -> InstType] /\ instances \in [Bots -> Instances \cup {None}]
  BY DEF LifecycleIInv, Types
<1>2. ASSUME NEW p \in Procs, NEW b \in Bots, NEW pc \in BeginPcs,
             NEW i \in Instances \cup {None}, NEW old \in Statuses,
             Begin(p, b, pc, i, old)
      PROVE  \E k \in ProcType :
               /\ k.pc = pc /\ k.bot = b /\ k.inst = i /\ k.old = old
               /\ Become(p, k) /\ up /\ ~Busy(p) /\ k.pc # "idle"
               /\ orderly' = (orderly /\ ~Overlaps(p, b))
  <2>1. pc \in PCs /\ pc # "idle"
    BY DEF BeginPcs, PCs, OtherPcs, CloserPcs
  <2>2. [pc |-> pc, bot |-> b, inst |-> i, old |-> old] \in ProcType
    BY <2>1 DEF ProcType
  <2> QED
    BY <1>2, <2>1, <2>2 DEF Begin, Become, Busy
<1>3. ASSUME NEW p \in Requests, NEW b \in Bots, Request(p, b)
      PROVE  OrderlyInv'
  <2>0. p \in Procs /\ p # "boot" /\ None \in Instances \cup {None}
    BY ProcFacts
  <2>1. \E pc \in {"start", "find", "update", "erase"}, old \in Statuses :
           /\ Begin(p, b, pc, None, old)
           /\ pc \in {"start", "erase"} => record[b] # "running"
           /\ pc = "find" => record[b] = "running"
           /\ pc = "update" => old = record[b]
    BY <1>1, <1>3
    DEF Request, StartBot, StopBot, UpdateBot, DeleteBot, Ask, Startable, Statuses
  <2>2. PICK pc \in {"start", "find", "update", "erase"} : \E old \in Statuses :
           /\ Begin(p, b, pc, None, old)
           /\ pc \in {"start", "erase"} => record[b] # "running"
           /\ pc = "find" => record[b] = "running"
           /\ pc = "update" => old = record[b]
    BY <2>1
  <2>3. PICK old \in Statuses :
           /\ Begin(p, b, pc, None, old)
           /\ pc \in {"start", "erase"} => record[b] # "running"
           /\ pc = "find" => record[b] = "running"
           /\ pc = "update" => old = record[b]
    BY <2>2
  <2>4. PICK k \in ProcType :
               /\ k.pc = pc /\ k.bot = b /\ k.inst = None /\ k.old = old
               /\ Become(p, k) /\ up /\ ~Busy(p) /\ k.pc # "idle"
               /\ orderly' = (orderly /\ ~Overlaps(p, b))
    BY <1>2, <2>0, <2>3 DEF BeginPcs
  <2>5. Settled(b) => Phase(k)
    BY <2>3, <2>4 DEF Settled, Phase, DiskOn, DiskOff
  <2>6. UNCHANGED <<record, index, instances, inst, up, wanted, restoring>>
    BY <1>3 DEF Request, StartBot, StopBot, UpdateBot, DeleteBot
  <2> QED
    BY <2>0, <2>4, <2>5, <2>6, OrderlyBegin
<1>4. ASSUME NEW i \in Instances, SaveBalance(i)
      PROVE  OrderlyInv'
  <2> DEFINE b == inst[i].bot
  <2>1. b \in Bots /\ record[b] \in Statuses /\ "loop" \in Procs /\ "loop" # "boot"
    BY <1>1, <1>4, ProcFacts DEF SaveBalance, InstType
  <2>2. Begin("loop", b, "update", None, record[b])
    BY <1>4 DEF SaveBalance
  <2>3. PICK k \in ProcType :
               /\ k.pc = "update" /\ k.bot = b /\ k.inst = None /\ k.old = record[b]
               /\ Become("loop", k) /\ up /\ ~Busy("loop") /\ k.pc # "idle"
               /\ orderly' = (orderly /\ ~Overlaps("loop", b))
    BY <1>2, <2>1, <2>2 DEF BeginPcs
  <2>4. Settled(b) => Phase(k)
    BY <2>3 DEF Phase
  <2>5. UNCHANGED <<record, index, instances, inst, up, wanted, restoring>>
    BY <1>4 DEF SaveBalance
  <2> HIDE DEF b
  <2> QED
    BY <2>1, <2>3, <2>4, <2>5, OrderlyBegin
<1>5. ASSUME NEW i \in Instances, ErrorStop(i)
      PROVE  OrderlyInv'
  <2> DEFINE b == inst[i].bot
  <2>1. /\ b \in Bots /\ instances[b] # None /\ "loop" \in Procs /\ "loop" # "boot"
        /\ instances[b] \in Instances \cup {None} /\ "stopped" \in Statuses
    BY <1>1, <1>5, ProcFacts DEF ErrorStop, InstType, Statuses
  <2>2. Begin("loop", b, "errcheck", instances[b], "stopped")
    BY <1>5 DEF ErrorStop
  <2>3. PICK k \in ProcType :
               /\ k.pc = "errcheck" /\ k.bot = b /\ k.inst = instances[b] /\ k.old = "stopped"
               /\ Become("loop", k) /\ up /\ ~Busy("loop") /\ k.pc # "idle"
               /\ orderly' = (orderly /\ ~Overlaps("loop", b))
    BY <1>2, <2>1, <2>2 DEF BeginPcs
  <2>4. Settled(b) => Phase(k)
    BY <2>1, <2>3 DEF Phase, Settled, Off
  <2>5. UNCHANGED <<record, index, instances, inst, up, wanted, restoring>>
    BY <1>5 DEF ErrorStop
  <2> HIDE DEF b
  <2> QED
    BY <2>1, <2>3, <2>4, <2>5, OrderlyBegin
<1>6. ASSUME NEW b \in Bots, Restore(b)
      PROVE  OrderlyInv'
  <2>1. "boot" \in Procs /\ None \in Instances \cup {None} /\ "stopped" \in Statuses
    BY ProcFacts DEF Statuses
  <2>2. Begin("boot", b, "reset", None, "stopped")
    BY <1>6 DEF Restore
  <2>3. PICK k \in ProcType :
               /\ k.pc = "reset" /\ k.bot = b /\ k.inst = None /\ k.old = "stopped"
               /\ Become("boot", k) /\ up /\ ~Busy("boot") /\ k.pc # "idle"
               /\ orderly' = (orderly /\ ~Overlaps("boot", b))
    BY <1>2, <2>1, <2>2 DEF BeginPcs
  <2>4. Off(b) /\ DiskOn(b) => Phase(k)
    BY <2>3 DEF Phase
  <2>5. /\ UNCHANGED <<record, index, instances, inst, up, wanted>>
        /\ b \in restoring /\ restoring' = restoring \ {b}
    BY <1>6 DEF Restore
  <2> QED
    BY <2>1, <2>3, <2>4, <2>5, OrderlyBegin
<1> QED
  BY <1>3, <1>4, <1>5, <1>6

(* A step that leaves the map and the instances alone.                     *)
LEMMA SameMemory ==
  ASSUME UNCHANGED <<instances, inst>>, NEW b \in Bots
  PROVE  /\ Trading(b)' = Trading(b)
         /\ Off(b)' <=> Off(b)
         /\ On(b)' <=> On(b)
BY DEF Trading, Looping, Off, On

(* What an orderly step of a busy process may take for granted.            *)
LEMMA InItsPhase ==
  ASSUME LifecycleIInv, OrderlyInv, NEW p \in Procs, NEW pc, At(p, pc), pc # "idle"
  PROVE  /\ orderly => Phase(proc[p])
         /\ Busy(p) /\ Bot(p) \in Bots /\ proc[p].pc = pc /\ proc[p] \in ProcType
         /\ orderly /\ p = "boot" => wanted[Bot(p)]
BY DEF OrderlyInv, InPhase, At, Busy, LifecycleIInv, Types, ProcType, Bot

LEMMA OrderlyStarting ==
  ASSUME BotAssumption, LifecycleIInv, OrderlyInv, NEW p \in Requests \cup {"boot"},
         Starting(p)
  PROVE  OrderlyInv'
<1> USE DEF redis, memory, outside, history
<1> DEFINE o == Bot(p)
<1>0. p \in Procs /\ Types
  BY DEF Procs, LifecycleIInv
<1>1. /\ instances \in [Bots -> Instances \cup {None}] /\ inst \in [Instances -> InstType]
      /\ record \in [Bots -> Statuses \cup {"deleted"}] /\ wanted \in [Bots -> BOOLEAN]
  BY <1>0 DEF Types
<1>2. CASE StartLookup(p)
  <2>1. UNCHANGED <<record, index, instances, inst, wanted, restoring, up, orderly>>
    BY <1>2 DEF StartLookup
  <2>2. /\ orderly => Off(o) /\ DiskOff(o) /\ (p = "boot" => wanted[o])
        /\ Busy(p) /\ o \in Bots
    BY <1>0, <1>2, InItsPhase DEF StartLookup, Phase, Bot
  <2>3. \A c \in Bots : SameView(c)
    BY <2>1 DEF SameView, Trading, Looping
  <2>4. CASE Goto(p, "subscribe")
    <3>1. PICK k \in ProcType : Become(p, k) /\ k.pc = "subscribe" /\ k.bot = o
      BY <1>0, <2>4, GotoFacts DEF PCs, OtherPcs, Bot
    <3>2. orderly => Phase(k)
      BY <2>2, <3>1 DEF Phase
    <3>3. PICK b \in Bots : b = o
      BY <2>2
    <3>4. SameView(k.bot) /\ k.bot = b /\ SameView(b)
      BY <2>3, <3>1, <3>3
    <3>5. orderly => Phase(k)' /\ (p = "boot" => wanted'[b])
      BY <2>2, <3>2, <3>3, <3>4, SamePhase DEF SameView
    <3> QED
      BY <1>0, <2>1, <2>2, <2>3, <3>1, <3>3, <3>4, <3>5, OrderlyFrame
  <2>5. CASE Finish(p)
    <3>1. PICK k \in ProcType : Become(p, k) /\ k.pc = "idle"
      BY <1>0, <2>5, GotoFacts
    <3>2. PICK b \in Bots : b = o
      BY <2>2
    <3>3. orderly => Settled(b)'
      BY <2>2, <2>3, <3>2, SameViewKeeps DEF Settled
    <3> QED
      BY <1>0, <2>1, <2>2, <2>3, <3>1, <3>2, <3>3, OrderlyFrame
  <2> QED
    BY <1>2, <2>4, <2>5 DEF StartLookup
<1>3. CASE StartSubscribe(p)
  <2>1. UNCHANGED <<record, index, instances, wanted, restoring, up, orderly>>
    BY <1>3 DEF StartSubscribe
  <2>2. /\ orderly => Off(o) /\ DiskOff(o) /\ (p = "boot" => wanted[o])
        /\ Busy(p) /\ o \in Bots
    BY <1>0, <1>3, InItsPhase DEF StartSubscribe, Phase, Bot
  <2>3. PICK b \in Bots : b = o
    BY <2>2
  <2>4. CASE Finish(p) /\ UNCHANGED <<made, inst, handlers>>
    <3>1. PICK k \in ProcType : Become(p, k) /\ k.pc = "idle"
      BY <1>0, <2>4, GotoFacts
    <3>2. \A c \in Bots : SameView(c)
      BY <2>1, <2>4 DEF SameView, Trading, Looping
    <3>3. orderly => Settled(b)'
      BY <2>2, <2>3, <3>2, SameViewKeeps DEF Settled
    <3> QED
      BY <1>0, <2>1, <2>2, <2>3, <3>1, <3>2, <3>3, OrderlyFrame
  <2>5. CASE /\ made < MaxInstances /\ made' = made + 1
             /\ inst' = [inst EXCEPT ![made + 1].bot = Bot(p)]
             /\ proc' = [proc EXCEPT ![p].pc = "publish", ![p].inst = made + 1]
    <3> DEFINE n == made + 1
               next == [proc[p] EXCEPT !.pc = "publish", !.inst = n]
    <3>1. n \in Instances /\ n > made /\ "publish" \in PCs /\ proc[p] \in ProcType
      BY <1>0, <2>5 DEF Types, Instances, BotAssumption, PCs, HolderPcs, StarterPcs
    <3>2. Become(p, next)
      BY <1>0, <2>5, <3>1, Moves
    <3>0. next \in ProcType /\ next.pc = "publish" /\ next.bot = o
      BY <1>0, <3>1 DEF ProcType, Bot
    <3>3. PICK k \in ProcType : Become(p, k) /\ k.pc = "publish" /\ k.bot = o
      BY <3>0, <3>2
    <3>4. inst[n].loop = "none"
      BY <3>1 DEF LifecycleIInv, Made, NoInstance
    <3> HIDE DEF next, n
    <3>5. inst'[n].loop = "none" /\ \A j \in Instances : j # n => inst'[j] = inst[j]
      <4>1. inst' = [inst EXCEPT ![n] = [inst[n] EXCEPT !.bot = Bot(p)]] /\ inst[n] \in InstType
        BY <1>0, <2>5, <3>1, InstMoves DEF n
      <4>2. [inst[n] EXCEPT !.bot = Bot(p)] \in InstType
            /\ [inst[n] EXCEPT !.bot = Bot(p)].loop = inst[n].loop
        BY <4>1, <2>2 DEF InstType
      <4> QED
        BY <1>0, <3>1, <3>4, <4>1, <4>2, InstChange
    <3>6. \A c \in Bots : Trading(c)' = Trading(c)
      BY <3>4, <3>5 DEF Trading, Looping
    <3>7. \A c \in Bots : SameView(c)
      BY <2>1, <3>6 DEF SameView
    <3>8. orderly => Off(b)' /\ DiskOff(b)'
      BY <2>2, <2>3, <3>7, SameViewKeeps
    <3>9. orderly => Phase(k)'
      BY <2>3, <3>3, <3>8 DEF Phase
    <3> QED
      BY <1>0, <2>1, <2>2, <2>3, <3>3, <3>7, <3>9, OrderlyFrame
  <2> QED
    BY <1>3, <2>4, <2>5 DEF StartSubscribe
<1>4. CASE StartRecord(p)
  <2>1. UNCHANGED <<index, instances, inst, restoring, up, orderly>>
    BY <1>4 DEF StartRecord
  <2>2. /\ orderly => Off(o) /\ DiskOff(o) /\ (p = "boot" => wanted[o])
        /\ Busy(p) /\ o \in Bots
    BY <1>0, <1>4, InItsPhase DEF StartRecord, Phase, Bot
  <2>3. PICK b \in Bots : b = o
    BY <2>2
  <2>4. CASE Finish(p) /\ UNCHANGED <<record, wanted>>
    <3>1. PICK k \in ProcType : Become(p, k) /\ k.pc = "idle"
      BY <1>0, <2>4, GotoFacts
    <3>2. \A c \in Bots : SameView(c)
      BY <2>1, <2>4 DEF SameView, Trading, Looping
    <3>3. orderly => Settled(b)'
      BY <2>2, <2>3, <3>2, SameViewKeeps DEF Settled
    <3> QED
      BY <1>0, <2>1, <2>2, <2>3, <3>1, <3>2, <3>3, OrderlyFrame
  <2>5. CASE /\ RecordStatus(p, "running", "published")
             /\ wanted' = [wanted EXCEPT ![Bot(p)] = @ \/ p \in Requests]
    <3>0. "running" \in Statuses /\ "published" \in PCs
      BY DEF Statuses, PCs, HolderPcs, StarterPcs
    <3>1. /\ record'[b] = "running" /\ \A c \in Bots : c # b => record'[c] = record[c]
          /\ \E k \in ProcType :
               Become(p, k) /\ k.pc = "published" /\ k.bot = b /\ k.old = record[b]
      BY <1>0, <2>3, <2>5, <3>0, RecordFacts
    <3>2. PICK k \in ProcType :
            Become(p, k) /\ k.pc = "published" /\ k.bot = b /\ k.old = record[b]
      BY <3>1
    <3>3. /\ wanted'[b] = (wanted[b] \/ p \in Requests)
          /\ \A c \in Bots : c # b => wanted'[c] = wanted[c]
      BY <1>1, <2>3, <2>5
    <3>4. orderly => wanted'[b]
      BY <2>2, <2>3, <3>3
    <3>5. \A c \in Bots : c # b => SameView(c)
      BY <2>1, <3>1, <3>3, SameMemory DEF SameView
    <3>6. orderly => Off(b)' /\ k.old # "running" /\ b \notin index'
      BY <2>1, <2>2, <2>3, <3>2, SameMemory DEF DiskOff
    <3>7. orderly => Phase(k)'
      BY <3>1, <3>2, <3>4, <3>6 DEF Phase
    <3> QED
      BY <1>0, <2>1, <2>2, <2>3, <3>2, <3>4, <3>5, <3>7, OrderlyFrame
  <2> QED
    BY <1>4, <2>4, <2>5 DEF StartRecord
<1>5. CASE StartIndex(p)
  <2>1. UNCHANGED <<record, instances, inst, wanted, restoring, up, orderly>>
        /\ IndexStatus(p, "running") /\ Goto(p, "insert")
    BY <1>5 DEF StartIndex
  <2>2. /\ orderly => Off(o) /\ record[o] = "running" /\ wanted[o] /\ proc[p].old # "running"
        /\ Busy(p) /\ o \in Bots
    BY <1>0, <1>5, InItsPhase DEF StartIndex, Phase, Bot
  <2>3. PICK b \in Bots : b = o
    BY <2>2
  <2>4. /\ \A c \in Bots : c # b => (c \in index' <=> c \in index)
        /\ orderly => b \in index'
    BY <1>0, <2>1, <2>2, <2>3, IndexFacts DEF Statuses
  <2>5. PICK k \in ProcType : Become(p, k) /\ k.pc = "insert" /\ k.bot = b
    BY <1>0, <2>1, <2>3, GotoFacts DEF PCs, HolderPcs, StarterPcs, Bot
  <2>6. \A c \in Bots : c # b => SameView(c)
    BY <2>1, <2>4, SameMemory DEF SameView
  <2>7. orderly => Off(b)' /\ DiskOn(b)'
    BY <2>1, <2>2, <2>3, <2>4, SameMemory DEF DiskOn
  <2>8. orderly => Phase(k)' /\ wanted'[b]
    BY <2>5, <2>7 DEF Phase, DiskOn
  <2> QED
    BY <1>0, <2>1, <2>2, <2>3, <2>5, <2>6, <2>8, OrderlyFrame
<1>6. CASE StartInsert(p)
  <2>1. UNCHANGED <<record, index, wanted, restoring, up, orderly>> /\ Finish(p)
    BY <1>6 DEF StartInsert
  <2>2. /\ orderly => Off(o) /\ DiskOn(o)
        /\ Busy(p) /\ o \in Bots /\ proc[p].pc = "insert" /\ o = proc[p].bot
    BY <1>0, <1>6, InItsPhase DEF StartInsert, Phase, Bot
  <2>3. PICK b \in Bots : b = o
    BY <2>2
  <2>4. PICK k \in ProcType : Become(p, k) /\ k.pc = "idle"
    BY <1>0, <2>1, GotoFacts
  <2>5. CASE instances[Bot(p)] # None /\ UNCHANGED <<instances, inst>>
    <3>1. ~orderly
      BY <2>2, <2>5 DEF Off
    <3>2. \A c \in Bots : c # b => SameView(c)
      BY <2>1, <2>5, SameMemory DEF SameView
    <3> QED
      BY <2>1, <3>1 DEF OrderlyInv
  <2>6. CASE /\ instances' = [instances EXCEPT ![Bot(p)] = proc[p].inst]
             /\ inst' = [inst EXCEPT ![proc[p].inst].loop = "running"]
    <3> DEFINE i == proc[p].inst
    <3>1. /\ i \in Instances /\ inst[i].bot = b /\ inst[i].loop = "none"
          /\ ~inst[i].closed /\ i # None
      <4>1. HasNew(proc[p]) /\ \A j \in Instances : inst[j].closed => inst[j].loop # "none"
        BY <1>0, <2>2 DEF LifecycleIInv, Owned, Made, StarterPcs
      <4> QED
        BY <4>1, <2>2, <2>3, ProcFacts DEF HasNew
    <3>2. instances'[b] = i /\ \A c \in Bots : c # b => instances'[c] = instances[c]
      BY <1>1, <2>3, <2>6
    <3> HIDE DEF i
    <3>3. /\ inst'[i].bot = b /\ inst'[i].loop = "running" /\ ~inst'[i].closed
          /\ \A j \in Instances : j # i => inst'[j] = inst[j]
      <4>1. inst' = [inst EXCEPT ![i] = [inst[i] EXCEPT !.loop = "running"]]
            /\ inst[i] \in InstType
        BY <1>0, <2>6, <3>1, InstMoves DEF i
      <4>2. /\ [inst[i] EXCEPT !.loop = "running"] \in InstType
            /\ [inst[i] EXCEPT !.loop = "running"].bot = inst[i].bot
            /\ [inst[i] EXCEPT !.loop = "running"].loop = "running"
            /\ [inst[i] EXCEPT !.loop = "running"].closed = inst[i].closed
        BY ONLY <4>1, InstFields
      <4> QED
        BY <1>0, <3>1, <4>1, <4>2, InstChange
    <3>4. \A c \in Bots : c # b => Trading(c)' = Trading(c)
      BY <3>1, <3>3 DEF Trading, Looping
    <3>5. Trading(b)' = Trading(b) \cup {i}
      BY <3>1, <3>3 DEF Trading, Looping
    <3>6. \A c \in Bots : c # b => SameView(c)
      BY <2>1, <3>2, <3>4 DEF SameView
    <3>7. orderly => On(b)' /\ DiskOn(b)'
      BY <2>1, <2>2, <2>3, <3>1, <3>2, <3>5 DEF On, Off, DiskOn
    <3>8. orderly => Settled(b)'
      BY <3>7 DEF Settled
    <3> QED
      BY <1>0, <2>1, <2>2, <2>3, <2>4, <3>6, <3>8, OrderlyFrame
  <2> QED
    BY <1>6, <2>5, <2>6 DEF StartInsert
<1> QED
  BY <1>2, <1>3, <1>4, <1>5, <1>6 DEF Starting

(* Closing the channel of an instance ends its trading, and no other's.    *)
LEMMA ClosedTrading ==
  ASSUME Types, NEW i \in Instances, inst' = [inst EXCEPT ![i].closed = TRUE],
         NEW b \in Bots
  PROVE  /\ Trading(b)' = Trading(b) \ {i}
         /\ inst[i].bot # b => Trading(b)' = Trading(b)
<1>1. inst' = [inst EXCEPT ![i] = [inst[i] EXCEPT !.closed = TRUE]] /\ inst[i] \in InstType
  BY InstMoves
<1>2. /\ [inst[i] EXCEPT !.closed = TRUE] \in InstType
      /\ [inst[i] EXCEPT !.closed = TRUE].bot = inst[i].bot
      /\ [inst[i] EXCEPT !.closed = TRUE].closed = TRUE
  BY <1>1 DEF InstType
<1>3. /\ inst'[i].closed = TRUE /\ inst'[i].bot = inst[i].bot
      /\ \A j \in Instances : j # i => inst'[j] = inst[j]
  BY <1>1, <1>2, InstChange
<1> QED
  BY <1>3 DEF Trading, Looping

(* What remains to be shown of a step that ends its operation, and of one  *)
(* that goes on: where its bot is afterwards.                              *)
LEMMA OrderlyEnd ==
  ASSUME BotAssumption, LifecycleIInv, OrderlyInv, orderly' => orderly,
         NEW p \in Procs, Finish(p), Busy(p), NEW b \in Bots, b = Bot(p),
         UNCHANGED <<restoring, up>>, \A c \in Bots : c # b => SameView(c),
         orderly' => Settled(b)'
  PROVE  OrderlyInv'
<1>1. PICK k \in ProcType : Become(p, k) /\ k.pc = "idle"
  BY GotoFacts DEF LifecycleIInv
<1> QED
  BY <1>1, OrderlyFrame

LEMMA OrderlyGoto ==
  ASSUME BotAssumption, LifecycleIInv, OrderlyInv, orderly' => orderly,
         NEW p \in Procs, NEW pc \in PCs, Goto(p, pc), pc # "idle",
         Busy(p), NEW b \in Bots, b = Bot(p),
         UNCHANGED <<restoring, up>>, \A c \in Bots : c # b => SameView(c),
         orderly' /\ p = "boot" => wanted'[b],
         \A k \in ProcType :
             orderly' /\ k.pc = pc /\ k.bot = b /\ k.inst = proc[p].inst => Phase(k)'
  PROVE  OrderlyInv'
<1>1. PICK k \in ProcType :
         Become(p, k) /\ k.pc = pc /\ k.bot = proc[p].bot /\ k.inst = proc[p].inst
  BY GotoFacts DEF LifecycleIInv
<1>2. k.bot = b
  BY <1>1 DEF Bot
<1> QED
  BY <1>1, <1>2, OrderlyFrame

LEMMA OrderlyStopping ==
  ASSUME BotAssumption, LifecycleIInv, OrderlyInv, NEW p \in Requests,
         Stopping(p) \/ Erase(p)
  PROVE  OrderlyInv'
<1> USE DEF redis, memory, outside, history
<1>0. p \in Procs /\ p # "boot" /\ Types /\ Bot(p) \in Bots /\ proc[p] \in ProcType
      /\ Bot(p) = proc[p].bot
  BY ProcFacts DEF LifecycleIInv, Types, ProcType, Bot
<1>1. /\ instances \in [Bots -> Instances \cup {None}] /\ inst \in [Instances -> InstType]
      /\ record \in [Bots -> Statuses \cup {"deleted"}] /\ wanted \in [Bots -> BOOLEAN]
      /\ index \subseteq Bots
  BY <1>0 DEF Types
<1>b. PICK b \in Bots : b = Bot(p)
  BY <1>0
<1>2. CASE StopFind(p)
  <2>1. UNCHANGED <<record, index, instances, inst, wanted, restoring, up, orderly>>
    BY <1>2 DEF StopFind
  <2>2. (orderly => On(b) /\ DiskOn(b)) /\ Busy(p)
    BY <1>0, <1>b, <1>2, InItsPhase DEF StopFind, Phase
  <2>3. \A c \in Bots : SameView(c)
    BY <2>1 DEF SameView, Trading, Looping
  <2> DEFINE i == instances[Bot(p)]
             pc == IF i = None THEN "stopped" ELSE "close"
             next == [proc[p] EXCEPT !.pc = pc, !.inst = i]
  <2>4. i \in Instances \cup {None} /\ pc \in PCs
    BY <1>0, <1>1 DEF PCs, OtherPcs, CloserPcs
  <2>5. Become(p, next)
    BY <1>0, <1>2, <2>4, Moves DEF StopFind
  <2>6. next \in ProcType /\ next.pc = pc /\ next.inst = i /\ next.bot = b
    BY <1>0, <1>b, <2>4 DEF ProcType
  <2>7. /\ pc # "idle" /\ i = instances[b]
        /\ orderly => pc = "close"
    BY <1>b, <2>2 DEF On
  <2> HIDE DEF next, pc, i
  <2>8. PICK k \in ProcType : /\ Become(p, k) /\ k.pc # "idle" /\ k.bot = b
                              /\ orderly => k.pc = "close" /\ k.inst = instances[b]
    BY <2>5, <2>6, <2>7
  <2>9. orderly => Phase(k)
    BY <2>2, <2>8 DEF Phase
  <2>10. orderly => Phase(k)'
    BY <2>3, <2>8, <2>9, SamePhase
  <2> QED
    BY <1>0, <1>b, <2>1, <2>2, <2>3, <2>8, <2>10, OrderlyFrame
<1>3. CASE StopClose(p)
  <2>1. UNCHANGED <<record, index, instances, wanted, restoring, up, orderly>>
        /\ inst' = [inst EXCEPT ![proc[p].inst].closed = TRUE]
    BY <1>3 DEF StopClose
  <2>2. /\ orderly => On(b) /\ DiskOn(b) /\ proc[p].inst = instances[b]
        /\ Busy(p) /\ proc[p].pc \in CloserPcs
    BY <1>0, <1>b, <1>3, InItsPhase DEF StopClose, Phase, CloserPcs
  <2>3. proc[p].inst \in Instances /\ inst[proc[p].inst].bot = b
    BY <1>0, <1>b, <2>2 DEF LifecycleIInv, Owned, HasOld
  <2>4. \A c \in Bots : c # b => SameView(c)
    BY <1>0, <2>1, <2>3, ClosedTrading DEF SameView
  <2>5. orderly => Trading(b)' = {} /\ DiskOn(b)'
    <3>1. Trading(b)' = Trading(b) \ {proc[p].inst}
      BY <1>0, <2>1, <2>3, ClosedTrading
    <3>2. orderly => Trading(b)' = {}
      BY <2>2, <3>1 DEF On
    <3> QED
      BY <2>1, <2>2, <3>2 DEF DiskOn
  <2> DEFINE next == [proc[p] EXCEPT !.pc = "unsubscribe", !.inst = None]
  <2>6. Become(p, next)
    BY <1>0, <1>3, Moves DEF StopClose, PCs, HolderPcs
  <2>7. next \in ProcType /\ next.pc = "unsubscribe" /\ next.bot = b
    BY <1>0, <1>b DEF ProcType, PCs, HolderPcs
  <2> HIDE DEF next
  <2>8. PICK k \in ProcType : Become(p, k) /\ k.pc = "unsubscribe" /\ k.bot = b
    BY <2>6, <2>7
  <2>9. orderly => Phase(k)'
    BY <2>5, <2>8 DEF Phase
  <2> QED
    BY <1>0, <1>b, <2>1, <2>2, <2>4, <2>8, <2>9, OrderlyFrame
<1>4. CASE StopUnsubscribe(p)
  <2>1. UNCHANGED <<record, index, instances, inst, wanted, restoring, up, orderly>>
        /\ Goto(p, "delete") /\ "delete" \in PCs
    BY <1>4 DEF StopUnsubscribe, PCs, OtherPcs
  <2>2. (orderly => Trading(b) = {} /\ DiskOn(b)) /\ Busy(p)
    BY <1>0, <1>b, <1>4, InItsPhase DEF StopUnsubscribe, Phase
  <2>3. \A c \in Bots : SameView(c)
    BY <2>1 DEF SameView, Trading, Looping
  <2>4. orderly => Trading(b)' = {} /\ DiskOn(b)'
    BY <2>2, <2>3, SameViewKeeps DEF SameView
  <2>5. ASSUME NEW k \in ProcType, k.pc = "delete", k.bot = b, orderly PROVE Phase(k)'
    BY <2>4, <2>5 DEF Phase
  <2> QED
    BY <1>0, <1>b, <2>1, <2>2, <2>3, <2>5, OrderlyGoto
<1>5. CASE StopDelete(p)
  <2>1. UNCHANGED <<record, index, inst, wanted, restoring, up, orderly>>
        /\ Goto(p, "stopped") /\ "stopped" \in PCs
    BY <1>5 DEF StopDelete, PCs, OtherPcs
  <2>2. (orderly => Trading(b) = {} /\ DiskOn(b)) /\ Busy(p)
    BY <1>0, <1>b, <1>5, InItsPhase DEF StopDelete, Phase
  <2>3. instances'[b] = None /\ \A c \in Bots : c # b => instances'[c] = instances[c]
    BY <1>1, <1>b, <1>5 DEF StopDelete
  <2>4. \A c \in Bots : Trading(c)' = Trading(c)
    BY <2>1 DEF Trading, Looping
  <2>5. \A c \in Bots : c # b => SameView(c)
    BY <2>1, <2>3, <2>4 DEF SameView
  <2>6. orderly => Off(b)' /\ DiskOn(b)'
    BY <2>1, <2>2, <2>3, <2>4 DEF Off, DiskOn
  <2>7. ASSUME NEW k \in ProcType, k.pc = "stopped", k.bot = b, orderly PROVE Phase(k)'
    BY <2>6, <2>7 DEF Phase
  <2> QED
    BY <1>0, <1>b, <2>1, <2>2, <2>5, <2>7, OrderlyGoto
<1>6. CASE StopRecord(p)
  <2>1. UNCHANGED <<index, instances, inst, wanted, restoring, up>>
    BY <1>6 DEF StopRecord
  <2>2. (orderly => Off(b) /\ DiskOn(b)) /\ Busy(p)
    BY <1>0, <1>b, <1>6, InItsPhase DEF StopRecord, Phase
  <2>3. CASE orderly' = FALSE
    BY <2>3 DEF OrderlyInv
  <2>4. CASE RecordStatus(p, "stopped", "unlisted") /\ UNCHANGED orderly
    <3>0. "stopped" \in Statuses /\ "unlisted" \in PCs
      BY DEF Statuses, PCs, OtherPcs
    <3>1. /\ record'[b] = "stopped" /\ \A c \in Bots : c # b => record'[c] = record[c]
          /\ \E k \in ProcType :
               Become(p, k) /\ k.pc = "unlisted" /\ k.bot = b /\ k.old = record[b]
      BY <1>0, <1>b, <2>4, <3>0, RecordFacts
    <3>2. PICK k \in ProcType :
            Become(p, k) /\ k.pc = "unlisted" /\ k.bot = b /\ k.old = record[b]
      BY <3>1
    <3>3. \A c \in Bots : c # b => SameView(c)
      BY <2>1, <3>1, SameMemory DEF SameView
    <3>4. orderly => Off(b)' /\ HalfOff(b)' /\ k.old = "running"
      BY <2>1, <2>2, <3>1, <3>2, SameMemory DEF HalfOff, DiskOn
    <3>5. orderly => Phase(k)'
      BY <3>2, <3>4 DEF Phase
    <3> QED
      BY <1>0, <1>b, <2>1, <2>2, <2>4, <3>2, <3>3, <3>5, OrderlyFrame
  <2> QED
    BY <1>6, <2>3, <2>4 DEF StopRecord
<1>7. CASE StopIndex(p)
  <2>1. UNCHANGED <<record, instances, inst, restoring, up, orderly>>
        /\ IndexStatus(p, "stopped") /\ Finish(p)
    BY <1>7 DEF StopIndex
  <2>2. (orderly => Off(b) /\ HalfOff(b) /\ proc[p].old = "running") /\ Busy(p)
    BY <1>0, <1>b, <1>7, InItsPhase DEF StopIndex, Phase
  <2>3. /\ \A c \in Bots : c # b => (c \in index' <=> c \in index)
        /\ orderly => b \notin index'
    BY <1>0, <1>b, <2>1, <2>2, IndexFacts DEF Statuses
  <2>4. \A c \in Bots : c # b => wanted'[c] = wanted[c]
    BY <1>1, <1>b, <1>7 DEF StopIndex
  <2>5. \A c \in Bots : c # b => SameView(c)
    BY <2>1, <2>3, <2>4, SameMemory DEF SameView
  <2>6. orderly => Settled(b)'
    BY <2>1, <2>2, <2>3, SameMemory DEF Settled, DiskOff, HalfOff
  <2> QED
    BY <1>0, <1>b, <2>1, <2>2, <2>5, <2>6, OrderlyEnd
<1>8. CASE Erase(p)
  <2>1. UNCHANGED <<instances, inst, wanted, restoring, up, orderly>> /\ Finish(p)
    BY <1>8 DEF Erase
  <2>2. (orderly => Off(b) /\ DiskOff(b)) /\ Busy(p)
    BY <1>0, <1>b, <1>8, InItsPhase DEF Erase, Phase
  <2>3. /\ record'[b] = "deleted" /\ \A c \in Bots : c # b => record'[c] = record[c]
        /\ \A c \in Bots : c # b => (c \in index' <=> c \in index)
        /\ index' \subseteq index
    BY <1>1, <1>b, <1>8 DEF Erase
  <2>4. \A c \in Bots : c # b => SameView(c)
    BY <2>1, <2>3, SameMemory DEF SameView
  <2>5. orderly => Settled(b)'
    BY <2>1, <2>2, <2>3, SameMemory DEF Settled, DiskOff
  <2> QED
    BY <1>0, <1>b, <2>1, <2>2, <2>4, <2>5, OrderlyEnd
<1> QED
  BY <1>2, <1>3, <1>4, <1>5, <1>6, <1>7, <1>8 DEF Stopping

LEMMA OrderlyWriteBack ==
  ASSUME BotAssumption, LifecycleIInv, OrderlyInv, NEW p \in Requests \cup {"loop"},
         WriteBack(p)
  PROVE  OrderlyInv'
<1> USE DEF redis, memory, outside, history
<1>0. p \in Procs /\ Bot(p) \in Bots /\ proc[p] \in ProcType /\ Bot(p) = proc[p].bot
      /\ record \in [Bots -> Statuses \cup {"deleted"}]
  BY ProcFacts DEF LifecycleIInv, Types, ProcType, Bot
<1>b. PICK b \in Bots : b = Bot(p)
  BY <1>0
<1>1. UNCHANGED <<index, instances, inst, wanted, restoring, up, orderly>> /\ Finish(p)
  BY DEF WriteBack
<1>2. /\ orderly => Settled(b) /\ (proc[p].old = "running" <=> record[b] = "running")
      /\ Busy(p)
  BY <1>0, <1>b, InItsPhase DEF WriteBack, Phase
<1>3. /\ record'[b] = proc[p].old /\ \A c \in Bots : c # b => record'[c] = record[c]
  BY <1>0, <1>b DEF WriteBack
<1>4. \A c \in Bots : c # b => SameView(c)
  BY <1>1, <1>3, SameMemory DEF SameView
<1>5. orderly => Settled(b)'
  BY <1>1, <1>2, <1>3, SameMemory DEF Settled, DiskOff, DiskOn
<1> QED
  BY <1>0, <1>b, <1>1, <1>2, <1>4, <1>5, OrderlyEnd

LEMMA OrderlyError ==
  ASSUME BotAssumption, LifecycleIInv, OrderlyInv, ErrorStopping
  PROVE  OrderlyInv'
<1> USE DEF redis, memory, outside, history
<1> DEFINE p == "loop"
<1>0. p \in Procs /\ p # "boot" /\ Types /\ Bot(p) \in Bots /\ proc[p] \in ProcType
      /\ Bot(p) = proc[p].bot
  BY ProcFacts DEF LifecycleIInv, Types, ProcType, Bot
<1>1. /\ instances \in [Bots -> Instances \cup {None}] /\ inst \in [Instances -> InstType]
      /\ record \in [Bots -> Statuses \cup {"deleted"}] /\ wanted \in [Bots -> BOOLEAN]
      /\ index \subseteq Bots
  BY <1>0 DEF Types
<1>b. PICK b \in Bots : b = Bot(p)
  BY <1>0
<1>2. CASE ErrorCheck
  <2>1. UNCHANGED <<record, index, instances, inst, wanted, restoring, up, orderly>>
        /\ Goto(p, IF inst[proc[p].inst].closed THEN "errrecord" ELSE "errclose")
    BY <1>2 DEF ErrorCheck
  <2>2. /\ orderly => On(b) /\ DiskOn(b) /\ proc[p].inst = instances[b]
        /\ Busy(p)
    BY <1>0, <1>b, <1>2, InItsPhase DEF ErrorCheck, Phase
  <2>3. \A c \in Bots : SameView(c)
    BY <2>1 DEF SameView, Trading, Looping
  <2>4. orderly => ~inst[proc[p].inst].closed
    <3>1. orderly => proc[p].inst \in Trading(b)
      BY <2>2 DEF On
    <3> QED
      BY <3>1 DEF Trading
  <2>5. PICK pc \in {"errrecord", "errclose"} :
          Goto(p, pc) /\ (orderly => pc = "errclose")
    BY <2>1, <2>4
  <2>6. pc \in PCs /\ pc # "idle"
    BY DEF PCs, CloserPcs, HolderPcs
  <2>7. orderly => On(b)' /\ DiskOn(b)' /\ proc[p].inst = instances'[b]
    BY <2>2, <2>3, SameViewKeeps DEF SameView
  <2>8. ASSUME NEW k \in ProcType, k.pc = pc, k.bot = b, k.inst = proc[p].inst, orderly
        PROVE  Phase(k)'
    BY <2>5, <2>7, <2>8 DEF Phase
  <2> HIDE DEF p
  <2> QED
    BY <1>0, <1>b, <2>1, <2>2, <2>3, <2>5, <2>6, <2>8, OrderlyGoto
<1>3. CASE ErrorClose
  <2>1. UNCHANGED <<record, index, instances, wanted, restoring, up, orderly>>
        /\ inst' = [inst EXCEPT ![proc[p].inst].closed = TRUE]
        /\ Goto(p, "errrecord") /\ "errrecord" \in PCs
    BY <1>3 DEF ErrorClose, PCs, HolderPcs
  <2>2. /\ orderly => On(b) /\ DiskOn(b) /\ proc[p].inst = instances[b]
        /\ Busy(p) /\ proc[p].pc \in CloserPcs
    BY <1>0, <1>b, <1>3, InItsPhase DEF ErrorClose, Phase, CloserPcs
  <2>3. proc[p].inst \in Instances /\ inst[proc[p].inst].bot = b
    BY <1>0, <1>b, <2>2 DEF LifecycleIInv, Owned, HasOld
  <2>4. \A c \in Bots : c # b => SameView(c)
    BY <1>0, <2>1, <2>3, ClosedTrading DEF SameView
  <2>5. orderly => Trading(b)' = {} /\ DiskOn(b)'
    <3>1. Trading(b)' = Trading(b) \ {proc[p].inst}
      BY <1>0, <2>1, <2>3, ClosedTrading
    <3>2. orderly => Trading(b)' = {}
      BY <2>2, <3>1 DEF On
    <3> QED
      BY <2>1, <2>2, <3>2 DEF DiskOn
  <2>6. ASSUME NEW k \in ProcType, k.pc = "errrecord", k.bot = b, orderly PROVE Phase(k)'
    BY <2>5, <2>6 DEF Phase
  <2> HIDE DEF p
  <2> QED
    BY <1>0, <1>b, <2>1, <2>2, <2>4, <2>6, OrderlyGoto
<1>4. CASE ErrorRecord
  <2>1. UNCHANGED <<index, instances, inst, restoring, up>>
    BY <1>4 DEF ErrorRecord
  <2>2. (orderly => Trading(b) = {} /\ DiskOn(b)) /\ Busy(p)
    BY <1>0, <1>b, <1>4, InItsPhase DEF ErrorRecord, Phase
  <2>3. CASE orderly' = FALSE
    BY <2>3 DEF OrderlyInv
  <2>4. CASE RecordStatus(p, "error", "errindex") /\ UNCHANGED orderly
    <3>0. "error" \in Statuses /\ "errindex" \in PCs
      BY DEF Statuses, PCs, HolderPcs
    <3>1. /\ record'[b] = "error" /\ \A c \in Bots : c # b => record'[c] = record[c]
          /\ \E k \in ProcType :
               Become(p, k) /\ k.pc = "errindex" /\ k.bot = b /\ k.old = record[b]
      BY <1>0, <1>b, <2>4, <3>0, RecordFacts
    <3>2. PICK k \in ProcType :
            Become(p, k) /\ k.pc = "errindex" /\ k.bot = b /\ k.old = record[b]
      BY <3>1
    <3>3. \A c \in Bots : c # b => wanted'[c] = wanted[c]
      BY <1>1, <1>b, <1>4 DEF ErrorRecord
    <3>4. \A c \in Bots : c # b => SameView(c)
      BY <2>1, <3>1, <3>3, SameMemory DEF SameView
    <3>5. orderly => Trading(b)' = {} /\ HalfOff(b)' /\ k.old = "running"
      BY <2>1, <2>2, <3>1, <3>2, SameMemory DEF HalfOff, DiskOn
    <3>6. orderly => Phase(k)'
      BY <3>2, <3>5 DEF Phase
    <3> HIDE DEF p
    <3> QED
      BY <1>0, <1>b, <2>1, <2>2, <2>4, <3>2, <3>4, <3>6, OrderlyFrame
  <2> QED
    BY <1>4, <2>3, <2>4 DEF ErrorRecord
<1>5. CASE ErrorIndex
  <2>1. UNCHANGED <<record, instances, inst, wanted, restoring, up, orderly>>
        /\ IndexStatus(p, "error") /\ Goto(p, "errunsub") /\ "errunsub" \in PCs
    BY <1>5 DEF ErrorIndex, PCs, HolderPcs
  <2>2. (orderly => Trading(b) = {} /\ HalfOff(b) /\ proc[p].old = "running") /\ Busy(p)
    BY <1>0, <1>b, <1>5, InItsPhase DEF ErrorIndex, Phase
  <2>3. /\ \A c \in Bots : c # b => (c \in index' <=> c \in index)
        /\ orderly => b \notin index'
    BY <1>0, <1>b, <2>1, <2>2, IndexFacts DEF Statuses
  <2>4. \A c \in Bots : c # b => SameView(c)
    BY <2>1, <2>3, SameMemory DEF SameView
  <2>5. orderly => Trading(b)' = {} /\ DiskOff(b)'
    BY <2>1, <2>2, <2>3, SameMemory DEF DiskOff, HalfOff
  <2>6. ASSUME NEW k \in ProcType, k.pc = "errunsub", k.bot = b, orderly PROVE Phase(k)'
    BY <2>5, <2>6 DEF Phase
  <2> HIDE DEF p
  <2> QED
    BY <1>0, <1>b, <2>1, <2>2, <2>4, <2>6, OrderlyGoto
<1>6. CASE ErrorUnsubscribe
  <2>1. UNCHANGED <<record, index, instances, inst, wanted, restoring, up, orderly>>
        /\ Goto(p, "errdelete") /\ "errdelete" \in PCs
    BY <1>6 DEF ErrorUnsubscribe, PCs, OtherPcs
  <2>2. (orderly => Trading(b) = {} /\ DiskOff(b)) /\ Busy(p)
    BY <1>0, <1>b, <1>6, InItsPhase DEF ErrorUnsubscribe, Phase
  <2>3. \A c \in Bots : SameView(c)
    BY <2>1 DEF SameView, Trading, Looping
  <2>4. orderly => Trading(b)' = {} /\ DiskOff(b)'
    BY <2>2, <2>3, SameViewKeeps DEF SameView
  <2>5. ASSUME NEW k \in ProcType, k.pc = "errdelete", k.bot = b, orderly PROVE Phase(k)'
    BY <2>4, <2>5 DEF Phase
  <2> HIDE DEF p
  <2> QED
    BY <1>0, <1>b, <2>1, <2>2, <2>3, <2>5, OrderlyGoto
<1>7. CASE ErrorDelete
  <2>1. UNCHANGED <<record, index, inst, wanted, restoring, up, orderly>> /\ Finish(p)
    BY <1>7 DEF ErrorDelete
  <2>2. (orderly => Trading(b) = {} /\ DiskOff(b)) /\ Busy(p)
    BY <1>0, <1>b, <1>7, InItsPhase DEF ErrorDelete, Phase
  <2>3. instances'[b] = None /\ \A c \in Bots : c # b => instances'[c] = instances[c]
    BY <1>1, <1>b, <1>7 DEF ErrorDelete
  <2>4. \A c \in Bots : Trading(c)' = Trading(c)
    BY <2>1 DEF Trading, Looping
  <2>5. \A c \in Bots : c # b => SameView(c)
    BY <2>1, <2>3, <2>4 DEF SameView
  <2>6. orderly => Settled(b)'
    BY <2>1, <2>2, <2>3, <2>4 DEF Settled, Off, DiskOff
  <2> HIDE DEF p
  <2> QED
    BY <1>0, <1>b, <2>1, <2>2, <2>5, <2>6, OrderlyEnd
<1>8. CASE ClosePanic
  BY <1>8 DEF ClosePanic, OrderlyInv
<1> QED
  BY <1>2, <1>3, <1>4, <1>5, <1>6, <1>7, <1>8 DEF ErrorStopping

LEMMA OrderlyRestoring ==
  ASSUME BotAssumption, LifecycleIInv, OrderlyInv, ResetRecord \/ ResetIndex \/ Restart
  PROVE  OrderlyInv'
<1> USE DEF redis, memory, outside, history
<1> DEFINE p == "boot"
<1>0. p \in Procs /\ Types /\ Bot(p) \in Bots /\ proc[p] \in ProcType /\ Bot(p) = proc[p].bot
  BY ProcFacts DEF LifecycleIInv, Types, ProcType, Bot
<1>b. PICK b \in Bots : b = Bot(p)
  BY <1>0
<1>1. CASE ResetRecord
  <2>1. UNCHANGED <<index, instances, inst, wanted, restoring, up, orderly>>
    BY <1>1 DEF ResetRecord
  <2>2. (orderly => Off(b) /\ DiskOn(b)) /\ Busy(p)
    BY <1>0, <1>b, <1>1, InItsPhase DEF ResetRecord, Phase
  <2>3. CASE RecordStatus(p, "stopped", "resetting")
    <3>0. "stopped" \in Statuses /\ "resetting" \in PCs
      BY DEF Statuses, PCs, OtherPcs
    <3>1. /\ record'[b] = "stopped" /\ \A c \in Bots : c # b => record'[c] = record[c]
          /\ \E k \in ProcType :
               Become(p, k) /\ k.pc = "resetting" /\ k.bot = b /\ k.old = record[b]
      BY <1>0, <1>b, <2>3, <3>0, RecordFacts
    <3>2. PICK k \in ProcType :
            Become(p, k) /\ k.pc = "resetting" /\ k.bot = b /\ k.old = record[b]
      BY <3>1
    <3>3. \A c \in Bots : c # b => SameView(c)
      BY <2>1, <3>1, SameMemory DEF SameView
    <3>4. orderly => Off(b)' /\ HalfOff(b)' /\ k.old = "running" /\ wanted'[b]
      BY <2>1, <2>2, <3>1, <3>2, SameMemory DEF HalfOff, DiskOn
    <3>5. orderly => Phase(k)'
      BY <3>2, <3>4 DEF Phase
    <3> HIDE DEF p
    <3> QED
      BY <1>0, <1>b, <2>1, <2>2, <3>2, <3>3, <3>4, <3>5, OrderlyFrame
  <2>4. CASE record[Bot(p)] = "deleted"
    BY <1>b, <2>1, <2>2, <2>4 DEF OrderlyInv, DiskOn
  <2> QED
    BY <1>1, <2>3, <2>4 DEF ResetRecord
<1>2. CASE ResetIndex
  <2>1. UNCHANGED <<record, instances, inst, wanted, restoring, up, orderly>>
        /\ IndexStatus(p, "stopped") /\ Goto(p, "restart") /\ "restart" \in PCs
    BY <1>2 DEF ResetIndex, PCs, OtherPcs
  <2>2. /\ orderly => Off(b) /\ HalfOff(b) /\ proc[p].old = "running" /\ wanted[b]
        /\ Busy(p)
    BY <1>0, <1>b, <1>2, InItsPhase DEF ResetIndex, Phase
  <2>3. /\ \A c \in Bots : c # b => (c \in index' <=> c \in index)
        /\ orderly => b \notin index'
    BY <1>0, <1>b, <2>1, <2>2, IndexFacts DEF Statuses
  <2>4. \A c \in Bots : c # b => SameView(c)
    BY <2>1, <2>3, SameMemory DEF SameView
  <2>5. orderly => Off(b)' /\ DiskOff(b)' /\ wanted'[b]
    BY <2>1, <2>2, <2>3, SameMemory DEF DiskOff, HalfOff
  <2>6. ASSUME NEW k \in ProcType, k.pc = "restart", k.bot = b, orderly PROVE Phase(k)'
    BY <2>5, <2>6 DEF Phase
  <2> HIDE DEF p
  <2> QED
    BY <1>0, <1>b, <2>1, <2>2, <2>4, <2>5, <2>6, OrderlyGoto
<1>3. CASE Restart
  <2>1. UNCHANGED <<record, index, instances, inst, wanted, restoring, up, orderly>>
    BY <1>3 DEF Restart
  <2>2. /\ orderly => Off(b) /\ DiskOff(b) /\ wanted[b]
        /\ Busy(p)
    BY <1>0, <1>b, <1>3, InItsPhase DEF Restart, Phase
  <2>3. \A c \in Bots : SameView(c)
    BY <2>1 DEF SameView, Trading, Looping
  <2>4. orderly => Off(b)' /\ DiskOff(b)' /\ wanted'[b]
    BY <2>2, <2>3, SameViewKeeps DEF SameView
  <2>5. CASE Goto(p, "start")
    <3>1. "start" \in PCs
      BY DEF PCs, OtherPcs
    <3>2. ASSUME NEW k \in ProcType, k.pc = "start", k.bot = b, orderly PROVE Phase(k)'
      BY <2>4, <3>2 DEF Phase
    <3> HIDE DEF p
    <3> QED
      BY <1>0, <1>b, <2>1, <2>2, <2>3, <2>4, <2>5, <3>1, <3>2, OrderlyGoto
  <2>6. CASE Finish(p)
    <3>1. orderly => Settled(b)'
      BY <2>4 DEF Settled
    <3> HIDE DEF p
    <3> QED
      BY <1>0, <1>b, <2>1, <2>2, <2>3, <2>6, <3>1, OrderlyEnd
  <2> QED
    BY <1>3, <2>5, <2>6 DEF Restart
<1> QED
  BY <1>1, <1>2, <1>3

(* The process dies between two writes, comes back, and a loop ends.       *)
LEMMA OrderlyCrash ==
  ASSUME BotAssumption, LifecycleIInv, OrderlyInv, Crash
  PROVE  OrderlyInv'
<1> SUFFICES ASSUME orderly'
             PROVE  Alone' /\ InPhase' /\ Resting'
  BY DEF OrderlyInv
<1>1. orderly /\ Alone /\ InPhase /\ Resting /\ up /\ ~up' /\ restoring' = {}
      /\ UNCHANGED <<record, index, wanted>>
      /\ \A p \in Procs : proc[p].pc \notin Torn
  BY DEF OrderlyInv, Crash, Die, redis
<1>2. \A p \in Procs : ~Busy(p)'
  BY DEF Crash, Die, Busy, Idle
<1>3. \A b \in Bots : Off(b)'
  BY DEF Crash, Die, Off, Trading, Looping, NoInstance
<1>4. ASSUME NEW b \in Bots
      PROVE  DiskOn(b) \/ DiskOff(b)
  <2>1. CASE b \in restoring
    BY <1>1, <2>1 DEF Resting
  <2>2. CASE Free(b)
    BY <1>1, <1>4, <2>2 DEF Resting, Settled
  <2>3. ASSUME NEW p \in Procs, Busy(p), Bot(p) = b
        PROVE  DiskOn(b) \/ DiskOff(b)
    <3>1. Phase(proc[p]) /\ proc[p].bot = b /\ proc[p].pc \in PCs /\ proc[p].pc \notin Torn
          /\ proc[p].pc # "idle"
      BY <1>1, <2>3 DEF InPhase, Bot, LifecycleIInv, Types, ProcType, Busy
    <3> QED
      BY ONLY <3>1 DEF Phase, PCs, OtherPcs, HolderPcs, StarterPcs, CloserPcs, Torn, Settled
  <2> QED
    BY <1>1, <2>1, <2>2, <2>3 DEF Free
<1>5. \A b \in Bots : DiskOn(b)' \/ DiskOff(b)'
  BY <1>1, <1>4 DEF DiskOn, DiskOff
<1>6. Alone' /\ InPhase'
  BY <1>2, ProcFacts DEF Alone, InPhase
<1>7. Resting'
  BY <1>1, <1>3, <1>5 DEF Resting, Free
<1> QED
  BY <1>6, <1>7

LEMMA OrderlyBoot ==
  ASSUME BotAssumption, LifecycleIInv, OrderlyInv, Boot
  PROVE  OrderlyInv'
<1> SUFFICES ASSUME orderly'
             PROVE  Alone' /\ InPhase' /\ Resting'
  BY DEF OrderlyInv
<1>1. orderly /\ Alone /\ Resting /\ ~up /\ up'
      /\ restoring' = {b \in index : record[b] # "deleted"} /\ index \subseteq Bots
      /\ UNCHANGED <<record, index, wanted, instances, inst, proc>>
  BY DEF OrderlyInv, Boot, redis, memory, history, LifecycleIInv, Types
<1>2. \A p \in Procs : ~Busy(p)'
  BY <1>1 DEF Alone, Busy
<1>3. Alone' /\ InPhase'
  BY <1>2, ProcFacts DEF Alone, InPhase
<1>4. \A b \in Bots : SameView(b) /\ Off(b) /\ (DiskOn(b) \/ DiskOff(b))
  BY <1>1 DEF SameView, Trading, Looping, Resting
<1>5. ASSUME NEW b \in Bots, Free(b)'
      PROVE  Settled(b)'
  <2>1. b \notin index \/ record[b] = "deleted"
    BY <1>1, <1>5 DEF Free
  <2>2. Off(b) /\ DiskOff(b)
    BY <1>4, <2>1 DEF DiskOn
  <2> QED
    BY <1>4, <2>2, SameViewKeeps DEF Settled
<1>6. ASSUME NEW b \in restoring'
      PROVE  Off(b)' /\ DiskOn(b)'
  <2>1. b \in Bots /\ b \in index
    BY <1>1, <1>6
  <2>2. Off(b) /\ DiskOn(b)
    BY <1>4, <2>1 DEF DiskOff
  <2> QED
    BY <1>4, <2>1, <2>2, SameViewKeeps
<1>7. Resting'
  BY <1>1, <1>5, <1>6 DEF Resting
<1> QED
  BY <1>3, <1>7

(* What leaves every bot as it was, and the processes too.                 *)
LEMMA OrderlySame ==
  ASSUME BotAssumption, LifecycleIInv, OrderlyInv,
         UNCHANGED <<proc, restoring, up, orderly>>, \A b \in Bots : SameView(b)
  PROVE  OrderlyInv'
<1> SUFFICES ASSUME orderly
             PROVE  Alone' /\ InPhase' /\ Resting'
  BY DEF OrderlyInv
<1>1. Alone /\ InPhase /\ Resting /\ restoring \subseteq Bots
      /\ \A p \in Procs : proc[p] \in ProcType /\ Bot(p) \in Bots
  BY DEF OrderlyInv, LifecycleIInv, Types, ProcType, Bot
<1>2. \A p \in Procs : Busy(p)' = Busy(p) /\ Bot(p)' = Bot(p)
  BY DEF Busy, Bot
<1>3. Alone'
  BY <1>1, <1>2 DEF Alone
<1>4. InPhase'
  <2>1. ASSUME NEW p \in Procs, Busy(p)'
        PROVE  Phase(proc[p])'
    <3>1. PICK m \in ProcType : m = proc[p]
      BY <1>1
    <3>2. Phase(m) /\ m.bot \in Bots
      BY <1>1, <1>2, <2>1, <3>1 DEF InPhase, ProcType
    <3>3. Phase(m)'
      BY <3>2, SamePhase
    <3> QED
      BY <3>1, <3>3
  <2>2. Busy("boot")' => wanted'[Bot("boot")']
    BY <1>1, <1>2, ProcFacts DEF InPhase, SameView
  <2> QED
    BY <2>1, <2>2 DEF InPhase
<1>5. Resting'
  <2>1. \A b \in Bots : Free(b)' => Free(b)
    BY <1>2 DEF Free
  <2>2. \A b \in Bots : /\ Settled(b)' <=> Settled(b)
                        /\ Off(b)' <=> Off(b)
                        /\ DiskOn(b)' <=> DiskOn(b)
                        /\ DiskOff(b)' <=> DiskOff(b)
    BY SameViewKeeps
  <2> QED
    BY <1>1, <2>1, <2>2 DEF Resting
<1> QED
  BY <1>3, <1>4, <1>5

LEMMA OrderlyNext ==
  ASSUME BotAssumption, LifecycleIInv, OrderlyInv, [Next]_vars
  PROVE  OrderlyInv'
<1>1. ASSUME NEW i \in Instances, LoopExit(i)
      PROVE  OrderlyInv'
  <2>1. UNCHANGED <<proc, restoring, up, orderly, record, index, instances, wanted>>
        /\ inst[i].closed
    BY <1>1 DEF LoopExit, redis, outside, history
  <2>2. \A j \in Instances : /\ inst'[j].bot = inst[j].bot
                             /\ inst'[j].closed = inst[j].closed
                             /\ ~inst[j].closed => inst'[j] = inst[j]
    BY <1>1, ExitStep
  <2>3. \A b \in Bots : Trading(b)' = Trading(b)
    BY <2>2 DEF Trading, Looping
  <2> QED
    BY <2>1, <2>3, OrderlySame DEF SameView
<1>2. CASE MonitorReady \/ UNCHANGED vars
  <2>1. UNCHANGED <<proc, restoring, up, orderly, record, index, instances, inst, wanted>>
    BY <1>2 DEF MonitorReady, vars, redis, memory, outside, history
  <2> QED
    BY <2>1, SameMemory, OrderlySame DEF SameView
<1> QED
  BY <1>1, <1>2, OrderlyBeginNext, OrderlyStarting, OrderlyStopping, OrderlyWriteBack,
     OrderlyError, OrderlyRestoring, OrderlyCrash, OrderlyBoot
  DEF Next, Restoring

LEMMA OrderlyInit ==
  ASSUME BotAssumption, Init
  PROVE  OrderlyInv
<1>1. \A p \in Procs : ~Busy(p)
  BY DEF Init, Busy, Idle
<1>2. Alone /\ InPhase
  BY <1>1, ProcFacts DEF Alone, InPhase
<1>3. Resting
  BY DEF Init, Resting, Settled, Off, DiskOff, Trading, Looping, NoInstance
<1> QED
  BY <1>2, <1>3 DEF OrderlyInv

(* As long as operations do not overlap and no status write is torn, the   *)
(* record, the index, the map and the goroutines agree, whenever all is    *)
(* quiet, on which bots run.                                               *)
THEOREM RecordAndMapAgree == Spec => []StatusIsTrue
<1>1. Init => LifecycleIInv /\ OrderlyInv
  BY BotAssumption, LifecycleInit, OrderlyInit
<1>2. LifecycleIInv /\ OrderlyInv /\ [Next]_vars => (LifecycleIInv /\ OrderlyInv)'
  BY BotAssumption, LifecycleNext, OrderlyNext
<1>3. LifecycleIInv /\ OrderlyInv => StatusIsTrue
  <2> SUFFICES ASSUME LifecycleIInv, OrderlyInv, orderly, Quiet, NEW b \in Bots
               PROVE  /\ Trading(b) = {instances[b]} \ {None}
                      /\ record[b] = "running" <=> instances[b] # None
                      /\ record[b] = "running" <=> b \in index
    BY DEF StatusIsTrue
  <2>1. Free(b)
    BY DEF Quiet, Free, Busy
  <2>2. Settled(b)
    BY <2>1 DEF OrderlyInv, Resting
  <2> QED
    BY <2>2 DEF Settled, Off, On, DiskOn, DiskOff
<1> QED
  BY <1>1, <1>2, <1>3, PTL DEF Spec

(* No bot trades against the last command carried out for it, whatever     *)
(* failed starts, error stops, crashes and restores came in between.       *)
THEOREM OnlyWantedTrade == Spec => []TradesOnlyIfWanted
<1>1. Init => LifecycleIInv /\ OrderlyInv
  BY BotAssumption, LifecycleInit, OrderlyInit
<1>2. LifecycleIInv /\ OrderlyInv /\ [Next]_vars => (LifecycleIInv /\ OrderlyInv)'
  BY BotAssumption, LifecycleNext, OrderlyNext
<1>3. LifecycleIInv /\ OrderlyInv => TradesOnlyIfWanted
  <2> SUFFICES ASSUME LifecycleIInv, OrderlyInv, orderly, Quiet, NEW b \in Bots,
                      Trading(b) # {}
               PROVE  wanted[b]
    BY DEF TradesOnlyIfWanted
  <2>1. Free(b)
    BY DEF Quiet, Free, Busy
  <2>2. Settled(b)
    BY <2>1 DEF OrderlyInv, Resting
  <2> QED
    BY <2>2 DEF Settled, Off, DiskOn
<1> QED
  BY <1>1, <1>2, <1>3, PTL DEF Spec

-----------------------------------------------------------------------------
(* Who hears the tickers.                                                  *)

(* A process starts a bot after a step only if it did before, with the     *)
(* same instance, or gets one from StartSubscribe.                         *)
KeepsStarters ==
    \A q \in Procs : proc'[q].pc \in StarterPcs =>
        /\ proc[q].pc \in StarterPcs
        /\ proc'[q].bot = proc[q].bot /\ proc'[q].inst = proc[q].inst

LEMMA StarterMoves ==
  ASSUME BotAssumption, Types, NEW p \in Procs
  PROVE  /\ Finish(p) => KeepsStarters
         /\ \A pc \in PCs :
              Goto(p, pc) /\ (pc \in StarterPcs => proc[p].pc \in StarterPcs)
                  => KeepsStarters
         /\ \A s \in Statuses, pc \in PCs :
              RecordStatus(p, s, pc) /\ (pc \in StarterPcs => proc[p].pc \in StarterPcs)
                  => KeepsStarters
         /\ \A k \in ProcType : Become(p, k) /\ k.pc \notin StarterPcs => KeepsStarters
<1>1. ASSUME NEW k \in ProcType, Become(p, k),
             k.pc \in StarterPcs => /\ proc[p].pc \in StarterPcs
                                    /\ k.bot = proc[p].bot /\ k.inst = proc[p].inst
      PROVE  KeepsStarters
  BY <1>1, BecomeFacts DEF KeepsStarters
<1>2. "idle" \notin StarterPcs
  BY DEF StarterPcs
<1>3. Finish(p) => KeepsStarters
  BY <1>1, <1>2, GotoFacts
<1>4. ASSUME NEW pc \in PCs, Goto(p, pc), pc \in StarterPcs => proc[p].pc \in StarterPcs
      PROVE  KeepsStarters
  BY <1>1, <1>4, GotoFacts
<1>5. ASSUME NEW s \in Statuses, NEW pc \in PCs, RecordStatus(p, s, pc),
             pc \in StarterPcs => proc[p].pc \in StarterPcs
      PROVE  KeepsStarters
  BY <1>1, <1>5, RecordFacts DEF Bot
<1> QED
  BY <1>1, <1>3, <1>4, <1>5

LEMMA HearsKeep ==
  ASSUME HearsInv, orderly' => orderly, UNCHANGED handlers, KeepsStarters,
         \A b \in Bots : Trading(b)' \subseteq Trading(b)
  PROVE  HearsInv'
<1>1. \A b \in Bots : \A i : Hears(b, i)' <=> Hears(b, i)
  BY DEF Hears
<1>2. \A q \in Procs : proc'[q].pc \in StarterPcs =>
          proc[q].pc \in StarterPcs /\ Bot(q)' = Bot(q) /\ proc'[q].inst = proc[q].inst
  BY DEF KeepsStarters, Bot
<1> QED
  BY <1>1, <1>2 DEF HearsInv

LEMMA HearsDrop ==
  ASSUME BotAssumption, OneBotPerPair, LifecycleIInv, OrderlyInv, HearsInv,
         orderly' => orderly, NEW p \in Procs, NEW k \in ProcType, Become(p, k),
         Busy(p), NEW b \in Bots, b = Bot(p), k.pc \notin StarterPcs,
         handlers' = Unsubscribed(b), UNCHANGED inst, orderly => Trading(b) = {}
  PROVE  HearsInv'
<1> SUFFICES ASSUME orderly'
             PROVE  /\ \A c \in Bots : \A i \in Trading(c)' : Hears(c, i)'
                    /\ \A q \in Procs, c \in Bots, i \in Instances :
                          proc'[q].pc \in StarterPcs /\ proc'[q].bot = c
                          /\ proc'[q].inst = i => Hears(c, i)'
  BY DEF HearsInv, Bot
<1>1. \A c \in Bots : c # b => PairOf[c] # PairOf[b] /\ PairOf[c] \in Pairs
  BY ProcFacts DEF OneBotPerPair
<1>2. \A c \in Bots : c # b => handlers'[PairOf[c]] = handlers[PairOf[c]]
  BY <1>1, UnsubscribedLists DEF LifecycleIInv
<1>3. \A c \in Bots : \A i : c # b => (Hears(c, i)' <=> Hears(c, i))
  BY <1>2 DEF Hears
<1>4. \A c \in Bots : Trading(c)' = Trading(c)
  BY DEF Trading, Looping
<1>5. \A c \in Bots : \A i \in Trading(c)' : Hears(c, i)'
  BY <1>3, <1>4 DEF HearsInv
<1>6. ASSUME NEW q \in Procs, proc'[q].pc \in StarterPcs,
             NEW c \in Bots, NEW i \in Instances, proc'[q].bot = c, proc'[q].inst = i
      PROVE  Hears(c, i)'
  <2>1. q # p /\ proc'[q] = proc[q] /\ Busy(q) /\ Bot(q) \in Bots /\ Bot(q) = proc[q].bot
    BY <1>6, BecomeFacts DEF LifecycleIInv, Types, ProcType, Busy, StarterPcs, Bot
  <2>2. Bot(q) # b
    BY <2>1 DEF OrderlyInv, Alone
  <2>3. Hears(c, i)
    BY <1>6, <2>1 DEF HearsInv
  <2> QED
    BY <1>3, <1>6, <2>1, <2>2, <2>3
<1> QED
  BY <1>5, <1>6

(* Handlers are added at the end of a list.                                *)
LEMMA HearsNew ==
  ASSUME BotAssumption, LifecycleIInv, HearsInv, UNCHANGED orderly,
         NEW p \in Procs, NEW k \in ProcType, Become(p, k),
         NEW b \in Bots, b = Bot(p), k.bot = b, k.inst = made + 1,
         made + 1 \in Instances,
         handlers' = [handlers EXCEPT ![PairOf[b]] = Append(@, made + 1)],
         \A c \in Bots : Trading(c)' = Trading(c)
  PROVE  HearsInv'
<1> SUFFICES ASSUME orderly
             PROVE  /\ \A c \in Bots : \A i \in Trading(c)' : Hears(c, i)'
                    /\ \A q \in Procs, c \in Bots, i \in Instances :
                          proc'[q].pc \in StarterPcs /\ proc'[q].bot = c
                          /\ proc'[q].inst = i => Hears(c, i)'
  BY DEF HearsInv, Bot
<1>1. handlers \in [Pairs -> Seq(Instances)] /\ PairOf[b] \in Pairs
      /\ \A c \in Bots : PairOf[c] \in Pairs
  BY ProcFacts DEF LifecycleIInv, Types
<1>2. handlers'[PairOf[b]] = Append(handlers[PairOf[b]], made + 1)
      /\ \A pair \in Pairs : pair # PairOf[b] => handlers'[pair] = handlers[pair]
  BY <1>1
<1>3. ASSUME NEW c \in Bots, NEW i, Hears(c, i)
      PROVE  Hears(c, i)'
  <2>1. CASE PairOf[c] = PairOf[b]
    <3>1. PICK j \in DOMAIN handlers[PairOf[b]] : handlers[PairOf[b]][j] = i
      BY <1>3, <2>1 DEF Hears
    <3>2. j \in DOMAIN handlers'[PairOf[b]] /\ handlers'[PairOf[b]][j] = i
      BY <1>1, <1>2, <3>1
    <3> QED
      BY <2>1, <3>2 DEF Hears
  <2>2. CASE PairOf[c] # PairOf[b]
    BY <1>1, <1>2, <1>3, <2>2 DEF Hears
  <2> QED
    BY <2>1, <2>2
<1>4. \A c \in Bots : \A i \in Trading(c)' : Hears(c, i)'
  BY <1>3 DEF HearsInv
<1>5. ASSUME NEW q \in Procs, proc'[q].pc \in StarterPcs,
             NEW c \in Bots, NEW i \in Instances, proc'[q].bot = c, proc'[q].inst = i
      PROVE  Hears(c, i)'
  <2>1. CASE q = p
    <3>1. c = b /\ i = made + 1
      BY <1>5, <2>1, BecomeFacts DEF LifecycleIInv
    <3>2. /\ Len(handlers[PairOf[b]]) + 1 \in DOMAIN handlers'[PairOf[b]]
          /\ handlers'[PairOf[b]][Len(handlers[PairOf[b]]) + 1] = made + 1
      BY <1>1, <1>2
    <3> QED
      BY <3>1, <3>2 DEF Hears
  <2>2. CASE q # p
    <3>1. proc'[q] = proc[q] /\ Bot(q) \in Bots /\ Bot(q) = proc[q].bot
      BY <2>2, BecomeFacts DEF LifecycleIInv, Types, ProcType, Bot
    <3>2. Hears(c, i)
      BY <1>5, <3>1 DEF HearsInv
    <3> QED
      BY <1>3, <3>2
  <2> QED
    BY <2>1, <2>2
<1> QED
  BY <1>4, <1>5

LEMMA HearsStarting ==
  ASSUME BotAssumption, OneBotPerPair, LifecycleIInv, OrderlyInv, HearsInv,
         NEW p \in Requests \cup {"boot"}, Starting(p)
  PROVE  HearsInv'
<1> USE DEF redis, memory, outside, history
<1>0. p \in Procs /\ Types /\ Bot(p) \in Bots /\ proc[p] \in ProcType /\ Bot(p) = proc[p].bot
  BY ProcFacts DEF LifecycleIInv, Types, ProcType, Bot
<1>b. PICK b \in Bots : b = Bot(p)
  BY <1>0
<1>1. UNCHANGED inst => \A c \in Bots : Trading(c)' \subseteq Trading(c)
  BY DEF Trading, Looping
<1>2. CASE StartLookup(p)
  <2>1. UNCHANGED <<orderly, handlers, inst>> /\ (Goto(p, "subscribe") \/ Finish(p))
        /\ "subscribe" \in PCs /\ "subscribe" \notin StarterPcs
    BY <1>2 DEF StartLookup, PCs, OtherPcs, StarterPcs
  <2> QED
    BY <1>0, <1>1, <2>1, StarterMoves, HearsKeep
<1>3. CASE StartSubscribe(p)
  <2>1. CASE Finish(p) /\ UNCHANGED <<made, inst, handlers>>
    BY <1>0, <1>1, <1>3, <2>1, StarterMoves, HearsKeep DEF StartSubscribe
  <2>2. CASE /\ made < MaxInstances /\ made' = made + 1
             /\ inst' = [inst EXCEPT ![made + 1].bot = Bot(p)]
             /\ handlers' = [handlers EXCEPT ![PairOf[Bot(p)]] = Append(@, made + 1)]
             /\ proc' = [proc EXCEPT ![p].pc = "publish", ![p].inst = made + 1]
    <3> DEFINE n == made + 1
               next == [proc[p] EXCEPT !.pc = "publish", !.inst = n]
    <3>1. n \in Instances /\ n > made /\ "publish" \in PCs
      BY <1>0, <2>2 DEF Types, Instances, BotAssumption, PCs, HolderPcs, StarterPcs
    <3>2. Become(p, next)
      BY <1>0, <2>2, <3>1, Moves
    <3>3. next \in ProcType /\ next.inst = n /\ next.bot = b
      BY <1>0, <1>b, <3>1 DEF ProcType, Bot
    <3>4. PICK k \in ProcType : Become(p, k) /\ k.inst = n /\ k.bot = b
      BY <3>2, <3>3
    <3>5. inst[n].loop = "none"
      BY <3>1 DEF LifecycleIInv, Made, NoInstance
    <3> HIDE DEF next, n
    <3>6. inst'[n].loop = "none" /\ \A j \in Instances : j # n => inst'[j] = inst[j]
      <4>1. inst' = [inst EXCEPT ![n] = [inst[n] EXCEPT !.bot = Bot(p)]] /\ inst[n] \in InstType
        BY <1>0, <2>2, <3>1, InstMoves DEF n
      <4>2. [inst[n] EXCEPT !.bot = Bot(p)] \in InstType
            /\ [inst[n] EXCEPT !.bot = Bot(p)].loop = inst[n].loop
        BY <4>1, <1>0 DEF InstType
      <4> QED
        BY <1>0, <3>1, <3>5, <4>1, <4>2, InstChange
    <3>7. \A c \in Bots : Trading(c)' = Trading(c)
      BY <3>5, <3>6 DEF Trading, Looping
    <3>8. UNCHANGED orderly
      BY <1>3 DEF StartSubscribe
    <3> QED
      BY <1>0, <1>b, <2>2, <3>1, <3>4, <3>7, <3>8, HearsNew DEF n
  <2> QED
    BY <1>3, <2>1, <2>2 DEF StartSubscribe
<1>4. CASE StartRecord(p)
  <2>1. UNCHANGED <<orderly, inst>> /\ proc[p].pc = "publish"
    BY <1>4 DEF StartRecord, At
  <2>2. CASE RecordStatus(p, "running", "published") /\ UNCHANGED handlers
    <3>1. "running" \in Statuses /\ "published" \in PCs /\ proc[p].pc \in StarterPcs
      BY <2>1 DEF Statuses, PCs, HolderPcs, StarterPcs
    <3> QED
      BY <1>0, <1>1, <2>1, <2>2, <3>1, StarterMoves, HearsKeep
  <2>3. CASE handlers' = Unsubscribed(Bot(p)) /\ Finish(p)
    <3>1. PICK k \in ProcType : Become(p, k) /\ k.pc = "idle"
      BY <1>0, <2>3, GotoFacts
    <3>2. (orderly => Trading(b) = {}) /\ Busy(p) /\ k.pc \notin StarterPcs
      BY <1>0, <1>b, <1>4, <3>1, InItsPhase DEF StartRecord, Phase, Off, StarterPcs
    <3> QED
      BY <1>0, <1>b, <2>1, <2>3, <3>1, <3>2, HearsDrop
  <2> QED
    BY <1>4, <2>2, <2>3 DEF StartRecord
<1>5. CASE StartIndex(p)
  <2>1. /\ UNCHANGED <<orderly, handlers, inst>> /\ Goto(p, "insert") /\ "insert" \in PCs
        /\ proc[p].pc \in StarterPcs
    BY <1>5 DEF StartIndex, PCs, HolderPcs, StarterPcs, At
  <2> QED
    BY <1>0, <1>1, <2>1, StarterMoves, HearsKeep
<1>6. CASE StartInsert(p)
  <2>1. UNCHANGED orderly /\ Finish(p) /\ proc[p].pc = "insert"
    BY <1>6 DEF StartInsert, At
  <2>2. CASE handlers' = Unsubscribed(Bot(p)) /\ instances[Bot(p)] # None
    <3>1. orderly => instances[Bot(p)] = None
      BY <1>0, <1>6, InItsPhase DEF StartInsert, Phase, Off
    <3> QED
      BY <2>1, <2>2, <3>1 DEF HearsInv
  <2>3. CASE inst' = [inst EXCEPT ![proc[p].inst].loop = "running"] /\ UNCHANGED handlers
    <3> DEFINE i == proc[p].inst
    <3>1. i \in Instances /\ inst[i].bot = b
      <4>1. HasNew(proc[p])
        BY <1>0, <2>1 DEF LifecycleIInv, Owned, StarterPcs
      <4> QED
        BY <4>1, <1>0, <1>b DEF HasNew
    <3>2. orderly => Hears(b, i)
      BY <1>0, <1>b, <2>1, <3>1 DEF HearsInv, StarterPcs
    <3> HIDE DEF i
    <3>3. inst'[i].bot = b /\ \A j \in Instances : j # i => inst'[j] = inst[j]
      <4>1. inst' = [inst EXCEPT ![i] = [inst[i] EXCEPT !.loop = "running"]]
            /\ inst[i] \in InstType
        BY <1>0, <2>3, <3>1, InstMoves DEF i
      <4>2. /\ [inst[i] EXCEPT !.loop = "running"] \in InstType
            /\ [inst[i] EXCEPT !.loop = "running"].bot = inst[i].bot
        BY ONLY <4>1, InstFields
      <4> QED
        BY <1>0, <3>1, <4>1, <4>2, InstChange
    <3>4. \A c \in Bots : \A j \in Trading(c)' : j \in Trading(c) \/ (c = b /\ j = i)
      BY <3>3 DEF Trading, Looping
    <3>5. KeepsStarters
      BY <1>0, <2>1, StarterMoves
    <3>6. \A c \in Bots : \A j : Hears(c, j)' <=> Hears(c, j)
      BY <2>3 DEF Hears
    <3>7. orderly => \A c \in Bots : \A j \in Trading(c)' : Hears(c, j)'
      BY <3>2, <3>4, <3>6 DEF HearsInv
    <3>8. \A q \in Procs : proc'[q].pc \in StarterPcs =>
              proc[q].pc \in StarterPcs /\ Bot(q)' = Bot(q) /\ proc'[q].inst = proc[q].inst
      BY <3>5 DEF KeepsStarters, Bot
    <3> QED
      BY <2>1, <3>6, <3>7, <3>8 DEF HearsInv
  <2> QED
    BY <1>6, <2>2, <2>3 DEF StartInsert
<1> QED
  BY <1>2, <1>3, <1>4, <1>5, <1>6 DEF Starting

LEMMA HearsStopping ==
  ASSUME BotAssumption, OneBotPerPair, LifecycleIInv, OrderlyInv, HearsInv,
         NEW p \in Requests, Stopping(p) \/ Erase(p)
  PROVE  HearsInv'
<1> USE DEF redis, memory, outside, history
<1>0. p \in Procs /\ Types /\ Bot(p) \in Bots /\ proc[p] \in ProcType /\ Bot(p) = proc[p].bot
      /\ instances \in [Bots -> Instances \cup {None}]
  BY ProcFacts DEF LifecycleIInv, Types, ProcType, Bot
<1>b. PICK b \in Bots : b = Bot(p)
  BY <1>0
<1>1. UNCHANGED inst => \A c \in Bots : Trading(c)' \subseteq Trading(c)
  BY DEF Trading, Looping
<1>2. CASE StopFind(p)
  <2> DEFINE i == instances[Bot(p)]
             pc == IF i = None THEN "stopped" ELSE "close"
             next == [proc[p] EXCEPT !.pc = pc, !.inst = i]
  <2>1. i \in Instances \cup {None} /\ pc \in PCs /\ pc \notin StarterPcs
    BY <1>0 DEF PCs, OtherPcs, CloserPcs, StarterPcs
  <2>2. Become(p, next)
    BY <1>0, <1>2, <2>1, Moves DEF StopFind
  <2>3. next \in ProcType /\ next.pc = pc
    BY <1>0, <2>1 DEF ProcType
  <2> HIDE DEF next, pc, i
  <2>4. KeepsStarters
    BY <1>0, <2>1, <2>2, <2>3, StarterMoves
  <2> QED
    BY <1>1, <1>2, <2>4, HearsKeep DEF StopFind
<1>3. CASE StopClose(p)
  <2> DEFINE next == [proc[p] EXCEPT !.pc = "unsubscribe", !.inst = None]
  <2>1. Become(p, next)
    BY <1>0, <1>3, Moves DEF StopClose, PCs, HolderPcs
  <2>2. next \in ProcType /\ next.pc \notin StarterPcs
    BY <1>0 DEF ProcType, PCs, HolderPcs, StarterPcs
  <2> HIDE DEF next
  <2>3. KeepsStarters
    BY <1>0, <2>1, <2>2, StarterMoves
  <2>4. inst' = [inst EXCEPT ![proc[p].inst].closed = TRUE] /\ proc[p].inst \in Instances
    BY <1>0, <1>3 DEF StopClose, At, CloserPcs, LifecycleIInv, Owned, HasOld
  <2>5. \A c \in Bots : Trading(c)' \subseteq Trading(c)
    BY <1>0, <2>4, ClosedTrading
  <2> QED
    BY <1>3, <2>3, <2>5, HearsKeep DEF StopClose
<1>4. CASE StopUnsubscribe(p)
  <2>1. UNCHANGED <<orderly, inst>> /\ handlers' = Unsubscribed(b)
        /\ Goto(p, "delete") /\ "delete" \in PCs
    BY <1>b, <1>4 DEF StopUnsubscribe, PCs, OtherPcs
  <2>2. PICK k \in ProcType : Become(p, k) /\ k.pc = "delete"
    BY <1>0, <2>1, GotoFacts
  <2>3. (orderly => Trading(b) = {}) /\ Busy(p) /\ k.pc \notin StarterPcs
    BY <1>0, <1>b, <1>4, <2>2, InItsPhase DEF StopUnsubscribe, Phase, StarterPcs
  <2> QED
    BY <1>0, <1>b, <2>1, <2>2, <2>3, HearsDrop
<1>5. CASE StopDelete(p)
  BY <1>0, <1>1, <1>5, StarterMoves, HearsKeep DEF StopDelete, PCs, OtherPcs, StarterPcs
<1>6. CASE StopRecord(p)
  <2>1. UNCHANGED <<handlers, inst>> /\ (orderly' => orderly) /\ "stopped" \in Statuses
        /\ "unlisted" \in PCs /\ "unlisted" \notin StarterPcs
        /\ (RecordStatus(p, "stopped", "unlisted") \/ Finish(p))
    BY <1>6 DEF StopRecord, Statuses, PCs, OtherPcs, StarterPcs
  <2> QED
    BY <1>0, <1>1, <2>1, StarterMoves, HearsKeep
<1>7. CASE StopIndex(p)
  BY <1>0, <1>1, <1>7, StarterMoves, HearsKeep DEF StopIndex
<1>8. CASE Erase(p)
  BY <1>0, <1>1, <1>8, StarterMoves, HearsKeep DEF Erase
<1> QED
  BY <1>2, <1>3, <1>4, <1>5, <1>6, <1>7, <1>8 DEF Stopping

LEMMA HearsError ==
  ASSUME BotAssumption, OneBotPerPair, LifecycleIInv, OrderlyInv, HearsInv, ErrorStopping
  PROVE  HearsInv'
<1> USE DEF redis, memory, outside, history
<1> DEFINE p == "loop"
<1>0. p \in Procs /\ Types /\ Bot(p) \in Bots
  BY ProcFacts DEF LifecycleIInv, Types, ProcType, Bot
<1>b. PICK b \in Bots : b = Bot(p)
  BY <1>0
<1>1. UNCHANGED inst => \A c \in Bots : Trading(c)' \subseteq Trading(c)
  BY DEF Trading, Looping
<1>p. /\ {"errclose", "errrecord", "errindex", "errunsub", "errdelete"} \subseteq PCs
      /\ {"errclose", "errrecord", "errindex", "errunsub", "errdelete"} \cap StarterPcs = {}
  BY DEF PCs, OtherPcs, HolderPcs, CloserPcs, StarterPcs
<1>2. CASE ErrorCheck
  <2>1. PICK pc \in {"errrecord", "errclose"} : Goto(p, pc)
    BY <1>2 DEF ErrorCheck
  <2>2. KeepsStarters
    BY <1>0, <1>p, <2>1, StarterMoves
  <2> QED
    BY <1>1, <1>2, <2>2, HearsKeep DEF ErrorCheck
<1>3. CASE ErrorClose
  <2>1. KeepsStarters
    BY <1>0, <1>p, <1>3, StarterMoves DEF ErrorClose
  <2>2. inst' = [inst EXCEPT ![proc[p].inst].closed = TRUE] /\ proc[p].inst \in Instances
    BY <1>0, <1>3 DEF ErrorClose, At, CloserPcs, LifecycleIInv, Owned, HasOld
  <2>3. \A c \in Bots : Trading(c)' \subseteq Trading(c)
    BY <1>0, <2>2, ClosedTrading
  <2> QED
    BY <1>3, <2>1, <2>3, HearsKeep DEF ErrorClose
<1>4. CASE ErrorRecord
  <2>1. UNCHANGED <<handlers, inst>> /\ (orderly' => orderly) /\ "error" \in Statuses
        /\ (RecordStatus(p, "error", "errindex") \/ Goto(p, "errunsub"))
    BY <1>4 DEF ErrorRecord, Statuses
  <2>2. KeepsStarters
    BY <1>0, <1>p, <2>1, StarterMoves
  <2> QED
    BY <1>1, <2>1, <2>2, HearsKeep
<1>5. CASE ErrorIndex
  <2>1. KeepsStarters
    BY <1>0, <1>p, <1>5, StarterMoves DEF ErrorIndex
  <2> QED
    BY <1>1, <1>5, <2>1, HearsKeep DEF ErrorIndex
<1>6. CASE ErrorUnsubscribe
  <2>1. UNCHANGED <<orderly, inst>> /\ handlers' = Unsubscribed(b)
        /\ Goto(p, "errdelete") /\ "errdelete" \in PCs
    BY <1>b, <1>p, <1>6 DEF ErrorUnsubscribe
  <2>2. PICK k \in ProcType : Become(p, k) /\ k.pc = "errdelete"
    BY <1>0, <2>1, GotoFacts
  <2>3. (orderly => Trading(b) = {}) /\ Busy(p) /\ k.pc \notin StarterPcs
    BY <1>0, <1>b, <1>6, <2>2, InItsPhase DEF ErrorUnsubscribe, Phase, StarterPcs, Bot
  <2> HIDE DEF p
  <2> QED
    BY <1>0, <1>b, <2>1, <2>2, <2>3, HearsDrop
<1>7. CASE ErrorDelete
  BY <1>0, <1>1, <1>7, StarterMoves, HearsKeep DEF ErrorDelete
<1>8. CASE ClosePanic
  BY <1>8 DEF ClosePanic, HearsInv
<1> QED
  BY <1>2, <1>3, <1>4, <1>5, <1>6, <1>7, <1>8 DEF ErrorStopping

LEMMA HearsOther ==
  ASSUME BotAssumption, LifecycleIInv, HearsInv,
         \/ \E p \in Requests, b \in Bots : Request(p, b)
         \/ \E p \in Requests \cup {"loop"} : WriteBack(p)
         \/ \E i \in Instances : SaveBalance(i) \/ ErrorStop(i) \/ LoopExit(i)
         \/ Restoring \/ Crash \/ Boot \/ MonitorReady \/ UNCHANGED vars
  PROVE  HearsInv'
<1> USE DEF redis, memory, outside, history
<1>0. /\ Types /\ "boot" \in Procs /\ Requests \cup {"loop"} \subseteq Procs
      /\ inst \in [Instances -> InstType] /\ instances \in [Bots -> Instances \cup {None}]
      /\ record \in [Bots -> Statuses \cup {"deleted"}]
  BY ProcFacts DEF LifecycleIInv, Types
<1>1. UNCHANGED inst => \A c \in Bots : Trading(c)' \subseteq Trading(c)
  BY DEF Trading, Looping
<1>2. ASSUME NEW p \in Procs, NEW b, NEW pc \in BeginPcs, NEW i, NEW old,
             Begin(p, b, pc, i, old), UNCHANGED <<handlers, inst>>
      PROVE  HearsInv'
  <2>1. \A q \in Procs : q # p => proc'[q] = proc[q]
    BY <1>2 DEF Begin, LifecycleIInv, Types
  <2>2. proc'[p].pc \notin StarterPcs
    BY <1>2 DEF Begin, LifecycleIInv, Types, BeginPcs, StarterPcs
  <2>3. KeepsStarters /\ (orderly' => orderly)
    BY <1>2, <2>1, <2>2 DEF KeepsStarters, Begin
  <2> QED
    BY <1>1, <1>2, <2>3, HearsKeep
<1>3. ASSUME NEW p \in Requests, NEW b \in Bots, Request(p, b)
      PROVE  HearsInv'
  <2>1. \E pc \in BeginPcs : \E old : Begin(p, b, pc, None, old)
    BY <1>3 DEF Request, StartBot, StopBot, UpdateBot, DeleteBot, Ask, BeginPcs
  <2>2. UNCHANGED <<handlers, inst>>
    BY <1>3 DEF Request, StartBot, StopBot, UpdateBot, DeleteBot
  <2> QED
    BY <1>0, <1>2, <2>1, <2>2
<1>4. ASSUME NEW p \in Requests \cup {"loop"}, WriteBack(p)
      PROVE  HearsInv'
  BY <1>0, <1>1, <1>4, StarterMoves, HearsKeep DEF WriteBack
<1>5. ASSUME NEW i \in Instances, SaveBalance(i) \/ ErrorStop(i)
      PROVE  HearsInv'
  BY <1>0, <1>2, <1>5 DEF SaveBalance, ErrorStop, BeginPcs
<1>6. ASSUME NEW i \in Instances, LoopExit(i)
      PROVE  HearsInv'
  <2>1. \A j \in Instances : /\ inst'[j].bot = inst[j].bot
                             /\ inst'[j].closed = inst[j].closed
                             /\ ~inst[j].closed => inst'[j] = inst[j]
    BY <1>6, ExitStep
  <2>2. \A c \in Bots : Trading(c)' \subseteq Trading(c)
    BY <2>1 DEF Trading, Looping
  <2> QED
    BY <1>6, <2>2, HearsKeep DEF LoopExit, KeepsStarters
<1>7. ASSUME NEW b \in Bots, Restore(b)
      PROVE  HearsInv'
  BY <1>0, <1>2, <1>7 DEF Restore, BeginPcs
<1>8. CASE ResetRecord
  BY <1>0, <1>1, <1>8, StarterMoves, HearsKeep
  DEF ResetRecord, Statuses, PCs, OtherPcs, StarterPcs
<1>9. CASE ResetIndex
  BY <1>0, <1>1, <1>9, StarterMoves, HearsKeep
  DEF ResetIndex, PCs, OtherPcs, StarterPcs
<1>10. CASE Restart
  BY <1>0, <1>1, <1>10, StarterMoves, HearsKeep
  DEF Restart, PCs, OtherPcs, StarterPcs
<1>11. CASE Crash
  <2>1. /\ \A b \in Bots : Trading(b)' = {}
        /\ \A p \in Procs : proc'[p].pc \notin StarterPcs
    BY <1>11 DEF Crash, Die, Trading, Looping, NoInstance, Idle, StarterPcs
  <2> QED
    BY <2>1 DEF HearsInv
<1>12. CASE Boot \/ MonitorReady \/ UNCHANGED vars
  <2>1. UNCHANGED <<orderly, handlers, inst, proc>>
    BY <1>12 DEF Boot, MonitorReady, vars
  <2> QED
    BY <1>1, <2>1, HearsKeep DEF KeepsStarters
<1> QED
  BY <1>3, <1>4, <1>5, <1>6, <1>7, <1>8, <1>9, <1>10, <1>11, <1>12 DEF Restoring

(* With one bot for each pair, a bot that runs hears its tickers: nobody   *)
(* takes its handler away.  (With two on a pair Unsubscribe may remove the *)
(* other's, and this is not so.)                                           *)
THEOREM BotsHearTheirPair ==
  ASSUME OneBotPerPair
  PROVE  Spec => []RunningBotHearsTicks
<1> DEFINE Inv == LifecycleIInv /\ OrderlyInv /\ HearsInv
<1>1. Init => Inv
  <2>1. Init => HearsInv
    BY DEF Init, HearsInv, Trading, Looping, NoInstance, Idle, StarterPcs
  <2> QED
    BY <2>1, BotAssumption, LifecycleInit, OrderlyInit
<1>2. Inv /\ [Next]_vars => Inv'
  <2> SUFFICES ASSUME Inv, [Next]_vars PROVE HearsInv'
    BY BotAssumption, LifecycleNext, OrderlyNext
  <2>1. CASE UNCHANGED vars
    BY <2>1, BotAssumption, HearsOther
  <2>2. CASE Next
    BY <2>2, BotAssumption, OneBotPerPair, HearsStarting, HearsStopping, HearsError, HearsOther
    DEF Next
  <2> QED
    BY <2>1, <2>2
<1>3. Inv => RunningBotHearsTicks
  BY DEF HearsInv, RunningBotHearsTicks, Hears
<1> QED
  BY <1>1, <1>2, <1>3, PTL DEF Spec
=============================================================================
