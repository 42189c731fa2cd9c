------------------------ MODULE LockDisciplineProofs ------------------------
(***************************************************************************)
(* Theorems about the locks of the program, for any number of threads and  *)
(* any mutexes that the observers may take.                                *)
(***************************************************************************)
EXTENDS LockDiscipline, SequenceTheorems, TLAPS

(* The order in which the mutexes are taken: that of the market data       *)
(* handler, that of the orders, and any one of the others.                 *)
Rank(lock) ==
  IF lock = "dataMutex" THEN 1 ELSE IF lock = "orderMutex" THEN 2 ELSE 3

(* A stage takes mutexes in that order, and touches a member that has a    *)
(* mutex under it.                                                         *)
Disciplined(stage) ==
  /\ \A h \in stage.holding, k \in stage.taking : Rank(h) < Rank(k)
  /\ \A m \in stage.reads \cup stage.writes :
       m \in DOMAIN Guard => Guard[m] \in stage.holding \cup stage.taking

(* The stages of a block inside the critical sections "outer": it begins   *)
(* and goes on with these, and what it holds besides it has taken before.  *)
Block(stages, outer) ==
  /\ stages \in Seq(Stage)
  /\ stages # <<>> /\ stages[1].holding = outer
  /\ \A i \in 1 .. Len(stages) :
       Disciplined(stages[i]) /\ outer \subseteq stages[i].holding
  /\ \A i \in 1 .. Len(stages) - 1 :
       stages[i + 1].holding \subseteq stages[i].holding \cup stages[i].taking

-----------------------------------------------------------------------------
(* Blocks are put together from stages. *)
LEMMA StageType ==
  ASSUME NEW h \in SUBSET Locks, NEW k \in SUBSET Locks,
         NEW r \in SUBSET Members, NEW w \in SUBSET Members
  PROVE  [holding |-> h, taking |-> k, reads |-> r, writes |-> w] \in Stage
BY DEF Stage

LEMMA Pair ==
  ASSUME NEW a \in Stage, NEW b \in Stage
  PROVE  <<a>> \o <<b>> = <<a, b>>
<1> DEFINE c == <<a>>
           d == <<b>>
           e == <<a, b>>
           f == c \o d
<1>1. /\ c \in Seq(Stage) /\ Len(c) = 1 /\ c[1] = a
      /\ d \in Seq(Stage) /\ Len(d) = 1 /\ d[1] = b
      /\ e \in Seq(Stage) /\ Len(e) = 2 /\ e[1] = a /\ e[2] = b
  OBVIOUS
<1> HIDE DEF c, d, e
<1>2. f \in Seq(Stage) /\ Len(f) = 2 /\ f[1] = a /\ f[2] = b
  <2>1. /\ f \in Seq(Stage) /\ Len(f) = Len(c) + Len(d)
        /\ \A i \in 1 .. Len(c) + Len(d) :
             f[i] = IF i <= Len(c) THEN c[i] ELSE d[i - Len(c)]
    BY <1>1, ConcatProperties
  <2> HIDE DEF f
  <2>2. \A i \in 1 .. 2 : f[i] = IF i <= 1 THEN c[i] ELSE d[i - 1]
    BY <1>1, <2>1
  <2>3. f[1] = c[1] /\ f[2] = d[2 - 1] /\ 2 - 1 = 1
    BY <2>2
  <2> QED
    BY <1>1, <2>1, <2>3
<1> HIDE DEF f
<1>3. e = f
  <2>1. \A i \in 1 .. Len(e) : e[i] = f[i]
    BY <1>1, <1>2
  <2> QED
    BY <1>1, <1>2, <2>1, SeqEqual
<1> QED
  BY <1>3 DEF c, d, e, f

LEMMA Triple ==
  ASSUME NEW a \in Stage, NEW b \in Stage, NEW z \in Stage
  PROVE  <<a>> \o (<<b>> \o <<z>>) = <<a, b, z>>
<1> DEFINE c == <<a>>
           d == <<b, z>>
           e == <<a, b, z>>
           f == c \o d
<1>1. /\ c \in Seq(Stage) /\ Len(c) = 1 /\ c[1] = a
      /\ d \in Seq(Stage) /\ Len(d) = 2 /\ d[1] = b /\ d[2] = z
      /\ e \in Seq(Stage) /\ Len(e) = 3 /\ e[1] = a /\ e[2] = b /\ e[3] = z
  OBVIOUS
<1>2. <<b>> \o <<z>> = d
  BY Pair
<1> HIDE DEF c, d, e
<1>3. f \in Seq(Stage) /\ Len(f) = 3 /\ f[1] = a /\ f[2] = b /\ f[3] = z
  <2>1. /\ f \in Seq(Stage) /\ Len(f) = Len(c) + Len(d)
        /\ \A i \in 1 .. Len(c) + Len(d) :
             f[i] = IF i <= Len(c) THEN c[i] ELSE d[i - Len(c)]
    BY <1>1, ConcatProperties
  <2> HIDE DEF f
  <2>2. \A i \in 1 .. 3 : f[i] = IF i <= 1 THEN c[i] ELSE d[i - 1]
    BY <1>1, <2>1
  <2>3. f[1] = c[1] /\ f[2] = d[2 - 1] /\ f[3] = d[3 - 1]
    BY <2>2
  <2>4. 2 - 1 = 1 /\ 3 - 1 = 2
    OBVIOUS
  <2> QED
    BY <1>1, <2>1, <2>3, <2>4
<1> HIDE DEF f
<1>4. e = f
  <2>1. \A i \in 1 .. Len(e) : e[i] = f[i]
    BY <1>1, <1>3
  <2> QED
    BY <1>1, <1>3, <2>1, SeqEqual
<1> QED
  BY <1>2, <1>4 DEF c, e, f

LEMMA OneStage ==
  ASSUME NEW s \in Stage, Disciplined(s)
  PROVE  Block(<<s>>, s.holding)
BY DEF Block

LEMMA Followed ==
  ASSUME NEW c, NEW d, NEW outer, Block(c, outer), Block(d, outer)
  PROVE  Block(c \o d, outer)
<1> DEFINE e == c \o d
           m == Len(c)
           n == Len(d)
<1>1. c \in Seq(Stage) /\ d \in Seq(Stage) /\ m \in Nat \ {0} /\ n \in Nat \ {0}
  BY EmptySeq, LenProperties DEF Block
<1>2. e \in Seq(Stage) /\ Len(e) = m + n
  BY <1>1, ConcatProperties
<1>3. \A i \in 1 .. m + n : e[i] = IF i <= m THEN c[i] ELSE d[i - m]
  BY <1>1, ConcatProperties
<1>4. /\ c[1].holding = outer
      /\ \A i \in 1 .. m : Disciplined(c[i]) /\ outer \subseteq c[i].holding
      /\ \A i \in 1 .. m - 1 : c[i + 1].holding \subseteq c[i].holding \cup c[i].taking
  BY DEF Block
<1>5. /\ d[1].holding = outer
      /\ \A i \in 1 .. n : Disciplined(d[i]) /\ outer \subseteq d[i].holding
      /\ \A i \in 1 .. n - 1 : d[i + 1].holding \subseteq d[i].holding \cup d[i].taking
  BY DEF Block
<1> HIDE DEF e, m, n
<1>6. \A i \in 1 .. m : e[i] = c[i]
  BY <1>1, <1>3
<1>7. \A i \in m + 1 .. m + n : i - m \in 1 .. n /\ e[i] = d[i - m]
  BY <1>1, <1>3
<1>8. \A i \in 1 .. Len(e) : Disciplined(e[i]) /\ outer \subseteq e[i].holding
  <2> SUFFICES ASSUME NEW i \in 1 .. m + n
               PROVE  Disciplined(e[i]) /\ outer \subseteq e[i].holding
    BY <1>2
  <2>1. CASE i \in 1 .. m
    BY <1>4, <1>6, <2>1
  <2>2. CASE i \in m + 1 .. m + n
    BY <1>5, <1>7, <2>2
  <2> QED
    BY <1>1, <2>1, <2>2
<1>9. e # <<>> /\ e[1].holding = outer
  BY <1>1, <1>2, <1>4, <1>6
<1>10. ASSUME NEW i \in 1 .. Len(e) - 1
       PROVE  e[i + 1].holding \subseteq e[i].holding \cup e[i].taking
  <2>1. CASE i < m
    <3>1. i \in 1 .. m - 1 /\ i \in 1 .. m /\ i + 1 \in 1 .. m
      BY <1>1, <1>2, <2>1
    <3> QED
      BY <1>4, <1>6, <3>1
  <2>2. CASE i = m
    <3>1. i \in 1 .. m /\ i + 1 \in m + 1 .. m + n /\ (i + 1) - m = 1
      BY <1>1, <1>2, <2>2
    <3>2. e[i + 1] = d[1] /\ e[i] = c[i]
      BY <1>6, <1>7, <3>1
    <3> QED
      BY <1>4, <1>5, <3>1, <3>2
  <2>3. CASE i > m
    <3> DEFINE j == i - m
    <3>1. /\ i \in m + 1 .. m + n /\ i + 1 \in m + 1 .. m + n
          /\ (i + 1) - m = j + 1 /\ j \in 1 .. n - 1
      BY <1>1, <1>2, <2>3
    <3>2. e[i] = d[j]
      BY <1>7, <3>1
    <3> HIDE DEF j
    <3>3. e[i + 1] = d[j + 1]
      BY <1>7, <3>1
    <3> QED
      BY <1>5, <3>1, <3>2, <3>3
  <2> QED
    BY <1>1, <1>2, <2>1, <2>2, <2>3
<1> QED
  BY <1>2, <1>8, <1>9, <1>10 DEF Block, e

(* A stage that is not left until the block inside it is over. *)
LEMMA Around ==
  ASSUME NEW s \in Stage, Disciplined(s), NEW d,
         Block(d, s.holding \cup s.taking)
  PROVE  Block(<<s>> \o d, s.holding)
<1> DEFINE e == <<s>> \o d
<1>1. d \in Seq(Stage) /\ Len(d) >= 1
  BY EmptySeq, LenProperties DEF Block
<1>2. <<s>> \in Seq(Stage) /\ Len(<<s>>) = 1
  OBVIOUS
<1>3. /\ e \in Seq(Stage) /\ Len(e) = 1 + Len(d)
      /\ e[1] = s
      /\ \A i \in 2 .. 1 + Len(d) : e[i] = d[i - 1]
  BY <1>1, <1>2, ConcatProperties
<1> HIDE DEF e
<1>4. \A i \in 1 .. Len(e) : Disciplined(e[i]) /\ s.holding \subseteq e[i].holding
  <2> TAKE i \in 1 .. Len(e)
  <2>1. CASE i = 1
    BY <1>3, <2>1
  <2>2. CASE i # 1
    <3>1. i - 1 \in 1 .. Len(d) /\ e[i] = d[i - 1]
      BY <1>1, <1>3, <2>2
    <3> QED
      BY <3>1 DEF Block
  <2> QED
    BY <2>1, <2>2
<1>5. ASSUME NEW i \in 1 .. Len(e) - 1
      PROVE  e[i + 1].holding \subseteq e[i].holding \cup e[i].taking
  <2>1. CASE i = 1
    <3>1. e[i + 1] = d[1] /\ e[i] = s
      BY <1>1, <1>3, <2>1
    <3> QED
      BY <3>1 DEF Block
  <2>2. CASE i # 1
    <3> DEFINE j == i - 1
    <3>1. j \in 1 .. Len(d) - 1 /\ e[i] = d[j] /\ e[i + 1] = d[j + 1]
      BY <1>1, <1>3, <2>2
    <3> HIDE DEF j
    <3> QED
      BY <3>1 DEF Block
  <2> QED
    BY <2>1, <2>2
<1>6. e # <<>> /\ e[1].holding = s.holding
  BY <1>1, <1>3
<1> QED
  BY <1>3, <1>4, <1>5, <1>6 DEF Block, e
-----------------------------------------------------------------------------
(* Every method of the program is a block that begins with nothing held.   *)
LEMMA ReadingBlock ==
  ASSUME NEW outer \in SUBSET Locks, NEW lock \in Locks, NEW member \in Members,
         \A h \in outer : Rank(h) < Rank(lock),
         member \in DOMAIN Guard => Guard[member] = lock
  PROVE  Block(<<Reading(outer, lock, member)>>, outer)
<1> DEFINE s == Reading(outer, lock, member)
<1>1. s \in Stage /\ s.holding = outer
  BY StageType DEF Reading
<1>2. Disciplined(s)
  BY DEF Reading, Disciplined
<1> HIDE DEF s
<1>3. Block(<<s>>, s.holding)
  BY <1>1, <1>2, OneStage
<1> QED
  BY <1>1, <1>3 DEF s

LEMMA WritingStage ==
  ASSUME NEW outer \in SUBSET Locks, NEW lock \in Locks, NEW member \in Members,
         \A h \in outer : Rank(h) < Rank(lock),
         member \in DOMAIN Guard => Guard[member] = lock
  PROVE  LET s == Writing(outer, lock, member)
         IN  /\ s \in Stage /\ s.holding = outer /\ s.taking = {lock}
             /\ Disciplined(s)
BY StageType DEF Writing, Disciplined

LEMMA WritingBlock ==
  ASSUME NEW outer \in SUBSET Locks, NEW lock \in Locks, NEW member \in Members,
         \A h \in outer : Rank(h) < Rank(lock),
         member \in DOMAIN Guard => Guard[member] = lock
  PROVE  Block(<<Writing(outer, lock, member)>>, outer)
<1> DEFINE s == Writing(outer, lock, member)
<1>1. s \in Stage /\ s.holding = outer /\ Disciplined(s)
  BY WritingStage
<1> HIDE DEF s
<1>2. Block(<<s>>, s.holding)
  BY <1>1, OneStage
<1> QED
  BY <1>1, <1>2 DEF s

LEMMA UnlockedBlock ==
  ASSUME NEW outer \in SUBSET Locks, NEW r \in SUBSET Unprotected,
         NEW w \in SUBSET Unprotected
  PROVE  Block(<<Unlocked(outer, r, w)>>, outer)
<1> DEFINE s == Unlocked(outer, r, w)
<1>1. s \in Stage /\ s.holding = outer
  BY StageType DEF Unlocked, Members
<1>2. Disciplined(s)
  BY DEF Unlocked, Disciplined, Unprotected, Guard
<1> HIDE DEF s
<1>3. Block(<<s>>, s.holding)
  BY <1>1, <1>2, OneStage
<1> QED
  BY <1>1, <1>3 DEF s

LEMMA Names ==
  /\ {"dataMutex", "orderMutex", "queueMutex", "tradeMutex", "statsMutex",
      "positionMutex", "pnlMutex"} = Locks
  /\ {"symbolDataMap", "orders", "executionQueue", "trades", "stats",
      "positions", "totalRealizedPnL"} = DOMAIN Guard
  /\ DOMAIN Guard \subseteq Members /\ Unprotected \subseteq Members
  /\ Guard["symbolDataMap"] = "dataMutex" /\ Guard["orders"] = "orderMutex"
  /\ Guard["executionQueue"] = "queueMutex" /\ Guard["trades"] = "tradeMutex"
  /\ Guard["stats"] = "statsMutex" /\ Guard["positions"] = "positionMutex"
  /\ Guard["totalRealizedPnL"] = "pnlMutex"
BY DEF Locks, Guard, Members

(* A change of an order, inside a publication or not. *)
LEMMA ChangeOrderBlock ==
  ASSUME NEW outer \in SUBSET {"dataMutex"}, NEW taken \in Takings
  PROVE  Block(changeOrder(outer, taken), outer)
<1> DEFINE held == outer \cup {"orderMutex"}
           s1 == Writing(outer, "orderMutex", "orders")
           s2 == Unlocked(held, {"callbacks"}, {})
           s3 == [holding |-> held, taking |-> taken,
                  reads |-> {"callbacks"}, writes |-> {}]
<1>1. outer \in SUBSET Locks /\ held \in SUBSET Locks
  BY Names
<1>2. taken \in SUBSET Locks /\ \A lock \in taken : Rank(lock) = 3
  BY ObserverAssumption DEF ObserverAssumption, Takings, Rank
<1>3. /\ s1 \in Stage /\ s1.holding = outer /\ s1.taking = {"orderMutex"}
      /\ Disciplined(s1)
  BY <1>1, Names, WritingStage DEF Rank
<1>4. Block(<<s2>>, held)
  BY <1>1, UnlockedBlock DEF Unprotected
<1>5. Block(<<s3>>, held)
  <2>1. s3 \in Stage /\ s3.holding = held
    BY <1>1, <1>2, Names, StageType DEF Unprotected
  <2>2. Disciplined(s3)
    BY <1>2 DEF Disciplined, Rank, Guard
  <2> HIDE DEF s3
  <2> QED
    BY <2>1, <2>2, OneStage
<1> HIDE DEF s1, s2, s3
<1>6. Block(<<s2>> \o <<s3>>, held)
  BY <1>4, <1>5, Followed
<1>7. Block(<<s1>> \o (<<s2>> \o <<s3>>), outer)
  BY <1>3, <1>6, Around DEF held
<1>8. s2 \in Stage /\ s3 \in Stage
  BY <1>1, <1>2, Names, StageType DEF s2, s3, Unlocked, Unprotected
<1>9. <<s1>> \o (<<s2>> \o <<s3>>) = <<s1, s2, s3>>
  BY <1>3, <1>8, Triple
<1> QED
  BY <1>7, <1>9 DEF s1, s2, s3, changeOrder

LEMMA MethodsAreBlocks ==
  ASSUME NEW method \in Methods
  PROVE  Block(method, {})
<1> {} \in SUBSET Locks
  OBVIOUS
<1>1. /\ Block(orderQueries, {}) /\ Block(tradeQueries, {})
      /\ Block(statsQueries, {}) /\ Block(marketQueries, {})
      /\ Block(positionQueries, {}) /\ Block(getLatestTick({}), {})
  BY Names, ReadingBlock
  DEF orderQueries, tradeQueries, statsQueries, marketQueries, positionQueries,
      getLatestTick
<1>2. /\ Block(simulateTrade({}), {}) /\ Block(submitOrder({}), {})
      /\ Block(recordLatency({}), {}) /\ Block(publishQuietly, {})
      /\ Block(subscriptions, {}) /\ Block(updatePosition, {})
  BY Names, WritingBlock
  DEF simulateTrade, submitOrder, recordLatency, publishQuietly, subscriptions,
      updatePosition
<1>3. /\ Block(registerOrderCallback, {}) /\ Block(startOrStop, {})
      /\ Block(setRiskLimits, {}) /\ Block(getRiskLimits, {})
  BY UnlockedBlock
  DEF registerOrderCallback, startOrStop, setRiskLimits, getRiskLimits, Unprotected
<1> DEFINE p == Reading({}, "pnlMutex", "totalRealizedPnL")
           q == Reading({}, "positionMutex", "positions")
           r == Unlocked({}, {"limits"}, {})
<1>4. Block(<<p>>, {}) /\ Block(<<q>>, {}) /\ Block(<<r>>, {})
  BY Names, ReadingBlock, UnlockedBlock DEF Unprotected
<1>5. p \in Stage /\ q \in Stage /\ r \in Stage
  BY Names, StageType DEF Reading, Unlocked, Unprotected
<1> HIDE DEF p, q, r
<1>6. Block(getTotalPnL, {})
  <2>1. <<p>> \o <<q>> = <<p, q>>
    BY <1>5, Pair
  <2> QED
    BY <1>4, <2>1, Followed DEF getTotalPnL, p, q
<1>7. Block(canOpenPosition, {})
  <2>1. Block(<<q>> \o <<r>>, {})
    BY <1>4, Followed
  <2>2. Block(<<r>> \o (<<q>> \o <<r>>), {})
    BY <1>4, <2>1, Followed
  <2>3. <<r>> \o (<<q>> \o <<r>>) = <<r, q, r>>
    BY <1>5, Triple
  <2> QED
    BY <2>2, <2>3 DEF canOpenPosition, q, r
<1>8. ASSUME NEW taken \in Takings
      PROVE  /\ Block(changeOrder({}, taken), {})
             /\ Block(executionLoop(taken), {})
             /\ Block(publishTick(taken), {})
  <2>1. Block(changeOrder({}, taken), {}) /\ Block(changeOrder({"dataMutex"}, taken), {"dataMutex"})
    BY ChangeOrderBlock
  <2>2. Block(executeOrder({}, taken), {})
    BY <1>1, <1>2, <2>1, Followed DEF executeOrder
  <2>3. Block(<<Writing({}, "queueMutex", "executionQueue")>>, {})
    BY Names, WritingBlock
  <2>4. Block(executionLoop(taken), {})
    BY <2>2, <2>3, Followed DEF executionLoop
  <2>5. Block(submitOrder({"dataMutex"}), {"dataMutex"})
    BY Names, WritingBlock DEF submitOrder, Rank
  <2>6. Block(onTick({"dataMutex"}, taken), {"dataMutex"})
    BY <2>1, <2>5, Followed DEF onTick
  <2> DEFINE s == Writing({}, "dataMutex", "symbolDataMap")
  <2>7. s \in Stage /\ s.holding = {} /\ s.taking = {"dataMutex"} /\ Disciplined(s)
    BY Names, WritingStage
  <2> HIDE DEF s
  <2>8. Block(<<s>> \o onTick({"dataMutex"}, taken), {})
    BY <2>6, <2>7, Around
  <2> QED
    BY <2>1, <2>4, <2>8 DEF publishTick, s
<1> QED
  BY <1>1, <1>2, <1>3, <1>6, <1>7, <1>8 DEF Methods
-----------------------------------------------------------------------------
(* What is left of a block, and a step through it. *)
Remains(stages) ==
  /\ stages \in Seq(Stage)
  /\ \A i \in 1 .. Len(stages) : Disciplined(stages[i])
  /\ \A i \in 1 .. Len(stages) - 1 :
       stages[i + 1].holding \subseteq stages[i].holding \cup stages[i].taking

LEMMA TailRemains ==
  ASSUME NEW c, Remains(c), c # <<>>
  PROVE  /\ Remains(Tail(c))
         /\ Tail(c) # <<>> =>
              Head(Tail(c)).holding \subseteq Head(c).holding \cup Head(c).taking
<1> DEFINE d == Tail(c)
           n == Len(c)
<1>1. c \in Seq(Stage) /\ n \in Nat \ {0}
  BY EmptySeq, LenProperties DEF Remains
<1>2. /\ Head(c) = c[1] /\ d \in Seq(Stage) /\ Len(d) = n - 1
      /\ \A i \in 1 .. n - 1 : d[i] = c[i + 1]
  BY <1>1, HeadTailProperties DEF Remains
<1>3. /\ \A i \in 1 .. n : Disciplined(c[i])
      /\ \A i \in 1 .. n - 1 : c[i + 1].holding \subseteq c[i].holding \cup c[i].taking
  BY DEF Remains
<1> HIDE DEF d, n
<1>4. \A i \in 1 .. Len(d) : Disciplined(d[i])
  BY <1>1, <1>2, <1>3
<1>5. ASSUME NEW i \in 1 .. Len(d) - 1
      PROVE  d[i + 1].holding \subseteq d[i].holding \cup d[i].taking
  <2> DEFINE j == i + 1
  <2>1. i \in 1 .. n - 1 /\ j \in 1 .. n - 1
    BY <1>1, <1>2
  <2>2. d[i] = c[j] /\ d[j] = c[j + 1]
    BY <1>2, <2>1
  <2> HIDE DEF j
  <2>3. d[j].holding \subseteq d[i].holding \cup d[i].taking
    BY <1>3, <2>1, <2>2
  <2> QED
    BY <2>3 DEF j
<1>6. ASSUME d # <<>>
      PROVE  Head(d).holding \subseteq Head(c).holding \cup Head(c).taking
  <2>1. Len(d) \in Nat \ {0} /\ Head(d) = d[1]
    BY <1>2, <1>6, EmptySeq, LenProperties, HeadTailProperties
  <2>2. 1 \in 1 .. n - 1 /\ 1 + 1 = 2
    BY <1>1, <1>2, <2>1
  <2>3. d[1] = c[2] /\ c[2].holding \subseteq c[1].holding \cup c[1].taking
    BY <1>2, <1>3, <2>2
  <2> QED
    BY <1>2, <2>1, <2>3
<1> QED
  BY <1>2, <1>4, <1>5, <1>6 DEF Remains, d

LEMMA HeadRemains ==
  ASSUME NEW c, Remains(c), c # <<>>
  PROVE  Head(c) \in Stage /\ Disciplined(Head(c))
<1>1. c \in Seq(Stage) /\ Len(c) \in Nat \ {0} /\ Head(c) = c[1]
  BY EmptySeq, LenProperties, HeadTailProperties DEF Remains
<1> QED
  BY <1>1 DEF Remains

-----------------------------------------------------------------------------
(* The inductive invariant: every thread is on its way through a method,   *)
(* and no mutex is held twice.                                             *)
Exclusive == \A t, u \in Threads : t # u => Held(t) \cap Held(u) = {}

LocksInv ==
  /\ calls \in [Threads -> Seq(Stage)]
  /\ inside \in [Threads -> BOOLEAN]
  /\ \A t \in Threads : Remains(calls[t]) /\ (inside[t] => Busy(t))
  /\ Exclusive

(* A step of one thread that takes nothing another one holds. *)
LEMMA OneMoves ==
  ASSUME LocksInv, NEW t \in Threads,
         NEW c \in Seq(Stage), Remains(c), NEW b \in BOOLEAN, b => c # <<>>,
         calls' = [calls EXCEPT ![t] = c],
         inside' = [inside EXCEPT ![t] = b],
         \A u \in Threads \ {t} : Held(t)' \cap Held(u) = {}
  PROVE  LocksInv'
<1>1. calls' \in [Threads -> Seq(Stage)] /\ inside' \in [Threads -> BOOLEAN]
  BY DEF LocksInv
<1>2. \A u \in Threads : Remains(calls'[u]) /\ (inside'[u] => calls'[u] # <<>>)
  BY DEF LocksInv, Busy
<1>3. \A u \in Threads \ {t} : Held(u)' = Held(u)
  BY DEF LocksInv, Held, Busy
<1>4. \A u, v \in Threads : u # v => Held(u) \cap Held(v) = {}
  BY DEF LocksInv, Exclusive
<1>5. ASSUME NEW u \in Threads, NEW v \in Threads, u # v
      PROVE  Held(u)' \cap Held(v)' = {}
  <2>1. CASE u = t
    <3>1. Held(v)' = Held(v) /\ Held(t)' \cap Held(v) = {}
      BY <1>3, <1>5, <2>1
    <3> QED
      BY <2>1, <3>1
  <2>2. CASE v = t
    <3>1. Held(u)' = Held(u) /\ Held(t)' \cap Held(u) = {}
      BY <1>3, <1>5, <2>2
    <3> QED
      BY <2>2, <3>1
  <2>3. CASE u # t /\ v # t
    BY <1>3, <1>4, <1>5, <2>3
  <2> QED
    BY <2>1, <2>2, <2>3
<1>6. Exclusive'
  BY <1>5 DEF Exclusive
<1> QED
  BY <1>1, <1>2, <1>6 DEF LocksInv, Busy

LEMMA CallKeeps ==
  ASSUME LocksInv, NEW t \in Threads, Call(t)
  PROVE  LocksInv'
<1>1. PICK method \in Methods : calls' = [calls EXCEPT ![t] = method]
  BY DEF Call
<1>2. Block(method, {})
  BY MethodsAreBlocks
<1>3. method \in Seq(Stage) /\ Remains(method) /\ Head(method).holding = {}
  <2>1. method \in Seq(Stage) /\ method # <<>> /\ method[1].holding = {}
    BY <1>2 DEF Block
  <2>2. Head(method) = method[1]
    BY <2>1, HeadTailProperties
  <2> QED
    BY <1>2, <2>1, <2>2 DEF Block, Remains
<1>4. ~inside[t] /\ inside' = [inside EXCEPT ![t] = FALSE]
  BY DEF Call, LocksInv
<1>5. Held(t)' = {}
  BY <1>1, <1>3, <1>4 DEF Held, LocksInv
<1> QED
  BY <1>1, <1>3, <1>4, <1>5, OneMoves

LEMMA EnterKeeps ==
  ASSUME LocksInv, NEW t \in Threads, Enter(t)
  PROVE  LocksInv'
<1>1. /\ calls[t] \in Seq(Stage) /\ Remains(calls[t]) /\ calls[t] # <<>>
      /\ calls' = [calls EXCEPT ![t] = calls[t]]
      /\ inside' = [inside EXCEPT ![t] = TRUE]
  BY DEF Enter, LocksInv, Busy
<1>2. Held(t)' \subseteq Held(t) \cup Head(calls[t]).taking
  BY <1>1 DEF Held, Busy, Enter, LocksInv
<1>3. \A u \in Threads \ {t} : Held(t)' \cap Held(u) = {}
  BY <1>2 DEF LocksInv, Exclusive, Enter
<1> QED
  BY <1>1, <1>3, OneMoves

LEMMA LeaveKeeps ==
  ASSUME LocksInv, NEW t \in Threads, Leave(t)
  PROVE  LocksInv'
<1> DEFINE c == Tail(calls[t])
<1>1. /\ calls[t] # <<>> /\ Remains(calls[t]) /\ inside[t]
      /\ calls' = [calls EXCEPT ![t] = c]
      /\ inside' = [inside EXCEPT ![t] = FALSE]
  BY DEF Leave, LocksInv, Busy
<1>2. /\ Remains(c)
      /\ c # <<>> =>
           Head(c).holding \subseteq Head(calls[t]).holding \cup Head(calls[t]).taking
  BY <1>1, TailRemains
<1>3. c \in Seq(Stage)
  BY <1>2 DEF Remains
<1> HIDE DEF c
<1>4. Held(t)' \subseteq Held(t)
  BY <1>1, <1>2 DEF Held, Busy, LocksInv
<1>5. \A u \in Threads \ {t} : Held(t)' \cap Held(u) = {}
  BY <1>4 DEF LocksInv, Exclusive
<1> QED
  BY <1>1, <1>2, <1>3, <1>5, OneMoves

LEMMA LocksInductive == Spec => []LocksInv
<1>1. Init => LocksInv
  <2>1. Remains(<<>>)
    BY DEF Remains
  <2> QED
    BY <2>1 DEF Init, LocksInv, Exclusive, Held, Busy
<1>2. LocksInv /\ [Next]_lockVars => LocksInv'
  <2> SUFFICES ASSUME LocksInv, [Next]_lockVars
               PROVE  LocksInv'
    OBVIOUS
  <2>1. CASE Next
    BY <2>1, CallKeeps, EnterKeeps, LeaveKeeps DEF Next
  <2>2. CASE UNCHANGED lockVars
    BY <2>2 DEF lockVars, LocksInv, Exclusive, Held, Busy
  <2> QED
    BY <2>1, <2>2
<1> QED
  BY <1>1, <1>2, PTL DEF Spec

-----------------------------------------------------------------------------
(* However calls nest, a mutex is held by one thread at a time. *)
THEOREM LocksTypeCorrect == Spec => []LocksTypeOK
<1>1. LocksInv => LocksTypeOK
  BY DEF LocksInv, LocksTypeOK, Exclusive
<1> QED
  BY <1>1, LocksInductive, PTL

(* The three members without a mutex are the only ones that two threads    *)
(* can be at while one of them writes.                                     *)
THEOREM DataRacesConfined == Spec => []RacesOnlyWhereUnprotected
<1>1. LocksInv => RacesOnlyWhereUnprotected
  <2> SUFFICES ASSUME LocksInv, NEW m \in Races
               PROVE  m \in Unprotected
    BY DEF RacesOnlyWhereUnprotected
  <2>1. PICK t \in Threads, u \in Threads :
          /\ t # u /\ InStage(t) /\ InStage(u)
          /\ m \in Head(calls[t]).writes
          /\ m \in Head(calls[u]).reads \cup Head(calls[u]).writes
    BY DEF Races, Touches
  <2> DEFINE a == Head(calls[t])
             b == Head(calls[u])
  <2>2. a \in Stage /\ b \in Stage /\ Disciplined(a) /\ Disciplined(b)
    BY <2>1, HeadRemains DEF LocksInv, InStage, Busy
  <2>3. Held(t) = a.holding \cup a.taking /\ Held(u) = b.holding \cup b.taking
    BY <2>1 DEF Held, InStage
  <2>4. Held(t) \cap Held(u) = {}
    BY <2>1 DEF LocksInv, Exclusive
  <2> HIDE DEF a, b
  <2>5. m \in a.writes /\ m \in b.reads \cup b.writes
    BY <2>1 DEF a, b
  <2>6. m \notin DOMAIN Guard
    BY <2>2, <2>3, <2>4, <2>5 DEF Disciplined
  <2>7. m \in Members
    BY <2>2, <2>5 DEF Stage
  <2> QED
    BY <2>6, <2>7 DEF Members
<1> QED
  BY <1>1, LocksInductive, PTL

(* A thread that waits for a mutex holds only mutexes of lower rank. *)
LEMMA WaitingGoesUp ==
  ASSUME LocksInv, NEW t \in Threads, NEW u \in Threads, NEW v \in Threads,
         NEW l, l \in Head(calls[t]).taking \cap Held(u), WaitsFor(u, v)
  PROVE  \A k \in Head(calls[u]).taking : Rank(l) < Rank(k)
<1>1. Busy(u) /\ ~inside[u] /\ Held(u) = Head(calls[u]).holding
  BY DEF WaitsFor, Held
<1>2. Disciplined(Head(calls[u]))
  BY <1>1, HeadRemains DEF LocksInv, Busy
<1> QED
  BY <1>1, <1>2 DEF Disciplined

(* No deadlock among the mutexes of the program, as long as the observers  *)
(* of the order manager take neither dataMutex nor orderMutex: every mutex *)
(* waited for outranks the one before it, and there are three ranks.       *)
THEOREM NoDeadlock == Spec => []NoCircularWait
<1>1. LocksInv => NoCircularWait
  <2> SUFFICES ASSUME LocksInv, NEW S \in SUBSET Threads, S # {},
                      \A t \in S : \E u \in S : WaitsFor(t, u)
               PROVE  FALSE
    BY DEF NoCircularWait
  <2>1. PICK t0 \in S : TRUE
    OBVIOUS
  <2>2. PICK t1 \in S : WaitsFor(t0, t1)
    OBVIOUS
  <2>3. PICK t2 \in S : WaitsFor(t1, t2)
    OBVIOUS
  <2>4. PICK t3 \in S : WaitsFor(t2, t3)
    OBVIOUS
  <2>5. PICK t4 \in S : WaitsFor(t3, t4)
    OBVIOUS
  <2>6. PICK l0 : l0 \in Head(calls[t0]).taking \cap Held(t1)
    BY <2>2 DEF WaitsFor
  <2>7. PICK l1 : l1 \in Head(calls[t1]).taking \cap Held(t2)
    BY <2>3 DEF WaitsFor
  <2>8. PICK l2 : l2 \in Head(calls[t2]).taking \cap Held(t3)
    BY <2>4 DEF WaitsFor
  <2>9. PICK l3 : l3 \in Head(calls[t3]).taking
    BY <2>5 DEF WaitsFor
  <2>10. Rank(l0) < Rank(l1)
    BY <2>3, <2>6, <2>7, WaitingGoesUp
  <2>11. Rank(l1) < Rank(l2)
    BY <2>4, <2>7, <2>8, WaitingGoesUp
  <2>12. Rank(l2) < Rank(l3)
    BY <2>5, <2>8, <2>9, WaitingGoesUp
  <2>13. \A l \in {l0, l1, l2, l3} : Rank(l) \in 1 .. 3
    BY DEF Rank
  <2> QED
    BY <2>10, <2>11, <2>12, <2>13
<1> QED
  BY <1>1, LocksInductive, PTL
=============================================================================
