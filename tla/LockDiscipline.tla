---------------------------- MODULE LockDiscipline ----------------------------
(***************************************************************************)
(* The locks of the program.  A method is the sequence of stages it goes   *)
(* through: what it holds already, the mutex it takes, and the shared      *)
(* members it touches while it holds both.  A std::lock_guard is one that  *)
(* no later stage of its block lets go of.  What the members contain is    *)
(* left to the other modules; here any thread calls any method any time.   *)
(*                                                                         *)
(* A call made inside a critical section is the method with that section   *)
(* outside: publishTick runs onTick under dataMutex, the order manager     *)
(* runs its observers under orderMutex.  Atomics are left out, they need   *)
(* no mutex.                                                               *)
(***************************************************************************)
EXTENDS Naturals, Sequences

CONSTANTS
  Threads,
  ObserverLocks   (* the mutexes an order callback may take *)

Locks == {"dataMutex", "orderMutex", "queueMutex", "tradeMutex", "statsMutex",
          "positionMutex", "pnlMutex"}

(* An observer that takes orderMutex waits for its own thread, and one     *)
(* that takes dataMutex, asking the handler for a tick, for the publisher  *)
(* that waits for orderMutex.  A program may register any other.           *)
ASSUME ObserverAssumption == ObserverLocks \subseteq Locks \ {"dataMutex", "orderMutex"}

VARIABLES
  calls,    (* for each thread the stages of its method that are left       *)
  inside    (* whether a thread is in the first of them, or waits for it    *)

lockVars == <<calls, inside>>

(* The shared members, with the mutex that is meant to protect each.  The  *)
(* last three have none.                                                   *)
Guard == [symbolDataMap  |-> "dataMutex",   orders    |-> "orderMutex",
          executionQueue |-> "queueMutex",  trades    |-> "tradeMutex",
          stats          |-> "statsMutex",  positions |-> "positionMutex",
          totalRealizedPnL |-> "pnlMutex"]
Unprotected == {"callbacks", "limits", "executionThread"}
Members == DOMAIN Guard \cup Unprotected

Stage == [holding : SUBSET Locks, taking : SUBSET Locks,
          reads : SUBSET Members, writes : SUBSET Members]

(* Stages inside the critical sections "outer": one that takes a mutex, to *)
(* read or to write what it protects, and one that just goes on.           *)
Reading(outer, lock, member) ==
  [holding |-> outer, taking |-> {lock}, reads |-> {member}, writes |-> {}]
Writing(outer, lock, member) ==
  [holding |-> outer, taking |-> {lock}, reads |-> {}, writes |-> {member}]
Unlocked(outer, reads, writes) ==
  [holding |-> outer, taking |-> {}, reads |-> reads, writes |-> writes]

-----------------------------------------------------------------------------
(* What one observer takes for itself: nothing, as when there is none, or  *)
(* one mutex.                                                              *)
Takings == {{}} \cup {{lock} : lock \in ObserverLocks}

(* Order manager.  A change of an order runs the observers. *)
changeOrder(outer, taken) ==
  <<Writing(outer, "orderMutex", "orders"),
    Unlocked(outer \cup {"orderMutex"}, {"callbacks"}, {}),
    [holding |-> outer \cup {"orderMutex"}, taking |-> taken,
     reads |-> {"callbacks"}, writes |-> {}]>>
orderQueries == <<Reading({}, "orderMutex", "orders")>>
registerOrderCallback == <<Unlocked({}, {}, {"callbacks"})>>

\* Mutated form: the trade is recorded without tradeMutex.
simulateTradeUnlocked(outer) == <<Unlocked(outer, {}, {"trades"})>>

simulateTrade(outer) == <<Writing(outer, "tradeMutex", "trades")>>
tradeQueries == <<Reading({}, "tradeMutex", "trades")>>

(* Execution engine.  start() and stop() reach for the thread object. *)
submitOrder(outer) == <<Writing(outer, "queueMutex", "executionQueue")>>
startOrStop == <<Unlocked({}, {}, {"executionThread"})>>
getLatestTick(outer) == <<Reading(outer, "dataMutex", "symbolDataMap")>>
recordLatency(outer) == <<Writing(outer, "statsMutex", "stats")>>
statsQueries == <<Reading({}, "statsMutex", "stats")>>

executeOrder(outer, taken) ==
  getLatestTick(outer) \o changeOrder(outer, taken)
    \o simulateTrade(outer) \o recordLatency(outer)

\* Mutated form: the request is executed before queueMutex is released.
executionLoopUnderLock(taken) ==
  <<Writing({}, "queueMutex", "executionQueue")>> \o executeOrder({"queueMutex"}, taken)

(* One round of the loop: the request is popped, queueMutex is released,   *)
(* and the request is executed.                                            *)
executionLoop(taken) ==
  <<Writing({}, "queueMutex", "executionQueue")>> \o executeOrder({}, taken)

(* Market data handler, with the demo strategy as the listener it calls    *)
(* under dataMutex; a tick without a signal ends after the first stage.    *)
onTick(outer, taken) == changeOrder(outer, taken) \o submitOrder(outer)
publishTick(taken) ==
  <<Writing({}, "dataMutex", "symbolDataMap")>> \o onTick({"dataMutex"}, taken)
publishQuietly == <<Writing({}, "dataMutex", "symbolDataMap")>>
subscriptions == <<Writing({}, "dataMutex", "symbolDataMap")>>
marketQueries == <<Reading({}, "dataMutex", "symbolDataMap")>>

(* Risk manager. *)
setRiskLimits == <<Unlocked({}, {}, {"limits"})>>
getRiskLimits == <<Unlocked({}, {"limits"}, {})>>
updatePosition == <<Writing({}, "positionMutex", "positions")>>
positionQueries == <<Reading({}, "positionMutex", "positions")>>
getTotalPnL ==
  <<Reading({}, "pnlMutex", "totalRealizedPnL"), Reading({}, "positionMutex", "positions")>>
canOpenPosition ==
  <<Unlocked({}, {"limits"}, {}), Reading({}, "positionMutex", "positions"),
    Unlocked({}, {"limits"}, {})>>

Methods ==
  {orderQueries, registerOrderCallback, simulateTrade({}), tradeQueries,
   submitOrder({}), startOrStop, statsQueries, publishQuietly, subscriptions,
   marketQueries, setRiskLimits, getRiskLimits, updatePosition,
   positionQueries, getTotalPnL, canOpenPosition}
    \cup UNION {{changeOrder({}, taken), executionLoop(taken), publishTick(taken)} :
                  taken \in Takings}

-----------------------------------------------------------------------------
Init ==
  /\ calls = [t \in Threads |-> <<>>]
  /\ inside = [t \in Threads |-> FALSE]

Busy(t) == calls[t] # <<>>

(* What a thread holds.  Whatever the next stage does not hold already was *)
(* released on the way out of the last one.                                *)
Held(t) ==
  IF ~Busy(t) THEN {}
  ELSE Head(calls[t]).holding \cup (IF inside[t] THEN Head(calls[t]).taking ELSE {})

Call(t) ==
  /\ ~Busy(t)
  /\ \E method \in Methods : calls' = [calls EXCEPT ![t] = method]
  /\ UNCHANGED inside

\* Mutated form: a stage that only reads shares its mutex.
EnterShared(t) ==
  /\ Busy(t) /\ ~inside[t]
  /\ \A u \in Threads :
       Head(calls[t]).writes = {} \/ Head(calls[t]).taking \cap Held(u) = {}
  /\ inside' = [inside EXCEPT ![t] = TRUE]
  /\ UNCHANGED calls

(* A mutex is taken when nobody holds it, the thread itself included. *)
Enter(t) ==
  /\ Busy(t) /\ ~inside[t]
  /\ \A u \in Threads : Head(calls[t]).taking \cap Held(u) = {}
  /\ inside' = [inside EXCEPT ![t] = TRUE]
  /\ UNCHANGED calls

Leave(t) ==
  /\ Busy(t) /\ inside[t]
  /\ calls' = [calls EXCEPT ![t] = Tail(@)]
  /\ inside' = [inside EXCEPT ![t] = FALSE]

Next == \E t \in Threads : Call(t) \/ Enter(t) \/ Leave(t)
Spec == Init /\ [][Next]_lockVars

-----------------------------------------------------------------------------
(* Type correctness, with mutual exclusion: nothing a thread holds is held *)
(* by another, however calls nest.                                         *)
LocksTypeOK ==
  /\ calls \in [Threads -> Seq(Stage)]
  /\ inside \in [Threads -> BOOLEAN]
  /\ \A t, u \in Threads : t # u => Held(t) \cap Held(u) = {}

Touches(t) == Head(calls[t]).reads \cup Head(calls[t]).writes
InStage(t) == Busy(t) /\ inside[t]

(* Two threads at the same member, one of them writing it. *)
Races ==
  UNION {Head(calls[p[1]]).writes \cap Touches(p[2]) :
           p \in {q \in Threads \X Threads :
                    q[1] # q[2] /\ InStage(q[1]) /\ InStage(q[2])}}

(* No two threads are at the same member of the program, one of them       *)
(* writing it, but for the three that have no mutex: the observers, which  *)
(* registerOrderCallback grows; the limits, which setRiskLimits stores;    *)
(* and the thread object, which start() and stop() assign and join.        *)
RacesOnlyWhereUnprotected == Races \subseteq Unprotected

WaitsFor(t, u) ==
  Busy(t) /\ ~inside[t] /\ Head(calls[t]).taking \cap Held(u) # {}

(* No set of threads waits for one another in a circle, nor a thread for   *)
(* itself, however the methods nest: publications into the order manager   *)
(* and the queue, the order manager into its observers.                    *)
NoCircularWait ==
  \A S \in (SUBSET Threads) \ {{}} : \E t \in S : \A u \in S : ~WaitsFor(t, u)
=============================================================================
