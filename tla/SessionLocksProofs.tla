------------------------- MODULE SessionLocksProofs -------------------------
(***************************************************************************)
(* Proofs about SessionLocks, for any number of threads and sessions and   *)
(* any identity hashes, colliding or not.                                  *)
(***************************************************************************)
EXTENDS SessionLocks, WellFoundedInduction, TLAPS

USE MaxHashAssumption, SentinelAssumption

-----------------------------------------------------------------------------
(* The order in which monitors are entered: the tie lock comes first, then  *)
(* the sessions by their hashes.                                            *)
Rank(l) == IF l = TieLock THEN 0 ELSE hash[l] + 1

(* A plan names each monitor once, in the order of the ranks.  Two monitors *)
(* of the same rank are entered only under the tie lock, one after the      *)
(* other and as the last two.                                               *)
InOrder(p) ==
  /\ p \in Seq(Locks)
  /\ Len(p) \in 1..3
  /\ \A i, j \in 1..Len(p) : i < j =>
       /\ p[i] # p[j]
       /\ Rank(p[i]) <= Rank(p[j])
       /\ Rank(p[i]) = Rank(p[j]) => i = 2 /\ j = 3
  /\ Len(p) = 3 => p[1] = TieLock

(* withLocks enters monitors in the order of their ranks and includes both  *)
(* operands.                                                                *)
LEMMA PlanIsInOrder ==
  ASSUME hash \in [Sessions -> Hashes],
         NEW a \in Sessions, NEW b \in Sessions
  PROVE  /\ InOrder(Plan(a, b))
         /\ \E i \in 1..Len(Plan(a, b)) : Plan(a, b)[i] = a
         /\ \E i \in 1..Len(Plan(a, b)) : Plan(a, b)[i] = b
<1> USE DEF Hashes, Locks
<1>1. CASE a = b
  BY <1>1 DEF Plan, InOrder, Rank
<1>2. CASE a # b /\ hash[a] = hash[b]
  <2>1. Plan(a, b) = <<TieLock, a, b>>
    BY <1>2 DEF Plan
  <2> QED
    BY <1>2, <2>1 DEF InOrder, Rank
<1>3. CASE hash[a] < hash[b]
  <2>1. Plan(a, b) = <<a, b>>
    BY <1>3 DEF Plan
  <2> QED
    BY <1>3, <2>1 DEF InOrder, Rank
<1>4. CASE hash[b] < hash[a]
  <2>1. Plan(a, b) = <<b, a>>
    BY <1>4 DEF Plan
  <2> QED
    BY <1>4, <2>1 DEF InOrder, Rank
<1>5. hash[a] \in Int /\ hash[b] \in Int
  OBVIOUS
<1> QED
  BY <1>1, <1>2, <1>3, <1>4, <1>5

-----------------------------------------------------------------------------
(* A thread in a method has the plan of its method, which names the         *)
(* operands, and enters and leaves the monitors along it.                   *)
Planned ==
  \A t \in Threads :
    /\ pc[t] = "idle" => depth[t] = 0
    /\ pc[t] # "idle" =>
         /\ InOrder(plan[t])
         /\ \E i \in 1..Len(plan[t]) : plan[t][i] = self[t]
         /\ \E i \in 1..Len(plan[t]) : plan[t][i] = other[t]
    /\ pc[t] \in Inside => depth[t] = Len(plan[t])
    /\ pc[t] = "unlocking" => depth[t] > 0

(* Methods of one session have it as both operands; past a check its operand*)
(* is open; close() has no check.                                           *)
Checked ==
  \A t \in Threads :
    /\ pc[t] # "idle" /\ method[t] # "pair" => self[t] = other[t]
    /\ pc[t] \in {"checkOther", "native"} => self[t] \notin closed
    /\ pc[t] = "native" => other[t] \notin closed

Inv == TypeOK /\ Planned /\ OwnersAreRight /\ Checked

(* Identity hashes never change, and with them no rank does.                *)
LEMMA RanksAreFixed ==
  [Next]_vars => hash' = hash /\ \A p : InOrder(p)' = InOrder(p)
<1> SUFFICES ASSUME [Next]_vars
             PROVE  hash' = hash /\ \A p : InOrder(p)' = InOrder(p)
  OBVIOUS
<1>1. hash' = hash
  BY DEF Next, Proceed, Call, Acquire, CheckSelf, CheckOther, NativeReturn,
         Close, Release, Return, vars
<1> QED
  BY <1>1 DEF InOrder, Rank

(* What is known of the plan of a thread inside a method.                   *)
LEMMA PlanOf ==
  ASSUME TypeOK, Planned, NEW t \in Threads, pc[t] # "idle"
  PROVE  /\ plan[t] \in Seq(Locks)
         /\ Len(plan[t]) \in 1..3
         /\ \A i, j \in 1..Len(plan[t]) : i # j => plan[t][i] # plan[t][j]
         /\ \A i \in 1..Len(plan[t]) : plan[t][i] \in Locks
         /\ depth[t] \in 0..3
         /\ depth[t] <= Len(plan[t])
         /\ pc[t] = "locking" => depth[t] + 1 \in 1..Len(plan[t])
<1>1. InOrder(plan[t])
  BY DEF Planned
<1>2. plan[t] \in Seq(Locks)
  BY <1>1 DEF InOrder
<1>3. Len(plan[t]) \in 1..3
  BY <1>1 DEF InOrder
<1>4. \A i, j \in 1..Len(plan[t]) : i # j => plan[t][i] # plan[t][j]
  <2> SUFFICES ASSUME NEW i \in 1..Len(plan[t]), NEW j \in 1..Len(plan[t]), i # j
               PROVE  plan[t][i] # plan[t][j]
    OBVIOUS
  <2>1. i < j \/ j < i
    BY <1>3
  <2> QED
    BY <1>1, <2>1 DEF InOrder
<1>5. \A i \in 1..Len(plan[t]) : plan[t][i] \in Locks
  BY <1>2, <1>3
<1>6. depth[t] \in 0..3
  BY DEF TypeOK
<1>7. depth[t] <= Len(plan[t])
  BY DEF TypeOK
<1>8. ASSUME pc[t] = "locking"
      PROVE  depth[t] + 1 \in 1..Len(plan[t])
  <2>1. depth[t] < Len(plan[t])
    BY <1>8 DEF TypeOK
  <2> QED
    BY <2>1, <1>3, <1>6
<1> QED
  BY <1>2, <1>3, <1>4, <1>5, <1>6, <1>7, <1>8

(* Inside all its monitors, a thread owns those of both operands.           *)
LEMMA OperandsAreOwned ==
  ASSUME Inv, NEW t \in Threads, pc[t] \in Inside
  PROVE  /\ owner[self[t]] = t /\ owner[other[t]] = t
         /\ self[t] \in Sessions /\ other[t] \in Sessions
<1>1. pc[t] # "idle"
  BY DEF Inside
<1>2. self[t] \in Sessions /\ other[t] \in Sessions
  BY <1>1 DEF Inv, TypeOK
<1>3. depth[t] = Len(plan[t])
  BY DEF Inv, Planned
<1>4. (\E i \in 1..Len(plan[t]) : plan[t][i] = self[t])
      /\ (\E i \in 1..Len(plan[t]) : plan[t][i] = other[t])
  BY <1>1 DEF Inv, Planned
<1> QED
  BY <1>2, <1>3, <1>4 DEF Inv, OwnersAreRight, Locks

(* The types are kept; no plan is longer than three monitors.              *)
LEMMA TypeStep == TypeOK /\ Planned /\ [Next]_vars => TypeOK'
<1> SUFFICES ASSUME TypeOK, Planned, [Next]_vars
             PROVE  TypeOK'
  OBVIOUS
<1>1. ASSUME NEW t \in Threads, NEW m \in Methods,
             NEW a \in Sessions, NEW b \in Sessions, Call(t, m, a, b)
      PROVE  TypeOK'
  <2>1. InOrder(Plan(a, b))
    BY PlanIsInOrder DEF TypeOK
  <2>2. plan' \in [Threads -> Seq(Locks)]
    BY <1>1, <2>1 DEF Call, TypeOK, InOrder
  <2>3. Len(Plan(a, b)) \in 1..3
    BY <2>1 DEF InOrder
  <2>4. depth[t] = 0
    BY <1>1 DEF Call, Planned
  <2>5. \A u \in Threads : depth'[u] <= Len(plan'[u])
    <3> TAKE u \in Threads
    <3>1. CASE u = t
      <4>1. depth'[u] = 0 /\ plan'[u] = Plan(a, b)
        BY <3>1, <1>1, <2>4 DEF Call, TypeOK
      <4> QED
        BY <4>1, <2>3
    <3>2. CASE u # t
      <4>1. depth[u] <= Len(plan[u])
        BY DEF TypeOK
      <4> QED
        BY <3>2, <4>1, <1>1 DEF Call, TypeOK
    <3> QED
      BY <3>1, <3>2
  <2>6. \A u \in Threads : pc'[u] = "locking" => depth'[u] < Len(plan'[u])
    <3> TAKE u \in Threads
    <3>1. CASE u = t
      <4>1. depth'[u] = 0 /\ plan'[u] = Plan(a, b)
        BY <3>1, <1>1, <2>4 DEF Call, TypeOK
      <4> QED
        BY <4>1, <2>3
    <3>2. CASE u # t
      <4>1. pc[u] = "locking" => depth[u] < Len(plan[u])
        BY DEF TypeOK
      <4> QED
        BY <3>2, <4>1, <1>1 DEF Call, TypeOK, Goto
    <3> QED
      BY <3>1, <3>2
  <2>7. \A u \in Threads : pc'[u] # "idle" =>
          method'[u] \in Methods /\ self'[u] \in Sessions /\ other'[u] \in Sessions
    BY <1>1 DEF Call, TypeOK, Goto
  <2>8. /\ pc' \in [Threads -> Places]
        /\ method' \in [Threads -> Methods \cup {NULL}]
        /\ self' \in [Threads -> Sessions \cup {NULL}]
        /\ other' \in [Threads -> Sessions \cup {NULL}]
    BY <1>1 DEF Call, TypeOK, Goto, Places
  <2> QED
    BY <1>1, <2>2, <2>5, <2>6, <2>7, <2>8 DEF Call, TypeOK
<1>2. ASSUME NEW t \in Threads, Acquire(t)
      PROVE  TypeOK'
  <2>1. depth[t] + 1 \in 1..Len(plan[t]) /\ Len(plan[t]) \in 1..3
    BY <1>2, PlanOf DEF Acquire
  <2>2. Wanted(t) \in Locks
    BY <1>2, <2>1, PlanOf DEF Acquire, Wanted
  <2>3. owner' \in [Locks -> Threads \cup {NULL}]
    BY <1>2, <2>2 DEF Acquire, TypeOK
  <2>4. depth[t] + 1 \in 0..3 /\ depth[t] + 1 <= Len(plan[t])
    <3>1. depth[t] \in 0..3
      BY DEF TypeOK
    <3>2. \A d \in 0..3, n \in 1..3 : d + 1 \in 1..n => d + 1 \in 0..3 /\ d + 1 <= n
      OBVIOUS
    <3> QED
      BY <2>1, <3>1, <3>2
  <2>5. depth' = [depth EXCEPT ![t] = depth[t] + 1] /\ plan' = plan
    BY <1>2 DEF Acquire, call
  <2>6. depth' \in [Threads -> 0..3]
    BY <2>4, <2>5 DEF TypeOK
  <2>7. \A u \in Threads : depth'[u] <= Len(plan'[u])
    BY <2>4, <2>5 DEF TypeOK
  <2>8. \A u \in Threads : pc'[u] = "locking" => depth'[u] < Len(plan'[u])
    <3> TAKE u \in Threads
    <3>1. CASE u = t
      <4> HAVE pc'[u] = "locking"
      <4>1. depth[t] + 1 # Len(plan[t])
        BY <3>1, <1>2 DEF Acquire, Goto, FirstPlace, TypeOK
      <4> QED
        BY <3>1, <4>1, <2>1, <2>5 DEF TypeOK
    <3>2. CASE u # t
      BY <3>2, <2>5, <1>2 DEF Acquire, Goto, TypeOK
    <3> QED
      BY <3>1, <3>2
  <2>9. pc' \in [Threads -> Places]
        /\ \A u \in Threads : pc'[u] # "idle" =>
             method'[u] \in Methods /\ self'[u] \in Sessions /\ other'[u] \in Sessions
    BY <1>2 DEF Acquire, Goto, FirstPlace, Places, call, TypeOK
  <2> QED
    BY <1>2, <2>3, <2>6, <2>7, <2>8, <2>9 DEF Acquire, call, TypeOK
<1>3. ASSUME NEW t \in Threads, CheckSelf(t)
      PROVE  TypeOK'
  BY <1>3 DEF CheckSelf, Goto, FirstPlace, call, TypeOK, Places, Methods
<1>4. ASSUME NEW t \in Threads, CheckOther(t)
      PROVE  TypeOK'
  BY <1>4 DEF CheckOther, Goto, FirstPlace, call, TypeOK, Places, Methods
<1>5. ASSUME NEW t \in Threads, NativeReturn(t)
      PROVE  TypeOK'
  BY <1>5 DEF NativeReturn, Goto, FirstPlace, call, TypeOK, Places, Methods
<1>6. ASSUME NEW t \in Threads, Close(t)
      PROVE  TypeOK'
  BY <1>6 DEF Close, Goto, FirstPlace, call, TypeOK, Places, Methods
<1>7. ASSUME NEW t \in Threads, Release(t)
      PROVE  TypeOK'
  <2>1. depth[t] \in 1..Len(plan[t]) /\ depth[t] \in 0..3 /\ depth[t] - 1 \in 0..3
    BY <1>7, PlanOf DEF Release
  <2>2. owner' \in [Locks -> Threads \cup {NULL}]
    BY <1>7, <2>1, PlanOf DEF Release, TypeOK
  <2>3. depth' = [depth EXCEPT ![t] = depth[t] - 1] /\ plan' = plan /\ pc' = pc
    BY <1>7 DEF Release, call
  <2>4. depth' \in [Threads -> 0..3]
    BY <2>1, <2>3 DEF TypeOK
  <2>5. \A u \in Threads : depth'[u] <= Len(plan'[u])
    <3> TAKE u \in Threads
    <3>1. Len(plan[t]) \in 1..3
      BY <1>7, PlanOf DEF Release
    <3>2. CASE u = t
      BY <3>1, <3>2, <2>1, <2>3 DEF TypeOK
    <3>3. CASE u # t
      <4>1. depth[u] <= Len(plan[u])
        BY DEF TypeOK
      <4> QED
        BY <3>3, <4>1, <2>3 DEF TypeOK
    <3> QED
      BY <3>2, <3>3
  <2>6. \A u \in Threads : pc'[u] = "locking" => depth'[u] < Len(plan'[u])
    <3> TAKE u \in Threads
    <3>1. pc[t] # "locking"
      BY <1>7 DEF Release
    <3>2. pc[u] = "locking" => depth[u] < Len(plan[u])
      BY DEF TypeOK
    <3> QED
      BY <3>1, <3>2, <2>3 DEF TypeOK
  <2> QED
    BY <1>7, <2>2, <2>4, <2>5, <2>6 DEF Release, call, TypeOK
<1>8. ASSUME NEW t \in Threads, Return(t)
      PROVE  TypeOK'
  <2>1. plan[t][1] \in Locks
    BY <1>8, PlanOf DEF Return
  <2>2. owner' \in [Locks -> Threads \cup {NULL}]
    BY <1>8, <2>1 DEF Return, TypeOK
  <2>3. plan' \in [Threads -> Seq(Locks)] /\ depth' \in [Threads -> 0..3]
    BY <1>8 DEF Return, TypeOK
  <2>4. \A u \in Threads : depth'[u] <= Len(plan'[u])
    <3> TAKE u \in Threads
    <3>1. CASE u = t
      BY <3>1, <1>8 DEF Return, TypeOK
    <3>2. CASE u # t
      <4>1. depth[u] <= Len(plan[u])
        BY DEF TypeOK
      <4> QED
        BY <3>2, <4>1, <1>8 DEF Return, TypeOK
    <3> QED
      BY <3>1, <3>2
  <2>5. \A u \in Threads : pc'[u] = "locking" => depth'[u] < Len(plan'[u])
    <3> TAKE u \in Threads
    <3>1. pc[u] = "locking" => depth[u] < Len(plan[u])
      BY DEF TypeOK
    <3> QED
      BY <3>1, <1>8 DEF Return, Goto, TypeOK
  <2> QED
    BY <1>8, <2>2, <2>3, <2>4, <2>5 DEF Return, Goto, Places, TypeOK
<1>9. ASSUME UNCHANGED vars
      PROVE  TypeOK'
  BY <1>9 DEF vars, TypeOK
<1> QED
  BY <1>1, <1>2, <1>3, <1>4, <1>5, <1>6, <1>7, <1>8, <1>9 DEF Next, Proceed

(* A thread enters the monitors of its plan one after the other, does its   *)
(* work with all of them, and leaves them in the opposite order.            *)
LEMMA PlannedStep == TypeOK /\ Planned /\ [Next]_vars => Planned'
<1> SUFFICES ASSUME TypeOK, Planned, [Next]_vars
             PROVE  Planned'
  OBVIOUS
<1>0. hash' = hash /\ \A p : InOrder(p)' = InOrder(p)
  BY RanksAreFixed
<1>1. ASSUME NEW t \in Threads, NEW m \in Methods,
             NEW a \in Sessions, NEW b \in Sessions, Call(t, m, a, b)
      PROVE  Planned'
  <2>1. InOrder(Plan(a, b))
        /\ (\E i \in 1..Len(Plan(a, b)) : Plan(a, b)[i] = a)
        /\ (\E i \in 1..Len(Plan(a, b)) : Plan(a, b)[i] = b)
    BY PlanIsInOrder DEF TypeOK
  <2> QED
    BY <1>0, <1>1, <2>1 DEF Call, Goto, Inside, Planned, TypeOK
<1>2. ASSUME NEW t \in Threads, Acquire(t)
      PROVE  Planned'
  <2>1. depth[t] + 1 \in 1..Len(plan[t])
    BY <1>2, PlanOf DEF Acquire
  <2>2. \A u \in Threads : pc'[u] \in Inside => depth'[u] = Len(plan'[u])
    BY <1>2, <2>1 DEF Acquire, Goto, Inside, call, Planned, TypeOK
  <2>3. \A u \in Threads : pc'[u] # "idle" => pc[u] # "idle"
    BY <1>2 DEF Acquire, Goto, TypeOK
  <2>4. \A u \in Threads : pc'[u] = "idle" => pc[u] = "idle" /\ u # t
    BY <1>2 DEF Acquire, Goto, FirstPlace, TypeOK
  <2>5. \A u \in Threads : pc'[u] = "unlocking" => pc[u] = "unlocking" /\ u # t
    BY <1>2 DEF Acquire, Goto, FirstPlace, TypeOK
  <2>6. \A u \in Threads : u # t => depth'[u] = depth[u]
    BY <1>2 DEF Acquire, TypeOK
  <2> QED
    BY <1>2, <1>0, <2>2, <2>3, <2>4, <2>5, <2>6 DEF Acquire, call, Planned
<1>3. ASSUME NEW t \in Threads, CheckSelf(t)
      PROVE  Planned'
  <2>1. pc[t] # "idle" /\ depth[t] > 0
    BY <1>3, PlanOf DEF CheckSelf, Planned, Inside
  <2> QED
    BY <1>3, <1>0, <2>1 DEF CheckSelf, Goto, FirstPlace, Inside, call, Planned, TypeOK
<1>4. ASSUME NEW t \in Threads, CheckOther(t)
      PROVE  Planned'
  <2>1. pc[t] # "idle" /\ depth[t] > 0
    BY <1>4, PlanOf DEF CheckOther, Planned, Inside
  <2> QED
    BY <1>4, <1>0, <2>1 DEF CheckOther, Goto, FirstPlace, Inside, call, Planned, TypeOK
<1>5. ASSUME NEW t \in Threads, NativeReturn(t)
      PROVE  Planned'
  <2>1. pc[t] # "idle" /\ depth[t] > 0
    BY <1>5, PlanOf DEF NativeReturn, Planned, Inside
  <2> QED
    BY <1>5, <1>0, <2>1 DEF NativeReturn, Goto, FirstPlace, Inside, call, Planned, TypeOK
<1>6. ASSUME NEW t \in Threads, Close(t)
      PROVE  Planned'
  <2>1. pc[t] # "idle" /\ depth[t] > 0
    BY <1>6, PlanOf DEF Close, Planned, Inside
  <2> QED
    BY <1>6, <1>0, <2>1 DEF Close, Goto, FirstPlace, Inside, call, Planned, TypeOK
<1>7. ASSUME NEW t \in Threads, Release(t)
      PROVE  Planned'
  <2>1. depth[t] \in 0..3 /\ depth[t] - 1 > 0
    BY <1>7, PlanOf DEF Release
  <2> QED
    BY <1>7, <1>0, <2>1 DEF Release, Inside, call, Planned, TypeOK
<1>8. ASSUME NEW t \in Threads, Return(t)
      PROVE  Planned'
  BY <1>8, <1>0 DEF Return, Goto, Inside, Planned, TypeOK
<1>9. ASSUME UNCHANGED vars
      PROVE  Planned'
  BY <1>9, <1>0 DEF vars, Inside, Planned
<1> QED
  BY <1>1, <1>2, <1>3, <1>4, <1>5, <1>6, <1>7, <1>8, <1>9 DEF Next, Proceed

(* Entering and leaving a monitor changes its owner and no other.           *)
LEMMA OwnersStep == TypeOK /\ Planned /\ OwnersAreRight /\ [Next]_vars => OwnersAreRight'
<1> SUFFICES ASSUME TypeOK, Planned, OwnersAreRight, [Next]_vars
             PROVE  OwnersAreRight'
  OBVIOUS
<1>1. ASSUME NEW t \in Threads, NEW m \in Methods,
             NEW a \in Sessions, NEW b \in Sessions, Call(t, m, a, b)
      PROVE  OwnersAreRight'
  <2>1. depth[t] = 0
    BY <1>1 DEF Call, Planned
  <2> SUFFICES ASSUME NEW l \in Locks, NEW u \in Threads
               PROVE  owner'[l] = u <=> \E i \in 1..depth'[u] : plan'[u][i] = l
    BY DEF OwnersAreRight
  <2>2. owner' = owner /\ depth' = depth
    BY <1>1 DEF Call
  <2>3. CASE u = t
    <3>1. 1..depth[u] = {}
      BY <2>1, <2>3
    <3> QED
      BY <2>2, <3>1 DEF OwnersAreRight
  <2>4. CASE u # t
    BY <1>1, <2>2, <2>4 DEF Call, OwnersAreRight, TypeOK
  <2> QED
    BY <2>3, <2>4
<1>2. ASSUME NEW t \in Threads, Acquire(t)
      PROVE  OwnersAreRight'
  <2>1. depth[t] \in 0..3 /\ depth[t] + 1 \in 1..Len(plan[t]) /\ Wanted(t) \in Locks
    BY <1>2, PlanOf DEF Acquire, Wanted
  <2>2. plan' = plan
        /\ owner' = [owner EXCEPT ![Wanted(t)] = t]
        /\ depth' = [depth EXCEPT ![t] = depth[t] + 1]
        /\ owner[Wanted(t)] = NULL
    BY <1>2 DEF Acquire, call
  <2> SUFFICES ASSUME NEW l \in Locks, NEW u \in Threads
               PROVE  owner'[l] = u <=> \E i \in 1..depth'[u] : plan'[u][i] = l
    BY DEF OwnersAreRight
  <2>3. owner[l] = u <=> \E i \in 1..depth[u] : plan[u][i] = l
    BY DEF OwnersAreRight
  <2>4. CASE u # t
    <3>1. owner'[l] = u <=> owner[l] = u
      BY <2>1, <2>2, <2>4 DEF TypeOK
    <3> QED
      BY <2>2, <2>3, <2>4, <3>1 DEF TypeOK
  <2>5. CASE u = t
    <3>1. owner'[l] = t <=> l = Wanted(t) \/ owner[l] = t
      BY <2>1, <2>2 DEF TypeOK
    <3>2. depth'[t] = depth[t] + 1
      BY <2>2 DEF TypeOK
    <3>3. 1..(depth[t] + 1) = 1..depth[t] \cup {depth[t] + 1}
      BY <2>1
    <3> QED
      BY <2>2, <2>3, <2>5, <3>1, <3>2, <3>3 DEF Wanted
  <2> QED
    BY <2>4, <2>5
<1>3. ASSUME NEW t \in Threads, CheckSelf(t)
      PROVE  OwnersAreRight'
  BY <1>3 DEF CheckSelf, call, OwnersAreRight
<1>4. ASSUME NEW t \in Threads, CheckOther(t)
      PROVE  OwnersAreRight'
  BY <1>4 DEF CheckOther, call, OwnersAreRight
<1>5. ASSUME NEW t \in Threads, NativeReturn(t)
      PROVE  OwnersAreRight'
  BY <1>5 DEF NativeReturn, call, OwnersAreRight
<1>6. ASSUME NEW t \in Threads, Close(t)
      PROVE  OwnersAreRight'
  BY <1>6 DEF Close, call, OwnersAreRight
<1>7. ASSUME NEW t \in Threads, Release(t)
      PROVE  OwnersAreRight'
  <2>1. /\ depth[t] \in 0..3 /\ depth[t] \in 1..Len(plan[t])
        /\ \A i, j \in 1..Len(plan[t]) : i # j => plan[t][i] # plan[t][j]
    BY <1>7, PlanOf DEF Release
  <2> DEFINE last == plan[t][depth[t]]
  <2>2. last \in Locks /\ owner[last] = t
    BY <1>7, <2>1, PlanOf DEF Release, OwnersAreRight
  <2>3. plan' = plan
        /\ owner' = [owner EXCEPT ![last] = NULL]
        /\ depth' = [depth EXCEPT ![t] = depth[t] - 1]
    BY <1>7 DEF Release, call
  <2> SUFFICES ASSUME NEW l \in Locks, NEW u \in Threads
               PROVE  owner'[l] = u <=> \E i \in 1..depth'[u] : plan'[u][i] = l
    BY DEF OwnersAreRight
  <2>4. owner[l] = u <=> \E i \in 1..depth[u] : plan[u][i] = l
    BY DEF OwnersAreRight
  <2>5. CASE u # t
    <3>1. owner'[l] = u <=> owner[l] = u
      BY <2>2, <2>3, <2>5 DEF TypeOK
    <3> QED
      BY <2>3, <2>4, <2>5, <3>1 DEF TypeOK
  <2>6. CASE u = t
    <3>1. owner'[l] = t <=> l # last /\ owner[l] = t
      BY <2>2, <2>3 DEF TypeOK
    <3>2. depth'[t] = depth[t] - 1
      BY <2>3 DEF TypeOK
    <3>3. 1..depth[t] = 1..(depth[t] - 1) \cup {depth[t]}
      BY <2>1
    <3>4. \A i \in 1..(depth[t] - 1) : plan[t][i] # last
      <4> TAKE i \in 1..(depth[t] - 1)
      <4>1. i \in 1..Len(plan[t]) /\ i # depth[t]
        BY <2>1
      <4> QED
        BY <2>1, <4>1
    <3> QED
      BY <2>3, <2>4, <2>6, <3>1, <3>2, <3>3, <3>4
  <2> QED
    BY <2>5, <2>6
<1>8. ASSUME NEW t \in Threads, Return(t)
      PROVE  OwnersAreRight'
  <2>1. depth[t] = 1 /\ plan[t][1] \in Locks
    BY <1>8, PlanOf DEF Return
  <2>2. owner' = [owner EXCEPT ![plan[t][1]] = NULL]
        /\ depth' = [depth EXCEPT ![t] = 0]
        /\ plan' = [plan EXCEPT ![t] = << >>]
    BY <1>8 DEF Return
  <2>3. \A l \in Locks : owner[l] = t <=> plan[t][1] = l
    <3>1. 1..depth[t] = {1}
      BY <2>1
    <3> QED
      BY <3>1 DEF OwnersAreRight
  <2> SUFFICES ASSUME NEW l \in Locks, NEW u \in Threads
               PROVE  owner'[l] = u <=> \E i \in 1..depth'[u] : plan'[u][i] = l
    BY DEF OwnersAreRight
  <2>4. CASE u = t
    <3>1. owner'[l] # t
      BY <2>1, <2>2, <2>3 DEF TypeOK
    <3>2. 1..depth'[t] = {}
      BY <2>2 DEF TypeOK
    <3> QED
      BY <2>4, <3>1, <3>2
  <2>5. CASE u # t
    <3>1. owner'[l] = u <=> owner[l] = u
      BY <2>1, <2>2, <2>3, <2>5 DEF TypeOK
    <3>2. depth'[u] = depth[u] /\ plan'[u] = plan[u]
      BY <2>2, <2>5 DEF TypeOK
    <3> QED
      BY <3>1, <3>2 DEF OwnersAreRight
  <2> QED
    BY <2>4, <2>5
<1>9. ASSUME UNCHANGED vars
      PROVE  OwnersAreRight'
  BY <1>9 DEF vars, OwnersAreRight
<1> QED
  BY <1>1, <1>2, <1>3, <1>4, <1>5, <1>6, <1>7, <1>8, <1>9 DEF Next, Proceed

(* close() waits for the monitor of the session it closes, so nothing that  *)
(* a check has found open is closed before the call is over.                *)
LEMMA CheckedStep == Inv /\ [Next]_vars => Checked'
<1> SUFFICES ASSUME Inv, [Next]_vars
             PROVE  Checked'
  OBVIOUS
<1>1. ASSUME NEW t \in Threads, NEW m \in Methods,
             NEW a \in Sessions, NEW b \in Sessions, Call(t, m, a, b)
      PROVE  Checked'
  BY <1>1 DEF Call, Goto, Checked, Inv, TypeOK
<1>2. ASSUME NEW t \in Threads, Acquire(t)
      PROVE  Checked'
  BY <1>2 DEF Acquire, Goto, FirstPlace, call, Checked, Inv, TypeOK
<1>3. ASSUME NEW t \in Threads, CheckSelf(t)
      PROVE  Checked'
  BY <1>3 DEF CheckSelf, Goto, call, Checked, Inv, TypeOK
<1>4. ASSUME NEW t \in Threads, CheckOther(t)
      PROVE  Checked'
  BY <1>4 DEF CheckOther, Goto, call, Checked, Inv, TypeOK
<1>5. ASSUME NEW t \in Threads, NativeReturn(t)
      PROVE  Checked'
  BY <1>5 DEF NativeReturn, Goto, call, Checked, Inv, TypeOK
<1>6. ASSUME NEW t \in Threads, Close(t)
      PROVE  Checked'
  <2>1. owner[self[t]] = t
    BY <1>6, OperandsAreOwned DEF Close, Inside
  <2>2. \A u \in Threads : pc[u] \in {"checkOther", "native"} =>
          owner[self[u]] = u /\ owner[other[u]] = u
    BY OperandsAreOwned DEF Inside
  <2>3. pc' = [pc EXCEPT ![t] = "unlocking"] /\ closed' = closed \cup {self[t]}
        /\ method' = method /\ self' = self /\ other' = other
    BY <1>6 DEF Close, Goto, call
  <2>4. \A u \in Threads : pc'[u] # "idle" => pc[u] # "idle"
    BY <1>6, <2>3 DEF Close, Inv, TypeOK
  <2>5. \A u \in Threads : pc'[u] \in {"checkOther", "native"} =>
          u # t /\ pc[u] = pc'[u]
    BY <2>3 DEF Inv, TypeOK
  <2> QED
    BY <2>1, <2>2, <2>3, <2>4, <2>5 DEF Inv, Checked
<1>7. ASSUME NEW t \in Threads, Release(t)
      PROVE  Checked'
  BY <1>7 DEF Release, Goto, call, Checked, Inv, TypeOK
<1>8. ASSUME NEW t \in Threads, Return(t)
      PROVE  Checked'
  BY <1>8 DEF Return, Goto, call, Checked, Inv, TypeOK
<1>9. ASSUME UNCHANGED vars
      PROVE  Checked'
  BY <1>9 DEF vars, Checked, Inv
<1> QED
  BY <1>1, <1>2, <1>3, <1>4, <1>5, <1>6, <1>7, <1>8, <1>9 DEF Next, Proceed

-----------------------------------------------------------------------------
(* Initially no thread has a plan and no monitor an owner.                  *)
LEMMA InvInit == Init => Inv
<1> SUFFICES ASSUME Init
             PROVE  Inv
  OBVIOUS
<1>1. plan \in [Threads -> Seq(Locks)]
  BY DEF Init
<1>2. \A t \in Threads : depth[t] = 0 /\ plan[t] = << >> /\ pc[t] = "idle"
  BY DEF Init
<1>3. TypeOK
  <2>1. \A t \in Threads : depth[t] <= Len(plan[t])
    <3>1. Len(<< >>) = 0
      OBVIOUS
    <3>2. 0 <= 0
      OBVIOUS
    <3> QED
      BY <1>2, <3>1, <3>2, Zenon
  <2>2. owner \in [Locks -> Threads \cup {NULL}]
    BY DEF Init
  <2>3. /\ pc \in [Threads -> Places]
        /\ method \in [Threads -> Methods \cup {NULL}]
        /\ self \in [Threads -> Sessions \cup {NULL}]
        /\ other \in [Threads -> Sessions \cup {NULL}]
        /\ depth \in [Threads -> 0..3]
    BY DEF Init, Places
  <2>4. hash \in [Sessions -> Hashes] /\ closed \subseteq Sessions
    BY DEF Init
  <2> QED
    BY <1>1, <1>2, <2>1, <2>2, <2>3, <2>4 DEF TypeOK
<1>4. Planned
  BY <1>2 DEF Planned, Inside
<1>5. OwnersAreRight
  <2>1. 1..0 = {}
    OBVIOUS
  <2>2. \A l \in Locks : owner[l] = NULL
    BY DEF Init
  <2> QED
    BY <1>2, <2>1, <2>2 DEF OwnersAreRight
<1>6. Checked
  BY <1>2 DEF Checked
<1> QED
  BY <1>3, <1>4, <1>5, <1>6 DEF Inv

(* The inductive invariant of the locking discipline.                       *)
THEOREM Invariance == Spec => []Inv
<1>1. Inv /\ [Next]_vars => Inv'
  BY TypeStep, PlannedStep, OwnersStep, CheckedStep DEF Inv
<1> QED
  BY InvInit, <1>1, PTL DEF Spec

(* The types of the variables, plans of at most three monitors included:    *)
(* withLocks never waits when it has entered all the monitors it needs.     *)
THEOREM TypeCorrect == Spec => []TypeOK
<1>1. Inv => TypeOK
  BY DEF Inv
<1> QED
  BY Invariance, <1>1, PTL

(* A monitor belongs to the thread that entered it and has not left it.     *)
THEOREM OwnersCorrect == Spec => []OwnersAreRight
<1>1. Inv => OwnersAreRight
  BY DEF Inv
<1> QED
  BY Invariance, <1>1, PTL

(* No operand of connected, compare or merge is closed or given up while    *)
(* the native method runs.                                                  *)
THEOREM OperandsAreSafe == Spec => []OperandsStayOpen
<1>1. Inv => OperandsStayOpen
  <2> SUFFICES ASSUME Inv, NEW t \in Threads, pc[t] = "native"
               PROVE  \A s \in {self[t], other[t]} : s \notin closed /\ owner[s] = t
    BY DEF OperandsStayOpen
  <2>1. owner[self[t]] = t /\ owner[other[t]] = t
    BY OperandsAreOwned DEF Inside
  <2>2. self[t] \notin closed /\ other[t] \notin closed
    BY DEF Inv, Checked
  <2> QED
    BY <2>1, <2>2
<1> QED
  BY Invariance, <1>1, PTL

(* Two threads never work on the same session inside their monitors, one of *)
(* them in a native call.                                                   *)
THEOREM OperandsExclude == Spec => []OperandsAreExclusive
<1>1. Inv => OperandsAreExclusive
  <2> SUFFICES ASSUME Inv, NEW t \in Threads, NEW u \in Threads, t # u,
                      pc[t] \in Inside, pc[u] \in Inside
               PROVE  {self[t], other[t]} \cap {self[u], other[u]} = {}
    BY DEF OperandsAreExclusive, Inside
  <2>1. owner[self[t]] = t /\ owner[other[t]] = t
        /\ owner[self[u]] = u /\ owner[other[u]] = u
    BY OperandsAreOwned
  <2> QED
    BY <2>1
<1> QED
  BY Invariance, <1>1, PTL

-----------------------------------------------------------------------------
(* The absence of deadlock.  A thread that waits for a monitor owns only    *)
(* monitors of smaller rank, or else it owns the tie lock.                  *)
LEMMA WaitsAbove ==
  ASSUME Inv, NEW u \in Threads, pc[u] = "locking",
         NEW l \in Locks, owner[l] = u
  PROVE  /\ Wanted(u) \in Locks
         /\ Rank(l) <= Rank(Wanted(u))
         /\ Rank(l) = Rank(Wanted(u)) => owner[TieLock] = u
<1>1. /\ depth[u] \in 0..3
      /\ depth[u] + 1 \in 1..Len(plan[u])
      /\ Len(plan[u]) \in 1..3
      /\ Wanted(u) \in Locks
  BY PlanOf DEF Inv, Wanted
<1>2. PICK i \in 1..depth[u] : plan[u][i] = l
  BY DEF Inv, OwnersAreRight
<1>3. i \in 1..Len(plan[u]) /\ i < depth[u] + 1
  BY <1>1
<1>4. InOrder(plan[u])
  BY DEF Inv, Planned
<1>5. /\ Rank(l) <= Rank(Wanted(u))
      /\ Rank(l) = Rank(Wanted(u)) => i = 2 /\ depth[u] + 1 = 3
  BY <1>1, <1>2, <1>3, <1>4 DEF InOrder, Wanted
<1>6. ASSUME Rank(l) = Rank(Wanted(u))
      PROVE  owner[TieLock] = u
  <2>1. depth[u] = 2
    BY <1>1, <1>5, <1>6
  <2>2. Len(plan[u]) = 3
    <3>1. \A n \in 1..3 : 2 + 1 \in 1..n => n = 3
      OBVIOUS
    <3> QED
      BY <1>1, <2>1, <3>1
  <2>3. plan[u][1] = TieLock
    BY <1>4, <2>2 DEF InOrder
  <2>4. 1 \in 1..depth[u] /\ TieLock \in Locks
    BY <2>1 DEF Locks
  <2> QED
    BY <2>3, <2>4 DEF Inv, OwnersAreRight
<1> QED
  BY <1>1, <1>5, <1>6

(* A set of natural numbers with an upper bound has a largest one.          *)
LEMMA LargestOf ==
  ASSUME NEW N \in Nat, NEW S \in SUBSET (0..N), S # {}
  PROVE  \E x \in S : \A y \in S : y <= x
<1> DEFINE T == {N - x : x \in S}
<1>1. T \subseteq Nat /\ T # {}
  <2>1. \A x \in S : N - x \in Nat
    OBVIOUS
  <2> QED
    BY <2>1
<1>2. OpToRel(<, Nat) = {p \in Nat \X Nat : p[1] < p[2]}
  BY DEF OpToRel
<1>3. PICK m \in T : \A n \in T : <<n, m>> \notin OpToRel(<, Nat)
  BY <1>1, WFMin, NatLessThanWellFounded
<1>4. PICK x \in S : m = N - x
  OBVIOUS
<1>5. \A y \in S : y <= x
  <2> TAKE y \in S
  <2>1. N - y \in T /\ <<N - y, m>> \notin OpToRel(<, Nat)
    BY <1>3
  <2>2. ~(N - y < m)
    BY <1>1, <1>2, <2>1
  <2> QED
    BY <1>4, <2>2
<1> QED
  BY <1>5

(* connected, compare and merge never wait for each other in a circle, nor  *)
(* do the methods of one session and close() join one, in whatever order    *)
(* the sessions are given and whether or not their identity hashes collide. *)
(* In a circle, take the thread that waits for the monitor of largest rank: *)
(* the owner of that monitor must hold the tie lock, and so must the owner  *)
(* of the one it waits for in turn, so the two are the same thread.         *)
THEOREM DeadlockFree == Spec => []NoDeadlock
<1>1. Inv => NoDeadlock
  <2> SUFFICES ASSUME Inv, NEW D \in SUBSET Threads, D # {},
                      \A t \in D : Blocked(t) /\ owner[Wanted(t)] \in D
               PROVE  FALSE
    BY DEF NoDeadlock
  <2>1. \A t \in D : /\ pc[t] = "locking"
                     /\ Wanted(t) \in Locks
                     /\ Rank(Wanted(t)) \in 0..(MaxHash + 1)
    <3> TAKE t \in D
    <3>1. pc[t] = "locking"
      BY DEF Blocked
    <3>2. Wanted(t) \in Locks
      BY <3>1, PlanOf DEF Inv, Wanted
    <3> QED
      BY <3>1, <3>2 DEF Rank, Locks, Inv, TypeOK, Hashes
  <2> DEFINE S == {Rank(Wanted(t)) : t \in D}
  <2>2. PICK x \in S : \A y \in S : y <= x
    <3>1. S \in SUBSET (0..(MaxHash + 1)) /\ S # {}
      BY <2>1
    <3>2. MaxHash + 1 \in Nat
      OBVIOUS
    <3> HIDE DEF S
    <3> QED
      BY <3>1, <3>2, LargestOf
  <2>3. PICK t \in D : x = Rank(Wanted(t))
    OBVIOUS
  <2> DEFINE u == owner[Wanted(t)]
             v == owner[Wanted(u)]
  <2>4. u \in D /\ v \in D
    OBVIOUS
  <2>5. Rank(Wanted(u)) <= Rank(Wanted(t)) /\ Rank(Wanted(v)) <= Rank(Wanted(t))
    BY <2>2, <2>3, <2>4
  <2>6. /\ Rank(Wanted(t)) <= Rank(Wanted(u))
        /\ Rank(Wanted(t)) = Rank(Wanted(u)) => owner[TieLock] = u
    BY <2>1, <2>4, WaitsAbove
  <2>7. /\ Rank(Wanted(u)) <= Rank(Wanted(v))
        /\ Rank(Wanted(u)) = Rank(Wanted(v)) => owner[TieLock] = v
    BY <2>1, <2>4, WaitsAbove
  <2>8. Rank(Wanted(t)) \in Int /\ Rank(Wanted(u)) \in Int /\ Rank(Wanted(v)) \in Int
    BY <2>1, <2>4
  <2>9. owner[TieLock] = u /\ owner[TieLock] = v
    BY <2>5, <2>6, <2>7, <2>8
  <2>10. owner[Wanted(u)] = u
    BY <2>9
  <2>11. \E i \in 1..depth[u] : plan[u][i] = Wanted(u)
    BY <2>1, <2>4, <2>10 DEF Inv, OwnersAreRight
  <2>12. depth[u] \in 0..3 /\ depth[u] + 1 \in 1..Len(plan[u])
         /\ \A i, j \in 1..Len(plan[u]) : i # j => plan[u][i] # plan[u][j]
    BY <2>1, <2>4, PlanOf DEF Inv
  <2>13. PICK i \in 1..depth[u] : plan[u][i] = plan[u][depth[u] + 1]
    BY <2>11 DEF Wanted
  <2>14. i # depth[u] + 1
    BY <2>12
  <2>15. i \in 1..Len(plan[u])
    BY <2>12
  <2> QED
    BY <2>12, <2>13, <2>14, <2>15
<1> QED
  BY Invariance, <1>1, PTL
=============================================================================
