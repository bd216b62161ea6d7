---------------------------- MODULE SessionLocks ----------------------------
(***************************************************************************)
(* The monitors of InboundGroupSession.  connected, compare and merge lock *)
(* two sessions (withLocks), in the order of their identity hashes and,    *)
(* when these collide, under one global lock; every other method and       *)
(* close() lock one session.                                               *)
(*                                                                         *)
(* System.identityHashCode is an arbitrary function: it is chosen in the   *)
(* initial state, and collisions are allowed.                              *)
(***************************************************************************)
EXTENDS Naturals, Sequences

CONSTANTS
  Threads,
  Sessions,
  MaxHash,   \* the largest value identityHashCode can take
  TieLock,   \* IDENTITY_HASH_TIEBREAK_LOCK
  NULL       \* no thread, no session, no method

Locks == Sessions \cup {TieLock}

Methods == {"pair", "single", "close"}

ASSUME MaxHashAssumption == MaxHash \in Nat

Hashes == 0..MaxHash

ASSUME SentinelAssumption ==
  /\ TieLock \notin Sessions
  /\ NULL \notin Threads \cup Locks \cup Methods

VARIABLES
  hash,    \* System.identityHashCode of each session
  owner,   \* the thread that owns each monitor
  closed,  \* the sessions whose pointer has been taken
  pc,      \* where each thread is
  method,  \* which kind of method it executes,
  self,    \*   on which session
  other,   \*   and with which argument (self again if it takes none)
  plan,    \* the monitors that method enters, in this order
  depth    \* how many of them the thread has entered

vars == <<hash, owner, closed, pc, method, self, other, plan, depth>>

call == <<method, self, other, plan>>

Places == {"idle", "locking", "checkSelf", "checkOther", "native", "closing",
           "unlocking"}

\* Where a thread is inside all the monitors of its method.
Inside == {"checkSelf", "checkOther", "native", "closing"}

TypeOK ==
  /\ hash \in [Sessions -> Hashes]
  /\ owner \in [Locks -> Threads \cup {NULL}]
  /\ closed \subseteq Sessions
  /\ pc \in [Threads -> Places]
  /\ method \in [Threads -> Methods \cup {NULL}]
  /\ self \in [Threads -> Sessions \cup {NULL}]
  /\ other \in [Threads -> Sessions \cup {NULL}]
  /\ plan \in [Threads -> Seq(Locks)]
  /\ depth \in [Threads -> 0..3]
  /\ \A t \in Threads :
       /\ depth[t] <= Len(plan[t])
       /\ pc[t] # "idle" =>
            method[t] \in Methods /\ self[t] \in Sessions /\ other[t] \in Sessions
       /\ pc[t] = "locking" => depth[t] < Len(plan[t])

Init ==
  /\ hash \in [Sessions -> Hashes]
  /\ owner = [l \in Locks |-> NULL]
  /\ closed = {}
  /\ pc = [t \in Threads |-> "idle"]
  /\ method = [t \in Threads |-> NULL]
  /\ self = [t \in Threads |-> NULL]
  /\ other = [t \in Threads |-> NULL]
  /\ plan = [t \in Threads |-> << >>]
  /\ depth = [t \in Threads |-> 0]

Goto(t, place) == pc' = [pc EXCEPT ![t] = place]

-----------------------------------------------------------------------------
(* Calling a method.                                                       *)

\* Ordered by hash, with no answer to a collision.
PlanWithoutTie(a, b) ==
  IF a = b THEN <<a>> ELSE IF hash[b] < hash[a] THEN <<b, a>> ELSE <<a, b>>

\* The tie lock taken last, when a session is locked already.
PlanTieLast(a, b) ==
  CASE a = b -> <<a>>
    [] a # b /\ hash[a] = hash[b] -> <<a, TieLock, b>>
    [] hash[a] < hash[b] -> <<a, b>>
    [] hash[b] < hash[a] -> <<b, a>>

\* The operand named first is the only one locked.
PlanSelfOnly(a, b) == <<a>>

\* The monitors withLocks enters, in this order; a method of one session
\* enters the one of that session.
Plan(a, b) ==
  CASE a = b -> <<a>>
    [] a # b /\ hash[a] = hash[b] -> <<TieLock, a, b>>
    [] hash[a] < hash[b] -> <<a, b>>
    [] hash[b] < hash[a] -> <<b, a>>

Call(t, m, a, b) ==
  /\ pc[t] = "idle"
  /\ m # "pair" => a = b
  /\ method' = [method EXCEPT ![t] = m]
  /\ self' = [self EXCEPT ![t] = a]
  /\ other' = [other EXCEPT ![t] = b]
  /\ plan' = [plan EXCEPT ![t] = Plan(a, b)]
  /\ Goto(t, "locking")
  /\ UNCHANGED <<hash, owner, closed, depth>>

-----------------------------------------------------------------------------
(* Entering the monitors.                                                  *)

Wanted(t) == plan[t][depth[t] + 1]

FirstPlace(m) == IF m = "close" THEN "closing" ELSE "checkSelf"

\* One block too many.
AcquireOnceMore(t) ==
  /\ pc[t] = "locking"
  /\ owner[Wanted(t)] = NULL
  /\ owner' = [owner EXCEPT ![Wanted(t)] = t]
  /\ depth' = [depth EXCEPT ![t] = @ + 1]
  /\ Goto(t, IF depth[t] = Len(plan[t]) THEN FirstPlace(method[t])
                                        ELSE "locking")
  /\ UNCHANGED <<hash, closed, call>>

\* monitorenter.
Acquire(t) ==
  /\ pc[t] = "locking"
  /\ owner[Wanted(t)] = NULL
  /\ owner' = [owner EXCEPT ![Wanted(t)] = t]
  /\ depth' = [depth EXCEPT ![t] = @ + 1]
  /\ Goto(t, IF depth[t] + 1 = Len(plan[t]) THEN FirstPlace(method[t])
                                            ELSE "locking")
  /\ UNCHANGED <<hash, closed, call>>

-----------------------------------------------------------------------------
(* Inside all of them.                                                     *)

\* checkNotClosed() on this; IllegalStateException leaves every block.
CheckSelf(t) ==
  /\ pc[t] = "checkSelf"
  /\ Goto(t, CASE self[t] \in closed -> "unlocking"
               [] self[t] \notin closed /\ method[t] = "pair" -> "checkOther"
               [] OTHER -> "native")
  /\ UNCHANGED <<hash, owner, closed, call, depth>>

\* other.checkNotClosed() forgotten.
NoCheckOther(t) ==
  /\ pc[t] = "checkOther"
  /\ Goto(t, "native")
  /\ UNCHANGED <<hash, owner, closed, call, depth>>

CheckOther(t) ==
  /\ pc[t] = "checkOther"
  /\ Goto(t, IF other[t] \in closed THEN "unlocking" ELSE "native")
  /\ UNCHANGED <<hash, owner, closed, call, depth>>

\* The native method returns, or throws as check_self_pointer does when both
\* pointers are the same.
NativeReturn(t) ==
  /\ pc[t] = "native"
  /\ Goto(t, "unlocking")
  /\ UNCHANGED <<hash, owner, closed, call, depth>>

Close(t) ==
  /\ pc[t] = "closing"
  /\ closed' = closed \cup {self[t]}
  /\ Goto(t, "unlocking")
  /\ UNCHANGED <<hash, owner, call, depth>>

-----------------------------------------------------------------------------
\* Leaving only the innermost monitor, as a lock without a finally clause.
ReleaseInnermost(t) ==
  /\ pc[t] = "unlocking"
  /\ owner' = [owner EXCEPT ![plan[t][depth[t]]] = NULL]
  /\ depth' = [depth EXCEPT ![t] = 0]
  /\ method' = [method EXCEPT ![t] = NULL]
  /\ self' = [self EXCEPT ![t] = NULL]
  /\ other' = [other EXCEPT ![t] = NULL]
  /\ plan' = [plan EXCEPT ![t] = << >>]
  /\ Goto(t, "idle")
  /\ UNCHANGED <<hash, closed>>

\* Leaving a synchronized block, the innermost first.
Release(t) ==
  /\ pc[t] = "unlocking"
  /\ depth[t] > 1
  /\ owner' = [owner EXCEPT ![plan[t][depth[t]]] = NULL]
  /\ depth' = [depth EXCEPT ![t] = @ - 1]
  /\ UNCHANGED <<hash, closed, pc, call>>

\* Leaving the outermost one and the method.
Return(t) ==
  /\ pc[t] = "unlocking"
  /\ depth[t] = 1
  /\ owner' = [owner EXCEPT ![plan[t][1]] = NULL]
  /\ depth' = [depth EXCEPT ![t] = 0]
  /\ method' = [method EXCEPT ![t] = NULL]
  /\ self' = [self EXCEPT ![t] = NULL]
  /\ other' = [other EXCEPT ![t] = NULL]
  /\ plan' = [plan EXCEPT ![t] = << >>]
  /\ Goto(t, "idle")
  /\ UNCHANGED <<hash, closed>>

-----------------------------------------------------------------------------
Proceed(t) ==
  \/ Acquire(t)
  \/ CheckSelf(t)
  \/ CheckOther(t)
  \/ NativeReturn(t)
  \/ Close(t)
  \/ Release(t)
  \/ Return(t)

Next ==
  \E t \in Threads :
    \/ Proceed(t)
    \/ \E m \in Methods, a, b \in Sessions : Call(t, m, a, b)

Spec == Init /\ [][Next]_vars

-----------------------------------------------------------------------------
\* Every operand of a native call stays open and locked by the caller while
\* the call runs, also when close() is called on the other operand between
\* the two checks or while the caller waits for its second monitor.
OperandsStayOpen ==
  \A t \in Threads : pc[t] = "native" =>
    \A s \in {self[t], other[t]} : s \notin closed /\ owner[s] = t

\* No native call and no close() on another thread works on an operand of a
\* native call: connected, compare and merge exclude each other and all
\* other methods of either session.
OperandsAreExclusive ==
  \A t, u \in Threads :
    /\ t # u
    /\ pc[t] = "native"
    /\ pc[u] \in Inside
    => {self[t], other[t]} \cap {self[u], other[u]} = {}

Blocked(t) == pc[t] = "locking" /\ owner[Wanted(t)] # NULL

\* No set of threads waits for each other, whichever sessions they lock, in
\* whichever argument order, and whatever the identity hashes are.
NoDeadlock ==
  \A D \in SUBSET Threads :
    (\A t \in D : Blocked(t) /\ owner[Wanted(t)] \in D) => D = {}

\* A monitor belongs to the thread that entered it and has not left it, and
\* to no one else.
OwnersAreRight ==
  \A l \in Locks, t \in Threads :
    owner[l] = t <=> \E i \in 1..depth[t] : plan[t][i] = l

(***************************************************************************)
(* Weak fairness of each thread: native calls return, and a thread that    *)
(* waits for a monitor gets it if the monitor stays free.  Java monitors   *)
(* promise no more, so a single thread may starve.                         *)
(***************************************************************************)
FairSpec == Spec /\ \A t \in Threads : WF_vars(Proceed(t))

\* Calls keep completing: as long as there are any, some thread gets all its
\* monitors and does its work, again and again.
CallsComplete ==
  []<>(\/ \A t \in Threads : pc[t] = "idle"
       \/ \E t \in Threads : pc[t] = "unlocking")
=============================================================================
