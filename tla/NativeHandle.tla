---------------------------- MODULE NativeHandle ----------------------------
(***************************************************************************)
(* The Java objects that own native memory, and everything that can touch  *)
(* that memory: calls made through a handle, close(), the calls that       *)
(* consume a handle (Sas.diffieHellman, Ecies.establish...Channel), the    *)
(* calls that build a new native object from an existing one               *)
(* (Account.createInboundSession and the like), the garbage collector and  *)
(* the thread of java.lang.ref.Cleaner.                                    *)
(*                                                                         *)
(* Each statement that reads or writes shared state is a step of its own,  *)
(* so the steps of different threads interleave freely; only the monitor   *)
(* of a handle ("synchronized") and the monitor of its State (take) make   *)
(* several of them atomic.  Native addresses are reused: an address that   *)
(* was freed may be returned by a later allocation, so a stale pointer may *)
(* come to denote a box that belongs to another handle.                    *)
(***************************************************************************)

CONSTANTS
  Threads,        \* the application threads that share handles
  Handles,        \* Java objects of a subclass of NativeHandle
  Boxes,          \* addresses of the native heap
  Constructible,  \* the kinds of handle the application constructs
  NULL            \* the 0 pointer, no thread, no handle, no kind

(***************************************************************************)
(* "plain" stands for every class without a consuming method, "sas" for    *)
(* Sas, whose native method takes its box back before it decodes its       *)
(* argument, "ecies" for Ecies, whose native methods decode first.         *)
(***************************************************************************)
Kinds == {"plain", "sas", "ecies"}

ASSUME ConstructibleAssumption == Constructible \subseteq Kinds

ASSUME NULLAssumption ==
  /\ NULL \notin Threads \cup Handles \cup Boxes
  /\ NULL \notin Kinds

VARIABLES
  live,        \* the boxes that are allocated
  kind,        \* the class of each Java object, NULL before and after its life
  ptr,         \* State.ptr of each object
  registered,  \* objects whose Cleanable is still in the Cleaner's list
  monitor,     \* the thread that owns the monitor of each object
  refs,        \* the objects each thread still has a variable for
  pc,          \* where each thread is
  op,          \* the operation a thread is executing
  target,      \* the object it is executing it on
  box,         \* the native pointer it holds in a local variable
  cleaner      \* the Cleaner's thread

vars == <<live, kind, ptr, registered, monitor, refs, pc, op, target, box,
          cleaner>>

object == <<kind, ptr, registered>>

(***************************************************************************)
(* The places a thread can be in.  The ones in Locked lie inside the       *)
(* synchronized method.  A thread in Claiming is the one that has to       *)
(* release or hand over the box its local variable points to.              *)
(***************************************************************************)
Ops == {"use", "derive", "consume", "close"}

Claiming == {"constructing", "consumed", "wrapping", "cleaning", "freeing"}

Locked == {"checking", "peeking", "native", "consumed", "wrapping",
           "invalidating", "taking", "cleaning", "freeing", "leaving"}

Places == Locked \cup {"idle", "constructing", "entering"}

Idle == [at |-> "idle", handle |-> NULL, box |-> NULL]

\* Where a thread works on a handle, and where it holds a native pointer.
WithTarget == Locked \cup {"entering"}

WithBox == {"constructing", "native", "consumed", "wrapping", "freeing"}

Types ==
  /\ live \subseteq Boxes
  /\ kind \in [Handles -> Kinds \cup {NULL}]
  /\ ptr \in [Handles -> Boxes \cup {NULL}]
  /\ registered \subseteq Handles
  /\ monitor \in [Handles -> Threads \cup {NULL}]
  /\ refs \in [Threads -> SUBSET Handles]
  /\ pc \in [Threads -> Places]
  /\ op \in [Threads -> Ops \cup {NULL}]
  /\ target \in [Threads -> Handles \cup {NULL}]
  /\ box \in [Threads -> Boxes \cup {NULL}]
  /\ cleaner \in [at: {"idle", "taking", "freeing"},
                  handle: Handles \cup {NULL},
                  box: Boxes \cup {NULL}]

\* The types of the variables, and no 0 pointer where one is dereferenced: no
\* native method is given one, so check_ptr never throws, and nothing but a
\* real address is ever freed.
TypeOK ==
  /\ Types
  /\ \A t \in Threads :
       /\ pc[t] \in WithTarget => op[t] \in Ops /\ target[t] \in Handles
       /\ pc[t] \in WithBox => box[t] # NULL

Init ==
  /\ live = {}
  /\ kind = [h \in Handles |-> NULL]
  /\ ptr = [h \in Handles |-> NULL]
  /\ registered = {}
  /\ monitor = [h \in Handles |-> NULL]
  /\ refs = [t \in Threads |-> {}]
  /\ pc = [t \in Threads |-> "idle"]
  /\ op = [t \in Threads |-> NULL]
  /\ target = [t \in Threads |-> NULL]
  /\ box = [t \in Threads |-> NULL]
  /\ cleaner = Idle

Goto(t, place) == pc' = [pc EXCEPT ![t] = place]

Hold(t, b) == box' = [box EXCEPT ![t] = b]

(***************************************************************************)
(* An object is reachable as long as a thread has a variable for it, is    *)
(* about to lock it, or is inside one of its synchronized methods: the     *)
(* monitor exit still needs the object.  A thread may forget its variable  *)
(* at any time, also in the middle of a call.                              *)
(***************************************************************************)
Reachable(h) ==
  \/ \E t \in Threads : h \in refs[t]
  \/ \E t \in Threads : pc[t] = "entering" /\ target[t] = h
  \/ monitor[h] # NULL

-----------------------------------------------------------------------------
(* Construction.                                                           *)

\* A constructor or static factory allocates the native object first.
NativeNew(t, b) ==
  /\ pc[t] = "idle"
  /\ b \notin live
  /\ live' = live \cup {b}
  /\ Hold(t, b)
  /\ Goto(t, "constructing")
  /\ UNCHANGED <<object, monitor, refs, op, target, cleaner>>

\* NativeHandle(ptr, freer) without registering with the Cleaner.
BecomeHandleUnregistered(h, k, b) ==
  /\ kind[h] = NULL
  /\ kind' = [kind EXCEPT ![h] = k]
  /\ ptr' = [ptr EXCEPT ![h] = b]
  /\ UNCHANGED registered

\* NativeHandle(ptr, freer): the State takes the pointer, the Cleaner is told.
BecomeHandle(h, k, b) ==
  /\ kind[h] = NULL
  /\ kind' = [kind EXCEPT ![h] = k]
  /\ ptr' = [ptr EXCEPT ![h] = b]
  /\ registered' = registered \cup {h}

Remember(t, h) == refs' = [refs EXCEPT ![t] = @ \cup {h}]

Construct(t, h, k) ==
  /\ pc[t] = "constructing"
  /\ BecomeHandle(h, k, box[t])
  /\ Remember(t, h)
  /\ Hold(t, NULL)
  /\ Goto(t, "idle")
  /\ UNCHANGED <<live, monitor, op, target, cleaner>>

-----------------------------------------------------------------------------
(* Entering a synchronized method, and the check every method begins with. *)

Call(t, h, o) ==
  /\ pc[t] = "idle"
  /\ h \in refs[t]
  /\ o = "consume" => kind[h] # "plain"
  /\ o = "derive" => kind[h] = "plain"
  /\ op' = [op EXCEPT ![t] = o]
  /\ target' = [target EXCEPT ![t] = h]
  /\ Goto(t, "entering")
  /\ UNCHANGED <<live, object, monitor, refs, box, cleaner>>

FirstPlace(o) == IF o = "close" THEN "taking" ELSE "checking"

\* A method that is not synchronized.
LockNothing(t) ==
  /\ pc[t] = "entering"
  /\ monitor' = [monitor EXCEPT ![target[t]] = t]
  /\ Goto(t, FirstPlace(op[t]))
  /\ UNCHANGED <<live, object, refs, op, target, box, cleaner>>

\* close() declared without synchronized, the other methods with it.
LockUnlessClosing(t) ==
  /\ pc[t] = "entering"
  /\ IF op[t] = "close"
     THEN UNCHANGED monitor
     ELSE /\ monitor[target[t]] = NULL
          /\ monitor' = [monitor EXCEPT ![target[t]] = t]
  /\ Goto(t, FirstPlace(op[t]))
  /\ UNCHANGED <<live, object, refs, op, target, box, cleaner>>

Lock(t) ==
  /\ pc[t] = "entering"
  /\ monitor[target[t]] = NULL
  /\ monitor' = [monitor EXCEPT ![target[t]] = t]
  /\ Goto(t, FirstPlace(op[t]))
  /\ UNCHANGED <<live, object, refs, op, target, box, cleaner>>

\* A method that forgets to call checkNotClosed().
NoCheck(t) ==
  /\ pc[t] = "checking"
  /\ Goto(t, "peeking")
  /\ UNCHANGED <<live, object, monitor, refs, op, target, box, cleaner>>

\* The checks inside the monitor, before anything is touched: an argument that
\* is null, where the method asks (NullPointerException), and checkNotClosed()
\* (IllegalStateException on a closed handle).
CheckNotClosed(t) ==
  /\ pc[t] = "checking"
  /\ \/ Goto(t, "leaving")
     \/ ptr[target[t]] # NULL /\ Goto(t, "peeking")
  /\ UNCHANGED <<live, object, monitor, refs, op, target, box, cleaner>>

\* nativePtr() is read unsynchronized and passed to the native method.
Peek(t) ==
  /\ pc[t] = "peeking"
  /\ Hold(t, ptr[target[t]])
  /\ Goto(t, "native")
  /\ UNCHANGED <<live, object, monitor, refs, op, target, cleaner>>

-----------------------------------------------------------------------------
(* Inside the native method.                                               *)

\* Where control goes when the native method has returned or thrown.
AfterNative(o) == IF o = "consume" THEN "invalidating" ELSE "leaving"

\* Every consuming method decodes its argument before Box::from_raw.
NativeReturnDecodeFirst(t) ==
  /\ pc[t] = "native"
  /\ Hold(t, NULL)
  /\ Goto(t, AfterNative(op[t]))
  /\ UNCHANGED <<live, object, monitor, refs, op, target, cleaner>>

\* The native method returns or throws and leaves the box where it is.  A
\* consuming method does so on a null pointer; Ecies also when the key or
\* the initial message it was given does not decode.
NativeReturn(t) ==
  /\ pc[t] = "native"
  /\ op[t] = "consume" => box[t] = NULL \/ kind[target[t]] = "ecies"
  /\ Hold(t, NULL)
  /\ Goto(t, AfterNative(op[t]))
  /\ UNCHANGED <<live, object, monitor, refs, op, target, cleaner>>

\* Box::from_raw: from here on the native frame owns the box.
FromRaw(t) ==
  /\ pc[t] = "native"
  /\ op[t] = "consume"
  /\ box[t] # NULL
  /\ Goto(t, "consumed")
  /\ UNCHANGED <<live, object, monitor, refs, op, target, box, cleaner>>

\* The key is malformed or not contributory: the frame drops the box.
ConsumeFail(t) ==
  /\ pc[t] = "consumed"
  /\ live' = live \ {box[t]}
  /\ Hold(t, NULL)
  /\ Goto(t, "invalidating")
  /\ UNCHANGED <<object, monitor, refs, op, target, cleaner>>

\* The crate consumes the old object; RawBox owns the established one.
Establish(t, b) ==
  /\ pc[t] = "consumed"
  /\ b \notin live
  /\ live' = (live \ {box[t]}) \cup {b}
  /\ Hold(t, b)
  /\ Goto(t, "wrapping")
  /\ UNCHANGED <<object, monitor, refs, op, target, cleaner>>

\* A session is created from an account: RawBox owns the session.
Derive(t, b) ==
  /\ pc[t] = "native"
  /\ op[t] = "derive"
  /\ box[t] # NULL
  /\ b \notin live
  /\ live' = live \cup {b}
  /\ Hold(t, b)
  /\ Goto(t, "wrapping")
  /\ UNCHANGED <<object, monitor, refs, op, target, cleaner>>

\* env.new_object runs the Java constructor, then RawBox::leak.
NewObject(t, h) ==
  /\ pc[t] = "wrapping"
  /\ BecomeHandle(h, "plain", box[t])
  /\ Remember(t, h)
  /\ Hold(t, NULL)
  /\ Goto(t, AfterNative(op[t]))
  /\ UNCHANGED <<live, monitor, op, target, cleaner>>

\* A raw pointer instead of a RawBox: nothing is dropped on failure.
NewObjectFailsLeaking(t) ==
  /\ pc[t] = "wrapping"
  /\ Hold(t, NULL)
  /\ Goto(t, AfterNative(op[t]))
  /\ UNCHANGED <<live, object, monitor, refs, op, target, cleaner>>

\* env.new_object fails: RawBox is dropped and frees the new object.
NewObjectFails(t) ==
  /\ pc[t] = "wrapping"
  /\ live' = live \ {box[t]}
  /\ Hold(t, NULL)
  /\ Goto(t, AfterNative(op[t]))
  /\ UNCHANGED <<object, monitor, refs, op, target, cleaner>>

-----------------------------------------------------------------------------
(* invalidate(), close() and the end of every synchronized method.         *)

\* A consuming method without the finally clause around the native call.
SkipInvalidate(t) ==
  /\ pc[t] = "invalidating"
  /\ Goto(t, "leaving")
  /\ UNCHANGED <<live, object, monitor, refs, op, target, box, cleaner>>

\* invalidate(), first half: State.take() of a pointer given away.
Invalidate(t) ==
  /\ pc[t] = "invalidating"
  /\ ptr' = [ptr EXCEPT ![target[t]] = NULL]
  /\ Goto(t, "cleaning")
  /\ UNCHANGED <<live, kind, registered, monitor, refs, op, target, box,
                 cleaner>>

\* close() that reads the pointer and does not take it.
PeekToClose(t) ==
  /\ pc[t] = "taking"
  /\ Hold(t, ptr[target[t]])
  /\ Goto(t, IF ptr[target[t]] = NULL THEN "leaving" ELSE "cleaning")
  /\ UNCHANGED <<live, object, monitor, refs, op, target, cleaner>>

\* close(), first half: State.take(), nothing more on a closed handle.
Take(t) ==
  /\ pc[t] = "taking"
  /\ Hold(t, ptr[target[t]])
  /\ ptr' = [ptr EXCEPT ![target[t]] = NULL]
  /\ Goto(t, IF ptr[target[t]] = NULL THEN "leaving" ELSE "cleaning")
  /\ UNCHANGED <<live, kind, registered, monitor, refs, op, target, cleaner>>

\* close() that trusts clean() to free what take() has already removed.
CleanInsteadOfFree(t) ==
  LET h == target[t] IN
  /\ pc[t] = "cleaning"
  /\ registered' = registered \ {h}
  /\ live' = live \ {ptr[h]}
  /\ Hold(t, NULL)
  /\ Goto(t, "leaving")
  /\ UNCHANGED <<kind, ptr, monitor, refs, op, target, cleaner>>

\* cleanable.clean() runs the LeakGuard at most once, on this thread; the
\* guard frees what the State still holds.
Clean(t) ==
  LET h == target[t] IN
  /\ pc[t] = "cleaning"
  /\ IF h \in registered
     THEN /\ registered' = registered \ {h}
          /\ live' = live \ {ptr[h]}
          /\ ptr' = [ptr EXCEPT ![h] = NULL]
     ELSE UNCHANGED <<registered, live, ptr>>
  /\ Goto(t, IF box[t] = NULL THEN "leaving" ELSE "freeing")
  /\ UNCHANGED <<kind, monitor, refs, op, target, box, cleaner>>

\* nativeFreer.accept(ptr), the end of close().
Free(t) ==
  /\ pc[t] = "freeing"
  /\ live' = live \ {box[t]}
  /\ Hold(t, NULL)
  /\ Goto(t, "leaving")
  /\ UNCHANGED <<object, monitor, refs, op, target, cleaner>>

Unlock(t) ==
  /\ pc[t] = "leaving"
  /\ monitor' = [monitor EXCEPT ![target[t]] = NULL]
  /\ op' = [op EXCEPT ![t] = NULL]
  /\ target' = [target EXCEPT ![t] = NULL]
  /\ Goto(t, "idle")
  /\ UNCHANGED <<live, object, refs, box, cleaner>>

-----------------------------------------------------------------------------
(* The application passes handles between threads and forgets them.        *)

Share(t, u, h) ==
  /\ h \in refs[t] \ refs[u]
  /\ Remember(u, h)
  /\ UNCHANGED <<live, object, monitor, pc, op, target, box, cleaner>>

Forget(t, h) ==
  /\ h \in refs[t]
  /\ refs' = [refs EXCEPT ![t] = @ \ {h}]
  /\ UNCHANGED <<live, object, monitor, pc, op, target, box, cleaner>>

-----------------------------------------------------------------------------
(* The garbage collector and the Cleaner's thread.                         *)

\* The Cleaner's thread dequeues an object that became unreachable, and
\* removes its Cleanable from the list.
Dequeue(h) ==
  /\ cleaner.at = "idle"
  /\ h \in registered
  /\ ~Reachable(h)
  /\ registered' = registered \ {h}
  /\ cleaner' = [at |-> "taking", handle |-> h, box |-> NULL]
  /\ UNCHANGED <<live, kind, ptr, monitor, refs, pc, op, target, box>>

\* LeakGuard.run(), first half: State.take() and the test for 0.
LeakGuardTake ==
  LET h == cleaner.handle IN
  /\ cleaner.at = "taking"
  /\ ptr' = [ptr EXCEPT ![h] = NULL]
  /\ IF ptr[h] = NULL
     THEN cleaner' = Idle /\ kind' = [kind EXCEPT ![h] = NULL]
     ELSE /\ cleaner' = [at |-> "freeing", handle |-> h, box |-> ptr[h]]
          /\ UNCHANGED kind
  /\ UNCHANGED <<live, registered, monitor, refs, pc, op, target, box>>

\* LeakGuard.run() that logs its warning and returns.
LeakGuardLogs ==
  /\ cleaner.at = "freeing"
  /\ kind' = [kind EXCEPT ![cleaner.handle] = NULL]
  /\ cleaner' = Idle
  /\ UNCHANGED <<live, ptr, registered, monitor, refs, pc, op, target, box>>

\* LeakGuard.run(), second half: the warning, then nativeFreer.accept(ptr). The
\* logger is assumed not to throw.
LeakGuardFree ==
  /\ cleaner.at = "freeing"
  /\ live' = live \ {cleaner.box}
  /\ kind' = [kind EXCEPT ![cleaner.handle] = NULL]
  /\ cleaner' = Idle
  /\ UNCHANGED <<ptr, registered, monitor, refs, pc, op, target, box>>

\* An object the Cleaner no longer knows is simply garbage.
Collect(h) ==
  /\ kind[h] # NULL
  /\ h \notin registered
  /\ h # cleaner.handle
  /\ ~Reachable(h)
  /\ kind' = [kind EXCEPT ![h] = NULL]
  /\ UNCHANGED <<live, ptr, registered, monitor, refs, pc, op, target, box,
                 cleaner>>

-----------------------------------------------------------------------------
\* What a thread does by itself once it has begun a call.
Proceed(t) ==
  \/ \E h \in Handles, k \in Constructible : Construct(t, h, k)
  \/ Lock(t)
  \/ CheckNotClosed(t)
  \/ Peek(t)
  \/ NativeReturn(t)
  \/ FromRaw(t)
  \/ ConsumeFail(t)
  \/ \E b \in Boxes : Establish(t, b) \/ Derive(t, b)
  \/ \E h \in Handles : NewObject(t, h)
  \/ NewObjectFails(t)
  \/ Invalidate(t)
  \/ Take(t)
  \/ Clean(t)
  \/ Free(t)
  \/ Unlock(t)

\* What the application decides to do.
Application(t) ==
  \/ \E b \in Boxes : NativeNew(t, b)
  \/ \E h \in Handles, o \in Ops : Call(t, h, o)
  \/ \E u \in Threads, h \in Handles : Share(t, u, h)
  \/ \E h \in Handles : Forget(t, h)

LeakGuardRun == LeakGuardTake \/ LeakGuardFree

Collector == \E h \in Handles : Dequeue(h) \/ Collect(h)

Next ==
  \/ \E t \in Threads : Proceed(t) \/ Application(t)
  \/ LeakGuardRun
  \/ Collector

Spec == Init /\ [][Next]_vars
-----------------------------------------------------------------------------
(* Who is responsible for a box.  A consuming call leaves the pointer of   *)
(* its handle in place until invalidate(); in between the native code, not *)
(* the handle, owns the box, and the pointer may even dangle.              *)

Spent(h) ==
  \E t \in Threads :
    /\ target[t] = h
    /\ op[t] = "consume"
    /\ pc[t] \in {"consumed", "wrapping", "invalidating"}

OwnedByThread(t, b) == pc[t] \in Claiming /\ box[t] = b

OwnedByHandle(h, b) == kind[h] # NULL /\ ptr[h] = b /\ ~Spent(h)

OwnedByCleaner(b) == cleaner.at = "freeing" /\ cleaner.box = b

Owners(b) ==
  {<<"thread", t>> : t \in {u \in Threads : OwnedByThread(u, b)}}
    \cup {<<"handle", h>> : h \in {g \in Handles : OwnedByHandle(g, b)}}
    \cup {<<"cleaner", NULL>> : c \in {d \in {cleaner} : OwnedByCleaner(b)}}

(***************************************************************************)
(* Safety.                                                                 *)
(***************************************************************************)

\* A native call is given an allocated box, and it stays allocated until the
\* call is over: neither close() on another thread, nor a consuming call, nor
\* the Cleaner pulls it away, although nativePtr() is read without a lock of
\* its own after checkNotClosed().
NoUseAfterFree == \A t \in Threads : pc[t] = "native" => box[t] \in live

\* Whoever is about to free a box, or to give it to a new owner, holds one
\* that is still allocated: close(), LeakGuard.run(), the drop of a RawBox
\* and the drop at the end of a consuming call never free the same box twice.
NoDoubleFree ==
  /\ \A t \in Threads :
       pc[t] \in Claiming /\ box[t] # NULL => box[t] \in live
  /\ cleaner.at = "freeing" => cleaner.box \in live

\* No box has two owners, and what has an owner is allocated.  Addresses are
\* reused, so a handle that kept a stale pointer would come to share the box
\* of another handle.
SoleOwner ==
  \A b \in Boxes :
    /\ \A x, y \in Owners(b) : x = y
    /\ Owners(b) # {} => b \in live

\* Every allocated box has an owner, so that somebody can still free it:
\* failing native calls, failing constructors and invalidate() lose none.
NoOrphan == \A b \in live : Owners(b) # {}

\* The safety net is under every pointer: as long as an object holds one, its
\* LeakGuard is registered or already running.
GuardArmed ==
  \A h \in Handles :
    kind[h] # NULL /\ ptr[h] # NULL =>
      h \in registered \/ (cleaner.at = "taking" /\ cleaner.handle = h)

\* What checkNotClosed() established still holds when the native method gets
\* the pointer and for as long as it runs: the handle is open and the pointer
\* is its own.
CheckStillHolds ==
  \A t \in Threads :
    /\ pc[t] = "peeking" => ptr[target[t]] # NULL
    /\ pc[t] = "native" => box[t] # NULL /\ ptr[target[t]] = box[t]

\* Calls on one handle are serialized: while one is in its native part no
\* other call has passed the monitor, and close() waits for it.
Serialized ==
  \A t, u \in Threads :
    /\ pc[t] \in {"native", "consumed", "wrapping"}
    /\ pc[u] \in Locked
    /\ target[t] = target[u]
    => t = u

ChangedByOwner(h) ==
  \/ \E t \in Threads : monitor[h] = t /\ pc'[t] # pc[t]
  \/ cleaner.handle = h /\ ~Reachable(h)

\* The pointer of an object is only changed by the owner of its monitor, or by
\* the Cleaner once nobody can reach the object any more; so the thread inside
\* a synchronized method may rely on it although nativePtr() takes no lock.
GuardedPointer ==
  [][\A h \in Handles : kind[h] # NULL /\ ptr'[h] # ptr[h] => ChangedByOwner(h)]_vars

(***************************************************************************)
(* The life of each address as NativeOwnership describes it.  A box that   *)
(* is allocated and has no owner is "lost", which is no state there.       *)
(***************************************************************************)
Claimed(b) == OwnedByCleaner(b) \/ \E t \in Threads : OwnedByThread(t, b)

InUse(b) == \E t \in Threads : pc[t] = "native" /\ box[t] = b

StateOf(b) ==
  IF b \notin live THEN "free"
  ELSE IF Claimed(b) THEN "claimed"
  ELSE IF InUse(b) THEN "inuse"
  ELSE IF \E h \in Handles : OwnedByHandle(h, b) THEN "idle"
  ELSE "lost"

Ownership == INSTANCE NativeOwnership WITH
  state <- [b \in Boxes |-> StateOf(b)]

\* The threads, the locks and the Cleaner together implement the life cycle.
ImplementsOwnership == Ownership!Spec

(***************************************************************************)
(* Liveness.  A thread that has begun a call goes on with it (weak         *)
(* fairness: native calls return).  Nothing is assumed of Java monitors,   *)
(* which are not fair, nor of the application.  The garbage collector      *)
(* finds unreachable objects and the Cleaner's thread takes them from a    *)
(* queue, so none is overtaken forever: strong fairness of Dequeue.        *)
(***************************************************************************)
Fairness ==
  /\ \A t \in Threads : WF_vars(Proceed(t))
  /\ WF_vars(LeakGuardRun)
  /\ \A h \in Handles : SF_vars(Dequeue(h))

FairSpec == Spec /\ Fairness

Abandoned(h) == kind[h] # NULL /\ ~Reachable(h)

\* A box whose owner became garbage without having been closed is freed, as the
\* Javadoc of NativeHandle says and SECURITY.md denies (LeakedMemoryIsKept).
AbandonedIsReleased ==
  \A h \in Handles, b \in Boxes :
    (Abandoned(h) /\ ptr[h] = b) ~> (b \notin live)

\* close() frees what it took, a consuming call what it consumed.
TakenIsReleased ==
  \A t \in Threads, b \in Boxes :
    (pc[t] \in {"consumed", "cleaning"} /\ box[t] = b) ~> (b \notin live)

(***************************************************************************)
(* What the documentation says of the same case.                           *)
(***************************************************************************)

\* A box whose owner became garbage without having been closed.
Leaked(b) == OwnedByCleaner(b) \/ \E h \in Handles : Abandoned(h) /\ ptr[h] = b

\* SECURITY.md: "leaked handles keep their native memory until the process
\* exits". No step frees a leaked box. The code does, see AbandonedIsReleased.
LeakedMemoryIsKept == [][\A b \in Boxes : Leaked(b) => b \in live']_vars
=============================================================================
