------------------------- MODULE NativeHandleProofs -------------------------
(***************************************************************************)
(* Proofs about NativeHandle, for any number of threads, objects and       *)
(* addresses.  The inductive invariant Inv says, besides the types,        *)
(*                                                                         *)
(*   Sites      which operation a thread is executing where, and that it   *)
(*              has a handle there;                                        *)
(*   Owned      a thread inside a synchronized method owns the monitor;    *)
(*   Frames     what checkNotClosed(), take() and from_raw established     *)
(*              about the pointer is still true at the later steps;        *)
(*   Alive      only objects that exist are referred to, and the Cleaner   *)
(*              works on objects nobody can reach;                         *)
(*   Exclusive  every claim on a box is exclusive, and on a live box.      *)
(***************************************************************************)
EXTENDS NativeHandle, TLAPS

USE NULLAssumption
USE DEF object, Goto, Hold, Remember, FirstPlace, AfterNative, Ops, Kinds,
        Places, Locked, WithTarget, WithBox, Claiming, Idle

-----------------------------------------------------------------------------
Sites ==
  /\ \A t \in Threads :
       /\ pc[t] \in WithTarget => target[t] \in Handles /\ op[t] \in Ops
       /\ pc[t] \in {"checking", "peeking", "native"} => op[t] # "close"
       /\ pc[t] \in {"consumed", "invalidating"} => op[t] = "consume"
       /\ pc[t] = "wrapping" => op[t] \in {"derive", "consume"}
       /\ pc[t] \in {"taking", "freeing"} => op[t] = "close"
       /\ pc[t] = "invalidating" => box[t] = NULL
       /\ pc[t] = "cleaning" => op[t] = "close" \/ (op[t] = "consume" /\
          box[t] = NULL)
  /\ cleaner.at # "idle" => cleaner.handle \in Handles
  /\ cleaner.at = "freeing" => cleaner.box \in Boxes

Owned == \A t \in Threads : pc[t] \in Locked => monitor[target[t]] = t

Frames ==
  \A t \in Threads :
    /\ pc[t] = "peeking" => ptr[target[t]] # NULL
    /\ pc[t] = "native" => ptr[target[t]] = box[t]
    /\ pc[t] = "cleaning" => ptr[target[t]] = NULL
    /\ pc[t] \in WithBox => box[t] # NULL

Alive ==
  /\ \A t \in Threads : \A h \in refs[t] : kind[h] # NULL
  /\ \A t \in Threads : pc[t] \in WithTarget => kind[target[t]] # NULL
  /\ \A h \in registered : kind[h] # NULL
  /\ \A h \in Handles : kind[h] = NULL => ptr[h] = NULL
  /\ cleaner.at # "idle" =>
       /\ kind[cleaner.handle] # NULL
       /\ cleaner.handle \notin registered
       /\ ~Reachable(cleaner.handle)
  /\ cleaner.at = "freeing" => ptr[cleaner.handle] = NULL
  /\ GuardArmed

Holds(h) == kind[h] # NULL /\ ptr[h] # NULL /\ ~Spent(h)

Exclusive ==
  /\ NoDoubleFree
  /\ \A t, u \in Threads :
       /\ t # u
       /\ pc[t] \in Claiming /\ box[t] # NULL
       /\ pc[u] \in Claiming
       => box[t] # box[u]
  /\ cleaner.at = "freeing" =>
       \A t \in Threads : pc[t] \in Claiming => box[t] # cleaner.box
  /\ \A h \in Handles : Holds(h) =>
       /\ ptr[h] \in live
       /\ \A t \in Threads : pc[t] \in Claiming => box[t] # ptr[h]
       /\ cleaner.at = "freeing" => cleaner.box # ptr[h]
  /\ \A g, h \in Handles : Holds(g) /\ Holds(h) /\ g # h => ptr[g] # ptr[h]

Inv == Types /\ Sites /\ Owned /\ Frames /\ Alive /\ Exclusive

(* The types are kept; target and cleaner name real objects where they are  *)
(* followed.                                                                *)
LEMMA TypesStep ==
  Types /\ Sites /\ [Next]_vars
  => Types'
<1> SUFFICES ASSUME Types, Sites, [Next]_vars PROVE Types'
  OBVIOUS
<1> USE ConstructibleAssumption DEF Types, Sites
<1>1. ASSUME NEW t \in Threads, NEW b \in Boxes, NativeNew(t, b) PROVE Types'
  BY <1>1 DEF NativeNew
<1>2. ASSUME NEW t \in Threads, NEW h \in Handles, NEW k \in Constructible, Construct(t, h, k)
      PROVE  Types'
  BY <1>2 DEF Construct, BecomeHandle
<1>3. ASSUME NEW t \in Threads, NEW h \in Handles, NEW o \in Ops, Call(t, h, o)
      PROVE  Types'
  BY <1>3 DEF Call
<1>4. ASSUME NEW t \in Threads, Lock(t) PROVE Types'
  BY <1>4 DEF Lock
<1>5. ASSUME NEW t \in Threads, CheckNotClosed(t) PROVE Types'
  BY <1>5 DEF CheckNotClosed
<1>6. ASSUME NEW t \in Threads, Peek(t) PROVE Types'
  BY <1>6 DEF Peek
<1>7. ASSUME NEW t \in Threads, NativeReturn(t) PROVE Types'
  BY <1>7 DEF NativeReturn
<1>8. ASSUME NEW t \in Threads, FromRaw(t) PROVE Types'
  BY <1>8 DEF FromRaw
<1>9. ASSUME NEW t \in Threads, ConsumeFail(t) PROVE Types'
  BY <1>9 DEF ConsumeFail
<1>10. ASSUME NEW t \in Threads, NEW b \in Boxes, Establish(t, b) PROVE Types'
  BY <1>10 DEF Establish
<1>11. ASSUME NEW t \in Threads, NEW b \in Boxes, Derive(t, b) PROVE Types'
  BY <1>11 DEF Derive
<1>12. ASSUME NEW t \in Threads, NEW h \in Handles, NewObject(t, h)
       PROVE  Types'
  BY <1>12 DEF NewObject, BecomeHandle
<1>13. ASSUME NEW t \in Threads, NewObjectFails(t) PROVE Types'
  BY <1>13 DEF NewObjectFails
<1>14. ASSUME NEW t \in Threads, Invalidate(t) PROVE Types'
  BY <1>14 DEF Invalidate
<1>15. ASSUME NEW t \in Threads, Take(t) PROVE Types'
  BY <1>15 DEF Take
<1>16. ASSUME NEW t \in Threads, Clean(t) PROVE Types'
  BY <1>16 DEF Clean
<1>17. ASSUME NEW t \in Threads, Free(t) PROVE Types'
  BY <1>17 DEF Free
<1>18. ASSUME NEW t \in Threads, Unlock(t) PROVE Types'
  BY <1>18 DEF Unlock
<1>19. ASSUME NEW t \in Threads, NEW u \in Threads, NEW h \in Handles, Share(t, u, h)
       PROVE  Types'
  BY <1>19 DEF Share
<1>20. ASSUME NEW t \in Threads, NEW h \in Handles, Forget(t, h) PROVE Types'
  BY <1>20 DEF Forget
<1>21. ASSUME LeakGuardTake PROVE Types'
  BY <1>21 DEF LeakGuardTake
<1>22. ASSUME LeakGuardFree PROVE Types'
  BY <1>22 DEF LeakGuardFree
<1>23. ASSUME NEW h \in Handles, Dequeue(h) PROVE Types'
  BY <1>23 DEF Dequeue
<1>24. ASSUME NEW h \in Handles, Collect(h) PROVE Types'
  BY <1>24 DEF Collect
<1>25. CASE UNCHANGED vars
  BY <1>25 DEF vars
<1> QED
  BY <1>1, <1>2, <1>3, <1>4, <1>5, <1>6, <1>7, <1>8, <1>9, <1>10, <1>11,
     <1>12, <1>13, <1>14, <1>15, <1>16, <1>17, <1>18, <1>19, <1>20, <1>21,
     <1>22, <1>23, <1>24, <1>25
  DEF Next, Proceed, Application, LeakGuardRun, Collector


(* Each place is reached by the operations that lead there, with a handle.  *)
LEMMA SitesStep ==
  Types /\ Sites /\ [Next]_vars
  => Sites'
<1> SUFFICES ASSUME Types, Sites, [Next]_vars PROVE Sites'
  OBVIOUS
<1> USE DEF Types, Sites
<1>1. ASSUME NEW t \in Threads, NEW b \in Boxes, NativeNew(t, b) PROVE Sites'
  BY <1>1 DEF NativeNew
<1>2. ASSUME NEW t \in Threads, NEW h \in Handles, NEW k \in Constructible, Construct(t, h, k)
      PROVE  Sites'
  BY <1>2 DEF Construct, BecomeHandle
<1>3. ASSUME NEW t \in Threads, NEW h \in Handles, NEW o \in Ops, Call(t, h, o)
      PROVE  Sites'
  BY <1>3 DEF Call
<1>4. ASSUME NEW t \in Threads, Lock(t) PROVE Sites'
  BY <1>4 DEF Lock
<1>5. ASSUME NEW t \in Threads, CheckNotClosed(t) PROVE Sites'
  BY <1>5 DEF CheckNotClosed
<1>6. ASSUME NEW t \in Threads, Peek(t) PROVE Sites'
  BY <1>6 DEF Peek
<1>7. ASSUME NEW t \in Threads, NativeReturn(t) PROVE Sites'
  BY <1>7 DEF NativeReturn
<1>8. ASSUME NEW t \in Threads, FromRaw(t) PROVE Sites'
  BY <1>8 DEF FromRaw
<1>9. ASSUME NEW t \in Threads, ConsumeFail(t) PROVE Sites'
  BY <1>9 DEF ConsumeFail
<1>10. ASSUME NEW t \in Threads, NEW b \in Boxes, Establish(t, b) PROVE Sites'
  BY <1>10 DEF Establish
<1>11. ASSUME NEW t \in Threads, NEW b \in Boxes, Derive(t, b) PROVE Sites'
  BY <1>11 DEF Derive
<1>12. ASSUME NEW t \in Threads, NEW h \in Handles, NewObject(t, h)
       PROVE  Sites'
  BY <1>12 DEF NewObject, BecomeHandle
<1>13. ASSUME NEW t \in Threads, NewObjectFails(t) PROVE Sites'
  BY <1>13 DEF NewObjectFails
<1>14. ASSUME NEW t \in Threads, Invalidate(t) PROVE Sites'
  BY <1>14 DEF Invalidate
<1>15. ASSUME NEW t \in Threads, Take(t) PROVE Sites'
  BY <1>15 DEF Take
<1>16. ASSUME NEW t \in Threads, Clean(t) PROVE Sites'
  BY <1>16 DEF Clean
<1>17. ASSUME NEW t \in Threads, Free(t) PROVE Sites'
  BY <1>17 DEF Free
<1>18. ASSUME NEW t \in Threads, Unlock(t) PROVE Sites'
  BY <1>18 DEF Unlock
<1>19. ASSUME NEW t \in Threads, NEW u \in Threads, NEW h \in Handles, Share(t, u, h)
       PROVE  Sites'
  BY <1>19 DEF Share
<1>20. ASSUME NEW t \in Threads, NEW h \in Handles, Forget(t, h) PROVE Sites'
  BY <1>20 DEF Forget
<1>21. ASSUME LeakGuardTake PROVE Sites'
  BY <1>21 DEF LeakGuardTake
<1>22. ASSUME LeakGuardFree PROVE Sites'
  BY <1>22 DEF LeakGuardFree
<1>23. ASSUME NEW h \in Handles, Dequeue(h) PROVE Sites'
  BY <1>23 DEF Dequeue
<1>24. ASSUME NEW h \in Handles, Collect(h) PROVE Sites'
  BY <1>24 DEF Collect
<1>25. CASE UNCHANGED vars
  BY <1>25 DEF vars
<1> QED
  BY <1>1, <1>2, <1>3, <1>4, <1>5, <1>6, <1>7, <1>8, <1>9, <1>10, <1>11,
     <1>12, <1>13, <1>14, <1>15, <1>16, <1>17, <1>18, <1>19, <1>20, <1>21,
     <1>22, <1>23, <1>24, <1>25
  DEF Next, Proceed, Application, LeakGuardRun, Collector


(* Only the owner leaves a synchronized method, and it enters when free.    *)
LEMMA OwnedStep ==
  Types /\ Sites /\ Owned /\ [Next]_vars
  => Owned'
<1> SUFFICES ASSUME Types, Sites, Owned, [Next]_vars PROVE Owned'
  OBVIOUS
<1> USE DEF Types, Sites, Owned
<1>1. ASSUME NEW t \in Threads, NEW b \in Boxes, NativeNew(t, b) PROVE Owned'
  BY <1>1 DEF NativeNew
<1>2. ASSUME NEW t \in Threads, NEW h \in Handles, NEW k \in Constructible, Construct(t, h, k)
      PROVE  Owned'
  BY <1>2 DEF Construct, BecomeHandle
<1>3. ASSUME NEW t \in Threads, NEW h \in Handles, NEW o \in Ops, Call(t, h, o)
      PROVE  Owned'
  BY <1>3 DEF Call
<1>4. ASSUME NEW t \in Threads, Lock(t) PROVE Owned'
  BY <1>4 DEF Lock
<1>5. ASSUME NEW t \in Threads, CheckNotClosed(t) PROVE Owned'
  BY <1>5 DEF CheckNotClosed
<1>6. ASSUME NEW t \in Threads, Peek(t) PROVE Owned'
  BY <1>6 DEF Peek
<1>7. ASSUME NEW t \in Threads, NativeReturn(t) PROVE Owned'
  BY <1>7 DEF NativeReturn
<1>8. ASSUME NEW t \in Threads, FromRaw(t) PROVE Owned'
  BY <1>8 DEF FromRaw
<1>9. ASSUME NEW t \in Threads, ConsumeFail(t) PROVE Owned'
  BY <1>9 DEF ConsumeFail
<1>10. ASSUME NEW t \in Threads, NEW b \in Boxes, Establish(t, b) PROVE Owned'
  BY <1>10 DEF Establish
<1>11. ASSUME NEW t \in Threads, NEW b \in Boxes, Derive(t, b) PROVE Owned'
  BY <1>11 DEF Derive
<1>12. ASSUME NEW t \in Threads, NEW h \in Handles, NewObject(t, h)
       PROVE  Owned'
  BY <1>12 DEF NewObject, BecomeHandle
<1>13. ASSUME NEW t \in Threads, NewObjectFails(t) PROVE Owned'
  BY <1>13 DEF NewObjectFails
<1>14. ASSUME NEW t \in Threads, Invalidate(t) PROVE Owned'
  BY <1>14 DEF Invalidate
<1>15. ASSUME NEW t \in Threads, Take(t) PROVE Owned'
  BY <1>15 DEF Take
<1>16. ASSUME NEW t \in Threads, Clean(t) PROVE Owned'
  BY <1>16 DEF Clean
<1>17. ASSUME NEW t \in Threads, Free(t) PROVE Owned'
  BY <1>17 DEF Free
<1>18. ASSUME NEW t \in Threads, Unlock(t) PROVE Owned'
  BY <1>18 DEF Unlock
<1>19. ASSUME NEW t \in Threads, NEW u \in Threads, NEW h \in Handles, Share(t, u, h)
       PROVE  Owned'
  BY <1>19 DEF Share
<1>20. ASSUME NEW t \in Threads, NEW h \in Handles, Forget(t, h) PROVE Owned'
  BY <1>20 DEF Forget
<1>21. ASSUME LeakGuardTake PROVE Owned'
  BY <1>21 DEF LeakGuardTake
<1>22. ASSUME LeakGuardFree PROVE Owned'
  BY <1>22 DEF LeakGuardFree
<1>23. ASSUME NEW h \in Handles, Dequeue(h) PROVE Owned'
  BY <1>23 DEF Dequeue
<1>24. ASSUME NEW h \in Handles, Collect(h) PROVE Owned'
  BY <1>24 DEF Collect
<1>25. CASE UNCHANGED vars
  BY <1>25 DEF vars
<1> QED
  BY <1>1, <1>2, <1>3, <1>4, <1>5, <1>6, <1>7, <1>8, <1>9, <1>10, <1>11,
     <1>12, <1>13, <1>14, <1>15, <1>16, <1>17, <1>18, <1>19, <1>20, <1>21,
     <1>22, <1>23, <1>24, <1>25
  DEF Next, Proceed, Application, LeakGuardRun, Collector


(* What a thread read from the State of its handle stays true: others would *)
(* need the monitor, and the Cleaner an object that nobody can reach.       *)
LEMMA FramesStep ==
  Types /\ Sites /\ Owned /\ Frames /\ Alive /\ [Next]_vars
  => Frames'
<1> SUFFICES ASSUME Types, Sites, Owned, Frames, Alive, [Next]_vars
             PROVE  Frames'
  OBVIOUS
<1> USE DEF Types, Sites, Owned, Frames
<1>1. ASSUME NEW t \in Threads, NEW b \in Boxes, NativeNew(t, b) PROVE Frames'
  BY <1>1 DEF NativeNew
<1>2. ASSUME NEW t \in Threads, NEW h \in Handles, NEW k \in Constructible, Construct(t, h, k)
      PROVE  Frames'
  BY <1>2 DEF Construct, BecomeHandle, Alive
<1>3. ASSUME NEW t \in Threads, NEW h \in Handles, NEW o \in Ops, Call(t, h, o)
      PROVE  Frames'
  BY <1>3 DEF Call
<1>4. ASSUME NEW t \in Threads, Lock(t) PROVE Frames'
  BY <1>4 DEF Lock
<1>5. ASSUME NEW t \in Threads, CheckNotClosed(t) PROVE Frames'
  BY <1>5 DEF CheckNotClosed
<1>6. ASSUME NEW t \in Threads, Peek(t) PROVE Frames'
  BY <1>6 DEF Peek
<1>7. ASSUME NEW t \in Threads, NativeReturn(t) PROVE Frames'
  BY <1>7 DEF NativeReturn
<1>8. ASSUME NEW t \in Threads, FromRaw(t) PROVE Frames'
  BY <1>8 DEF FromRaw
<1>9. ASSUME NEW t \in Threads, ConsumeFail(t) PROVE Frames'
  BY <1>9 DEF ConsumeFail
<1>10. ASSUME NEW t \in Threads, NEW b \in Boxes, Establish(t, b)
       PROVE  Frames'
  BY <1>10 DEF Establish
<1>11. ASSUME NEW t \in Threads, NEW b \in Boxes, Derive(t, b) PROVE Frames'
  BY <1>11 DEF Derive
<1>12. ASSUME NEW t \in Threads, NEW h \in Handles, NewObject(t, h)
       PROVE  Frames'
  BY <1>12 DEF NewObject, BecomeHandle, Alive
<1>13. ASSUME NEW t \in Threads, NewObjectFails(t) PROVE Frames'
  BY <1>13 DEF NewObjectFails
<1>14. ASSUME NEW t \in Threads, Invalidate(t) PROVE Frames'
  BY <1>14 DEF Invalidate
<1>15. ASSUME NEW t \in Threads, Take(t) PROVE Frames'
  BY <1>15 DEF Take
<1>16. ASSUME NEW t \in Threads, Clean(t) PROVE Frames'
  BY <1>16 DEF Clean
<1>17. ASSUME NEW t \in Threads, Free(t) PROVE Frames'
  BY <1>17 DEF Free
<1>18. ASSUME NEW t \in Threads, Unlock(t) PROVE Frames'
  BY <1>18 DEF Unlock
<1>19. ASSUME NEW t \in Threads, NEW u \in Threads, NEW h \in Handles, Share(t, u, h)
       PROVE  Frames'
  BY <1>19 DEF Share
<1>20. ASSUME NEW t \in Threads, NEW h \in Handles, Forget(t, h) PROVE Frames'
  BY <1>20 DEF Forget
<1>21. ASSUME LeakGuardTake PROVE Frames'
  BY <1>21 DEF LeakGuardTake, Alive, Reachable
<1>22. ASSUME LeakGuardFree PROVE Frames'
  BY <1>22 DEF LeakGuardFree
<1>23. ASSUME NEW h \in Handles, Dequeue(h) PROVE Frames'
  BY <1>23 DEF Dequeue
<1>24. ASSUME NEW h \in Handles, Collect(h) PROVE Frames'
  BY <1>24 DEF Collect
<1>25. CASE UNCHANGED vars
  BY <1>25 DEF vars
<1> QED
  BY <1>1, <1>2, <1>3, <1>4, <1>5, <1>6, <1>7, <1>8, <1>9, <1>10, <1>11,
     <1>12, <1>13, <1>14, <1>15, <1>16, <1>17, <1>18, <1>19, <1>20, <1>21,
     <1>22, <1>23, <1>24, <1>25
  DEF Next, Proceed, Application, LeakGuardRun, Collector


(* Objects are reclaimed only when unreachable and without a pointer.       *)
LEMMA AliveStep ==
  Types /\ Sites /\ Owned /\ Frames /\ Alive /\ [Next]_vars
  => Alive'
<1> SUFFICES ASSUME Types, Sites, Owned, Frames, Alive, [Next]_vars
             PROVE  Alive'
  OBVIOUS
<1> USE DEF Types, Sites, Owned, Frames, Alive, Reachable, GuardArmed
<1>1. ASSUME NEW t \in Threads, NEW b \in Boxes, NativeNew(t, b) PROVE Alive'
  BY <1>1 DEF NativeNew
<1>2. ASSUME NEW t \in Threads, NEW h \in Handles, NEW k \in Constructible, Construct(t, h, k)
      PROVE  Alive'
  BY <1>2, ConstructibleAssumption DEF Construct, BecomeHandle
<1>3. ASSUME NEW t \in Threads, NEW h \in Handles, NEW o \in Ops, Call(t, h, o)
      PROVE  Alive'
  BY <1>3 DEF Call
<1>4. ASSUME NEW t \in Threads, Lock(t) PROVE Alive'
  BY <1>4 DEF Lock
<1>5. ASSUME NEW t \in Threads, CheckNotClosed(t) PROVE Alive'
  BY <1>5 DEF CheckNotClosed
<1>6. ASSUME NEW t \in Threads, Peek(t) PROVE Alive'
  BY <1>6 DEF Peek
<1>7. ASSUME NEW t \in Threads, NativeReturn(t) PROVE Alive'
  BY <1>7 DEF NativeReturn
<1>8. ASSUME NEW t \in Threads, FromRaw(t) PROVE Alive'
  BY <1>8 DEF FromRaw
<1>9. ASSUME NEW t \in Threads, ConsumeFail(t) PROVE Alive'
  BY <1>9 DEF ConsumeFail
<1>10. ASSUME NEW t \in Threads, NEW b \in Boxes, Establish(t, b) PROVE Alive'
  BY <1>10 DEF Establish
<1>11. ASSUME NEW t \in Threads, NEW b \in Boxes, Derive(t, b) PROVE Alive'
  BY <1>11 DEF Derive
<1>12. ASSUME NEW t \in Threads, NEW h \in Handles, NewObject(t, h)
       PROVE  Alive'
  BY <1>12 DEF NewObject, BecomeHandle
<1>13. ASSUME NEW t \in Threads, NewObjectFails(t) PROVE Alive'
  BY <1>13 DEF NewObjectFails
<1>14. ASSUME NEW t \in Threads, Invalidate(t) PROVE Alive'
  BY <1>14 DEF Invalidate
<1>15. ASSUME NEW t \in Threads, Take(t) PROVE Alive'
  BY <1>15 DEF Take
<1>16. ASSUME NEW t \in Threads, Clean(t) PROVE Alive'
  BY <1>16 DEF Clean
<1>17. ASSUME NEW t \in Threads, Free(t) PROVE Alive'
  BY <1>17 DEF Free
<1>18. ASSUME NEW t \in Threads, Unlock(t) PROVE Alive'
  BY <1>18 DEF Unlock
<1>19. ASSUME NEW t \in Threads, NEW u \in Threads, NEW h \in Handles, Share(t, u, h)
       PROVE  Alive'
  BY <1>19 DEF Share
<1>20. ASSUME NEW t \in Threads, NEW h \in Handles, Forget(t, h) PROVE Alive'
  BY <1>20 DEF Forget
<1>21. ASSUME LeakGuardTake PROVE Alive'
  BY <1>21 DEF LeakGuardTake
<1>22. ASSUME LeakGuardFree PROVE Alive'
  BY <1>22 DEF LeakGuardFree
<1>23. ASSUME NEW h \in Handles, Dequeue(h) PROVE Alive'
  BY <1>23 DEF Dequeue
<1>24. ASSUME NEW h \in Handles, Collect(h) PROVE Alive'
  BY <1>24 DEF Collect
<1>25. CASE UNCHANGED vars
  BY <1>25 DEF vars
<1> QED
  BY <1>1, <1>2, <1>3, <1>4, <1>5, <1>6, <1>7, <1>8, <1>9, <1>10, <1>11,
     <1>12, <1>13, <1>14, <1>15, <1>16, <1>17, <1>18, <1>19, <1>20, <1>21,
     <1>22, <1>23, <1>24, <1>25
  DEF Next, Proceed, Application, LeakGuardRun, Collector


(* Claims on boxes stay exclusive.  A consuming call turns the claim of its *)
(* handle into one of its own frame, so the pointer that the handle still   *)
(* has is no claim any more (Spent), and Invalidate then removes it.        *)
LEMMA ExclusiveStep ==
  Inv /\ [Next]_vars
  => Exclusive'
<1> SUFFICES ASSUME Inv, [Next]_vars PROVE Exclusive'
  OBVIOUS
<1> USE
   DEF Inv, Types, Sites, Owned, Frames, Alive, Exclusive, Holds, Spent,
       NoDoubleFree, Reachable, GuardArmed
<1>1. ASSUME NEW t \in Threads, NEW b \in Boxes, NativeNew(t, b)
      PROVE  Exclusive'
  BY <1>1 DEF NativeNew
<1>2. ASSUME NEW t \in Threads, NEW h \in Handles, NEW k \in Constructible, Construct(t, h, k)
      PROVE  Exclusive'
  <2>1. \A g \in Handles : Spent(g)' <=> Spent(g)
    BY <1>2 DEF Construct, BecomeHandle
  <2>2. QED
    BY <1>2, <2>1, ConstructibleAssumption DEF Construct, BecomeHandle
<1>3. ASSUME NEW t \in Threads, NEW h \in Handles, NEW o \in Ops, Call(t, h, o)
      PROVE  Exclusive'
  BY <1>3 DEF Call
<1>4. ASSUME NEW t \in Threads, Lock(t) PROVE Exclusive'
  BY <1>4 DEF Lock
<1>5. ASSUME NEW t \in Threads, CheckNotClosed(t) PROVE Exclusive'
  <2>1. /\ pc[t] = "checking" /\ pc' = [pc EXCEPT ![t] = pc'[t]]
        /\ pc'[t] \in {"leaving", "peeking"}
        /\ UNCHANGED <<live, kind, ptr, registered, target, box, op, cleaner>>
    BY <1>5 DEF CheckNotClosed
  <2>2. CASE pc'[t] = "leaving"  BY <2>1, <2>2
  <2>3. CASE pc'[t] = "peeking"  BY <2>1, <2>3
  <2> QED  BY <2>1, <2>2, <2>3
<1>6. ASSUME NEW t \in Threads, Peek(t) PROVE Exclusive'
  BY <1>6 DEF Peek
<1>7. ASSUME NEW t \in Threads, NativeReturn(t) PROVE Exclusive'
  BY <1>7 DEF NativeReturn
<1>8. ASSUME NEW t \in Threads, FromRaw(t) PROVE Exclusive'
  BY <1>8 DEF FromRaw
<1>9. ASSUME NEW t \in Threads, ConsumeFail(t) PROVE Exclusive'
  BY <1>9 DEF ConsumeFail
<1>10. ASSUME NEW t \in Threads, NEW b \in Boxes, Establish(t, b)
       PROVE  Exclusive'
  BY <1>10 DEF Establish
<1>11. ASSUME NEW t \in Threads, NEW b \in Boxes, Derive(t, b)
       PROVE  Exclusive'
  BY <1>11 DEF Derive
<1>12. ASSUME NEW t \in Threads, NEW h \in Handles, NewObject(t, h)
       PROVE  Exclusive'
  BY <1>12 DEF NewObject, BecomeHandle
<1>13. ASSUME NEW t \in Threads, NewObjectFails(t) PROVE Exclusive'
  BY <1>13 DEF NewObjectFails
<1>14. ASSUME NEW t \in Threads, Invalidate(t) PROVE Exclusive'
  <2>1. \A g \in Handles : g # target[t] => (Spent(g)' <=> Spent(g))
    BY <1>14 DEF Invalidate
  <2>2. ~Holds(target[t])'
    BY <1>14 DEF Invalidate
  <2>3. \A g \in Handles : Holds(g)' => g # target[t] /\ Holds(g)
    BY <1>14, <2>1, <2>2 DEF Invalidate
  <2>4. QED
    BY <1>14, <2>3 DEF Invalidate
<1>15. ASSUME NEW t \in Threads, Take(t) PROVE Exclusive'
  BY <1>15 DEF Take
<1>16. ASSUME NEW t \in Threads, Clean(t) PROVE Exclusive'
  BY <1>16 DEF Clean
<1>17. ASSUME NEW t \in Threads, Free(t) PROVE Exclusive'
  BY <1>17 DEF Free
<1>18. ASSUME NEW t \in Threads, Unlock(t) PROVE Exclusive'
  <2>1. \A g \in Handles : Spent(g)' <=> Spent(g)
    BY <1>18 DEF Unlock
  <2>2. QED
    BY <1>18, <2>1 DEF Unlock
<1>19. ASSUME NEW t \in Threads, NEW u \in Threads, NEW h \in Handles, Share(t, u, h)
       PROVE  Exclusive'
  BY <1>19 DEF Share
<1>20. ASSUME NEW t \in Threads, NEW h \in Handles, Forget(t, h)
       PROVE  Exclusive'
  BY <1>20 DEF Forget
<1>21. ASSUME LeakGuardTake PROVE Exclusive'
  BY <1>21 DEF LeakGuardTake
<1>22. ASSUME LeakGuardFree PROVE Exclusive'
  BY <1>22 DEF LeakGuardFree
<1>23. ASSUME NEW h \in Handles, Dequeue(h) PROVE Exclusive'
  BY <1>23 DEF Dequeue
<1>24. ASSUME NEW h \in Handles, Collect(h) PROVE Exclusive'
  BY <1>24 DEF Collect
<1>25. CASE UNCHANGED vars
  BY <1>25 DEF vars
<1> HIDE DEF Inv, Types, Sites, Owned, Frames, Alive, Exclusive
<1> QED
  BY <1>1, <1>2, <1>3, <1>4, <1>5, <1>6, <1>7, <1>8, <1>9, <1>10, <1>11,
     <1>12, <1>13, <1>14, <1>15, <1>16, <1>17, <1>18, <1>19, <1>20, <1>21,
     <1>22, <1>23, <1>24, <1>25
  DEF Next, Proceed, Application, LeakGuardRun, Collector


-----------------------------------------------------------------------------
(* Before the first call nothing is allocated, locked or referred to.      *)
LEMMA InvInit == Init => Inv
<1> SUFFICES ASSUME Init PROVE Inv
  OBVIOUS
<1> USE DEF Init
<1>1. Types
  BY DEF Types
<1>2. Sites /\ Owned /\ Frames
  BY DEF Sites, Owned, Frames
<1>3. Alive
  BY DEF Alive, GuardArmed
<1>4. Exclusive
  BY DEF Exclusive, NoDoubleFree, Holds
<1> QED
  BY <1>1, <1>2, <1>3, <1>4 DEF Inv

(* No step of a thread, of the collector or of the Cleaner leaves Inv.      *)
LEMMA InvStep == Inv /\ [Next]_vars => Inv'
BY TypesStep, SitesStep, OwnedStep, FramesStep, AliveStep, ExclusiveStep
   DEF Inv

(* The inductive invariant holds in every reachable state: what every other *)
(* theorem of this module rests on.                                         *)
THEOREM Invariance == Spec => []Inv
BY InvInit, InvStep, PTL DEF Spec

-----------------------------------------------------------------------------
(* Type correctness: in particular no native method and no nativeFree is    *)
(* ever given the 0 pointer, so check_ptr in helpers.rs never throws.       *)
THEOREM TypeCorrect == Spec => []TypeOK
<1>1. Inv => TypeOK
  BY DEF Inv, TypeOK, Types, Sites, Frames
<1> QED
  BY Invariance, <1>1, PTL

(* The handle a thread is calling into, while its native part runs, is one  *)
(* that still answers for its box.                                          *)
LEMMA CallerHolds ==
  ASSUME Inv, NEW t \in Threads, pc[t] = "native"
  PROVE  Holds(target[t])
<1>1. target[t] \in Handles /\ kind[target[t]] # NULL /\ ptr[target[t]] # NULL
  BY DEF Inv, Sites, Frames, Alive
<1>2. ~Spent(target[t])
  BY DEF Inv, Owned, Spent
<1> QED
  BY <1>1, <1>2 DEF Holds

(* A native call works on an allocated box: nativePtr() of NativeHandle is  *)
(* read without a lock, but no close(), no consuming call and no run of the *)
(* Cleaner can free the box before the call is over.                        *)
THEOREM NeverUsedAfterFree == Spec => []NoUseAfterFree
<1>1. ASSUME Inv PROVE NoUseAfterFree
  <2> SUFFICES ASSUME NEW t \in Threads, pc[t] = "native"
               PROVE  box[t] \in live
    BY DEF NoUseAfterFree
  <2>1. Holds(target[t]) /\ target[t] \in Handles /\ ptr[target[t]] = box[t]
    BY <1>1, CallerHolds DEF Inv, Sites, Frames
  <2> QED
    BY <1>1, <2>1 DEF Inv, Exclusive
<1> QED
  BY Invariance, <1>1, PTL

(* close(), LeakGuard.run(), the drop of a RawBox and the drop at the end   *)
(* of a consuming call together free each box at most once.                 *)
THEOREM NeverFreedTwice == Spec => []NoDoubleFree
<1>1. Inv => NoDoubleFree
  BY DEF Inv, Exclusive
<1> QED
  BY Invariance, <1>1, PTL

(* No box ever has two owners, although native addresses are reused and a   *)
(* consuming call leaves a dangling pointer in its handle for a while.      *)
THEOREM OwnerIsUnique == Spec => []SoleOwner
<1>1. ASSUME Inv PROVE SoleOwner
  <2> SUFFICES ASSUME NEW b \in Boxes
               PROVE  /\ \A x, y \in Owners(b) : x = y
                      /\ Owners(b) # {} => b \in live
    BY DEF SoleOwner
  <2> USE DEF Inv, Types, Exclusive
  <2>1. \A t \in Threads : OwnedByThread(t, b) =>
          /\ b \in live
          /\ \A u \in Threads : OwnedByThread(u, b) => u = t
          /\ \A h \in Handles : ~OwnedByHandle(h, b)
          /\ ~OwnedByCleaner(b)
    BY <1>1 DEF OwnedByThread, OwnedByHandle, OwnedByCleaner, Holds,
                NoDoubleFree
  <2>2. \A h \in Handles : OwnedByHandle(h, b) =>
          /\ b \in live
          /\ \A g \in Handles : OwnedByHandle(g, b) => g = h
          /\ ~OwnedByCleaner(b)
    BY <1>1 DEF OwnedByHandle, OwnedByCleaner, Holds
  <2>3. OwnedByCleaner(b) => b \in live
    BY <1>1 DEF OwnedByCleaner, NoDoubleFree
  <2> HIDE DEF Inv, Types, Exclusive
  <2> QED
    BY <2>1, <2>2, <2>3 DEF Owners
<1> QED
  BY Invariance, <1>1, PTL

(* As long as an object has a pointer its LeakGuard is registered or        *)
(* running, whatever close(), invalidate() and clean() did in between.      *)
THEOREM SafetyNetIsArmed == Spec => []GuardArmed
<1>1. Inv => GuardArmed
  BY DEF Inv, Alive
<1> QED
  BY Invariance, <1>1, PTL

(* checkNotClosed() and the use of nativePtr() are separate steps, but what *)
(* the first established holds until the native method returns.             *)
THEOREM CheckIsNotStale == Spec => []CheckStillHolds
<1>1. Inv => CheckStillHolds
  BY DEF Inv, Frames, CheckStillHolds
<1> QED
  BY Invariance, <1>1, PTL

(* One call at a time is past the monitor of a handle.                      *)
THEOREM CallsAreSerialized == Spec => []Serialized
<1>1. Inv => Serialized
  BY DEF Inv, Owned, Serialized
<1> QED
  BY Invariance, <1>1, PTL

-----------------------------------------------------------------------------
(* No box is lost, as long as no handle is an Ecies.                        *)

NoEcies == \A h \in Handles : kind[h] # "ecies"

HasOwner(b) ==
  \/ \E t \in Threads : OwnedByThread(t, b)
  \/ \E h \in Handles : OwnedByHandle(h, b)
  \/ OwnedByCleaner(b)

AllOwned == \A b \in live : HasOwner(b)

(* NoOrphan, stated without the set of owners.                              *)
LEMMA HasOwnerIsNoOrphan == AllOwned <=> NoOrphan
<1>1. ASSUME NEW b PROVE Owners(b) # {} <=> HasOwner(b)
  <2>1. ASSUME NEW t \in Threads, OwnedByThread(t, b)
        PROVE  <<"thread", t>> \in Owners(b)
    BY <2>1 DEF Owners
  <2>2. ASSUME NEW h \in Handles, OwnedByHandle(h, b)
        PROVE  <<"handle", h>> \in Owners(b)
    BY <2>2 DEF Owners
  <2>3. ASSUME OwnedByCleaner(b) PROVE <<"cleaner", NULL>> \in Owners(b)
    BY <2>3 DEF Owners
  <2>4. ASSUME NEW x \in Owners(b) PROVE HasOwner(b)
    BY <2>4 DEF Owners, HasOwner
  <2> QED
    BY <2>1, <2>2, <2>3, <2>4 DEF HasOwner
<1> QED
  BY <1>1 DEF AllOwned, NoOrphan


(* The class of an object is one the application constructs, or plain.      *)
LEMMA NoEciesStep ==
  "ecies" \notin Constructible /\ Types /\ Sites /\ NoEcies /\ [Next]_vars
  => NoEcies'
<1> SUFFICES ASSUME "ecies" \notin Constructible, Types, Sites, NoEcies, [Next]_vars
             PROVE  NoEcies'
  OBVIOUS
<1> USE DEF Types, Sites, NoEcies
<1>1. ASSUME NEW t \in Threads, NEW b \in Boxes, NativeNew(t, b)
      PROVE  NoEcies'
  BY <1>1 DEF NativeNew
<1>2. ASSUME NEW t \in Threads, NEW h \in Handles, NEW k \in Constructible, Construct(t, h, k)
      PROVE  NoEcies'
  BY <1>2 DEF Construct, BecomeHandle
<1>3. ASSUME NEW t \in Threads, NEW h \in Handles, NEW o \in Ops, Call(t, h, o)
      PROVE  NoEcies'
  BY <1>3 DEF Call
<1>4. ASSUME NEW t \in Threads, Lock(t) PROVE NoEcies'
  BY <1>4 DEF Lock
<1>5. ASSUME NEW t \in Threads, CheckNotClosed(t) PROVE NoEcies'
  BY <1>5 DEF CheckNotClosed
<1>6. ASSUME NEW t \in Threads, Peek(t) PROVE NoEcies'
  BY <1>6 DEF Peek
<1>7. ASSUME NEW t \in Threads, NativeReturn(t) PROVE NoEcies'
  BY <1>7 DEF NativeReturn
<1>8. ASSUME NEW t \in Threads, FromRaw(t) PROVE NoEcies'
  BY <1>8 DEF FromRaw
<1>9. ASSUME NEW t \in Threads, ConsumeFail(t) PROVE NoEcies'
  BY <1>9 DEF ConsumeFail
<1>10. ASSUME NEW t \in Threads, NEW b \in Boxes, Establish(t, b)
       PROVE  NoEcies'
  BY <1>10 DEF Establish
<1>11. ASSUME NEW t \in Threads, NEW b \in Boxes, Derive(t, b) PROVE NoEcies'
  BY <1>11 DEF Derive
<1>12. ASSUME NEW t \in Threads, NEW h \in Handles, NewObject(t, h)
       PROVE  NoEcies'
  BY <1>12 DEF NewObject, BecomeHandle
<1>13. ASSUME NEW t \in Threads, NewObjectFails(t) PROVE NoEcies'
  BY <1>13 DEF NewObjectFails
<1>14. ASSUME NEW t \in Threads, Invalidate(t) PROVE NoEcies'
  BY <1>14 DEF Invalidate
<1>15. ASSUME NEW t \in Threads, Take(t) PROVE NoEcies'
  BY <1>15 DEF Take
<1>16. ASSUME NEW t \in Threads, Clean(t) PROVE NoEcies'
  BY <1>16 DEF Clean
<1>17. ASSUME NEW t \in Threads, Free(t) PROVE NoEcies'
  BY <1>17 DEF Free
<1>18. ASSUME NEW t \in Threads, Unlock(t) PROVE NoEcies'
  BY <1>18 DEF Unlock
<1>19. ASSUME NEW t \in Threads, NEW u \in Threads, NEW h \in Handles, Share(t, u, h)
       PROVE  NoEcies'
  BY <1>19 DEF Share
<1>20. ASSUME NEW t \in Threads, NEW h \in Handles, Forget(t, h)
       PROVE  NoEcies'
  BY <1>20 DEF Forget
<1>21. ASSUME LeakGuardTake PROVE NoEcies'
  BY <1>21 DEF LeakGuardTake
<1>22. ASSUME LeakGuardFree PROVE NoEcies'
  BY <1>22 DEF LeakGuardFree
<1>23. ASSUME NEW h \in Handles, Dequeue(h) PROVE NoEcies'
  BY <1>23 DEF Dequeue
<1>24. ASSUME NEW h \in Handles, Collect(h) PROVE NoEcies'
  BY <1>24 DEF Collect
<1>25. CASE UNCHANGED vars
  BY <1>25 DEF vars
<1> QED
  BY <1>1, <1>2, <1>3, <1>4, <1>5, <1>6, <1>7, <1>8, <1>9, <1>10, <1>11,
     <1>12, <1>13, <1>14, <1>15, <1>16, <1>17, <1>18, <1>19, <1>20, <1>21,
     <1>22, <1>23, <1>24, <1>25
  DEF Next, Proceed, Application, LeakGuardRun, Collector


(* A box that has an owner keeps one until it is freed.                     *)
LEMMA AllOwnedStep ==
  Inv /\ NoEcies /\ AllOwned /\ [Next]_vars
  => AllOwned'
<1> SUFFICES ASSUME Inv, NoEcies, AllOwned, [Next]_vars PROVE AllOwned'
  OBVIOUS
<1> USE
   DEF Inv, Types, Sites, Owned, Frames, Alive, Exclusive, NoEcies,
       AllOwned, HasOwner, OwnedByThread, OwnedByHandle, OwnedByCleaner,
       Spent
<1>1. ASSUME NEW t \in Threads, NEW b \in Boxes, NativeNew(t, b)
      PROVE  AllOwned'
  BY <1>1 DEF NativeNew
<1>2. ASSUME NEW t \in Threads, NEW h \in Handles, NEW k \in Constructible, Construct(t, h, k)
      PROVE  AllOwned'
  <2>1. \A g \in Handles : Spent(g)' <=> Spent(g)
    BY <1>2 DEF Construct, BecomeHandle
  <2>2. QED
    BY <1>2, <2>1, ConstructibleAssumption DEF Construct, BecomeHandle
<1>3. ASSUME NEW t \in Threads, NEW h \in Handles, NEW o \in Ops, Call(t, h, o)
      PROVE  AllOwned'
  BY <1>3 DEF Call
<1>4. ASSUME NEW t \in Threads, Lock(t) PROVE AllOwned'
  BY <1>4 DEF Lock
<1>5. ASSUME NEW t \in Threads, CheckNotClosed(t) PROVE AllOwned'
  BY <1>5 DEF CheckNotClosed
<1>6. ASSUME NEW t \in Threads, Peek(t) PROVE AllOwned'
  BY <1>6 DEF Peek
<1>7. ASSUME NEW t \in Threads, NativeReturn(t) PROVE AllOwned'
  BY <1>7 DEF NativeReturn
<1>8. ASSUME NEW t \in Threads, FromRaw(t) PROVE AllOwned'
  BY <1>8 DEF FromRaw
<1>9. ASSUME NEW t \in Threads, ConsumeFail(t) PROVE AllOwned'
  BY <1>9 DEF ConsumeFail
<1>10. ASSUME NEW t \in Threads, NEW b \in Boxes, Establish(t, b)
       PROVE  AllOwned'
  BY <1>10 DEF Establish
<1>11. ASSUME NEW t \in Threads, NEW b \in Boxes, Derive(t, b) PROVE AllOwned'
  BY <1>11 DEF Derive
<1>12. ASSUME NEW t \in Threads, NEW h \in Handles, NewObject(t, h)
       PROVE  AllOwned'
  BY <1>12 DEF NewObject, BecomeHandle
<1>13. ASSUME NEW t \in Threads, NewObjectFails(t) PROVE AllOwned'
  BY <1>13 DEF NewObjectFails
<1>14. ASSUME NEW t \in Threads, Invalidate(t) PROVE AllOwned'
  BY <1>14 DEF Invalidate
<1>15. ASSUME NEW t \in Threads, Take(t) PROVE AllOwned'
  BY <1>15 DEF Take
<1>16. ASSUME NEW t \in Threads, Clean(t) PROVE AllOwned'
  BY <1>16 DEF Clean
<1>17. ASSUME NEW t \in Threads, Free(t) PROVE AllOwned'
  BY <1>17 DEF Free
<1>18. ASSUME NEW t \in Threads, Unlock(t) PROVE AllOwned'
  BY <1>18 DEF Unlock
<1>19. ASSUME NEW t \in Threads, NEW u \in Threads, NEW h \in Handles, Share(t, u, h)
       PROVE  AllOwned'
  BY <1>19 DEF Share
<1>20. ASSUME NEW t \in Threads, NEW h \in Handles, Forget(t, h)
       PROVE  AllOwned'
  BY <1>20 DEF Forget
<1>21. ASSUME LeakGuardTake PROVE AllOwned'
  BY <1>21 DEF LeakGuardTake
<1>22. ASSUME LeakGuardFree PROVE AllOwned'
  BY <1>22 DEF LeakGuardFree
<1>23. ASSUME NEW h \in Handles, Dequeue(h) PROVE AllOwned'
  BY <1>23 DEF Dequeue
<1>24. ASSUME NEW h \in Handles, Collect(h) PROVE AllOwned'
  BY <1>24 DEF Collect, GuardArmed
<1>25. CASE UNCHANGED vars
  BY <1>25 DEF vars
<1> HIDE
   DEF Inv, Types, Sites, Owned, Frames, Alive, Exclusive, NoEcies,
       AllOwned
<1> QED
  BY <1>1, <1>2, <1>3, <1>4, <1>5, <1>6, <1>7, <1>8, <1>9, <1>10, <1>11,
     <1>12, <1>13, <1>14, <1>15, <1>16, <1>17, <1>18, <1>19, <1>20, <1>21,
     <1>22, <1>23, <1>24, <1>25
  DEF Next, Proceed, Application, LeakGuardRun, Collector

(* While every handle is of a class whose native methods take the box back  *)
(* before they can fail, no box is ever lost: each allocated box has a Java *)
(* object, a thread or the Cleaner that will free it or hand it on.         *)
THEOREM NoBoxIsLost ==
  ASSUME "ecies" \notin Constructible
  PROVE  Spec => []NoOrphan
<1>1. Init => NoEcies /\ AllOwned
  BY DEF Init, NoEcies, AllOwned
<1>2. Inv /\ NoEcies /\ AllOwned /\ [Next]_vars => (NoEcies /\ AllOwned)'
  BY NoEciesStep, AllOwnedStep DEF Inv
<1>3. Spec => [](NoEcies /\ AllOwned)
  BY <1>1, <1>2, Invariance, PTL DEF Spec
<1> QED
  BY <1>3, HasOwnerIsNoOrphan, PTL

-----------------------------------------------------------------------------
PointerKept ==
  \A h \in Handles : kind[h] # NULL /\ ptr'[h] # ptr[h] => ChangedByOwner(h)


(* Every step that changes the pointer of an existing object is one of the  *)
(* owner of its monitor or of the Cleaner.                                  *)
LEMMA PointerStep ==
  Inv /\ [Next]_vars
  => PointerKept
<1> SUFFICES ASSUME Inv, [Next]_vars PROVE PointerKept
  OBVIOUS
<1> USE
   DEF Inv, Types, Sites, Owned, Frames, Alive, PointerKept,
       ChangedByOwner
<1>1. ASSUME NEW t \in Threads, NEW b \in Boxes, NativeNew(t, b)
      PROVE  PointerKept
  BY <1>1 DEF NativeNew
<1>2. ASSUME NEW t \in Threads, NEW h \in Handles, NEW k \in Constructible, Construct(t, h, k)
      PROVE  PointerKept
  BY <1>2 DEF Construct, BecomeHandle
<1>3. ASSUME NEW t \in Threads, NEW h \in Handles, NEW o \in Ops, Call(t, h, o)
      PROVE  PointerKept
  BY <1>3 DEF Call
<1>4. ASSUME NEW t \in Threads, Lock(t) PROVE PointerKept
  BY <1>4 DEF Lock
<1>5. ASSUME NEW t \in Threads, CheckNotClosed(t) PROVE PointerKept
  BY <1>5 DEF CheckNotClosed
<1>6. ASSUME NEW t \in Threads, Peek(t) PROVE PointerKept
  BY <1>6 DEF Peek
<1>7. ASSUME NEW t \in Threads, NativeReturn(t) PROVE PointerKept
  BY <1>7 DEF NativeReturn
<1>8. ASSUME NEW t \in Threads, FromRaw(t) PROVE PointerKept
  BY <1>8 DEF FromRaw
<1>9. ASSUME NEW t \in Threads, ConsumeFail(t) PROVE PointerKept
  BY <1>9 DEF ConsumeFail
<1>10. ASSUME NEW t \in Threads, NEW b \in Boxes, Establish(t, b)
       PROVE  PointerKept
  BY <1>10 DEF Establish
<1>11. ASSUME NEW t \in Threads, NEW b \in Boxes, Derive(t, b)
       PROVE  PointerKept
  BY <1>11 DEF Derive
<1>12. ASSUME NEW t \in Threads, NEW h \in Handles, NewObject(t, h)
       PROVE  PointerKept
  BY <1>12 DEF NewObject, BecomeHandle
<1>13. ASSUME NEW t \in Threads, NewObjectFails(t) PROVE PointerKept
  BY <1>13 DEF NewObjectFails
<1>14. ASSUME NEW t \in Threads, Invalidate(t) PROVE PointerKept
  BY <1>14 DEF Invalidate
<1>15. ASSUME NEW t \in Threads, Take(t) PROVE PointerKept
  BY <1>15 DEF Take
<1>16. ASSUME NEW t \in Threads, Clean(t) PROVE PointerKept
  BY <1>16 DEF Clean
<1>17. ASSUME NEW t \in Threads, Free(t) PROVE PointerKept
  BY <1>17 DEF Free
<1>18. ASSUME NEW t \in Threads, Unlock(t) PROVE PointerKept
  BY <1>18 DEF Unlock
<1>19. ASSUME NEW t \in Threads, NEW u \in Threads, NEW h \in Handles, Share(t, u, h)
       PROVE  PointerKept
  BY <1>19 DEF Share
<1>20. ASSUME NEW t \in Threads, NEW h \in Handles, Forget(t, h)
       PROVE  PointerKept
  BY <1>20 DEF Forget
<1>21. ASSUME LeakGuardTake PROVE PointerKept
  BY <1>21 DEF LeakGuardTake
<1>22. ASSUME LeakGuardFree PROVE PointerKept
  BY <1>22 DEF LeakGuardFree
<1>23. ASSUME NEW h \in Handles, Dequeue(h) PROVE PointerKept
  BY <1>23 DEF Dequeue
<1>24. ASSUME NEW h \in Handles, Collect(h) PROVE PointerKept
  BY <1>24 DEF Collect
<1>25. CASE UNCHANGED vars
  BY <1>25 DEF vars
<1> HIDE DEF Inv, Types, Sites, Owned, Frames, Alive, PointerKept
<1> QED
  BY <1>1, <1>2, <1>3, <1>4, <1>5, <1>6, <1>7, <1>8, <1>9, <1>10, <1>11,
     <1>12, <1>13, <1>14, <1>15, <1>16, <1>17, <1>18, <1>19, <1>20, <1>21,
     <1>22, <1>23, <1>24, <1>25
  DEF Next, Proceed, Application, LeakGuardRun, Collector

(* nativePtr() needs no lock of its own: the pointer of an object is only   *)
(* changed by the thread inside one of its synchronized methods, or by the  *)
(* Cleaner once the object is unreachable.                                  *)
THEOREM PointerIsGuarded == Spec => GuardedPointer
<1>1. Inv /\ [Next]_vars => [PointerKept]_vars
  BY PointerStep
<1> QED
  BY <1>1, Invariance, PTL DEF Spec, GuardedPointer, PointerKept
=============================================================================
