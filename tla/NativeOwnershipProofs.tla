------------------------ MODULE NativeOwnershipProofs ------------------------
(***************************************************************************)
(* NativeHandle implements NativeOwnership, as long as no handle is an     *)
(* Ecies, for any number of threads, objects and addresses.                *)
(*                                                                         *)
(* Which of its four states an address is in follows, under the invariant  *)
(* of NativeHandleProofs, from three questions: is it allocated, does a    *)
(* thread or the Cleaner claim it, is a native call using it. Each lemma   *)
(* says which of the answers a step changes, and for which address.        *)
(***************************************************************************)
EXTENDS NativeHandleProofs

USE NULLAssumption
USE DEF object, Goto, Hold, Remember, FirstPlace, AfterNative, Ops, Kinds,
        Places, Locked, WithTarget, WithBox, Claiming, Idle

Life == [b \in Boxes |-> StateOf(b)]

\* No box is lost, so one that nobody claims and no call uses is idle.
Classified ==
  \A b \in Boxes :
    /\ Claimed(b) => b \in live
    /\ InUse(b) => b \in live /\ ~Claimed(b)
    /\ StateOf(b) = IF b \notin live THEN "free"
                    ELSE IF Claimed(b) THEN "claimed"
                    ELSE IF InUse(b) THEN "inuse"
                    ELSE "idle"

\* No two native calls use one box.
Callers ==
  \A t, u \in Threads :
    pc[t] = "native" /\ pc[u] = "native" /\ box[t] = box[u] => t = u

\* A handle that no thread is consuming holds its box alone.
Resting ==
  \A h \in Handles : Holds(h) =>
    /\ ptr[h] \in live /\ ~Claimed(ptr[h])
    /\ InUse(ptr[h]) => \E t \in Threads : pc[t] = "native" /\ target[t] = h

LEMMA CallersAreUnique == Inv => Callers
<1> SUFFICES ASSUME Inv, NEW t \in Threads, NEW u \in Threads,
                    pc[t] = "native", pc[u] = "native", box[t] = box[u]
             PROVE  t = u
  BY DEF Callers
<1>1. Holds(target[t]) /\ Holds(target[u])
  BY CallerHolds
<1>2. /\ target[t] \in Handles /\ target[u] \in Handles
      /\ ptr[target[t]] = box[t] /\ ptr[target[u]] = box[u]
      /\ monitor[target[t]] = t /\ monitor[target[u]] = u
  BY DEF Inv, Sites, Owned, Frames
<1>3. target[t] = target[u]
  BY <1>1, <1>2 DEF Inv, Exclusive
<1> QED  BY <1>2, <1>3

LEMMA HandlesRest == Inv => Resting
<1> SUFFICES ASSUME Inv, NEW h \in Handles, Holds(h)
             PROVE  /\ ptr[h] \in live /\ ~Claimed(ptr[h])
                    /\ InUse(ptr[h]) =>
                         \E t \in Threads : pc[t] = "native" /\ target[t] = h
  BY DEF Resting
<1>1. ptr[h] \in live /\ ~Claimed(ptr[h])
  BY DEF Inv, Exclusive, Claimed, OwnedByThread, OwnedByCleaner
<1>2. ASSUME NEW t \in Threads, pc[t] = "native", box[t] = ptr[h]
      PROVE  target[t] = h
  <2>1. Holds(target[t]) /\ target[t] \in Handles /\ ptr[target[t]] = box[t]
    BY <1>2, CallerHolds DEF Inv, Sites, Frames
  <2> QED  BY <1>2, <2>1 DEF Inv, Exclusive
<1> QED  BY <1>1, <1>2 DEF InUse

LEMMA IsClassified == Inv /\ AllOwned => Classified
<1> SUFFICES ASSUME Inv, AllOwned, NEW b \in Boxes
             PROVE  /\ Claimed(b) => b \in live
                    /\ InUse(b) => b \in live /\ ~Claimed(b)
                    /\ StateOf(b) = IF b \notin live THEN "free"
                                    ELSE IF Claimed(b) THEN "claimed"
                                    ELSE IF InUse(b) THEN "inuse"
                                    ELSE "idle"
  BY DEF Classified
<1>1. Claimed(b) => b \in live
  BY DEF Inv, Exclusive, NoDoubleFree, Claimed, OwnedByThread, OwnedByCleaner
<1>2. InUse(b) => b \in live /\ ~Claimed(b)
  <2> SUFFICES ASSUME NEW t \in Threads, pc[t] = "native", box[t] = b
               PROVE  b \in live /\ ~Claimed(b)
    BY DEF InUse
  <2>1. Holds(target[t]) /\ target[t] \in Handles /\ ptr[target[t]] = b
    BY CallerHolds DEF Inv, Sites, Frames
  <2> QED  BY <2>1, HandlesRest DEF Resting
<1>3. b \in live /\ ~Claimed(b) => \E h \in Handles : OwnedByHandle(h, b)
  BY DEF AllOwned, HasOwner, Claimed
<1> QED  BY <1>1, <1>2, <1>3 DEF StateOf

-----------------------------------------------------------------------------
\* The three answers for c are as before.
Same(c) ==
  /\ c \in live' <=> c \in live
  /\ Claimed(c)' <=> Claimed(c)
  /\ InUse(c)' <=> InUse(c)

LEMMA Stutters ==
  ASSUME Classified, Classified', \A c \in Boxes : Same(c)
  PROVE  UNCHANGED Life
<1>1. \A c \in Boxes : StateOf(c)' = StateOf(c)
  BY DEF Classified, Same
<1> QED  BY <1>1 DEF Life

\* Any step that changes the answers for b alone.
LEMMA MovesOne ==
  ASSUME Classified, Classified', NEW b \in Boxes, NEW x, NEW y,
         StateOf(b) = x, StateOf(b)' = y,
         \A c \in Boxes : c # b => Same(c)
  PROVE  Ownership!Move(b, x, y)
<1>1. \A c \in Boxes : c # b => StateOf(c)' = StateOf(c)
  BY DEF Classified, Same
<1> QED  BY <1>1 DEF Ownership!Move

\* ... for b and c.
LEMMA MovesTwo ==
  ASSUME Classified, Classified', NEW b \in Boxes, NEW c \in Boxes, b # c,
         NEW x, NEW y, StateOf(b)' = x, StateOf(c)' = y,
         \A d \in Boxes : d \notin {b, c} => Same(d)
  PROVE  Life' = [Life EXCEPT ![b] = x, ![c] = y]
<1>1. \A d \in Boxes : d \notin {b, c} => StateOf(d)' = StateOf(d)
  BY DEF Classified, Same
<1> QED  BY <1>1 DEF Life

-----------------------------------------------------------------------------
\* What the steps below are taken in.
Context == Inv /\ Classified /\ Classified' /\ NoEcies

\* A fresh object, an object in its handle, an object dropped.
LEMMA NativeNewMaps ==
  ASSUME Context, NEW t \in Threads, NEW b \in Boxes, NativeNew(t, b)
  PROVE  Ownership!Allocate(b)
<1> USE DEF Context, Inv, Types
<1>1. \A c \in Boxes : c # b => Same(c)
  BY DEF NativeNew, Same, Claimed, InUse, OwnedByThread, OwnedByCleaner
<1>2. StateOf(b) = "free"
  BY DEF NativeNew, Classified
<1>3. b \in live' /\ Claimed(b)'
  BY DEF NativeNew, Claimed, OwnedByThread
<1>4. StateOf(b)' = "claimed"
  BY <1>3 DEF Classified
<1> HIDE DEF Inv, Types
<1> QED  BY <1>1, <1>2, <1>4, MovesOne DEF Ownership!Allocate

\* Whoever claims a box does so alone.
LEMMA Claims ==
  ASSUME Context, NEW t \in Threads, pc[t] \in Claiming, box[t] # NULL
  PROVE  /\ box[t] \in Boxes /\ StateOf(box[t]) = "claimed"
         /\ \A u \in Threads : OwnedByThread(u, box[t]) => u = t
         /\ ~OwnedByCleaner(box[t]) /\ ~InUse(box[t])
<1>1. box[t] \in Boxes /\ Claimed(box[t])
  BY DEF Context, Inv, Types, Claimed, OwnedByThread
<1>2. /\ \A u \in Threads : OwnedByThread(u, box[t]) => u = t
      /\ ~OwnedByCleaner(box[t])
  BY DEF Context, Inv, Exclusive, OwnedByThread, OwnedByCleaner
<1> QED  BY <1>1, <1>2 DEF Context, Classified

\* Construct and NewObject: the claim ends, the box lives on.
LEMMA AdoptMaps ==
  ASSUME Context, NEW t \in Threads, pc[t] \in Claiming, box[t] # NULL,
         NEW place \in Places \ (Claiming \cup {"native"}), Goto(t, place),
         Hold(t, NULL), UNCHANGED <<live, cleaner>>,
         NEW b \in Boxes, b = box[t]
  PROVE  Ownership!Adopt(b)
<1>1. /\ StateOf(b) = "claimed" /\ b \in live
      /\ \A u \in Threads : OwnedByThread(u, b) => u = t
      /\ ~OwnedByCleaner(b) /\ ~InUse(b)
  BY Claims DEF Context, Classified
<1> USE DEF Context, Inv, Types
<1>2. \A c \in Boxes : c # b => Same(c)
  BY DEF Same, Claimed, InUse, OwnedByThread, OwnedByCleaner
<1>3. ~Claimed(b)' /\ ~InUse(b)' /\ b \in live'
  BY <1>1 DEF Claimed, InUse, OwnedByThread, OwnedByCleaner
<1>4. StateOf(b)' = "idle"
  BY <1>1, <1>3 DEF Classified
<1> HIDE DEF Inv, Types
<1> QED  BY <1>1, <1>2, <1>4, MovesOne DEF Ownership!Adopt

\* ConsumeFail, NewObjectFails and Free: the box is freed by its claimant.
LEMMA ReleaseMaps ==
  ASSUME Context, NEW t \in Threads, pc[t] \in Claiming, box[t] # NULL,
         NEW place \in Places \ (Claiming \cup {"native"}), Goto(t, place),
         Hold(t, NULL), live' = live \ {box[t]}, UNCHANGED cleaner,
         NEW b \in Boxes, b = box[t]
  PROVE  Ownership!Release(b)
<1>1. StateOf(b) = "claimed"
  BY Claims
<1> USE DEF Context, Inv, Types
<1>2. \A c \in Boxes : c # b => Same(c)
  BY DEF Same, Claimed, InUse, OwnedByThread, OwnedByCleaner
<1>3. StateOf(b)' = "free"
  BY <1>1 DEF Classified
<1> HIDE DEF Inv, Types
<1> QED  BY <1>1, <1>2, <1>3, MovesOne DEF Ownership!Release

\* A native call starts on an idle box, and is alone with it.
LEMMA PeekMaps ==
  ASSUME Context, NEW t \in Threads, Peek(t),
         NEW b \in Boxes, b = ptr[target[t]]
  PROVE  Ownership!Enter(b)
<1>1. target[t] \in Handles /\ monitor[target[t]] = t /\ pc[t] = "peeking"
  BY DEF Peek, Context, Inv, Types, Sites, Owned, Frames
<1>2. Holds(target[t])
  BY <1>1 DEF Context, Inv, Owned, Alive, Frames, Holds, Spent
<1>3. b \in live /\ ~Claimed(b)
  BY <1>1, <1>2, HandlesRest DEF Resting, Context
<1>4. ~InUse(b)
  <2>1. ASSUME NEW u \in Threads, pc[u] = "native", target[u] = target[t]
        PROVE  FALSE
    BY <1>1, <2>1 DEF Context, Inv, Owned
  <2> QED  BY <1>1, <1>2, <2>1, HandlesRest DEF Resting, Context
<1> USE DEF Context, Inv, Types
<1>5. \A c \in Boxes : c # b => Same(c)
  BY DEF Peek, Same, Claimed, InUse, OwnedByThread, OwnedByCleaner
<1>6. b \in live' /\ InUse(b)'
  BY <1>1, <1>3 DEF Peek, InUse
<1>7. StateOf(b) = "idle" /\ StateOf(b)' = "inuse"
  BY <1>1, <1>3, <1>4, <1>6 DEF Classified
<1> HIDE DEF Inv, Types
<1> QED  BY <1>1, <1>5, <1>7, MovesOne DEF Ownership!Enter

\* The caller of a native method uses its box alone, and nobody claims it.
LEMMA Uses ==
  ASSUME Context, NEW t \in Threads, pc[t] = "native"
  PROVE  /\ box[t] \in Boxes /\ StateOf(box[t]) = "inuse" /\ box[t] \in live
         /\ ~Claimed(box[t])
         /\ \A u \in Threads : pc[u] = "native" /\ box[u] = box[t] => u = t
<1>1. box[t] \in Boxes /\ InUse(box[t])
  BY DEF Context, Inv, Types, Frames, InUse
<1>2. \A u \in Threads : pc[u] = "native" /\ box[u] = box[t] => u = t
  BY CallersAreUnique DEF Callers, Context
<1> QED  BY <1>1, <1>2 DEF Context, Classified

\* It returns; unless it consumes, as no handle is an Ecies.
LEMMA NativeReturnMaps ==
  ASSUME Context, NEW t \in Threads, NativeReturn(t),
         NEW b \in Boxes, b = box[t]
  PROVE  Ownership!Exit(b)
<1>1. /\ pc[t] = "native" /\ op[t] # "consume"
      /\ UNCHANGED <<live, cleaner>>
  BY DEF NativeReturn, Context, Inv, Sites, Frames, NoEcies
<1>2. /\ StateOf(b) = "inuse" /\ b \in live /\ ~Claimed(b)
      /\ \A u \in Threads : pc[u] = "native" /\ box[u] = b => u = t
  BY <1>1, Uses
<1> USE DEF Context, Inv, Types
<1>3. \A c \in Boxes : c # b => Same(c)
  BY <1>1 DEF NativeReturn, Same, Claimed, InUse, OwnedByThread, OwnedByCleaner
<1>4. b \in live' /\ ~Claimed(b)' /\ ~InUse(b)'
  BY <1>1, <1>2
     DEF NativeReturn, Claimed, InUse, OwnedByThread, OwnedByCleaner
<1>5. StateOf(b)' = "idle"
  BY <1>2, <1>4 DEF Classified
<1> HIDE DEF Inv, Types
<1> QED  BY <1>2, <1>3, <1>5, MovesOne DEF Ownership!Exit

LEMMA FromRawMaps ==
  ASSUME Context, NEW t \in Threads, FromRaw(t),
         NEW b \in Boxes, b = box[t]
  PROVE  Ownership!Claim(b)
<1>1. StateOf(b) = "inuse" /\ b \in live
  BY Uses DEF FromRaw
<1> USE DEF Context, Inv, Types
<1>2. \A c \in Boxes : c # b => Same(c)
  BY DEF FromRaw, Same, Claimed, InUse, OwnedByThread, OwnedByCleaner
<1>3. b \in live' /\ Claimed(b)'
  BY <1>1 DEF FromRaw, Claimed, OwnedByThread
<1>4. StateOf(b)' = "claimed"
  BY <1>1, <1>3 DEF Classified
<1> HIDE DEF Inv, Types
<1> QED  BY <1>1, <1>2, <1>4, MovesOne DEF Ownership!Claim

\* The object of one call becomes another one.
LEMMA EstablishMaps ==
  ASSUME Context, NEW t \in Threads, NEW c \in Boxes, Establish(t, c),
         NEW b \in Boxes, b = box[t]
  PROVE  Ownership!Replace(b, c)
<1>1. pc[t] = "consumed" /\ b # NULL /\ c \notin live
  BY DEF Establish, Context, Inv, Frames
<1>2. StateOf(b) = "claimed" /\ b \in live /\ b # c
  BY <1>1, Claims DEF Context, Classified
<1> USE DEF Context, Inv, Types
<1>3. \A d \in Boxes : d \notin {b, c} => Same(d)
  BY <1>1 DEF Establish, Same, Claimed, InUse, OwnedByThread, OwnedByCleaner
<1>4. b \notin live' /\ c \in live' /\ Claimed(c)'
  BY <1>1, <1>2 DEF Establish, Claimed, OwnedByThread
<1>5. StateOf(c) = "free" /\ StateOf(b)' = "free" /\ StateOf(c)' = "claimed"
  BY <1>1, <1>2, <1>4 DEF Classified
<1> HIDE DEF Inv, Types
<1>6. Life' = [Life EXCEPT ![b] = "free", ![c] = "claimed"]
  BY <1>2, <1>3, <1>5, MovesTwo
<1> QED  BY <1>2, <1>5, <1>6 DEF Ownership!Replace, Life

\* A call on one object makes another.
LEMMA DeriveMaps ==
  ASSUME Context, NEW t \in Threads, NEW c \in Boxes, Derive(t, c),
         NEW b \in Boxes, b = box[t]
  PROVE  Ownership!Spawn(b, c)
<1>1. pc[t] = "native" /\ c \notin live
  BY DEF Derive
<1>2. /\ StateOf(b) = "inuse" /\ b \in live /\ b # c
      /\ ~Claimed(b)
      /\ \A u \in Threads : pc[u] = "native" /\ box[u] = b => u = t
  BY <1>1, Uses
<1> USE DEF Context, Inv, Types
<1>3. \A d \in Boxes : d \notin {b, c} => Same(d)
  BY <1>1 DEF Derive, Same, Claimed, InUse, OwnedByThread, OwnedByCleaner
<1>4. /\ b \in live' /\ ~Claimed(b)' /\ ~InUse(b)'
      /\ c \in live' /\ Claimed(c)'
  BY <1>1, <1>2 DEF Derive, Claimed, InUse, OwnedByThread, OwnedByCleaner
<1>5. StateOf(c) = "free" /\ StateOf(b)' = "idle" /\ StateOf(c)' = "claimed"
  BY <1>1, <1>2, <1>4 DEF Classified
<1> HIDE DEF Inv, Types
<1>6. Life' = [Life EXCEPT ![b] = "idle", ![c] = "claimed"]
  BY <1>2, <1>3, <1>5, MovesTwo
<1> QED  BY <1>2, <1>5, <1>6 DEF Ownership!Spawn, Life

\* close() takes the pointer of an open handle that nobody uses.
LEMMA TakeMaps ==
  ASSUME Context, NEW t \in Threads, Take(t),
         NEW b \in Boxes, b = ptr[target[t]]
  PROVE  Ownership!Claim(b)
<1>1. target[t] \in Handles /\ monitor[target[t]] = t /\ pc[t] = "taking"
  BY DEF Take, Context, Inv, Types, Sites, Owned
<1>2. Holds(target[t])
  BY <1>1 DEF Context, Inv, Owned, Alive, Holds, Spent
<1>3. b \in live /\ ~Claimed(b)
  BY <1>1, <1>2, HandlesRest DEF Resting, Context
<1>4. ~InUse(b)
  <2>1. ASSUME NEW u \in Threads, pc[u] = "native", target[u] = target[t]
        PROVE  FALSE
    BY <1>1, <2>1 DEF Context, Inv, Owned
  <2> QED  BY <1>1, <1>2, <2>1, HandlesRest DEF Resting, Context
<1> USE DEF Context, Inv, Types
<1>5. \A c \in Boxes : c # b => Same(c)
  BY DEF Take, Same, Claimed, InUse, OwnedByThread, OwnedByCleaner
<1>6. b \in live' /\ Claimed(b)'
  BY <1>3 DEF Take, Claimed, OwnedByThread
<1>7. StateOf(b) = "idle" /\ StateOf(b)' = "claimed"
  BY <1>3, <1>4, <1>6 DEF Classified
<1> HIDE DEF Inv, Types
<1> QED  BY <1>5, <1>7, MovesOne DEF Ownership!Claim

\* The second close() of a handle takes nothing.
LEMMA TakeNothingMaps ==
  ASSUME Context, NEW t \in Threads, Take(t), ptr[target[t]] = NULL
  PROVE  UNCHANGED Life
<1>1. \A c \in Boxes : Same(c)
  BY DEF Take, Context, Inv, Types, Same, Claimed, InUse, OwnedByThread,
         OwnedByCleaner
<1> QED  BY <1>1, Stutters DEF Context

\* The Cleaner takes the pointer of an object nobody can reach.
LEMMA LeakGuardTakeMaps ==
  ASSUME Context, LeakGuardTake, NEW b \in Boxes, b = ptr[cleaner.handle]
  PROVE  Ownership!Claim(b)
<1> DEFINE h == cleaner.handle
<1>1. /\ cleaner.at = "taking" /\ h \in Handles /\ kind[h] # NULL
      /\ monitor[h] = NULL
  BY DEF LeakGuardTake, Context, Inv, Types, Sites, Alive, Reachable
<1>2. Holds(h)
  BY <1>1 DEF Context, Inv, Types, Owned, Holds, Spent
<1>3. b \in live /\ ~Claimed(b)
  BY <1>1, <1>2, HandlesRest DEF Resting, Context
<1>4. ~InUse(b)
  <2>1. ASSUME NEW u \in Threads, pc[u] = "native", target[u] = h
        PROVE  FALSE
    BY <1>1, <2>1 DEF Context, Inv, Owned
  <2> QED  BY <1>1, <1>2, <2>1, HandlesRest DEF Resting, Context
<1> USE DEF Context, Inv, Types
<1>5. \A c \in Boxes : c # b => Same(c)
  BY <1>1
     DEF LeakGuardTake, Same, Claimed, InUse, OwnedByThread, OwnedByCleaner
<1>6. b \in live' /\ Claimed(b)'
  BY <1>3 DEF LeakGuardTake, Claimed, OwnedByCleaner
<1>7. StateOf(b) = "idle" /\ StateOf(b)' = "claimed"
  BY <1>3, <1>4, <1>6 DEF Classified
<1> HIDE DEF h, Inv, Types
<1> QED  BY <1>5, <1>7, MovesOne DEF Ownership!Claim

LEMMA LeakGuardFreeMaps ==
  ASSUME Context, LeakGuardFree,
         NEW b \in Boxes, b = cleaner.box
  PROVE  Ownership!Release(b)
<1>1. cleaner.at = "freeing" /\ Claimed(b)
  BY DEF LeakGuardFree, Context, Inv, Sites, Claimed, OwnedByCleaner
<1>2. StateOf(b) = "claimed"
  BY <1>1 DEF Context, Classified
<1> USE DEF Context, Inv, Types
<1>3. \A c \in Boxes : c # b => Same(c)
  BY <1>1 DEF LeakGuardFree, Same, Claimed, InUse, OwnedByThread, OwnedByCleaner
<1>4. StateOf(b)' = "free"
  BY <1>1 DEF LeakGuardFree, Classified
<1> HIDE DEF Inv, Types
<1> QED  BY <1>1, <1>2, <1>3, <1>4, MovesOne DEF Ownership!Release

\* clean() finds a handle whose pointer was taken: it frees nothing.
LEMMA CleanMaps ==
  ASSUME Context, NEW t \in Threads, Clean(t)
  PROVE  UNCHANGED Life
<1>1. ptr[target[t]] = NULL /\ NULL \notin live
  BY DEF Clean, Context, Inv, Types, Frames
<1>2. live' = live
  BY <1>1 DEF Clean
<1>3. \A c \in Boxes : Same(c)
  BY <1>2 DEF Clean, Context, Inv, Types, Same, Claimed, InUse, OwnedByThread,
              OwnedByCleaner
<1> QED  BY <1>3, Stutters DEF Context

\* Steps of a thread that neither start nor end a claim or a use.
LEMMA Elsewhere ==
  ASSUME Context, NEW t \in Threads,
         pc[t] \notin Claiming \cup {"native"} \/ box[t] = NULL,
         NEW place \in Places, Goto(t, place),
         place \notin Claiming \cup {"native"} \/ box[t] = NULL,
         UNCHANGED <<live, box, cleaner>>
  PROVE  UNCHANGED Life
<1>1. \A c \in Boxes : Same(c)
  BY DEF Context, Inv, Types, Same, Claimed, InUse, OwnedByThread,
         OwnedByCleaner
<1> QED  BY <1>1, Stutters DEF Context

\* Whatever leaves threads and boxes alone, and of the Cleaner its claim.
LEMMA Nowhere ==
  ASSUME Context, UNCHANGED <<live, pc, box>>,
         UNCHANGED cleaner \/ (cleaner.at # "freeing" /\ cleaner'.at # "freeing")
  PROVE  UNCHANGED Life
<1>1. \A c \in Boxes : Same(c)
  BY DEF Context, Inv, Types, Same, Claimed, InUse, OwnedByThread,
         OwnedByCleaner
<1> QED  BY <1>1, Stutters DEF Context

-----------------------------------------------------------------------------
\* The box a place has is one of the addresses.
LEMMA HeldBox ==
  ASSUME Context, NEW t \in Threads, pc[t] \in WithBox \cup {"native"}
  PROVE  box[t] # NULL /\ \E b \in Boxes : b = box[t]
BY DEF Context, Inv, Types, Frames

LEMMA ThreadMaps ==
  ASSUME Context, NEW t \in Threads, Proceed(t) \/ Application(t)
  PROVE  Ownership!Next \/ UNCHANGED Life
<1>1. ASSUME NEW b \in Boxes, NativeNew(t, b)
      PROVE  Ownership!Next
  BY <1>1, NativeNewMaps DEF Ownership!Next
<1>2. ASSUME NEW h \in Handles, NEW k \in Constructible, Construct(t, h, k)
      PROVE  Ownership!Next
  <2>1. /\ pc[t] \in Claiming \cap WithBox /\ Goto(t, "idle")
        /\ Hold(t, NULL) /\ UNCHANGED <<live, cleaner>>
    BY <1>2 DEF Construct
  <2> QED  BY <2>1, HeldBox, AdoptMaps DEF Ownership!Next
<1>3. ASSUME NEW h \in Handles, NewObject(t, h)
      PROVE  Ownership!Next
  <2>1. /\ pc[t] \in Claiming \cap WithBox
        /\ AfterNative(op[t]) \in Places \ (Claiming \cup {"native"})
        /\ Goto(t, AfterNative(op[t]))
        /\ Hold(t, NULL) /\ UNCHANGED <<live, cleaner>>
    BY <1>3 DEF NewObject
  <2> QED  BY <2>1, HeldBox, AdoptMaps DEF Ownership!Next
<1>4. ASSUME ConsumeFail(t) \/ NewObjectFails(t) \/ Free(t)
      PROVE  Ownership!Next
  <2>1. PICK place \in Places \ (Claiming \cup {"native"}) : Goto(t, place)
    BY <1>4 DEF ConsumeFail, NewObjectFails, Free
  <2>2. /\ pc[t] \in Claiming \cap WithBox
        /\ Hold(t, NULL) /\ live' = live \ {box[t]} /\ UNCHANGED cleaner
    BY <1>4 DEF ConsumeFail, NewObjectFails, Free
  <2> QED  BY <2>1, <2>2, HeldBox, ReleaseMaps DEF Ownership!Next
<1>5. ASSUME Peek(t) PROVE Ownership!Next
  <2>1. \E b \in Boxes : b = ptr[target[t]]
    BY <1>5 DEF Peek, Context, Inv, Types, Sites, Frames
  <2> QED  BY <1>5, <2>1, PeekMaps DEF Ownership!Next
<1>6. ASSUME NativeReturn(t) PROVE Ownership!Next
  BY <1>6, HeldBox, NativeReturnMaps DEF Ownership!Next, NativeReturn
<1>7. ASSUME FromRaw(t) PROVE Ownership!Next
  BY <1>7, HeldBox, FromRawMaps DEF Ownership!Next, FromRaw
<1>8. ASSUME NEW c \in Boxes, Establish(t, c) PROVE Ownership!Next
  BY <1>8, HeldBox, EstablishMaps DEF Ownership!Next, Establish
<1>9. ASSUME NEW c \in Boxes, Derive(t, c) PROVE Ownership!Next
  BY <1>9, HeldBox, DeriveMaps DEF Ownership!Next, Derive
<1>10. ASSUME Take(t) PROVE Ownership!Next \/ UNCHANGED Life
  <2>1. ptr[target[t]] = NULL \/ \E b \in Boxes : b = ptr[target[t]]
    BY <1>10 DEF Take, Context, Inv, Types, Sites
  <2> QED  BY <1>10, <2>1, TakeMaps, TakeNothingMaps DEF Ownership!Next
<1>11. ASSUME Clean(t) PROVE UNCHANGED Life
  BY <1>11, CleanMaps
<1>12. ASSUME \/ \E h \in Handles, o \in Ops : Call(t, h, o)
              \/ Lock(t) \/ CheckNotClosed(t) \/ Invalidate(t) \/ Unlock(t)
       PROVE  UNCHANGED Life
  <2>1. Invalidate(t) => box[t] = NULL
    BY DEF Invalidate, Context, Inv, Sites
  <2>2. PICK place \in Places :
          /\ Goto(t, place)
          /\ place \notin Claiming \cup {"native"} \/ box[t] = NULL
    BY <1>12, <2>1 DEF Call, Lock, CheckNotClosed, Invalidate, Unlock
  <2>3. /\ pc[t] \notin Claiming \cup {"native"} \/ box[t] = NULL
        /\ UNCHANGED <<live, box, cleaner>>
    BY <1>12 DEF Call, Lock, CheckNotClosed, Invalidate, Unlock
  <2> QED  BY <2>2, <2>3, Elsewhere
<1>13. ASSUME \/ \E u \in Threads, h \in Handles : Share(t, u, h)
              \/ \E h \in Handles : Forget(t, h)
       PROVE  UNCHANGED Life
  BY <1>13, Nowhere DEF Share, Forget
<1> QED
  BY <1>1, <1>2, <1>3, <1>4, <1>5, <1>6, <1>7, <1>8, <1>9, <1>10, <1>11,
     <1>12, <1>13
  DEF Proceed, Application

LEMMA CleanerMaps ==
  ASSUME Context, LeakGuardRun \/ Collector
  PROVE  Ownership!Next \/ UNCHANGED Life
<1>1. ASSUME LeakGuardTake PROVE Ownership!Next \/ UNCHANGED Life
  <2>1. CASE \E b \in Boxes : b = ptr[cleaner.handle]
    BY <1>1, <2>1, LeakGuardTakeMaps DEF Ownership!Next
  <2>2. CASE ~ \E b \in Boxes : b = ptr[cleaner.handle]
    <3>1. /\ UNCHANGED <<live, pc, box>>
          /\ cleaner.at # "freeing" /\ cleaner'.at # "freeing"
      BY <1>1, <2>2 DEF LeakGuardTake, Context, Inv, Types, Sites
    <3> QED  BY <3>1, Nowhere
  <2> QED  BY <2>1, <2>2
<1>2. ASSUME LeakGuardFree PROVE Ownership!Next
  <2>1. \E b \in Boxes : b = cleaner.box
    BY <1>2 DEF LeakGuardFree, Context, Inv, Sites
  <2> QED  BY <1>2, <2>1, LeakGuardFreeMaps DEF Ownership!Next
<1>3. ASSUME NEW h \in Handles, Dequeue(h) \/ Collect(h) PROVE UNCHANGED Life
  BY <1>3, Nowhere DEF Dequeue, Collect
<1> QED  BY <1>1, <1>2, <1>3 DEF LeakGuardRun, Collector

\* Under the invariants, in the states before and after a step.
LEMMA StepMaps ==
  Inv /\ NoEcies /\ Classified /\ Classified' /\ [Next]_vars
    => [Ownership!Next]_Life
<1> SUFFICES ASSUME Context, [Next]_vars
             PROVE  Ownership!Next \/ UNCHANGED Life
  BY DEF Context
<1>1. CASE UNCHANGED vars
  BY <1>1, Nowhere DEF vars
<1> QED  BY <1>1, ThreadMaps, CleanerMaps DEF Next

LEMMA InitMaps == Init => Ownership!Init
BY DEF Init, Ownership!Init, StateOf

\* As long as no Ecies is constructed, the threads, the monitors, the
\* consuming calls and the Cleaner give every native address the life
\* NativeOwnership describes: it is claimed by one party before it is freed,
\* never while a call is using it, and never forgotten.
THEOREM OwnershipIsImplemented ==
  ASSUME "ecies" \notin Constructible
  PROVE  Spec => ImplementsOwnership
<1>1. Init => NoEcies /\ AllOwned
  BY DEF Init, NoEcies, AllOwned
<1>2. Inv /\ NoEcies /\ AllOwned /\ [Next]_vars => (NoEcies /\ AllOwned)'
  BY NoEciesStep, AllOwnedStep DEF Inv
<1> QED
  BY <1>1, <1>2, Invariance, IsClassified, InitMaps, StepMaps, PTL
     DEF Spec, ImplementsOwnership, Ownership!Spec, Life
=============================================================================
