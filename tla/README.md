# vodozemac-java in TLA+

A verification development for `vodozemac-java`, the Java bindings of the Rust crate
`vodozemac` (Olm, Megolm, SAS, ECIES and backup encryption for Matrix). Paths below are
relative to the repository; `…/vodozemac/` stands for
`src/main/java/io/github/fherbreteau/vodozemac/`.

The cryptography is the crate's, a dependency outside the repository. What the
repository itself has to get right is the layer in between: Java objects that own native
memory, calls that cross JNI while other threads, `close()` and the garbage collector
are at work, native calls that consume their receiver, failures on either side of the
border, locks, and the loading of the library. On top of it are the objects whose state
the calls change: accounts and their keys, Olm, Megolm and ECIES sessions, as far as the
bindings decide when that state moves, what is kept of it and what a caller is told.
Both are modelled.

## 1. Inventory

| Component | Source | State | Operations |
|---|---|---|---|
| Native handles, Cleaner | `NativeHandle.java`, `rust/src/helpers.rs`, `sas/Sas.java`, `ecies/Ecies.java` and their Rust halves | the pointer (`State.ptr`), the monitor of the object, the Cleaner's list, the native heap | construct, call, consuming call, call that makes a new object, `close`, `invalidate`, `LeakGuard.run` |
| Locks of session pairs | `megolm/InboundGroupSession.java` (`withLocks`) | monitors of two sessions and a global lock | `connected`, `compare`, `merge`, every one-session method, `close` |
| Library loader | `NativeLibraryLoader.java`, static initializers of the handle classes and `Vodozemac` | `loaded`, the class monitor, state of each class in the JVM | `loadLibrary`, `loadFromResources` |
| Account | `account/Account.java`, `rust/src/olm/account.rs` | identity keys, one-time keys, fallback keys | generate, publish, forget, sign, create sessions, pickle, dehydrate |
| Olm session | `olm/OlmSession.java`, `rust/src/olm/session.rs` | double ratchet | encrypt, decrypt, pickle, matches |
| Megolm sessions | `megolm/*`, `rust/src/megolm/*` | ratchet, message index, first known index | encrypt, decrypt, exportAt, advanceTo, compare, merge, import |
| SAS | `sas/EstablishedSas.java`, `rust/src/sas/established_sas.rs` | shared secret | bytes, emoji indices, MACs |
| ECIES channel | `ecies/EstablishedEcies.java`, `rust/src/ecies/established_ecies.rs` | two counters and keys | encrypt, decrypt, checkCode |
| Backup | `backup/*`, `rust/src/backup/*` | a key pair | encrypt, decrypt, pickles |
| Values, validators, exceptions | `types/*`, `KeyValidator.java`, `rust/src/types/*`, `rust/src/errors.rs` | immutable | conversions |

Interaction. Every handle class extends `NativeHandle` and calls the loader in its
static initializer. A public method is `synchronized`, calls `checkNotClosed()`, reads
`nativePtr()` and enters Rust, which dereferences the pointer, calls the crate and
builds Java objects through JNI (`env.new_object`), some of which own new native
objects. The only shared state on the Rust side is the heap: there are no globals.

Hard behaviours, and what makes each component correct:

* **Handles.** `close()` racing calls, the Cleaner racing both, addresses that are
  reused, consuming calls that fail halfway. Nothing is used after it was freed, freed
  twice or owned twice; nothing is lost; what is forgotten is freed in the end.
* **Session pairs.** Two monitors per call, arguments in any order, colliding identity
  hashes. No deadlock; both operands stay open and locked.
* **Loader.** Several classes initialized at once by several threads, failed attempts
  that are followed by others. Linked once, before any native call; nobody waits
  forever.
* **Native methods.** Every one is a closure with early returns, JNI calls and calls of
  the crate, each of which may fail or panic, while a box is owned by the closure, by
  nobody or by Java. No failure is swallowed, nothing is lost or left dangling, and what
  the caller takes for a refusal has changed nothing.
* **Account and Olm.** The key store evicts, a fallback key outlives its use, a call
  fails after it has changed the account, a pickle is older than what the server and the
  senders know, messages are lost, repeated and reordered. A key that can be claimed can
  be used, a channel reaches the owner and nothing is delivered twice, or there is one
  of the few known reasons.
* **Megolm.** Chains of export, import, advance, merge, pickle and unpickle by several
  peers, indices at the edge of 32 bits, a sender that restarts from an old pickle.
  Nobody reads further back than what he was given allows.
* **ECIES.** Counters on two sides that move on even if a call fails. Plaintexts come in
  order, and a gap has a failed call to explain it.

`PROJECT.json` lists these hazards with their lines and the properties that watch them.

## 2. Modules

| Module | What it is |
|---|---|
| `NativeHandle` | handles, threads, monitors, native calls, garbage collector and Cleaner |
| `NativeOwnership` | the abstract life cycle of a native address that `NativeHandle` implements |
| `MCNativeHandle` | instances for TLC |
| `NativeHandleProofs` | inductive invariant and theorems |
| `SessionLocks`, `SessionLocksProofs` | the monitors of `InboundGroupSession` |
| `NativeOwnershipProofs` | that `NativeHandle` implements `NativeOwnership` |
| `LibraryLoader`, `MCLibraryLoader`, `LibraryLoaderProofs` | `NativeLibraryLoader` and class initialization |
| `NativeMethods` | the native methods of `rust/src` as sequences of steps |
| `NativeCalls`, `MCNativeCalls` | how such a sequence runs, fails and returns to Java |
| `NativeCallsProofs` | that every sequence keeps to a protocol, and what follows for every call |
| `MegolmGroup`, `MCMegolmGroup`, `MegolmGroupProofs` | a sender, peers, their sessions and the strings between them |
| `MegolmReach` | the abstract view of them: sets of messages one can read |
| `OlmAccount` | the keys of an account, from generation over the server to their use |
| `OlmChannels`, `OlmChannelsProofs` | Olm sessions that are created with these keys (extends `OlmAccount`) |
| `EciesChannel`, `EciesChannelProofs` | the two ends of an ECIES channel |
| `MCOlmChannels` | an instance of the last three; `OlmChannelsProofs` extends it and has the theorems about it |

The modules meet in this way: `NativeHandle` is about many calls at once on one object
and knows nothing of their content; `NativeCalls` is about the inside of one call; the
three protocol modules take from both that calls on an object come one after the other
and that a failing call may already have changed the object.

Each specification module also holds a few operators that no specification uses, next to
the operator they deviate from (`PeekToClose` next to `Take`, `PlanWithoutTie` next to
`Plan`, `ExportWhole` next to `ExportAt`, ...). They are plausible mistakes;
`PROJECT.json` says which property catches each of them.

### NativeHandle

Every statement that touches shared state is a step: a thread's `pc` is the place
between two of them.

| Place, action | Code |
|---|---|
| `NativeNew`, `Construct` | `nativeNew()`, then the `NativeHandle` constructor, which registers the `LeakGuard`. The two are apart: in between only the thread knows the address |
| `Call`, `Lock` (`entering`) | calling and entering a `synchronized` method |
| `CheckNotClosed` (`checking`) | `Objects.requireNonNull` where a method has it, then `checkNotClosed()`; an exception of either leads straight to `leaving`, without `invalidate()` |
| `Peek` (`peeking`) | `nativePtr()`, a volatile read without a lock |
| `NativeReturn` (`native`) | the native method returns or throws without touching ownership |
| `FromRaw`, `ConsumeFail`, `Establish` | `Box::from_raw` in `nativeDiffieHellman` and `nativeEstablish…Channel`, the drop on a failure after it, the new object in a `RawBox` |
| `Derive` | a session made from an account: `RawBox::new` |
| `NewObject`, `NewObjectFails` (`wrapping`) | `env.new_object` and `RawBox::leak`, or the drop of the `RawBox` |
| `Invalidate`, `Clean` | `invalidate()` in the `finally` clause: `take()`, then `cleanable.clean()` |
| `Take`, `Clean`, `Free` | `close()`: `take()`, `cleanable.clean()`, `nativeFreer.accept(ptr)` |
| `Dequeue`, `LeakGuardTake`, `LeakGuardFree` | the Cleaner's thread on an unreachable object |
| `Collect` | an object without a Cleanable is reclaimed |
| `Share`, `Forget` | the application publishes a handle to another thread, or drops it, also in the middle of a call |

The three kinds of handle differ in what consuming does. `Sas` takes its box back before
it decodes its argument, so a failing call frees it; `Ecies` decodes first, so a failing
call returns with the box untouched (`NativeReturn` with `kind = "ecies"`). All the
others are `"plain"`. Freed addresses may come back from a later allocation: a stale
pointer then denotes a box of somebody else, and `SoleOwner` would see it.
`BecomeHandle` is atomic: the constructor publishes nothing before `CLEANER.register`
returns.

`NativeOwnership` has four states per address (free, claimed, idle, inuse). It knows no
threads, no locks and no Cleaner. `ImplementsOwnership` is its specification under the
mapping `StateOf`. A box that is allocated but has no owner maps to `"lost"`, which is
no state there.

### SessionLocks

A thread calls a pair method, a method of one session, or `close()`. `Plan(a, b)` is the
sequence of monitors `withLocks` enters: one if the operands are the same object, two
ordered by `System.identityHashCode`, or the tie-break lock followed by both in argument
order. The hashes are an arbitrary function chosen initially. Monitors are reentrant in
Java, but no method enters one twice. Which handle is closed is the only state of the
session that matters here; the rest of its life is in `NativeHandle`.

### LibraryLoader

Class initialization follows the JVM: the first user runs the initializer, others wait,
a failure makes the class erroneous for good. Inside `loadLibrary()` each step is
separate: the test of the flag, extraction from one place (which may fail at any place:
`ExtractFails`), `System.load`, the assignment. What is at the two places, and whether
the platform is known, is chosen initially.

### NativeMethods and NativeCalls

`NativeMethods` has one definition per native method, named `<class>_<method>`: the
sequence of the steps of its closure, in the order of the code. A step is a pointer
check, a call into the JVM, a check of an argument with the exceptions it throws, a call
of the crate that reads or changes the receiver, or a change of ownership
(`Box::from_raw`, `RawBox::new`, `env.new_object`, `leak`, `box_to_jlong`,
`native_free`). Helpers of the Rust code (`Wrap`, `ToJavaBase64Value`, ...) are
sequences, too, and concatenated where they are called. A loop is one round of it. The
methods of a class are a record, `AccountNatives` and so on, as its Java class declares
them; `Natives` is the table of the classes.

`NativeCalls` executes a sequence. Each step continues, throws one of its exceptions,
fails with an error of the `jni` crate, or panics where the crate may.

| State, action | Code |
|---|---|
| `heap`, `java` | the boxes, and the pointer in each Java handle |
| `rust`, `made` | the boxes the closure drops when it is left, and the new object |
| `pending`, `err` | the pending Java exception and the `Err` of the closure; they are apart, as `throw_new` can fail and two validators drop the `Err` |
| `Check`, `CallJvm`, `Decode`, `Notice`, `CrateReads`, `CrateAdvances`, `ReturnsNull` | steps that change no owner |
| `TakeBack`, `MakeBox`, `MakeObject`, `LeakBox`, `MakeLong`, `FreeBox` | steps that do |
| `ResolveErr`, `ResolveOk` | the end of the closure: drops, the error policy, and what Java makes of the result, with the `finally` clause of a consuming method |

`CrateAdvances` states what is assumed of the crate: a call it rejects has not changed
the object, except that an ECIES channel's counter may have moved; a panic may come
before or after the change. `Throw` assumes that `throw_new`, whose own error the code
drops (`errors.rs:25`), leaves an exception of the JVM pending if it fails: with nothing
pending the failure would be invisible to Java. The value of a result is not modelled.

### MegolmGroup and MegolmReach

A session is an owner, a session id, a version and the first index it knows. A string
(session key, exported key, pickle) is what can be made of it. All strings are public,
since what a peer gets is a choice of the peers, and any of them may be lost.
`floor[p][g]` is the smallest index for which a key that `p` received was asked; it
belongs to the specification only.

| Action | Code |
|---|---|
| `Encrypt`, `SessionKey` | `OutboundGroupSession.encrypt`, `sessionKey`. `encrypt` moves the index on even if the message cannot be returned |
| `Restart` | the sender's process starts again from any state there was; `rolled` keeps from how far up it was taken back |
| `New`, `ImportSession`, `RejectKey` | the constructor and `importSession`, which read one kind of key each |
| `Decrypt` | signature, then index, then MAC; on any message there is, any number of times |
| `ExportAt`, `ExportAtFirstKnownIndex`, `AdvanceTo`, `RejectIndex` | indices are Java longs: `CheckIndexRange` in Java, `TryFrom` in Rust |
| `Connected`, `Compare`, `Merge`, `WithItself` | two sessions of one peer, and the check for one session given twice |
| `Pickle`, `Unpickle`, `Close` | also several times from one pickle |
| `Taken` | the caller looks at the result; in between no other call is made |

`MegolmReach` says the same without indices: a session is the set of messages it can
decrypt, `advanceTo` and `exportAt` restrict it, `merge` unites two sets, `compare` is
inclusion. `ImplementsReach` maps a session to the messages of its id and version from
its first index on. In the abstract specification `exportAt` of an index succeeds
exactly if everything from there on is readable and `merge` finds a session exactly if
the two sets intersect, so an index that is off by one anywhere shows.

### OlmAccount and OlmChannels

Keys are numbers in the order of their generation. `OlmAccount` has the account of the
running process and its last pickle, the key server, and what the application can know:
`told` (keys a call reported as removed, or that it asked to remove) and `missed` (keys
that went in a call that failed, or with a restart).

| Action | Code |
|---|---|
| `GenerateOneTimeKeys` | `generateOneTimeKeys`: the limit in Java and in Rust, eviction of the oldest when the store is full, and a result that may fail to be made after all that |
| `GenerateFallbackKey`, `ForgetFallbackKey` | the current key becomes the previous one; two are kept at most. `generateFallbackKey` returns the one that is gone, unless the result cannot be made (`ReportFallbackKey`) |
| `Upload`, `MarkKeysAsPublished` | the application uploads what is unpublished; marking is a call of its own |
| `Pickle`, `Unpickle` | `pickle`; a restart from the last one |
| `Claim` | the server (external): each one-time key once, then the fallback key |
| `UseKey` | `createInboundSession`: one-time keys are removed, fallback keys stay |

`OlmChannels` adds the senders' sessions and the owner's. Messages are numbered per
channel; every message that was sent can be tried at any time, which stands for loss,
reordering and repetition. `CreateInboundSession` and `Decrypt` may fail after they have
changed the account or the session. The ratchet is the crate's: a number is used once
per session. `Restart` ends the owner's process: the account comes from its pickle, the
sessions from theirs if they are unpickled. `twice`, `copied`, `dropped` and `revived`
record what happened, for the properties only.

### EciesChannel

Both sides start with an `Ecies`; establishing a channel consumes it, also when it
throws (`Consume`). The initial message is the first of the channel, so the recipient
starts with its decryption counter at 1. Encryption uses a nonce even if no message is
returned. A decryption that fails may or may not use one: the binding hands the message
to the crate and does not say, so both are allowed.

`MCOlmChannels` puts both modules in one instance; the variable `system` chooses which
of the two a behaviour is about, as they share no state.

## 3. Runs

| Run | Instance | What it shows |
|---|---|---|
| `handle_safety` | 2 threads, 3 objects, 2 addresses, plain and Ecies | `TypeOK`, `NoUseAfterFree`, `NoDoubleFree`, `SoleOwner`, `GuardArmed`, `CheckStillHolds`, `Serialized` |
| `handle_refines_ownership` | 2 / 2 / 2, plain and Sas | `NoOrphan`, `GuardedPointer`, and `ImplementsOwnership` |
| `handle_liveness` | 1 thread, 2 objects, 2 addresses | `AbandonedIsReleased`, `TakenIsReleased` |
| `ecies_decode_failure` | 2 / 2 / 2, Ecies only | `NoOrphan` is violated (section 6) |
| `leaked_memory_kept` | as `handle_liveness` | `LeakedMemoryIsKept` is violated (section 6) |
| `session_locks` | 2 threads, 3 sessions, hashes 0..2 | `TypeOK`, `OperandsStayOpen`, `OperandsAreExclusive`, `NoDeadlock`, `OwnersAreRight`, `CallsComplete` |
| `library_loading` | 2 threads, 3 classes | `TypeOK`, `NativeCallsAreLinked`, `LinkedOnce`, `LoadedForGood`, `UseEnds` |
| `library_fallback` | 2 threads, 2 classes | `FallbackIsTried` is violated (section 6) |
| `native_calls` | 3 addresses, all 113 methods | `TypeOK`, `EveryFailureIsSeen`, `RejectedMeansUnchanged`, `NothingIsLost`, `HandlesAreLive`, `CheckedBeforeUse` |
| `megolm_group` | 2 peers, 1 outbound and 3 inbound sessions, 2 versions, indices 0..2 | `TypeOK`, `NoAccessBelowGrant`, `SharedKeyCovers`, `IndicesAreFresh`, `ImplementsReach` |
| `olm_channels` | 2 one-time and 3 fallback keys, a store for 1, 1 channel, 1 session of the owner, 2 messages, of keys and messages 5 together; 3 nonces | `TypesOK`, `ClaimableKeysAreUsable`, `NoDeadChannel`, `DeliveredOnce`, `EciesInOrder`, `EciesSkipsOnFailure` |
| `fallback_key_result` | 1 one-time and 3 fallback keys, 1 channel, 1 session, 1 message | `ReturnsNewFallbackKey` is violated (section 6) |

**Bounds.** Two threads are enough for a call against a `close()`; the Cleaner is a
third actor. Three objects allow a consumed object, the one made from it and an
unrelated one that gets the freed address; two addresses force reuse. In `SessionLocks`
three hash values for three sessions give all orders and all collisions. Two threads can
block each other or close a session under the other; a circle of more threads is left to
the theorem `DeadlockFree`, which is about any number of both. In `LibraryLoader` a
third class lets a thread try again after it has seen another attempt fail. No counter
needs a bound of its own: a class is initialized once, so the library is extracted no
more often than there are classes. Symmetry is used for safety only: invariants, action
properties, and refinements of a specification without fairness.

* `NativeCalls`: no call touches more than three objects (`merge`: two operands and the
  result), and calls come one after the other. About 400,000 states. The proof goes
  further: any set of addresses.
* `MegolmGroup`: `MaxU32 = 2` is a width that has a first, a middle and a last index,
  and `Longs` adds the two values next to it. Three handles are what `merge` needs, two
  peers make chains of exports. `MaxStrings` limits what is kept at a time; as any
  string may be forgotten in favour of a new one, a chain of any length goes through it.
  Two versions make sessions unconnected; there is one outbound session, so the case of
  a message of another session (`SignatureException`) does not occur in the instance:
  there the proof goes further than the run. The sender encrypts at two indices, so a
  restart can take it back by one or two and it can get past them again; while it is
  past the first or has been, one inbound session is open at a time (`WithinBudget`).
  About 700,000 states.
* `OlmChannels`: a store of capacity 1 with two one-time keys evicts; a second fallback
  key makes the first the previous one, a third removes it. One channel and one handle suffice for the
  reasons named by the properties; that channels do not disturb each other is left to
  the proof, whose inductive invariant was also checked on two channels and two handles.
  `MaxMessages`, `MaxOneTime`, `MaxFallback` and `MaxNonce` bound the length of a
  behaviour, and `Budget` how many keys and messages one behaviour has together: each
  bound is reached, but not all of them at once. About 1.8 million states.

**Deadlock** is checked except in `handle_safety`, where the leak of section 6 can use
up all addresses, after which nothing can happen, and in `olm_channels`,
where both ends of an ECIES channel may be closed.

## 4. Fairness

* `NativeHandle`: weak fairness of each thread inside a call (native calls return), weak
  fairness of the Cleaner's thread once it has dequeued an object, strong fairness of
  dequeuing each object (the collector finds unreachable objects, the queue overtakes
  none forever). Nothing is assumed of the application, nor of monitors beyond weak
  fairness, so a thread may starve at a monitor. The documentation calls the Cleaner
  best-effort: the liveness property says that the code does its part if the JVM does.
* `SessionLocks`: weak fairness of each thread. `CallsComplete` therefore speaks of some
  thread, not of each.
* `LibraryLoader`: weak fairness of each thread, and this is enough for each of them, as
  a class enters the loader only once.
* `NativeCalls`, `MegolmGroup`, `OlmChannels`, `EciesChannel`: none, and no liveness
  property. Nothing in the code promises that an application calls anything, and the
  network is outside.

## 5. Proofs

All theorems hold for every value of the constants, under the assumptions named in the
modules: the sentinels (`NULL`, `TieLock`) are distinct from real values (in
`NativeCalls`, from addresses and class names),
`Constructible` is a set of kinds, `MaxHash`, `MaxU32` and the other bounds are natural
numbers, `MaxSent` is an index, `Limit` is at most `Capacity`.

**NativeHandleProofs.** The safety properties are not inductive: that a native call runs
on a live box depends on the handle's pointer, which depends on who may change it, on
whether the Cleaner may see the object, and on no other object having the same address.
`Inv` has these parts:

* `Types`; `Sites`: which operation a thread executes where, and that it has a handle
  there; `Owned`: inside a synchronized method it owns the monitor; `Frames`: what
  `checkNotClosed()`, `take()` and `Box::from_raw` established about the pointer is
  still true at the later steps; `Alive`: only objects that exist are referred to, the
  Cleaner works on objects nobody can reach, and every pointer has its guard;
  `Exclusive`: every claim on a box is on a live one, and no two claims are on the same;
* one lemma per part (`TypesStep`, ...), each with one step per action; `InvInit`,
  `InvStep` and `Invariance` put them together.

From it follow `TypeCorrect`, `NeverUsedAfterFree`, `NeverFreedTwice`, `OwnerIsUnique`,
`SafetyNetIsArmed`, `CheckIsNotStale`, `CallsAreSerialized` and, as an action property,
`PointerIsGuarded`. `NoBoxIsLost` adds the assumption that no `Ecies` is constructed,
without which it is false.

**NativeOwnershipProofs.** `OwnershipIsImplemented`, again without `Ecies`. Under `Inv`,
and as every box is owned, the abstract state of an address follows from three
questions: is it allocated, does a thread or the Cleaner claim it, is a native call
using it (`Classified`). Each lemma says of one kind of step which answers it changes
and for which addresses: one (`MovesOne`), or two where a call replaces or makes a
native object (`MovesTwo`).

**SessionLocksProofs.** `Inv` says that a thread in a method has a plan that names its
operands and is in order (`InOrder`: ranks do not decrease, equal ranks only for the
last two of three, under the tie lock), that it owns exactly the entered part of it
(`OwnersAreRight`), and that past a check its operand is open. `DeadlockFree`: in a set
of threads that wait for each other take one that waits for a monitor of largest rank.
The owner of that monitor waits for one of no smaller rank, hence of equal rank, hence
holds the tie lock; so does the next owner, so they are one thread, which would wait for
a monitor it owns, but a plan names no monitor twice. Also `TypeCorrect`,
`OwnersCorrect`, `OperandsAreSafe`, `OperandsExclude`.

**LibraryLoaderProofs.** `Inv`: `loadLibrary()` is exclusive, `loaded` tells whether the
library is linked except between `System.load` and the assignment, and success is
reported only once it is set. From it `CallsAreLinked`, `LinkedAtMostOnce` and
`LoadingIsIdempotent`. `TypeCorrect`, for a finite set of classes, needs two more parts:
a class is initialized by one thread (`OneInitializer`), and the library was extracted
at most once for each class whose initializer came past the test of the flag (`Counted`,
with the set `Tried`).

**MegolmGroupProofs.** That sessions reach no further back than granted is not
inductive, as a session may come from a string: `IInv` adds that keys start where they
were asked to (`KeysAsAsked`) and pickles above the grant of their owner
(`PicklesAboveGrant`). From it `TypeCorrect`, `AccessIsGranted`, `KeysCover` and
`IndicesStayFresh`. The last two are about a sender that restarts: an index below
`rolled` may be used twice, none above it, and a key reaches everything above it.
`Refinement` rests on lemmas that turn comparisons of indices into statements about
intervals of messages (`Member`, `Disjoint`, `Included`, `SameReach`, `Advanced`), and
has one lemma per group of calls.

**OlmChannelsProofs.** `IInv` is `AccountInv /\ ChannelInv`. `AccountInv`: keys are
numbered as generated, the offered fallback key is known, `ClaimableKeysAreUsable`.
`ChannelInv`: a channel's key was claimed, and only fallback keys twice (`Claimed`); on
a channel without a copy or a key that may be used twice (`Once`), something has arrived
only if the key is used up (`UsedUp`) and the owner has one session (`OneSession`),
which has used up all that was delivered. The two halves meet in `Kept(K)`, which says
what an action of the account does to the channels' view of it: all keys but `K` stay
known, and no used key comes back but with an old pickle. Hence `TypeCorrect`,
`ClaimedKeysWork`, `ChannelsReachTheOwner` and `NothingTwice`.

**NativeCallsProofs.** A native method is data, a sequence of steps, so the proof has
two halves that meet in one definition.

The first half types the table. A method is at a place: `fresh`, with nothing checked;
`ready` to call the crate; `changed`, after a call that changed the receiver; `taken`,
when the closure owns a box; `boxed`, `wrapped`, `handed` on the way of a new object to
Java; `closing` and `freed`; and so on for the pair methods and the consuming ones.
`Leads(op, p, r)` says which kind of step leads from where to where, and `Fits` what a
step may throw there: an exception that promises an unchanged object only at a
`Refusable` place, where the receiver is as it was or the closure's to drop. `Path(p, s, r)` says that a sequence of steps leads from `p`
to `r`. Paths are concatenated by `Join`, so each helper of the Rust code gets a lemma,
each method is built from them, and `EveryMethodIsSound` says that every method of the
table is a path from the start its class and name give it (`StartOf`) to a place where
it may return. This is the part a change of the Rust code can break: a pointer used
before its check, an argument refused after the crate was called or an object left in
mid-air has no path.

The second half knows nothing else of the table. While a method runs, `Inv` has some
place `p` from which the remaining steps lead on (`Onward`) and the facts of that place
(`At(p)`): which box the closure owns and of which class, what has been checked, that
the receiver is unchanged if `p` is `Untouched`, that no failure is pending unless the
code goes on after one (`noted`, `freed`). The
properties of the runs are not inductive without it: `HandlesAreLive` alone does not say
which box `leak` hands over, `NothingIsLost` speaks of the end of a call only, and
`RejectedMeansUnchanged` needs to know at the refusal what happened before it. When a
step fails (`Failing`), what is left is the drop of the closure's boxes and the error
policy; when the call is over (`Returned`), the properties follow. One lemma per action.
Hence `TypeCorrect`, `FailuresAreSeen`, `RefusalsChangeNothing`, `NoObjectIsLost`,
`HandlesStayLive` and `PointersAreChecked`. TLC checked `Inv` before it was proved.

**EciesChannelProofs.** `EciesInv` adds that what was delivered lies below the counter
(`Below`) and that an unused side has delivered nothing. Hence `EciesTypeCorrect`,
`DeliveredInOrder` and `OnlyFailuresSkip`, for any `MaxNonce` above 0.

**The composition.** `Composition`, in `OlmChannelsProofs`: a behaviour of
`MCOlmChannels` is one of `OlmChannels` and one of `EciesChannel`, since every step of
one stutters in the other. So the invariants of both hold of what the run checks
(`TypesCorrect`, `AllTogether`).

Only model-checked: the liveness properties `AbandonedIsReleased`, `TakenIsReleased`,
`CallsComplete` and `UseEnds`. They rest on fairness, hence on
ENABLED, which is out of the prover's reach. Every invariant, every action property and
both refinements that a passing run checks are theorems, `NoOrphan` and
`ImplementsOwnership` for a system in which no `Ecies` is constructed (section 6).

## 6. Findings

* **A consuming call of `Ecies` that fails to decode loses native memory.**
  `establishOutboundChannel` and `establishInboundChannel` invalidate the handle in a
  `finally` clause; their native halves take the box back only after decoding the key or
  the message (`rust/src/ecies/ecies.rs:73-77`, `110-112`). On a malformed argument
  nobody owns the box afterwards: `close()` does nothing and the LeakGuard is gone.
  `Sas.diffieHellman` takes its box first and has no such path. Run
  `ecies_decode_failure`.
* **`loadLibrary()` does not fall back when linking fails.** `System.load` throws
  `UnsatisfiedLinkError`, an `Error`; the clauses catch `Exception`. The second place is
  not tried and no `RuntimeException` is thrown, contrary to the comment and the
  Javadoc. As the flag stays unset, the next class extracts the library again. Run
  `library_fallback`.
* **Leaked handles do not keep their memory.** `SECURITY.md:109-110`: "leaked handles
  keep their native memory until the process exits". The Cleaner runs the `LeakGuard` of
  a handle that became unreachable, and that frees the native object
  (`NativeHandle.java:143-150`), as the Javadoc of `NativeHandle` and its test
  `testCleanerReleasesLeakedHandle` have it. `MIGRATION-GUIDE.md:62` ("resources are
  **not** released by finalizers") does not mention the Cleaner. Run
  `leaked_memory_kept` refutes what the documentation says; `AbandonedIsReleased`, in
  `handle_liveness`, is what the code does, if the JVM runs the Cleaner.
* **`generateFallbackKey()` does not return the new key.** `MIGRATION-GUIDE.md:75` says
  that it returns "the new fallback key". It returns the key the account gives up, empty
  for the first two calls (`rust/src/olm/account.rs:336-343`, `Account.java:258-259`).
  An application that follows the guide would publish a key that is gone. Run
  `fallback_key_result`.

## 7. Plan and limits

Next, in this order:

1. A composition of `NativeHandle` with one of the protocol modules, so that a closed or
   consumed handle on one thread and the state of a session on another meet. Now each
   side is taken from the other as an assumption (calls on an object come one after the
   other; a failing call may have changed it).
2. A larger instance of `MegolmGroup` with two outbound sessions, which needs a more
   compact record of strings.
3. SAS: that both sides compute the same bytes and accept each other's MACs exactly if
   they have the same identifiers and info strings. What the repository adds to the
   crate there is the order of arguments, which is all a model would have.

Not modelled:

* the crate's cryptography: what a ratchet, a signature or a MAC computes. It enters as
  what a call may return and is marked external in `PROJECT.json`;
* the values that SAS, backup encryption, signatures, check codes and key pairs compute.
  Their native methods are modelled with errors and owners, and no call changes their
  state;
* value classes, `equals`, `toString`, JSON and base64 layout, and the choice of a
  platform directory;
* build scripts, demos and documentation;
* one documented race of applications: keys another thread generates between
  `unpublishedOneTimeKeys()` and `markKeysAsPublished()` are marked although they were
  not uploaded. The two calls are the application's to order; `OlmAccount` allows the
  interleaving and no property forbids it;
* a logger that throws. `LeakGuard.run()` warns between `take()` and the free
  (`NativeHandle.java:145-149`); if `System.Logger` threw there, nobody would free the
  native object.
