----------------------------- MODULE NativeCalls -----------------------------
(***************************************************************************)
(* What happens between a Java caller and the native objects while a       *)
(* native method of NativeMethods runs: who owns which Box, which Java     *)
(* exception is pending, and what has been changed when a call fails.      *)
(* Any step can fail in each way the code has: an exception of its own, a  *)
(* failing JNI call, a panic of the crate.                                 *)
(*                                                                         *)
(* Calls come one after the other: that two threads do not use one object  *)
(* at once is the matter of NativeHandle and SessionLocks.                 *)
(***************************************************************************)
EXTENDS NativeMethods, Naturals, FiniteSets

CONSTANTS
  Objs,  \* addresses of native objects
  NULL   \* the pointer 0, no object

VARIABLES
  heap,      \* the class of the object allocated at an address
  java,      \* the class of the Java handle that holds an address
  call,      \* the method that runs or ran last, and its operands
  at,        \* the step it is at
  phase,     \* running, failed with an Err, or returned
  rust,      \* the boxes the closure drops when it is left
  made,      \* the object the closure has made
  pending,   \* the Java exception that is pending
  err,       \* the Err of the closure
  advanced,  \* the call has changed its receiver
  failed     \* one of its checks or calls has failed

vars == <<heap, java, call, at, phase, rust, made, pending, err, advanced,
          failed>>

Classes == DOMAIN Natives

ASSUME NullAssumption == NULL \notin Objs \cup Classes

Handles == {"Account", "OlmSession", "InboundGroupSession",
            "OutboundGroupSession", "Sas", "EstablishedSas", "Ecies",
            "EstablishedEcies", "PkEncryption", "PkDecryption",
            "Ed25519KeyPair"}

Typed == {"PickleException", "DecryptionException", "EncryptionException",
          "SessionCreationException", "KeyException", "SignatureException",
          "EciesException", "ConversionException", "SasException"}

\* An exception the JVM throws by itself, e.g. OutOfMemoryError.
Exceptions == Typed \cup {"JavaError", "RuntimeException"}

steps == Natives[call.class][call.method]

step == steps[at]

Running(op) == phase = "run" /\ at <= Len(steps) /\ step.op = op

Has(s, ops) == \E i \in DOMAIN s : s[i].op \in ops

\* The methods that take the pointer of their receiver ...
TakesReceiver(c, m) ==
  Has(Natives[c][m], {"check_ptr", "read", "advance", "from_raw", "native_free"})

\* ... those that take a second one ...
Pairs == {<<"InboundGroupSession", "nativeConnected">>,
          <<"InboundGroupSession", "nativeCompare">>,
          <<"InboundGroupSession", "nativeMerge">>}

\* ... and those after which Java gives its handle up in a finally clause.
Consuming == {<<"Sas", "nativeDiffieHellman">>,
              <<"Ecies", "nativeEstablishOutboundChannel">>,
              <<"Ecies", "nativeEstablishInboundChannel">>}

Id == <<call.class, call.method>>

TypeOK ==
  /\ heap \in [Objs -> Handles \cup {NULL}]
  /\ java \in [Objs -> Handles \cup {NULL}]
  /\ call.class \in Classes /\ call.method \in DOMAIN Natives[call.class]
  /\ {call.recv, call.other} \subseteq Objs \cup {NULL}
  /\ at \in 1..(Len(steps) + 1)
  /\ phase \in {"run", "failed", "returned"}
  /\ rust \subseteq Objs
  /\ made \in Objs \cup {NULL}
  /\ pending \in Exceptions \cup {"none"}
  /\ err \in {"none", "JavaException", "Other"}
  /\ {advanced, failed} \subseteq BOOLEAN

Init ==
  /\ heap = [x \in Objs |-> NULL]
  /\ java = [x \in Objs |-> NULL]
  /\ call = [class |-> "Vodozemac", method |-> "nativeVersion",
             recv |-> NULL, other |-> NULL]
  /\ at = Len(Vodozemac_nativeVersion) + 1
  /\ phase = "returned" /\ rust = {} /\ made = NULL
  /\ pending = "none" /\ err = "none" /\ advanced = FALSE /\ failed = FALSE

(***************************************************************************)
(* A Java method calls its native one with the pointers of its handles, or *)
(* with 0, which native code checks again. Before nativeFree, close() has  *)
(* taken the pointer out of the handle.                                    *)
(***************************************************************************)
Operands(c) == {x \in Objs : java[x] = c} \cup {NULL}

Call(c, m) ==
  /\ phase = "returned"
  /\ Has(Natives[c][m], {"raw_box", "box_to_jlong"})
       => \E x \in Objs : heap[x] = NULL
  /\ \E r \in IF TakesReceiver(c, m) THEN Operands(c) ELSE {NULL},
        o \in IF <<c, m>> \in Pairs THEN Operands(c) ELSE {NULL} :
       /\ call' = [class |-> c, method |-> m, recv |-> r, other |-> o]
       /\ java' = [x \in Objs |->
                     IF m = "nativeFree" /\ x = r THEN NULL ELSE java[x]]
  /\ at' = 1 /\ phase' = "run" /\ made' = NULL
  /\ pending' = "none" /\ err' = "none" /\ advanced' = FALSE /\ failed' = FALSE
  /\ UNCHANGED <<heap, rust>>

(***************************************************************************)
(* How a step ends.                                                        *)
(***************************************************************************)
Continue == at' = at + 1 /\ UNCHANGED <<phase, pending, err, failed>>

\* throw: env.throw_new may fail itself and leave what the JVM threw. It is
\* assumed not to fail with nothing pending.
Throw(E) ==
  /\ pending' \in E \cup {"JavaError"}
  /\ failed' = TRUE

\* Err(throw_..(env, e)) and `?'
ThrowErr(E) ==
  /\ Throw(E)
  /\ err' = "JavaException" /\ phase' = "failed" /\ UNCHANGED at

\* `?' on an error of jni, with or without a Java exception pending.
JniErr ==
  /\ \/ pending' = "JavaError" /\ err' = "JavaException"
     \/ UNCHANGED pending /\ err' = "Other"
  /\ failed' = TRUE /\ phase' = "failed" /\ UNCHANGED at

\* catch_panic
Panic == ThrowErr(Conversion)

Owned == <<heap, java, rust, made>>

(***************************************************************************)
(* Steps that change no owner.                                             *)
(***************************************************************************)
Check ==
  /\ \/ Running("check_ptr") /\
          IF call.recv = NULL THEN ThrowErr(Conversion) ELSE Continue
     \/ Running("check_other") /\
          IF call.other = NULL THEN ThrowErr(Conversion) ELSE Continue
     \/ Running("check_self") /\
          IF call.recv = call.other THEN ThrowErr(Conversion) ELSE Continue
  /\ UNCHANGED <<Owned, call, advanced>>

CallJvm ==
  /\ Running("jni")
  /\ \/ Continue
     \/ JniErr
     \/ step.exc # {} /\ ThrowErr(step.exc)
  /\ UNCHANGED <<Owned, call, advanced>>

\* An argument is good, is rejected, or makes the crate panic.
Decode ==
  /\ Running("reject")
  /\ Continue \/ ThrowErr(step.exc) \/ Panic
  /\ UNCHANGED <<Owned, call, advanced>>

\* The error is thrown and dropped: the closure goes on to its Ok(()).
Notice ==
  /\ Running("note")
  /\ \/ Continue
     \/ Throw(step.exc) /\ at' = at + 1 /\ UNCHANGED <<phase, err>>
     \/ Panic
  /\ UNCHANGED <<Owned, call, advanced>>

CrateReads ==
  /\ Running("read")
  /\ \/ Continue
     \/ step.exc # {} /\ ThrowErr(step.exc)
     \/ Panic
  /\ UNCHANGED <<Owned, call, advanced>>

\* A call the crate rejects leaves the object as it was, but a channel's
\* counter may move on. A panic may come before or after the change.
CrateAdvances ==
  /\ Running("advance")
  /\ \/ Continue /\ advanced' = TRUE
     \/ /\ step.exc # {} /\ ThrowErr(step.exc)
        /\ advanced' \in {advanced, call.class = "EstablishedEcies"}
     \/ Panic /\ advanced' \in BOOLEAN
  /\ UNCHANGED <<Owned, call>>

\* Nothing to return: Ok(null_mut()) at once.
ReturnsNull ==
  /\ Running("or_null")
  /\ at' \in {at + 1, Len(steps) + 1}
  /\ UNCHANGED <<Owned, call, phase, pending, err, advanced, failed>>

(***************************************************************************)
(* Steps that do.                                                          *)
(***************************************************************************)
TakeBack ==
  /\ Running("from_raw")
  /\ rust' = rust \cup {call.recv}
  /\ Continue
  /\ UNCHANGED <<heap, java, made, call, advanced>>

Allocate(x) ==
  /\ heap[x] = NULL
  /\ heap' = [heap EXCEPT ![x] = step.class]
  /\ made' = x

\* RawBox::new: a box that frees itself when it is dropped.
MakeBox ==
  /\ Running("raw_box")
  /\ \E x \in Objs : Allocate(x) /\ rust' = rust \cup {x}
  /\ Continue
  /\ UNCHANGED <<java, call, advanced>>

\* env.new_object: the constructor wraps the pointer in a handle, or throws.
MakeObject ==
  /\ Running("new_object")
  /\ \/ java' = [java EXCEPT ![made] = heap[made]] /\ Continue
     \/ JniErr /\ UNCHANGED java
  /\ UNCHANGED <<heap, rust, made, call, advanced>>

LeakBox ==
  /\ Running("leak")
  /\ rust' = rust \ {made}
  /\ Continue
  /\ UNCHANGED <<heap, java, made, call, advanced>>

\* Box::into_raw: until Java has the result, nobody owns it.
MakeLong ==
  /\ Running("box_to_jlong")
  /\ \E x \in Objs : Allocate(x)
  /\ Continue
  /\ UNCHANGED <<java, rust, call, advanced>>

\* native_free drops the box and its own result.
FreeBox ==
  /\ Running("native_free")
  /\ IF call.recv = NULL
       THEN Throw(Conversion) /\ UNCHANGED heap
       ELSE /\ heap' = [heap EXCEPT ![call.recv] = NULL]
            /\ UNCHANGED <<pending, failed>>
  /\ at' = at + 1
  /\ UNCHANGED <<java, rust, made, call, phase, err, advanced>>

(***************************************************************************)
(* The closure is left: what it owns is dropped. Then Java sees the result *)
(* or the exception.                                                       *)
(***************************************************************************)
DropBoxes ==
  /\ heap' = [x \in Objs |-> IF x \in rust THEN NULL ELSE heap[x]]
  /\ rust' = {}

\* invalidate() in the finally clause of a consuming method.
GiveUp(x) == Id \in Consuming /\ x = call.recv

\* Mutant: resolve with a policy that logs the error.
ResolveErrSilently ==
  /\ phase = "failed"
  /\ DropBoxes
  /\ java' = [x \in Objs |-> IF GiveUp(x) THEN NULL ELSE java[x]]
  /\ phase' = "returned"
  /\ UNCHANGED <<call, at, made, pending, err, advanced, failed>>

\* outcome.resolve::<ThrowRuntimeExAndDefault>() of an Err.
ResolveErr ==
  /\ phase = "failed"
  /\ DropBoxes
  /\ pending' = IF pending = "none" THEN "RuntimeException" ELSE pending
  /\ java' = [x \in Objs |-> IF GiveUp(x) THEN NULL ELSE java[x]]
  /\ phase' = "returned"
  /\ UNCHANGED <<call, at, made, err, advanced, failed>>

\* ... of an Ok: a handle is made of a jlong unless an exception is pending.
ResolveOk ==
  /\ phase = "run" /\ at > Len(steps)
  /\ DropBoxes
  /\ java' = [x \in Objs |->
       IF GiveUp(x) THEN NULL
       ELSE IF x = made /\ Has(steps, {"box_to_jlong"}) /\ pending = "none"
            THEN heap[x]
       ELSE java[x]]
  /\ phase' = "returned"
  /\ UNCHANGED <<call, at, made, pending, err, advanced, failed>>

Next ==
  \/ \E c \in Classes : \E m \in DOMAIN Natives[c] : Call(c, m)
  \/ Check \/ CallJvm \/ Decode \/ Notice \/ CrateReads \/ CrateAdvances
  \/ ReturnsNull \/ TakeBack \/ MakeBox \/ MakeObject \/ LeakBox \/ MakeLong
  \/ FreeBox \/ ResolveErr \/ ResolveOk

Spec == Init /\ [][Next]_vars

(***************************************************************************)
(* Properties.                                                             *)
(***************************************************************************)

\* A call returns with a Java exception exactly if something failed in it:
\* an error is never swallowed, not even by the methods that drop the Result
\* they throw for (let _ = .. map_err), and jni's own errors without an
\* exception become a RuntimeException.
EveryFailureIsSeen ==
  phase = "returned" => (failed <=> pending # "none")

\* An exception of the library other than ConversionException tells the
\* caller that the arguments were refused and the object is as before, so the
\* call may be repeated. Two kinds of object are different: a consumed one is
\* gone, and an ECIES channel may have used up its counter.
RejectedMeansUnchanged ==
  /\ phase = "returned"
  /\ pending \in Typed \ Conversion
  /\ Id \notin Consuming /\ call.class # "EstablishedEcies"
  => ~advanced

\* When no call runs, every native object is held by a Java handle, whatever
\* failed on the way. An Ecies is not always: its consuming calls decode
\* before they take the box back (see run ecies_decode_failure).
NothingIsLost ==
  phase = "returned" =>
    \A x \in Objs : heap[x] # NULL /\ heap[x] # "Ecies" => java[x] = heap[x]

\* A Java handle never holds the pointer of an object that is freed, or of
\* another one at the same address, also while the call that hands it over
\* or frees it is under way. What a consuming method drops at its end, its
\* finally clause has taken out of the handle before Java can use it.
HandlesAreLive == \A x \in Objs : java[x] # NULL => heap[x] = java[x]

\* The crate is reached through a pointer that was checked: to a live object
\* of the right class, and for a pair to two different objects, since both
\* become &mut.
CheckedBeforeUse ==
  (phase = "run" /\ at <= Len(steps) /\ step.op \in {"read", "advance", "from_raw"})
    => /\ call.recv # NULL /\ heap[call.recv] = call.class
       /\ Id \in Pairs => /\ call.other \notin {NULL, call.recv}
                          /\ heap[call.other] = call.class
=============================================================================
