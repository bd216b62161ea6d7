---------------------------- MODULE LibraryLoader ----------------------------
(***************************************************************************)
(* NativeLibraryLoader.  Every class with native methods calls the static  *)
(* synchronized loadLibrary() in its static initializer; the JVM runs each *)
(* static initializer once, in the first thread that uses the class, and   *)
(* lets other threads wait for its end.  Several classes may be            *)
(* initialized by different threads at the same time.                      *)
(*                                                                         *)
(* The library is a resource of the classpath, expected at two places. It  *)
(* is extracted to a temporary directory and linked with System.load.      *)
(***************************************************************************)
EXTENDS Naturals, FiniteSets

CONSTANTS
  Threads,  \* the application threads
  Classes,  \* the classes with native methods
  NULL      \* no thread, no class

ASSUME ThreadsAssumption == NULL \notin Threads \cup Classes

\* Where the library is looked for: /<libName>, then /native/<platform>/<libName>.
Resources == {"root", "platform"}

\* What is found there; "unlinkable" is a library System.load rejects.
Contents == {"absent", "unlinkable", "good"}

VARIABLES
  supported,  \* whether os.name and os.arch are known
  content,    \* what is at each place of the classpath
  loaded,     \* the flag of NativeLibraryLoader
  monitor,    \* the thread inside loadLibrary()
  class,      \* the state of each class
  pc,         \* where each thread is
  using,      \* the class whose use it has begun
  resource,   \* the place it looks at
  outcome,    \* how its call of loadLibrary() ends
  extracted,  \* number of copies of the library extracted so far
  linked      \* number of times System.load has succeeded

vars == <<supported, content, loaded, monitor, class, pc, using, resource,
          outcome, extracted, linked>>

environment == <<supported, content>>

Places == {"idle", "starting", "entering", "testing", "extracting", "linking",
           "marking", "leaving", "ending", "calling"}

TypeOK ==
  /\ supported \in BOOLEAN
  /\ content \in [Resources -> Contents]
  /\ loaded \in BOOLEAN
  /\ monitor \in Threads \cup {NULL}
  /\ class \in [Classes -> {"new", "initializing", "ready", "erroneous"}]
  /\ pc \in [Threads -> Places]
  /\ using \in [Threads -> Classes \cup {NULL}]
  /\ resource \in [Threads -> Resources]
  /\ outcome \in [Threads -> {"none", "loaded", "exception", "error"}]
  /\ extracted \in 0..Cardinality(Classes)
  /\ linked \in 0..Cardinality(Classes)

Init ==
  /\ supported \in BOOLEAN
  /\ content \in [Resources -> Contents]
  /\ loaded = FALSE
  /\ monitor = NULL
  /\ class = [c \in Classes |-> "new"]
  /\ pc = [t \in Threads |-> "idle"]
  /\ using = [t \in Threads |-> NULL]
  /\ resource = [t \in Threads |-> "root"]
  /\ outcome = [t \in Threads |-> "none"]
  /\ extracted = 0
  /\ linked = 0

Goto(t, place) == pc' = [pc EXCEPT ![t] = place]

End(t, result) ==
  /\ outcome' = [outcome EXCEPT ![t] = result]
  /\ Goto(t, "leaving")

-----------------------------------------------------------------------------
(* The first use of a class.                                               *)

Use(t, c) ==
  /\ pc[t] = "idle"
  /\ using' = [using EXCEPT ![t] = c]
  /\ Goto(t, "starting")
  /\ UNCHANGED <<environment, loaded, monitor, class, resource, outcome,
                 extracted, linked>>

\* The JVM runs the static initializer, unless another thread is running it
\* or has run it.  A class whose initializer failed can never be used.
StartClass(t) ==
  /\ pc[t] = "starting"
  /\ class[using[t]] # "initializing"
  /\ IF class[using[t]] = "new"
     THEN class' = [class EXCEPT ![using[t]] = "initializing"]
     ELSE UNCHANGED class
  /\ Goto(t, CASE class[using[t]] = "new" -> "entering"
               [] class[using[t]] = "ready" -> "calling"
               [] class[using[t]] = "erroneous" -> "idle")
  /\ UNCHANGED <<environment, loaded, monitor, using, resource, outcome,
                 extracted, linked>>

\* The initializer ends, normally or with what loadLibrary() threw.
EndClass(t) ==
  /\ pc[t] = "ending"
  /\ class' = [class EXCEPT ![using[t]] =
                 IF outcome[t] = "loaded" THEN "ready" ELSE "erroneous"]
  /\ Goto(t, IF outcome[t] = "loaded" THEN "calling" ELSE "idle")
  /\ outcome' = [outcome EXCEPT ![t] = "none"]
  /\ UNCHANGED <<environment, loaded, monitor, using, resource, extracted,
                 linked>>

\* A native method of the class runs.
CallNative(t) ==
  /\ pc[t] = "calling"
  /\ Goto(t, "idle")
  /\ UNCHANGED <<environment, loaded, monitor, class, using, resource, outcome,
                 extracted, linked>>

-----------------------------------------------------------------------------
(* loadLibrary().                                                          *)

\* loadLibrary() declared without synchronized.
EnterUnsynchronized(t) ==
  /\ pc[t] = "entering"
  /\ monitor' = t
  /\ Goto(t, "testing")
  /\ UNCHANGED <<environment, loaded, class, using, resource, outcome,
                 extracted, linked>>

Enter(t) ==
  /\ pc[t] = "entering"
  /\ monitor = NULL
  /\ monitor' = t
  /\ Goto(t, "testing")
  /\ UNCHANGED <<environment, loaded, class, using, resource, outcome,
                 extracted, linked>>

\* The early return, and detectPlatform, which throws outside the try.
TestLoaded(t) ==
  /\ pc[t] = "testing"
  /\ \/ loaded /\ End(t, "loaded") /\ UNCHANGED resource
     \/ ~loaded /\ ~supported /\ End(t, "exception") /\ UNCHANGED resource
     \/ /\ ~loaded /\ supported
        /\ resource' = [resource EXCEPT ![t] = "root"]
        /\ Goto(t, "extracting")
        /\ UNCHANGED outcome
  /\ UNCHANGED <<environment, loaded, monitor, class, using, extracted, linked>>

\* loadFromResources up to System.load.
Extract(t) ==
  /\ pc[t] = "extracting"
  /\ content[resource[t]] # "absent"
  /\ extracted' = extracted + 1
  /\ Goto(t, "linking")
  /\ UNCHANGED <<environment, loaded, monitor, class, using, resource, outcome,
                 linked>>

\* The second catch clause returns normally instead of throwing.
SwallowFailure(t) ==
  /\ pc[t] = "extracting"
  /\ \/ /\ resource[t] = "root"
        /\ resource' = [resource EXCEPT ![t] = "platform"]
        /\ UNCHANGED <<pc, outcome>>
     \/ resource[t] = "platform" /\ End(t, "loaded") /\ UNCHANGED resource
  /\ UNCHANGED <<environment, loaded, monitor, class, using, extracted, linked>>

\* FileNotFoundException, or an IOException while copying, which may happen
\* with any resource: the other place comes next, or the RuntimeException.
ExtractFails(t) ==
  /\ pc[t] = "extracting"
  /\ \/ /\ resource[t] = "root"
        /\ resource' = [resource EXCEPT ![t] = "platform"]
        /\ UNCHANGED <<pc, outcome>>
     \/ resource[t] = "platform" /\ End(t, "exception") /\ UNCHANGED resource
  /\ UNCHANGED <<environment, loaded, monitor, class, using, extracted, linked>>

\* System.load.
Link(t) ==
  /\ pc[t] = "linking"
  /\ content[resource[t]] = "good"
  /\ linked' = linked + 1
  /\ Goto(t, "marking")
  /\ UNCHANGED <<environment, loaded, monitor, class, using, resource, outcome,
                 extracted>>

\* Extracting and linking again and again what System.load has rejected.
LinkRetries(t) ==
  /\ pc[t] = "linking"
  /\ content[resource[t]] = "unlinkable"
  /\ Goto(t, "extracting")
  /\ UNCHANGED <<environment, loaded, monitor, class, using, resource, outcome,
                 extracted, linked>>

\* System.load throws UnsatisfiedLinkError, which is not an Exception: neither
\* catch clause applies.
LinkFails(t) ==
  /\ pc[t] = "linking"
  /\ content[resource[t]] = "unlinkable"
  /\ End(t, "error")
  /\ UNCHANGED <<environment, loaded, monitor, class, using, resource,
                 extracted, linked>>

\* The assignment forgotten in one of the two branches.
MarkRootOnly(t) ==
  /\ pc[t] = "marking"
  /\ loaded' = (loaded \/ resource[t] = "root")
  /\ End(t, "loaded")
  /\ UNCHANGED <<environment, monitor, class, using, resource, extracted, linked>>

\* loaded = true.
Mark(t) ==
  /\ pc[t] = "marking"
  /\ loaded' = TRUE
  /\ End(t, "loaded")
  /\ UNCHANGED <<environment, monitor, class, using, resource, extracted, linked>>

\* A lock that is released on the normal way out only.
LeaveOnSuccess(t) ==
  /\ pc[t] = "leaving"
  /\ monitor' = IF outcome[t] = "loaded" THEN NULL ELSE monitor
  /\ Goto(t, "ending")
  /\ UNCHANGED <<environment, loaded, class, using, resource, outcome,
                 extracted, linked>>

Leave(t) ==
  /\ pc[t] = "leaving"
  /\ monitor' = NULL
  /\ Goto(t, "ending")
  /\ UNCHANGED <<environment, loaded, class, using, resource, outcome,
                 extracted, linked>>

-----------------------------------------------------------------------------
Proceed(t) ==
  \/ StartClass(t)
  \/ EndClass(t)
  \/ CallNative(t)
  \/ Enter(t)
  \/ TestLoaded(t)
  \/ Extract(t)
  \/ ExtractFails(t)
  \/ Link(t)
  \/ LinkFails(t)
  \/ Mark(t)
  \/ Leave(t)

Next == \E t \in Threads : Proceed(t) \/ \E c \in Classes : Use(t, c)

Spec == Init /\ [][Next]_vars

-----------------------------------------------------------------------------
\* No thread gets to call a native method before the library is linked, also
\* when another thread initializes the class or another class loads the
\* library, and after failed attempts of others.
NativeCallsAreLinked == \A t \in Threads : pc[t] = "calling" => linked > 0

\* The JVM never holds two copies of the library.
LinkedOnce == linked <= 1

\* "Idempotent": once some thread has seen loadLibrary() succeed, no call by
\* any class extracts or links anything again.
LoadedForGood ==
  [][(\E c \in Classes : class[c] = "ready") => UNCHANGED <<extracted, linked>>]_vars

(***************************************************************************)
(* Each thread goes on with the initialization it has begun.  This is      *)
(* enough: a class is initialized once, so a thread waits for the monitor  *)
(* behind a bounded number of others.                                      *)
(***************************************************************************)
FairSpec == Spec /\ \A t \in Threads : WF_vars(Proceed(t))

\* Whoever uses a class comes to an end, with the library or with an error.
UseEnds == \A t \in Threads : (pc[t] = "starting") ~> (pc[t] = "idle")

\* What the source says of the first attempt: "If that fails, try the
\* platform-specific directory".
FallbackIsTried ==
  \A t \in Threads :
    pc[t] = "leaving" /\ supported /\ outcome[t] \in {"exception", "error"} =>
      resource[t] = "platform"
=============================================================================
