------------------------ MODULE LibraryLoaderProofs ------------------------
(***************************************************************************)
(* Proofs about LibraryLoader, for any number of threads and classes and   *)
(* whatever the classpath holds.                                           *)
(***************************************************************************)
EXTENDS LibraryLoader, FiniteSetTheorems, TLAPS

USE ThreadsAssumption

\* Where a thread is inside loadLibrary().
Inside == {"testing", "extracting", "linking", "marking", "leaving"}

(* The types, without the bounds of the counters.                           *)
Types ==
  /\ monitor \in Threads \cup {NULL}
  /\ class \in [Classes -> {"new", "initializing", "ready", "erroneous"}]
  /\ pc \in [Threads -> Places]
  /\ using \in [Threads -> Classes \cup {NULL}]
  /\ outcome \in [Threads -> {"none", "loaded", "exception", "error"}]
  /\ \A t \in Threads : pc[t] # "idle" => using[t] \in Classes

(* loadLibrary() is synchronized.                                           *)
Exclusive == \A t \in Threads : pc[t] \in Inside => monitor = t

(* The flag tells whether the library is linked, except between System.load *)
(* and the assignment; nobody goes on to link it once the flag is set.      *)
FlagIsRight ==
  /\ linked \in {0, 1}
  /\ linked = 1 <=> loaded \/ \E t \in Threads : pc[t] = "marking"
  /\ loaded => \A t \in Threads : pc[t] \notin {"extracting", "linking", "marking"}

(* Success is only reported, to the JVM and by it, once the flag is set.    *)
Reported ==
  /\ \A t \in Threads :
       /\ pc[t] \in {"leaving", "ending"} /\ outcome[t] = "loaded" => loaded
       /\ pc[t] = "calling" => loaded
  /\ \A c \in Classes : class[c] = "ready" => loaded

Inv == Types /\ Exclusive /\ FlagIsRight /\ Reported

(* The types are kept.                                                      *)
LEMMA TypesStep == Types /\ [Next]_vars => Types'
<1> SUFFICES ASSUME Types, [Next]_vars
             PROVE  Types'
  OBVIOUS
<1> USE DEF Goto, End, Places, Inside, environment, Types
<1>1. ASSUME NEW t \in Threads, StartClass(t)
      PROVE  Types'
  BY <1>1 DEF StartClass
<1>2. ASSUME NEW t \in Threads, EndClass(t)
      PROVE  Types'
  BY <1>2 DEF EndClass
<1>3. ASSUME NEW t \in Threads, CallNative(t)
      PROVE  Types'
  BY <1>3 DEF CallNative
<1>4. ASSUME NEW t \in Threads, Enter(t)
      PROVE  Types'
  BY <1>4 DEF Enter
<1>5. ASSUME NEW t \in Threads, TestLoaded(t)
      PROVE  Types'
  BY <1>5 DEF TestLoaded
<1>6. ASSUME NEW t \in Threads, Extract(t)
      PROVE  Types'
  BY <1>6 DEF Extract
<1>7. ASSUME NEW t \in Threads, ExtractFails(t)
      PROVE  Types'
  BY <1>7 DEF ExtractFails
<1>8. ASSUME NEW t \in Threads, Link(t)
      PROVE  Types'
  BY <1>8 DEF Link
<1>9. ASSUME NEW t \in Threads, LinkFails(t)
      PROVE  Types'
  BY <1>9 DEF LinkFails
<1>10. ASSUME NEW t \in Threads, Mark(t)
      PROVE  Types'
  BY <1>10 DEF Mark
<1>11. ASSUME NEW t \in Threads, Leave(t)
      PROVE  Types'
  BY <1>11 DEF Leave
<1>12. ASSUME NEW t \in Threads, NEW c \in Classes, Use(t, c)
      PROVE  Types'
  BY <1>12 DEF Use
<1>13. ASSUME UNCHANGED vars
      PROVE  Types'
  BY <1>13 DEF vars
<1> QED
  BY <1>1, <1>2, <1>3, <1>4, <1>5, <1>6, <1>7, <1>8, <1>9, <1>10, <1>11, <1>12, <1>13 DEF Next, Proceed

(* A thread enters loadLibrary() only when nobody is inside.                *)
LEMMA ExclusiveStep == Types /\ Exclusive /\ [Next]_vars => Exclusive'
<1> SUFFICES ASSUME Types, Exclusive, [Next]_vars
             PROVE  Exclusive'
  OBVIOUS
<1> USE DEF Goto, End, Places, Inside, environment, Types, Exclusive
<1>1. ASSUME NEW t \in Threads, StartClass(t)
      PROVE  Exclusive'
  BY <1>1 DEF StartClass
<1>2. ASSUME NEW t \in Threads, EndClass(t)
      PROVE  Exclusive'
  BY <1>2 DEF EndClass
<1>3. ASSUME NEW t \in Threads, CallNative(t)
      PROVE  Exclusive'
  BY <1>3 DEF CallNative
<1>4. ASSUME NEW t \in Threads, Enter(t)
      PROVE  Exclusive'
  BY <1>4 DEF Enter
<1>5. ASSUME NEW t \in Threads, TestLoaded(t)
      PROVE  Exclusive'
  BY <1>5 DEF TestLoaded
<1>6. ASSUME NEW t \in Threads, Extract(t)
      PROVE  Exclusive'
  BY <1>6 DEF Extract
<1>7. ASSUME NEW t \in Threads, ExtractFails(t)
      PROVE  Exclusive'
  BY <1>7 DEF ExtractFails
<1>8. ASSUME NEW t \in Threads, Link(t)
      PROVE  Exclusive'
  BY <1>8 DEF Link
<1>9. ASSUME NEW t \in Threads, LinkFails(t)
      PROVE  Exclusive'
  BY <1>9 DEF LinkFails
<1>10. ASSUME NEW t \in Threads, Mark(t)
      PROVE  Exclusive'
  BY <1>10 DEF Mark
<1>11. ASSUME NEW t \in Threads, Leave(t)
      PROVE  Exclusive'
  BY <1>11 DEF Leave
<1>12. ASSUME NEW t \in Threads, NEW c \in Classes, Use(t, c)
      PROVE  Exclusive'
  BY <1>12 DEF Use
<1>13. ASSUME UNCHANGED vars
      PROVE  Exclusive'
  BY <1>13 DEF vars
<1> QED
  BY <1>1, <1>2, <1>3, <1>4, <1>5, <1>6, <1>7, <1>8, <1>9, <1>10, <1>11, <1>12, <1>13 DEF Next, Proceed

(* Only the thread inside loadLibrary() links the library and sets the flag.*)
LEMMA FlagStep == Types /\ Exclusive /\ FlagIsRight /\ [Next]_vars => FlagIsRight'
<1> SUFFICES ASSUME Types, Exclusive, FlagIsRight, [Next]_vars
             PROVE  FlagIsRight'
  OBVIOUS
<1> USE DEF Goto, End, Places, Inside, environment, Types, Exclusive, FlagIsRight
<1>1. ASSUME NEW t \in Threads, StartClass(t)
      PROVE  FlagIsRight'
  BY <1>1 DEF StartClass
<1>2. ASSUME NEW t \in Threads, EndClass(t)
      PROVE  FlagIsRight'
  BY <1>2 DEF EndClass
<1>3. ASSUME NEW t \in Threads, CallNative(t)
      PROVE  FlagIsRight'
  BY <1>3 DEF CallNative
<1>4. ASSUME NEW t \in Threads, Enter(t)
      PROVE  FlagIsRight'
  BY <1>4 DEF Enter
<1>5. ASSUME NEW t \in Threads, TestLoaded(t)
      PROVE  FlagIsRight'
  BY <1>5 DEF TestLoaded
<1>6. ASSUME NEW t \in Threads, Extract(t)
      PROVE  FlagIsRight'
  BY <1>6 DEF Extract
<1>7. ASSUME NEW t \in Threads, ExtractFails(t)
      PROVE  FlagIsRight'
  BY <1>7 DEF ExtractFails
<1>8. ASSUME NEW t \in Threads, Link(t)
      PROVE  FlagIsRight'
  BY <1>8 DEF Link
<1>9. ASSUME NEW t \in Threads, LinkFails(t)
      PROVE  FlagIsRight'
  BY <1>9 DEF LinkFails
<1>10. ASSUME NEW t \in Threads, Mark(t)
      PROVE  FlagIsRight'
  BY <1>10 DEF Mark
<1>11. ASSUME NEW t \in Threads, Leave(t)
      PROVE  FlagIsRight'
  BY <1>11 DEF Leave
<1>12. ASSUME NEW t \in Threads, NEW c \in Classes, Use(t, c)
      PROVE  FlagIsRight'
  BY <1>12 DEF Use
<1>13. ASSUME UNCHANGED vars
      PROVE  FlagIsRight'
  BY <1>13 DEF vars
<1> QED
  BY <1>1, <1>2, <1>3, <1>4, <1>5, <1>6, <1>7, <1>8, <1>9, <1>10, <1>11, <1>12, <1>13 DEF Next, Proceed

(* The flag is never reset.                                                 *)
LEMMA ReportedStep == Types /\ Reported /\ [Next]_vars => Reported'
<1> SUFFICES ASSUME Types, Reported, [Next]_vars
             PROVE  Reported'
  OBVIOUS
<1> USE DEF Goto, End, Places, Inside, environment, Types, Reported
<1>1. ASSUME NEW t \in Threads, StartClass(t)
      PROVE  Reported'
  BY <1>1 DEF StartClass
<1>2. ASSUME NEW t \in Threads, EndClass(t)
      PROVE  Reported'
  BY <1>2 DEF EndClass
<1>3. ASSUME NEW t \in Threads, CallNative(t)
      PROVE  Reported'
  BY <1>3 DEF CallNative
<1>4. ASSUME NEW t \in Threads, Enter(t)
      PROVE  Reported'
  BY <1>4 DEF Enter
<1>5. ASSUME NEW t \in Threads, TestLoaded(t)
      PROVE  Reported'
  BY <1>5 DEF TestLoaded
<1>6. ASSUME NEW t \in Threads, Extract(t)
      PROVE  Reported'
  BY <1>6 DEF Extract
<1>7. ASSUME NEW t \in Threads, ExtractFails(t)
      PROVE  Reported'
  BY <1>7 DEF ExtractFails
<1>8. ASSUME NEW t \in Threads, Link(t)
      PROVE  Reported'
  BY <1>8 DEF Link
<1>9. ASSUME NEW t \in Threads, LinkFails(t)
      PROVE  Reported'
  BY <1>9 DEF LinkFails
<1>10. ASSUME NEW t \in Threads, Mark(t)
      PROVE  Reported'
  BY <1>10 DEF Mark
<1>11. ASSUME NEW t \in Threads, Leave(t)
      PROVE  Reported'
  BY <1>11 DEF Leave
<1>12. ASSUME NEW t \in Threads, NEW c \in Classes, Use(t, c)
      PROVE  Reported'
  BY <1>12 DEF Use
<1>13. ASSUME UNCHANGED vars
      PROVE  Reported'
  BY <1>13 DEF vars
<1> QED
  BY <1>1, <1>2, <1>3, <1>4, <1>5, <1>6, <1>7, <1>8, <1>9, <1>10, <1>11, <1>12, <1>13 DEF Next, Proceed

(* Initially nothing is loaded and nobody is inside.                        *)
LEMMA InvInit == Init => Inv
  BY DEF Init, Inv, Types, Exclusive, FlagIsRight, Reported, Places, Inside

(* The inductive invariant of the loader.                                   *)
THEOREM Invariance == Spec => []Inv
<1>1. Inv /\ [Next]_vars => Inv'
  BY TypesStep, ExclusiveStep, FlagStep, ReportedStep DEF Inv
<1> QED
  BY InvInit, <1>1, PTL DEF Spec

(* No native method is called before the library is linked.                 *)
THEOREM CallsAreLinked == Spec => []NativeCallsAreLinked
<1>1. Inv => NativeCallsAreLinked
  BY DEF Inv, Reported, FlagIsRight, NativeCallsAreLinked
<1> QED
  BY Invariance, <1>1, PTL

(* The library is linked at most once.                                      *)
THEOREM LinkedAtMostOnce == Spec => []LinkedOnce
<1>1. Inv => LinkedOnce
  BY DEF Inv, FlagIsRight, LinkedOnce
<1> QED
  BY Invariance, <1>1, PTL

(* After the first success loadLibrary() does nothing, whichever class calls*)
(* it.                                                                      *)
THEOREM LoadingIsIdempotent == Spec => LoadedForGood
<1> DEFINE Quiet == (\E c \in Classes : class[c] = "ready") => UNCHANGED <<extracted, linked>>
<1>1. ASSUME Inv, [Next]_vars
      PROVE  Quiet
  <2> SUFFICES ASSUME NEW c \in Classes, class[c] = "ready"
               PROVE  UNCHANGED <<extracted, linked>>
    OBVIOUS
  <2>1. \A t \in Threads : pc[t] \notin {"extracting", "linking"}
    BY <1>1 DEF Inv, Reported, FlagIsRight
  <2> QED
    BY <1>1, <2>1 DEF Next, Proceed, StartClass, EndClass, CallNative, Enter,
       TestLoaded, Extract, ExtractFails, Link, LinkFails, Mark, Leave, Use, vars
<1>2. Inv /\ [Next]_vars => [Quiet]_vars
  BY <1>1
<1> QED
  BY Invariance, <1>2, PTL DEF Spec, LoadedForGood

-----------------------------------------------------------------------------
(* The counters. A class is initialized once, and each initialization       *)
(* extracts the library at most once: System.load of what was extracted is  *)
(* the last thing it tries.                                                 *)

Initializing(t) == pc[t] \in Inside \cup {"entering", "ending"}

\* Classes whose initializer has come past the test of the flag.
Tried ==
  {c \in Classes :
     /\ class[c] # "new"
     /\ \A t \in Threads : using[t] = c => pc[t] \notin {"entering", "testing"}}

OneInitializer ==
  /\ \A t \in Threads : Initializing(t) => class[using[t]] = "initializing"
  /\ \A t, u \in Threads :
       Initializing(t) /\ Initializing(u) /\ using[t] = using[u] => t = u

Rest ==
  /\ supported \in BOOLEAN /\ loaded \in BOOLEAN
  /\ content \in [Resources -> Contents]
  /\ resource \in [Threads -> Resources]

Counted ==
  /\ extracted \in Nat /\ extracted <= Cardinality(Tried)
  /\ (\E t \in Threads : pc[t] = "extracting") => extracted < Cardinality(Tried)
  /\ linked = 1 => Classes # {}

LEMMA OneInitializerStep ==
  Inv /\ OneInitializer /\ [Next]_vars => OneInitializer'
<1> SUFFICES ASSUME Inv, OneInitializer, [Next]_vars
             PROVE  OneInitializer'
  OBVIOUS
<1> USE DEF Goto, End, Places, Inside, environment, Inv, Types, OneInitializer,
            Initializing
<1>1. ASSUME NEW t \in Threads, StartClass(t)
      PROVE  OneInitializer'
  BY <1>1 DEF StartClass
<1>2. ASSUME NEW t \in Threads, EndClass(t)
      PROVE  OneInitializer'
  BY <1>2 DEF EndClass
<1>3. ASSUME NEW t \in Threads, CallNative(t) \/ Enter(t) \/ TestLoaded(t)
      PROVE  OneInitializer'
  BY <1>3 DEF CallNative, Enter, TestLoaded
<1>4. ASSUME NEW t \in Threads, Extract(t) \/ ExtractFails(t)
      PROVE  OneInitializer'
  BY <1>4 DEF Extract, ExtractFails
<1>5. ASSUME NEW t \in Threads, Link(t) \/ LinkFails(t) \/ Mark(t) \/ Leave(t)
      PROVE  OneInitializer'
  BY <1>5 DEF Link, LinkFails, Mark, Leave
<1>6. ASSUME NEW t \in Threads, NEW c \in Classes, Use(t, c)
      PROVE  OneInitializer'
  BY <1>6 DEF Use
<1>7. CASE UNCHANGED vars
  BY <1>7 DEF vars
<1> QED
  BY <1>1, <1>2, <1>3, <1>4, <1>5, <1>6, <1>7 DEF Next, Proceed

LEMMA RestStep == Rest /\ [Next]_vars => Rest'
BY DEF Rest, Next, Proceed, StartClass, EndClass, CallNative, Enter,
       TestLoaded, Extract, ExtractFails, Link, LinkFails, Mark, Leave, Use,
       vars, environment, Resources, End

\* A thread that comes past the test of the flag adds its class; no other
\* step adds or removes one.
LEMMA TestedIsTried ==
  ASSUME Inv, OneInitializer, NEW t \in Threads, TestLoaded(t)
  PROVE  using[t] \in Classes \ Tried /\ Tried' = Tried \cup {using[t]}
BY DEF TestLoaded, Tried, Goto, End, Places, Inside, environment, Inv, Types,
       OneInitializer, Initializing

LEMMA TriedStep ==
  ASSUME Inv, OneInitializer, [Next]_vars, \A t \in Threads : ~TestLoaded(t)
  PROVE  Tried' = Tried
<1> USE DEF Goto, End, Places, Inside, environment, Inv, Types, OneInitializer,
            Initializing
<1>1. ASSUME NEW t \in Threads, StartClass(t)
      PROVE  Tried' = Tried
  BY <1>1 DEF StartClass, Tried
<1>2. ASSUME NEW t \in Threads, EndClass(t)
      PROVE  Tried' = Tried
  BY <1>2 DEF EndClass, Tried
<1>3. ASSUME NEW t \in Threads, CallNative(t) \/ Enter(t)
      PROVE  Tried' = Tried
  BY <1>3 DEF CallNative, Enter, Tried
<1>4. ASSUME NEW t \in Threads, Extract(t) \/ ExtractFails(t)
      PROVE  Tried' = Tried
  BY <1>4 DEF Extract, ExtractFails, Tried
<1>5. ASSUME NEW t \in Threads, Link(t) \/ LinkFails(t) \/ Mark(t) \/ Leave(t)
      PROVE  Tried' = Tried
  BY <1>5 DEF Link, LinkFails, Mark, Leave, Tried
<1>6. ASSUME NEW t \in Threads, NEW c \in Classes, Use(t, c)
      PROVE  Tried' = Tried
  BY <1>6 DEF Use, Tried
<1>7. CASE UNCHANGED vars
  BY <1>7 DEF vars, Tried
<1> QED
  BY <1>1, <1>2, <1>3, <1>4, <1>5, <1>6, <1>7 DEF Next, Proceed

LEMMA TriedSize ==
  ASSUME IsFiniteSet(Classes)
  PROVE  /\ IsFiniteSet(Tried) /\ Cardinality(Tried) \in Nat
         /\ Cardinality(Tried) <= Cardinality(Classes)
<1>1. Tried \subseteq Classes
  BY DEF Tried
<1> QED  BY <1>1, FS_Subset, FS_CardinalityType

LEMMA CountedStep ==
  ASSUME IsFiniteSet(Classes), Inv, OneInitializer, Counted, [Next]_vars
  PROVE  Counted'
<1>1. IsFiniteSet(Tried) /\ Cardinality(Tried) \in Nat
  BY TriedSize
<1>2. extracted \in Nat /\ extracted <= Cardinality(Tried)
  BY DEF Counted
<1>3. linked' = 1 => Classes # {}
  <2>1. (\E t \in Threads : Link(t)) \/ UNCHANGED linked
    BY DEF Next, Proceed, StartClass, EndClass, CallNative, Enter, TestLoaded,
           Extract, ExtractFails, Link, LinkFails, Mark, Leave, Use, vars
  <2>2. (\E t \in Threads : Link(t)) => Classes # {}
    BY DEF Link, Inv, Types
  <2> QED  BY <2>1, <2>2 DEF Counted
<1>4. ASSUME NEW t \in Threads, TestLoaded(t)
      PROVE  Counted'
  <2>1. using[t] \in Classes \ Tried /\ Tried' = Tried \cup {using[t]}
    BY <1>4, TestedIsTried
  <2>2. Cardinality(Tried') = Cardinality(Tried) + 1
    BY <1>1, <2>1, FS_AddElement
  <2>3. extracted' = extracted
    BY <1>4 DEF TestLoaded
  <2>4. extracted' \in Nat /\ extracted' < Cardinality(Tried')
    BY <1>1, <1>2, <2>2, <2>3
  <2>5. extracted' <= Cardinality(Tried')
    BY <1>1, <2>2, <2>4
  <2> QED  BY <1>3, <2>4, <2>5 DEF Counted
<1>5. ASSUME \A t \in Threads : ~TestLoaded(t)
      PROVE  Counted'
  <2>1. Tried' = Tried
    BY <1>5, TriedStep
  <2>2. CASE \E t \in Threads : Extract(t)
    <3>1. PICK t \in Threads : Extract(t)
      BY <2>2
    <3>2. extracted' = extracted + 1 /\ extracted < Cardinality(Tried)
      BY <3>1 DEF Extract, Counted
    <3>3. extracted' \in Nat /\ extracted' <= Cardinality(Tried')
      BY <1>1, <1>2, <2>1, <3>2
    <3>4. \A u \in Threads : pc'[u] # "extracting"
      BY <3>1 DEF Extract, Goto, Inv, Types, Exclusive, Inside
    <3> QED  BY <1>3, <3>3, <3>4 DEF Counted
  <2>3. CASE \A t \in Threads : ~Extract(t)
    <3> USE DEF Goto, End, Inv, Types
    <3>1. ASSUME NEW t \in Threads, Proceed(t)
          PROVE  /\ UNCHANGED extracted
                 /\ \A u \in Threads : pc'[u] = "extracting" => pc[u] = "extracting"
      BY <1>5, <2>3, <3>1 DEF Proceed, StartClass, EndClass, CallNative, Enter,
         ExtractFails, Link, LinkFails, Mark, Leave
    <3>2. ASSUME NEW t \in Threads, NEW c \in Classes, Use(t, c)
          PROVE  /\ UNCHANGED extracted
                 /\ \A u \in Threads : pc'[u] = "extracting" => pc[u] = "extracting"
      BY <3>2 DEF Use
    <3>3. /\ UNCHANGED extracted
          /\ \A u \in Threads : pc'[u] = "extracting" => pc[u] = "extracting"
      BY <3>1, <3>2 DEF Next, vars
    <3>4. Cardinality(Tried') = Cardinality(Tried)
      BY <2>1
    <3> QED  BY <1>3, <3>3, <3>4 DEF Counted
  <2> QED  BY <2>2, <2>3
<1> QED  BY <1>4, <1>5

(* Types, and the bounds of the counters: the library is extracted at most  *)
(* once for each class that is initialized, whatever fails.                 *)
THEOREM TypeCorrect ==
  ASSUME IsFiniteSet(Classes)
  PROVE  Spec => []TypeOK
<1>1. Init => OneInitializer /\ Rest /\ Counted
  <2> SUFFICES ASSUME Init PROVE OneInitializer /\ Rest /\ Counted
    OBVIOUS
  <2>1. OneInitializer /\ Rest
    BY DEF Init, OneInitializer, Initializing, Inside, Rest, Resources
  <2>2. Counted
    BY TriedSize DEF Init, Counted
  <2> QED  BY <2>1, <2>2
<1>2. Inv /\ OneInitializer /\ Rest /\ Counted /\ [Next]_vars
        => (OneInitializer /\ Rest /\ Counted)'
  BY OneInitializerStep, RestStep, CountedStep
<1>3. Inv /\ OneInitializer /\ Rest /\ Counted => TypeOK
  <2> SUFFICES ASSUME Inv, Rest, Counted PROVE TypeOK
    OBVIOUS
  <2> DEFINE n == Cardinality(Classes)
  <2>1. n \in Nat /\ Cardinality(Tried) \in Nat /\ Cardinality(Tried) <= n
    BY TriedSize, FS_CardinalityType
  <2>2. extracted \in 0..n
    BY <2>1 DEF Counted
  <2>3. linked \in 0..n
    <3>1. Classes # {} => n # 0
      BY FS_EmptySet
    <3> QED  BY <2>1, <3>1 DEF Counted, Inv, FlagIsRight
  <2> QED  BY <2>2, <2>3 DEF TypeOK, Inv, Types, Rest
<1> QED
  BY <1>1, <1>2, <1>3, Invariance, PTL DEF Spec
=============================================================================
