-------------------------- MODULE NativeCallsProofs --------------------------
(***************************************************************************)
(* That no native method loses an object, hides a failure or reaches the   *)
(* crate through a bad pointer, whatever fails on its way, for any set of  *)
(* addresses.                                                              *)
(*                                                                         *)
(* The table of NativeMethods is data, so the proof has two halves. The    *)
(* first types it: a method goes through places, the steps lead from one   *)
(* place to the next, and every method of the table is a path from where   *)
(* it starts to a place where it may return (EveryMethodIsSound). The      *)
(* second half knows of the methods only that: the invariant says what     *)
(* holds at each place, and each action of NativeCalls keeps it.           *)
(***************************************************************************)
EXTENDS NativeCalls, TLAPS

(***************************************************************************)
(* Places and paths.                                                       *)
(*                                                                         *)
(* Where a method can be: fresh, with nothing checked; pair, self, selfptr *)
(* on the way through the three checks of a pair; given, held (Sas) or     *)
(* lent, holding (Ecies) before a box is taken back, and taken after it;   *)
(* ready to call the crate, and changed after a call that changed the      *)
(* receiver; boxed, wrapped, handed on the way of a new object to Java, or *)
(* made if it goes as a jlong; noted after an error that was thrown and    *)
(* dropped; closing and freed in nativeFree.                               *)
(***************************************************************************)
Places == {"fresh", "pair", "self", "selfptr", "given", "held", "lent",
           "holding", "ready", "changed", "taken", "boxed", "wrapped",
           "handed", "made", "noted", "closing", "freed"}

\* The places at which the receiver is as it was.
Untouched == {"fresh", "pair", "self", "selfptr", "given", "held", "lent",
              "holding", "ready", "noted", "closing", "freed"}

\* Those at which the arguments may be refused ...
Refusable == {"fresh", "lent", "holding", "ready", "taken"}

\* ... and those at which a call into the JVM may fail.
Fallible == Refusable \cup {"changed", "boxed"}

\* Where a method may return.
Final == {"fresh", "lent", "holding", "ready", "changed", "taken", "handed",
          "made", "noted", "freed"}

\* The steps the methods are made of.
Ops == {"check_ptr", "check_self", "check_other", "jni", "reject", "note",
        "read", "advance", "or_null", "from_raw", "raw_box", "new_object",
        "leak", "box_to_jlong", "native_free"}

Steps == [op : Ops, exc : SUBSET Typed, class : Handles \cup {""}]

\* The exceptions that promise an unchanged object.
Refusals == Typed \ Conversion

\* The protocol: the kind of step that leads from p to r.
Leads(op, p, r) ==
  \/ op = "check_ptr" /\ p = "fresh" /\ r = "ready"
  \/ op = "check_ptr" /\ p = "self" /\ r = "selfptr"
  \/ op = "check_ptr" /\ p = "given" /\ r = "held"
  \/ op = "check_ptr" /\ p = "lent" /\ r = "holding"
  \/ op = "check_self" /\ p = "pair" /\ r = "self"
  \/ op = "check_other" /\ p = "selfptr" /\ r = "ready"
  \/ op \in {"jni", "reject"} /\ p \in Fallible /\ r = p
  \/ op = "note" /\ p = "fresh" /\ r = "noted"
  \/ op = "read" /\ p = "ready" /\ r = "ready"
  \/ op = "advance" /\ p \in {"ready", "changed"} /\ r = "changed"
  \/ op = "advance" /\ p = "taken" /\ r = "taken"
  \/ op = "or_null" /\ p \in {"ready", "changed"} /\ r = p
  \/ op = "from_raw" /\ p \in {"held", "holding"} /\ r = "taken"
  \/ op = "raw_box" /\ p \in {"ready", "changed", "taken"} /\ r = "boxed"
  \/ op = "new_object" /\ p = "boxed" /\ r = "wrapped"
  \/ op = "leak" /\ p = "wrapped" /\ r = "handed"
  \/ op = "box_to_jlong" /\ p = "fresh" /\ r = "made"
  \/ op = "native_free" /\ p = "closing" /\ r = "freed"

\* A step that keeps to it, refuses nothing too late and makes a handle's
\* object.
Fits(x, p, r) ==
  /\ x \in Steps
  /\ Leads(x.op, p, r)
  /\ x.exc \cap Refusals # {} => p \in Refusable
  /\ x.op \in {"raw_box", "box_to_jlong"} => x.class \in Handles

\* The sequence s of steps leads from p to r: its positions can be labelled
\* with places.
Path(p, s, r) ==
  /\ s \in Seq(Steps)
  /\ \E q \in [1..(Len(s) + 1) -> Places] :
       /\ q[1] = p /\ q[Len(s) + 1] = r
       /\ \A i \in 1..Len(s) : Fits(s[i], q[i], q[i + 1])

\* Two paths that meet make one.
LEMMA Join ==
  ASSUME NEW p, NEW r, NEW z, NEW s, NEW t, Path(p, s, r), Path(r, t, z)
  PROVE  Path(p, s \o t, z)
<1>1. PICK f \in [1..(Len(s) + 1) -> Places] :
        /\ f[1] = p /\ f[Len(s) + 1] = r
        /\ \A i \in 1..Len(s) : Fits(s[i], f[i], f[i + 1])
  BY DEF Path
<1>2. PICK g \in [1..(Len(t) + 1) -> Places] :
        /\ g[1] = r /\ g[Len(t) + 1] = z
        /\ \A i \in 1..Len(t) : Fits(t[i], g[i], g[i + 1])
  BY DEF Path
<1> DEFINE u == s \o t
           h == [i \in 1..(Len(s) + Len(t) + 1) |->
                   IF i <= Len(s) THEN f[i] ELSE g[i - Len(s)]]
<1>3. /\ s \in Seq(Steps) /\ t \in Seq(Steps) /\ u \in Seq(Steps)
      /\ Len(s) \in Nat /\ Len(t) \in Nat /\ Len(u) = Len(s) + Len(t)
  BY DEF Path
<1>4. \A i \in 1..Len(u) : u[i] = IF i <= Len(s) THEN s[i] ELSE t[i - Len(s)]
  BY <1>3
<1>5. h \in [1..(Len(u) + 1) -> Places]
  BY <1>1, <1>2, <1>3
<1>6. ASSUME NEW i \in 1..Len(u) PROVE Fits(u[i], h[i], h[i + 1])
  <2>1. CASE i < Len(s)
    BY <1>1, <1>3, <1>4, <2>1
  <2>2. CASE i = Len(s)
    <3>1. h[i] = f[i] /\ h[i + 1] = g[1] /\ u[i] = s[i]
      BY <1>3, <1>4, <2>2
    <3> QED  BY <1>1, <1>2, <1>3, <2>2, <3>1
  <2>3. CASE i > Len(s)
    <3> DEFINE j == i - Len(s)
    <3>1. j \in 1..Len(t) /\ i + 1 \in 1..(Len(s) + Len(t) + 1)
      BY <1>3, <2>3
    <3>2. h[i] = g[j] /\ u[i] = t[j]
      BY <1>3, <1>4, <2>3
    <3>3. h[i + 1] = g[j + 1]
      <4>1. h[i + 1] = g[(i + 1) - Len(s)]
        BY <1>3, <2>3, <3>1
      <4>2. (i + 1) - Len(s) = j + 1
        BY <1>3
      <4> QED  BY <4>1, <4>2
    <3> QED  BY <1>2, <3>1, <3>2, <3>3
  <2> QED  BY <1>3, <2>1, <2>2, <2>3
<1>7. h[1] = p /\ h[Len(u) + 1] = z
  <2>1. h[1] = p
    <3>1. CASE Len(s) = 0
      BY <1>1, <1>2, <1>3, <3>1
    <3>2. CASE Len(s) > 0
      BY <1>1, <1>3, <3>2
    <3> QED  BY <1>3, <3>1, <3>2
  <2> QED  BY <1>2, <1>3, <2>1
<1> QED  BY <1>3, <1>5, <1>6, <1>7 DEF Path

\* Steps that each stay at p stay there together.
LEMMA Stays ==
  ASSUME NEW p \in Places, NEW s \in Seq(Steps),
         \A i \in 1..Len(s) : Fits(s[i], p, p)
  PROVE  Path(p, s, p)
<1> DEFINE q == [i \in 1..(Len(s) + 1) |-> p]
<1>1. q \in [1..(Len(s) + 1) -> Places] /\ q[1] = p /\ q[Len(s) + 1] = p
  OBVIOUS
<1>2. \A i \in 1..Len(s) : Fits(s[i], q[i], q[i + 1])
  OBVIOUS
<1> QED  BY <1>1, <1>2 DEF Path

\* A step alone is a path ...
LEMMA One ==
  ASSUME NEW x, NEW p \in Places, NEW r \in Places, Fits(x, p, r)
  PROVE  Path(p, <<x>>, r)
<1> DEFINE q == <<p, r>>
<1>1. <<x>> \in Seq(Steps) /\ Len(<<x>>) = 1
  BY DEF Fits
<1>2. q \in [1..(Len(<<x>>) + 1) -> Places] /\ q[1] = p /\ q[Len(<<x>>) + 1] = r
  BY <1>1
<1>3. \A i \in 1..Len(<<x>>) : Fits(<<x>>[i], q[i], q[i + 1])
  BY <1>1
<1> QED  BY <1>1, <1>2, <1>3 DEF Path

\* ... and the path of one step is that step.
LEMMA Single ==
  ASSUME NEW x, NEW p, NEW r, Path(p, <<x>>, r)
  PROVE  Fits(x, p, r) /\ p \in Places /\ r \in Places
<1>1. PICK q \in [1..(Len(<<x>>) + 1) -> Places] :
        /\ q[1] = p /\ q[Len(<<x>>) + 1] = r
        /\ \A i \in 1..Len(<<x>>) : Fits(<<x>>[i], q[i], q[i + 1])
  BY DEF Path
<1>2. Len(<<x>>) = 1 /\ <<x>>[1] = x
  OBVIOUS
<1> QED  BY <1>1, <1>2

(***************************************************************************)
(* A tuple of steps, written out as the methods are: the labels are the    *)
(* places between its steps.                                               *)
(***************************************************************************)

\* Two steps in a row.
LEMMA Tuple2 ==
  ASSUME NEW x1, NEW x2, NEW p0, NEW p1, NEW p2, Path(p0, <<x1>>, p1),
         Path(p1, <<x2>>, p2)
  PROVE  Path(p0, <<x1, x2>>, p2)
<1> DEFINE s == <<x1, x2>>
           q == <<p0, p1, p2>>
<1>1. /\ Fits(x1, p0, p1) /\ p0 \in Places /\ p1 \in Places
      /\ Fits(x2, p1, p2) /\ p1 \in Places /\ p2 \in Places
  BY Single
<1>2. s \in Seq(Steps) /\ Len(s) = 2
  BY <1>1 DEF Fits
<1>3. q \in [1..(Len(s) + 1) -> Places] /\ q[1] = p0 /\ q[Len(s) + 1] = p2
  BY <1>1, <1>2
<1>4. \A i \in 1..Len(s) : Fits(s[i], q[i], q[i + 1])
  BY <1>1, <1>2
<1> QED  BY <1>2, <1>3, <1>4 DEF Path

\* Three steps in a row.
LEMMA Tuple3 ==
  ASSUME NEW x1, NEW x2, NEW x3, NEW p0, NEW p1, NEW p2, NEW p3,
         Path(p0, <<x1>>, p1), Path(p1, <<x2>>, p2), Path(p2, <<x3>>, p3)
  PROVE  Path(p0, <<x1, x2, x3>>, p3)
<1> DEFINE s == <<x1, x2, x3>>
           q == <<p0, p1, p2, p3>>
<1>1. /\ Fits(x1, p0, p1) /\ p0 \in Places /\ p1 \in Places
      /\ Fits(x2, p1, p2) /\ p1 \in Places /\ p2 \in Places
      /\ Fits(x3, p2, p3) /\ p2 \in Places /\ p3 \in Places
  BY Single
<1>2. s \in Seq(Steps) /\ Len(s) = 3
  BY <1>1 DEF Fits
<1>3. q \in [1..(Len(s) + 1) -> Places] /\ q[1] = p0 /\ q[Len(s) + 1] = p3
  BY <1>1, <1>2
<1>4. \A i \in 1..Len(s) : Fits(s[i], q[i], q[i + 1])
  BY <1>1, <1>2
<1> QED  BY <1>2, <1>3, <1>4 DEF Path

\* Four steps in a row.
LEMMA Tuple4 ==
  ASSUME NEW x1, NEW x2, NEW x3, NEW x4, NEW p0, NEW p1, NEW p2, NEW p3,
         NEW p4, Path(p0, <<x1>>, p1), Path(p1, <<x2>>, p2),
         Path(p2, <<x3>>, p3), Path(p3, <<x4>>, p4)
  PROVE  Path(p0, <<x1, x2, x3, x4>>, p4)
<1> DEFINE s == <<x1, x2, x3, x4>>
           q == <<p0, p1, p2, p3, p4>>
<1>1. /\ Fits(x1, p0, p1) /\ p0 \in Places /\ p1 \in Places
      /\ Fits(x2, p1, p2) /\ p1 \in Places /\ p2 \in Places
      /\ Fits(x3, p2, p3) /\ p2 \in Places /\ p3 \in Places
      /\ Fits(x4, p3, p4) /\ p3 \in Places /\ p4 \in Places
  BY Single
<1>2. s \in Seq(Steps) /\ Len(s) = 4
  BY <1>1 DEF Fits
<1>3. q \in [1..(Len(s) + 1) -> Places] /\ q[1] = p0 /\ q[Len(s) + 1] = p4
  BY <1>1, <1>2
<1>4. \A i \in 1..Len(s) : Fits(s[i], q[i], q[i + 1])
  BY <1>1, <1>2
<1> QED  BY <1>2, <1>3, <1>4 DEF Path

\* Five steps in a row.
LEMMA Tuple5 ==
  ASSUME NEW x1, NEW x2, NEW x3, NEW x4, NEW x5, NEW p0, NEW p1, NEW p2,
         NEW p3, NEW p4, NEW p5, Path(p0, <<x1>>, p1), Path(p1, <<x2>>, p2),
         Path(p2, <<x3>>, p3), Path(p3, <<x4>>, p4), Path(p4, <<x5>>, p5)
  PROVE  Path(p0, <<x1, x2, x3, x4, x5>>, p5)
<1> DEFINE s == <<x1, x2, x3, x4, x5>>
           q == <<p0, p1, p2, p3, p4, p5>>
<1>1. /\ Fits(x1, p0, p1) /\ p0 \in Places /\ p1 \in Places
      /\ Fits(x2, p1, p2) /\ p1 \in Places /\ p2 \in Places
      /\ Fits(x3, p2, p3) /\ p2 \in Places /\ p3 \in Places
      /\ Fits(x4, p3, p4) /\ p3 \in Places /\ p4 \in Places
      /\ Fits(x5, p4, p5) /\ p4 \in Places /\ p5 \in Places
  BY Single
<1>2. s \in Seq(Steps) /\ Len(s) = 5
  BY <1>1 DEF Fits
<1>3. q \in [1..(Len(s) + 1) -> Places] /\ q[1] = p0 /\ q[Len(s) + 1] = p5
  BY <1>1, <1>2
<1>4. \A i \in 1..Len(s) : Fits(s[i], q[i], q[i + 1])
  BY <1>1, <1>2
<1> QED  BY <1>2, <1>3, <1>4 DEF Path

\* Six steps in a row.
LEMMA Tuple6 ==
  ASSUME NEW x1, NEW x2, NEW x3, NEW x4, NEW x5, NEW x6, NEW p0, NEW p1,
         NEW p2, NEW p3, NEW p4, NEW p5, NEW p6, Path(p0, <<x1>>, p1),
         Path(p1, <<x2>>, p2), Path(p2, <<x3>>, p3), Path(p3, <<x4>>, p4),
         Path(p4, <<x5>>, p5), Path(p5, <<x6>>, p6)
  PROVE  Path(p0, <<x1, x2, x3, x4, x5, x6>>, p6)
<1> DEFINE s == <<x1, x2, x3, x4, x5, x6>>
           q == <<p0, p1, p2, p3, p4, p5, p6>>
<1>1. /\ Fits(x1, p0, p1) /\ p0 \in Places /\ p1 \in Places
      /\ Fits(x2, p1, p2) /\ p1 \in Places /\ p2 \in Places
      /\ Fits(x3, p2, p3) /\ p2 \in Places /\ p3 \in Places
      /\ Fits(x4, p3, p4) /\ p3 \in Places /\ p4 \in Places
      /\ Fits(x5, p4, p5) /\ p4 \in Places /\ p5 \in Places
      /\ Fits(x6, p5, p6) /\ p5 \in Places /\ p6 \in Places
  BY Single
<1>2. s \in Seq(Steps) /\ Len(s) = 6
  BY <1>1 DEF Fits
<1>3. q \in [1..(Len(s) + 1) -> Places] /\ q[1] = p0 /\ q[Len(s) + 1] = p6
  BY <1>1, <1>2
<1>4. \A i \in 1..Len(s) : Fits(s[i], q[i], q[i + 1])
  BY <1>1, <1>2
<1> QED  BY <1>2, <1>3, <1>4 DEF Path

\* Seven steps in a row.
LEMMA Tuple7 ==
  ASSUME NEW x1, NEW x2, NEW x3, NEW x4, NEW x5, NEW x6, NEW x7, NEW p0,
         NEW p1, NEW p2, NEW p3, NEW p4, NEW p5, NEW p6, NEW p7,
         Path(p0, <<x1>>, p1), Path(p1, <<x2>>, p2), Path(p2, <<x3>>, p3),
         Path(p3, <<x4>>, p4), Path(p4, <<x5>>, p5), Path(p5, <<x6>>, p6),
         Path(p6, <<x7>>, p7)
  PROVE  Path(p0, <<x1, x2, x3, x4, x5, x6, x7>>, p7)
<1> DEFINE s == <<x1, x2, x3, x4, x5, x6, x7>>
           q == <<p0, p1, p2, p3, p4, p5, p6, p7>>
<1>1. /\ Fits(x1, p0, p1) /\ p0 \in Places /\ p1 \in Places
      /\ Fits(x2, p1, p2) /\ p1 \in Places /\ p2 \in Places
      /\ Fits(x3, p2, p3) /\ p2 \in Places /\ p3 \in Places
      /\ Fits(x4, p3, p4) /\ p3 \in Places /\ p4 \in Places
      /\ Fits(x5, p4, p5) /\ p4 \in Places /\ p5 \in Places
      /\ Fits(x6, p5, p6) /\ p5 \in Places /\ p6 \in Places
      /\ Fits(x7, p6, p7) /\ p6 \in Places /\ p7 \in Places
  BY Single
<1>2. s \in Seq(Steps) /\ Len(s) = 7
  BY <1>1 DEF Fits
<1>3. q \in [1..(Len(s) + 1) -> Places] /\ q[1] = p0 /\ q[Len(s) + 1] = p7
  BY <1>1, <1>2
<1>4. \A i \in 1..Len(s) : Fits(s[i], q[i], q[i + 1])
  BY <1>1, <1>2
<1> QED  BY <1>2, <1>3, <1>4 DEF Path

\* Eight steps in a row.
LEMMA Tuple8 ==
  ASSUME NEW x1, NEW x2, NEW x3, NEW x4, NEW x5, NEW x6, NEW x7, NEW x8,
         NEW p0, NEW p1, NEW p2, NEW p3, NEW p4, NEW p5, NEW p6, NEW p7,
         NEW p8, Path(p0, <<x1>>, p1), Path(p1, <<x2>>, p2),
         Path(p2, <<x3>>, p3), Path(p3, <<x4>>, p4), Path(p4, <<x5>>, p5),
         Path(p5, <<x6>>, p6), Path(p6, <<x7>>, p7), Path(p7, <<x8>>, p8)
  PROVE  Path(p0, <<x1, x2, x3, x4, x5, x6, x7, x8>>, p8)
<1> DEFINE s == <<x1, x2, x3, x4, x5, x6, x7, x8>>
           q == <<p0, p1, p2, p3, p4, p5, p6, p7, p8>>
<1>1. /\ Fits(x1, p0, p1) /\ p0 \in Places /\ p1 \in Places
      /\ Fits(x2, p1, p2) /\ p1 \in Places /\ p2 \in Places
      /\ Fits(x3, p2, p3) /\ p2 \in Places /\ p3 \in Places
      /\ Fits(x4, p3, p4) /\ p3 \in Places /\ p4 \in Places
      /\ Fits(x5, p4, p5) /\ p4 \in Places /\ p5 \in Places
      /\ Fits(x6, p5, p6) /\ p5 \in Places /\ p6 \in Places
      /\ Fits(x7, p6, p7) /\ p6 \in Places /\ p7 \in Places
      /\ Fits(x8, p7, p8) /\ p7 \in Places /\ p8 \in Places
  BY Single
<1>2. s \in Seq(Steps) /\ Len(s) = 8
  BY <1>1 DEF Fits
<1>3. q \in [1..(Len(s) + 1) -> Places] /\ q[1] = p0 /\ q[Len(s) + 1] = p8
  BY <1>1, <1>2
<1>4. \A i \in 1..Len(s) : Fits(s[i], q[i], q[i + 1])
  BY <1>1, <1>2
<1> QED  BY <1>2, <1>3, <1>4 DEF Path


(***************************************************************************)
(* The steps of NativeMethods, one by one.                                 *)
(***************************************************************************)

\* Every step the methods are written with is one of Steps.
LEMMA StepIsStep ==
  ASSUME NEW op \in Ops
  PROVE  Step(op) \in Steps /\ Step(op).op = op /\ Step(op).exc = {}
BY DEF Step, Steps

\* So is one that throws exceptions of errors.rs ...
LEMMA ThrowingIsStep ==
  ASSUME NEW op \in Ops, NEW E \in SUBSET Typed
  PROVE  /\ Throwing(op, E) \in Steps
         /\ Throwing(op, E).op = op /\ Throwing(op, E).exc = E
BY DEF Throwing, Steps

\* ... and one that makes an object of a class with handles.
LEMMA MakingIsStep ==
  ASSUME NEW op \in Ops, NEW C \in Handles
  PROVE  /\ Making(op, C) \in Steps /\ Making(op, C).op = op
         /\ Making(op, C).exc = {} /\ Making(op, C).class = C
BY DEF Making, Steps

\* check_ptr: where a receiver has to be checked.
LEMMA CheckPtrStep ==
  /\ Path("fresh", <<CheckPtr>>, "ready")
  /\ Path("self", <<CheckPtr>>, "selfptr")
  /\ Path("given", <<CheckPtr>>, "held")
  /\ Path("lent", <<CheckPtr>>, "holding")
<1>1. CheckPtr \in Steps /\ CheckPtr.op = "check_ptr" /\ CheckPtr.exc = {}
  BY StepIsStep DEF CheckPtr, Ops
<1>2. /\ Fits(CheckPtr, "fresh", "ready") /\ Fits(CheckPtr, "self", "selfptr")
      /\ Fits(CheckPtr, "given", "held") /\ Fits(CheckPtr, "lent", "holding")
  BY <1>1 DEF Fits, Leads
<1> QED  BY <1>2, One DEF Places

\* The other two checks of a pair.
LEMMA PairSteps ==
  /\ Path("pair", <<CheckSelf>>, "self")
  /\ Path("selfptr", <<CheckOther>>, "ready")
<1>1. CheckSelf \in Steps /\ CheckSelf.op = "check_self" /\ CheckSelf.exc = {}
  BY StepIsStep DEF CheckSelf, Ops
<1>2. /\ CheckOther \in Steps
      /\ CheckOther.op = "check_other" /\ CheckOther.exc = {}
  BY StepIsStep DEF CheckOther, Ops
<1>3. Fits(CheckSelf, "pair", "self") /\ Fits(CheckOther, "selfptr", "ready")
  BY <1>1, <1>2 DEF Fits, Leads
<1> QED  BY <1>3, One DEF Places

\* A call into the JVM may stand wherever a call may fail ...
LEMMA JniStep ==
  ASSUME NEW p \in Fallible
  PROVE  Path(p, <<Jni>>, p)
<1>1. Jni \in Steps /\ Jni.op = "jni" /\ Jni.exc = {}
  BY StepIsStep DEF Jni, Ops
<1>2. Fits(Jni, p, p)
  BY <1>1 DEF Fits, Leads
<1> QED  BY <1>2, One DEF Places, Fallible, Refusable

\* ... and a refusal wherever nothing is changed.
LEMMA RejectStep ==
  ASSUME NEW E \in SUBSET Typed, NEW p \in Refusable
  PROVE  Path(p, <<Reject(E)>>, p)
<1>1. Reject(E) \in Steps /\ Reject(E).op = "reject"
  BY ThrowingIsStep DEF Reject, Ops
<1>2. Fits(Reject(E), p, p)
  BY <1>1 DEF Fits, Leads, Fallible
<1> QED  BY <1>2, One DEF Places, Refusable

\* The calls into the crate that only read.
LEMMA ReadStep ==
  ASSUME NEW E \in SUBSET Typed
  PROVE  /\ Path("ready", <<Read>>, "ready")
         /\ Path("ready", <<ReadOr(E)>>, "ready")
<1>1. Read \in Steps /\ Read.op = "read" /\ Read.exc = {}
  BY StepIsStep DEF Read, Ops
<1>2. ReadOr(E) \in Steps /\ ReadOr(E).op = "read"
  BY ThrowingIsStep DEF ReadOr, Ops
<1>3. Fits(Read, "ready", "ready") /\ Fits(ReadOr(E), "ready", "ready")
  BY <1>1, <1>2 DEF Fits, Leads, Refusable
<1> QED  BY <1>3, One DEF Places

\* Those that change the receiver, and the null result.
LEMMA AdvanceStep ==
  ASSUME NEW E \in SUBSET Typed
  PROVE  /\ Path("ready", <<Advance>>, "changed")
         /\ Path("ready", <<AdvanceOr(E)>>, "changed")
         /\ Path("taken", <<AdvanceOr(E)>>, "taken")
         /\ Path("changed", <<OrNull>>, "changed")
         /\ Path("ready", <<OrNull>>, "ready")
<1>1. Advance \in Steps /\ Advance.op = "advance" /\ Advance.exc = {}
  BY StepIsStep DEF Advance, Ops
<1>2. AdvanceOr(E) \in Steps /\ AdvanceOr(E).op = "advance"
  BY ThrowingIsStep DEF AdvanceOr, Ops
<1>3. OrNull \in Steps /\ OrNull.op = "or_null" /\ OrNull.exc = {}
  BY StepIsStep DEF OrNull, Ops
<1>4. Fits(Advance, "ready", "changed")
  BY <1>1 DEF Fits, Leads
<1>5. Fits(AdvanceOr(E), "ready", "changed") /\ Fits(AdvanceOr(E), "taken", "taken")
  BY <1>2 DEF Fits, Leads, Refusable
<1>6. Fits(OrNull, "changed", "changed") /\ Fits(OrNull, "ready", "ready")
  BY <1>3 DEF Fits, Leads
<1> QED  BY <1>4, <1>5, <1>6, One DEF Places

\* The box is taken back.
LEMMA FromRawStep ==
  /\ Path("held", <<FromRaw>>, "taken")
  /\ Path("holding", <<FromRaw>>, "taken")
<1>1. FromRaw \in Steps /\ FromRaw.op = "from_raw" /\ FromRaw.exc = {}
  BY StepIsStep DEF FromRaw, Ops
<1>2. Fits(FromRaw, "held", "taken") /\ Fits(FromRaw, "holding", "taken")
  BY <1>1 DEF Fits, Leads
<1> QED  BY <1>2, One DEF Places

\* A new object on its way to Java: boxed, wrapped in a handle, leaked.
LEMMA HandOverSteps ==
  ASSUME NEW C \in Handles
  PROVE  /\ \A p \in {"ready", "changed", "taken"} :
              Path(p, <<RawBoxNew(C)>>, "boxed")
         /\ Path("boxed", <<NewObject>>, "wrapped")
         /\ Path("wrapped", <<Leak>>, "handed")
<1>1. /\ RawBoxNew(C) \in Steps /\ RawBoxNew(C).op = "raw_box"
      /\ RawBoxNew(C).exc = {} /\ RawBoxNew(C).class = C
  BY MakingIsStep DEF RawBoxNew, Ops
<1>2. NewObject \in Steps /\ NewObject.op = "new_object" /\ NewObject.exc = {}
  BY StepIsStep DEF NewObject, Ops
<1>3. Leak \in Steps /\ Leak.op = "leak" /\ Leak.exc = {}
  BY StepIsStep DEF Leak, Ops
<1>4. \A p \in {"ready", "changed", "taken"} : Fits(RawBoxNew(C), p, "boxed")
  BY <1>1 DEF Fits, Leads
<1>5. Fits(NewObject, "boxed", "wrapped")
  BY <1>2 DEF Fits, Leads
<1>6. Fits(Leak, "wrapped", "handed")
  BY <1>3 DEF Fits, Leads
<1> QED  BY <1>4, <1>5, <1>6, One DEF Places

\* A new object handed over as a jlong.
LEMMA BoxToJlongStep ==
  ASSUME NEW C \in Handles
  PROVE  Path("fresh", <<BoxToJlong(C)>>, "made")
<1>1. /\ BoxToJlong(C) \in Steps /\ BoxToJlong(C).op = "box_to_jlong"
      /\ BoxToJlong(C).exc = {} /\ BoxToJlong(C).class = C
  BY MakingIsStep DEF BoxToJlong, Ops
<1>2. Fits(BoxToJlong(C), "fresh", "made")
  BY <1>1 DEF Fits, Leads
<1> QED  BY <1>2, One DEF Places

\* The error that is thrown and dropped: nothing can fail after it.
LEMMA NoteStep ==
  ASSUME NEW E \in SUBSET Typed
  PROVE  Path("fresh", <<Note(E)>>, "noted")
<1>1. Note(E) \in Steps /\ Note(E).op = "note"
  BY ThrowingIsStep DEF Note, Ops
<1>2. Fits(Note(E), "fresh", "noted")
  BY <1>1 DEF Fits, Leads, Refusable
<1> QED  BY <1>2, One DEF Places

\* The object is freed.
LEMMA NativeFreePath == Path("closing", NativeFree, "freed")
<1> DEFINE x == Step("native_free")
<1>1. x \in Steps /\ x.op = "native_free" /\ x.exc = {}
  BY StepIsStep DEF Ops
<1>2. Fits(x, "closing", "freed")
  BY <1>1 DEF Fits, Leads
<1> HIDE DEF x
<1>3. Path("closing", <<x>>, "freed")
  BY <1>2, One DEF Places
<1> QED  BY <1>3 DEF NativeFree, x

(***************************************************************************)
(* Runs of steps that stay where they are: the conversions of arguments    *)
(* and results.                                                            *)
(***************************************************************************)

\* Only conversions, which fail with ConversionException ...
Quiet(s) ==
  /\ s \in Seq(Steps)
  /\ \A i \in 1..Len(s) : /\ s[i].op \in {"jni", "reject"}
                          /\ s[i].exc \subseteq Conversion

\* ... or also refusals, before anything is changed.
Early(s) ==
  /\ s \in Seq(Steps)
  /\ \A i \in 1..Len(s) : s[i].op \in {"jni", "reject"}

\* The sets of exceptions of errors.rs.
LEMMA Thrown ==
  /\ Pickle \subseteq Typed /\ Decryption \subseteq Typed
  /\ Encryption \subseteq Typed /\ Creation \subseteq Typed
  /\ Key \subseteq Typed /\ Signature \subseteq Typed
  /\ Ecies \subseteq Typed /\ Conversion \subseteq Typed /\ Sas \subseteq Typed
  /\ MegolmDecryption \subseteq Typed /\ SessionKeyDecode \subseteq Typed
  /\ MessageDecode \subseteq Typed
BY DEF Pickle, Decryption, Encryption, Creation, Key, Signature, Ecies,
       Conversion, Sas, MegolmDecryption, SessionKeyDecode, MessageDecode, Typed

\* A result can be converted wherever a call may still fail.
LEMMA QuietStays ==
  ASSUME NEW s, Quiet(s), NEW p \in Fallible
  PROVE  Path(p, s, p)
<1>1. ASSUME NEW i \in 1..Len(s) PROVE Fits(s[i], p, p)
  <2>1. s[i] \in Steps
    BY DEF Quiet
  <2> QED  BY <2>1 DEF Quiet, Fits, Leads, Refusals
<1> QED  BY <1>1, Stays DEF Quiet, Fallible, Refusable, Places

\* An argument can be refused wherever nothing is changed yet.
LEMMA EarlyStays ==
  ASSUME NEW s, Early(s), NEW p \in Refusable
  PROVE  Path(p, s, p)
<1>1. ASSUME NEW i \in 1..Len(s) PROVE Fits(s[i], p, p)
  <2>1. s[i] \in Steps
    BY DEF Early
  <2> QED  BY <2>1 DEF Early, Fits, Leads, Fallible
<1> QED  BY <1>1, Stays DEF Early, Refusable, Places

\* A result is converted at the end of a method ...
LEMMA QuietAfter ==
  ASSUME NEW p, NEW r \in Fallible, NEW s, NEW t, Path(p, s, r), Quiet(t)
  PROVE  Path(p, s \o t, r)
BY QuietStays, Join

\* ... and an argument is decoded in front.
LEMMA EarlyAfter ==
  ASSUME NEW p, NEW r \in Refusable, NEW s, NEW t, Path(p, s, r), Early(t)
  PROVE  Path(p, s \o t, r)
BY EarlyStays, Join

\* Conversions one after the other are conversions.
LEMMA QuietJoin ==
  ASSUME NEW s, NEW t, Quiet(s), Quiet(t)
  PROVE  Quiet(s \o t)
BY DEF Quiet

\* The same of refusals.
LEMMA EarlyJoin ==
  ASSUME NEW s, NEW t, Early(s), Early(t)
  PROVE  Early(s \o t)
BY DEF Early

\* A conversion may also stand in front.
LEMMA QuietIsEarly ==
  ASSUME NEW s, Quiet(s)
  PROVE  Early(s)
BY DEF Quiet, Early

\* The single conversions.
LEMMA QuietTuples ==
  /\ Quiet(<<>>) /\ Quiet(<<Jni>>) /\ Quiet(<<Jni, Jni>>)
  /\ Quiet(<<Jni, Jni, Jni>>) /\ Quiet(<<Jni, Jni, Jni, Jni>>)
  /\ Quiet(<<Reject(Conversion)>>) /\ Quiet(<<Throwing("jni", Conversion)>>)
<1> DEFINE a == Jni  b == Reject(Conversion)  c == Throwing("jni", Conversion)
<1>1. a \in Steps /\ a.op = "jni" /\ a.exc = {}
  BY StepIsStep DEF Jni, Ops
<1>2. b \in Steps /\ b.op = "reject" /\ b.exc = Conversion
  BY Thrown, ThrowingIsStep DEF Reject, Ops
<1>3. c \in Steps /\ c.op = "jni" /\ c.exc = Conversion
  BY Thrown, ThrowingIsStep DEF Ops
<1> HIDE DEF a, b, c
<1>4. Quiet(<<>>)
  BY DEF Quiet
<1>5. Quiet(<<a>>)
  BY <1>1 DEF Quiet
<1>6. Quiet(<<a, a>>)
  BY <1>1 DEF Quiet
<1>7. Quiet(<<a, a, a>>)
  BY <1>1 DEF Quiet
<1>8. Quiet(<<a, a, a, a>>)
  BY <1>1 DEF Quiet
<1>9. Quiet(<<b>>)
  BY <1>2 DEF Quiet
<1>10. Quiet(<<c>>)
  BY <1>3 DEF Quiet
<1> QED  BY <1>4, <1>5, <1>6, <1>7, <1>8, <1>9, <1>10 DEF a, b, c

\* The single refusals.
LEMMA EarlyTuples ==
  ASSUME NEW E \in SUBSET Typed
  PROVE  /\ Early(<<Reject(E)>>) /\ Early(<<Jni, Reject(E)>>)
         /\ Early(<<Reject(E), Jni>>)
<1> DEFINE a == Jni  b == Reject(E)
<1>1. a \in Steps /\ a.op = "jni"
  BY StepIsStep DEF Jni, Ops
<1>2. b \in Steps /\ b.op = "reject"
  BY ThrowingIsStep DEF Reject, Ops
<1> HIDE DEF a, b
<1>3. Early(<<b>>)
  BY <1>2 DEF Early
<1>4. Early(<<a, b>>)
  BY <1>1, <1>2 DEF Early
<1>5. Early(<<b, a>>)
  BY <1>1, <1>2 DEF Early
<1> QED  BY <1>3, <1>4, <1>5 DEF a, b

(***************************************************************************)
(* The helpers and the shapes that several methods share.                  *)
(***************************************************************************)

\* The helpers that convert a result.
LEMMA ResultHelpers ==
  /\ Quiet(SessionConfig) /\ Quiet(StringToJString) /\ Quiet(ToJavaBase64Value)
  /\ Quiet(ToJavaIdentityKeys) /\ Quiet(ToJavaSessionKeys)
  /\ Quiet(ToJavaOlmMessage) /\ Quiet(ToJavaMegolmMessage)
  /\ Quiet(ToJavaDecrypted) /\ Quiet(ToJavaPkMessage) /\ Quiet(ToJavaCheckCode)
  /\ Quiet(ToJavaSasBytes) /\ Quiet(ToByteArray) /\ Quiet(KeyGenerationResult)
  /\ Quiet(KeyMapToResult) /\ Quiet(SessionOrdering)
<1>1. /\ Quiet(SessionConfig) /\ Quiet(StringToJString) /\ Quiet(ToJavaOlmMessage)
      /\ Quiet(ToJavaDecrypted) /\ Quiet(ToJavaPkMessage)
      /\ Quiet(ToJavaCheckCode) /\ Quiet(ToByteArray) /\ Quiet(SessionOrdering)
  BY QuietTuples
     DEF SessionConfig, StringToJString, ToJavaOlmMessage, ToJavaDecrypted,
         ToJavaPkMessage, ToJavaCheckCode, ToByteArray, SessionOrdering
<1>2. Quiet(ToJavaBase64Value)
  BY QuietTuples DEF ToJavaBase64Value
<1>3. Quiet(ToJavaIdentityKeys)
  <2>1. Quiet(ToJavaBase64Value \o ToJavaBase64Value)
    BY <1>2, QuietJoin
  <2> QED  BY <2>1, QuietTuples, QuietJoin DEF ToJavaIdentityKeys
<1>4. Quiet(ToJavaSessionKeys)
  <2>1. Quiet(<<Jni>> \o ToJavaBase64Value)
    BY <1>2, QuietTuples, QuietJoin
  <2>2. Quiet(<<Jni>> \o ToJavaBase64Value \o ToJavaBase64Value)
    BY <1>2, <2>1, QuietJoin
  <2>3. Quiet(<<Jni>> \o ToJavaBase64Value \o ToJavaBase64Value
                \o ToJavaBase64Value)
    BY <1>2, <2>2, QuietJoin
  <2> QED  BY <2>3, QuietTuples, QuietJoin DEF ToJavaSessionKeys
<1>5. Quiet(ToJavaMegolmMessage)
  <2>1. Quiet(<<Jni, Jni>> \o ToJavaBase64Value)
    BY <1>2, QuietTuples, QuietJoin
  <2> QED  BY <2>1, QuietTuples, QuietJoin DEF ToJavaMegolmMessage
<1>6. Quiet(ToJavaSasBytes)
  <2>1. Quiet(ToDecimalArray) /\ Quiet(ToEmojiArray) /\ Quiet(ToRawByteArray)
    BY QuietTuples DEF ToDecimalArray, ToEmojiArray, ToRawByteArray
  <2>2. Quiet(ToDecimalArray \o ToEmojiArray)
    BY <2>1, QuietJoin
  <2>3. Quiet(ToDecimalArray \o ToEmojiArray \o ToRawByteArray)
    BY <2>1, <2>2, QuietJoin
  <2> QED  BY <2>3, QuietTuples, QuietJoin DEF ToJavaSasBytes
<1>7. Quiet(KeyGenerationResult)
  <2>1. Quiet(<<Jni>> \o ToJavaBase64Value)
    BY <1>2, QuietTuples, QuietJoin
  <2>2. Quiet(KeyVecToJavaList)
    BY <2>1, QuietTuples, QuietJoin DEF KeyVecToJavaList
  <2>3. Quiet(KeyVecToJavaList \o KeyVecToJavaList)
    BY <2>2, QuietJoin
  <2> QED  BY <2>3, QuietTuples, QuietJoin DEF KeyGenerationResult
<1>8. Quiet(KeyMapToResult)
  <2>1. Quiet(<<Jni, Jni>> \o ToJavaBase64Value)
    BY <1>2, QuietTuples, QuietJoin
  <2> QED  BY <2>1, QuietTuples, QuietJoin DEF KeyMapToResult
<1> QED  BY <1>1, <1>2, <1>3, <1>4, <1>5, <1>6, <1>7, <1>8

\* The helpers that decode an argument, or a pickle.
LEMMA ArgumentHelpers ==
  /\ Early(Wrap) /\ Early(SessionConfig)
  /\ Early(JsonToJString) /\ Early(FromJson)
  /\ \A E \in SUBSET Typed : Early(Decoded(E))
BY Thrown, EarlyTuples, ResultHelpers, QuietIsEarly
   DEF Wrap, JsonToJString, FromJson, Decoded

\* A method that reads a checked receiver and converts what it read.
LEMMA GetterPath ==
  ASSUME NEW s, Early(s)
  PROVE  Path("fresh", Getter(s), "ready")
<1>1. Path("fresh", <<CheckPtr, Read>>, "ready")
  BY CheckPtrStep, ReadStep, Tuple2
<1> QED  BY <1>1, EarlyAfter DEF Getter, Refusable

\* A pickle is written.
LEMMA PicklePaths ==
  /\ Path("fresh", PickleOf, "ready")
  /\ Path("fresh", EncryptedPickleOf, "ready")
  /\ Path("fresh", PickleLegacyOf, "ready")
<1>1. Path("fresh", PickleOf, "ready")
  BY ArgumentHelpers, GetterPath DEF Getter, PickleOf
<1>2. Path("fresh", <<CheckPtr>> \o Wrap, "ready")
  BY CheckPtrStep, ArgumentHelpers, EarlyAfter DEF Refusable
<1>3. /\ Path("fresh", <<CheckPtr>> \o Wrap \o <<Read>>, "ready")
      /\ Path("fresh", <<CheckPtr>> \o Wrap \o <<ReadOr(Pickle)>>, "ready")
  BY <1>2, Thrown, ReadStep, Join
<1>4. Early(StringToJString)
  BY ResultHelpers, QuietIsEarly
<1> QED  BY <1>1, <1>3, <1>4, EarlyAfter
            DEF EncryptedPickleOf, PickleLegacyOf, Refusable

\* A pickle is read, or an object made of nothing.
LEMMA UnpicklePaths ==
  ASSUME NEW C \in Handles
  PROVE  /\ Path("fresh", <<BoxToJlong(C)>>, "made")
         /\ Path("fresh", Unpickled(C), "made")
         /\ Path("fresh", EncryptedUnpickled(C), "made")
         /\ Path("fresh", UnpickledLegacy(C), "made")
<1>1. Path("fresh", <<BoxToJlong(C)>>, "made")
  BY BoxToJlongStep
<1>2. Path("fresh", <<Jni>>, "fresh") /\ Path("fresh", <<Reject(Pickle)>>, "fresh")
  BY JniStep, RejectStep, Thrown DEF Fallible, Refusable
<1>3. Path("fresh", Unpickled(C), "made")
  <2>1. Path("fresh", <<Jni>> \o FromJson, "fresh")
    BY <1>2, ArgumentHelpers, EarlyAfter DEF Refusable
  <2> QED  BY <1>1, <2>1, Join DEF Unpickled
<1>4. Path("fresh", EncryptedUnpickled(C), "made")
  <2>1. Path("fresh", <<Jni>> \o Wrap, "fresh")
    BY <1>2, ArgumentHelpers, EarlyAfter DEF Refusable
  <2>2. Path("fresh", <<Reject(Pickle), BoxToJlong(C)>>, "made")
    BY <1>1, <1>2, Tuple2
  <2> QED  BY <2>1, <2>2, Join DEF EncryptedUnpickled
<1>5. Path("fresh", UnpickledLegacy(C), "made")
  BY <1>1, <1>2, Tuple4 DEF UnpickledLegacy
<1> QED  BY <1>1, <1>3, <1>4, <1>5

(***************************************************************************)
(* The methods, class by class.                                            *)
(***************************************************************************)

\* Where a method starts: nativeFree gets the pointer close() took out of
\* the handle, a pair two operands, a consuming method a receiver that it
\* has to free whatever happens (Sas), or only once it has taken it (Ecies).
StartOf(c, m) ==
  IF m = "nativeFree" THEN "closing"
  ELSE IF <<c, m>> \in Pairs THEN "pair"
  ELSE IF <<c, m>> \in Consuming THEN IF c = "Sas" THEN "given" ELSE "lent"
  ELSE "fresh"

\* A method that gets from its start to a place where it may return.
Sound(c, m, s) == \E p \in Final : Path(StartOf(c, m), s, p)

\* A class without pairs and consuming methods.
LEMMA PlainClass ==
  ASSUME NEW c \in Classes \ {"InboundGroupSession", "Sas", "Ecies"},
         NEW N,
         \A m \in DOMAIN N \ {"nativeFree"} :
           \E p \in Final : Path("fresh", N[m], p),
         "nativeFree" \in DOMAIN N => N["nativeFree"] = NativeFree
  PROVE  \A m \in DOMAIN N : Sound(c, m, N[m])
<1> TAKE m \in DOMAIN N
<1>1. CASE m = "nativeFree"
  BY <1>1, NativeFreePath DEF Sound, StartOf, Final
<1>2. CASE m # "nativeFree"
  <2>1. <<c, m>> \notin Pairs /\ <<c, m>> \notin Consuming
    BY DEF Pairs, Consuming
  <2> QED  BY <1>2, <2>1 DEF Sound, StartOf
<1> QED  BY <1>1, <1>2

\* account.rs
LEMMA AccountSound ==
  \A m \in DOMAIN AccountNatives : Sound("Account", m, AccountNatives[m])
<1>1. /\ Path("fresh", Account_nativeIdentityKeys, "ready")
      /\ Path("fresh", Account_nativeCurve25519Key, "ready")
      /\ Path("fresh", Account_nativeEd25519Key, "ready")
      /\ Path("fresh", Account_nativeMaxNumberOfOneTimeKeys, "ready")
      /\ Path("fresh", Account_nativeStoredOneTimeKeyCount, "ready")
      /\ Path("fresh", Account_nativeOneTimeKeys, "ready")
      /\ Path("fresh", Account_nativeFallbackKey, "ready")
  BY ResultHelpers, QuietTuples, QuietIsEarly, GetterPath
     DEF Account_nativeIdentityKeys, Account_nativeCurve25519Key,
         Account_nativeEd25519Key, Account_nativeMaxNumberOfOneTimeKeys,
         Account_nativeStoredOneTimeKeyCount, Account_nativeOneTimeKeys,
         Account_nativeFallbackKey
<1>2. /\ Path("fresh", Account_nativePickle, "ready")
      /\ Path("fresh", Account_nativeEncryptedPickle, "ready")
      /\ Path("fresh", Account_nativePickleLegacy, "ready")
  BY PicklePaths DEF Account_nativePickle, Account_nativeEncryptedPickle,
                     Account_nativePickleLegacy
<1>3. /\ Path("fresh", Account_nativeNew, "made")
      /\ Path("fresh", Account_nativeUnpickle, "made")
      /\ Path("fresh", Account_nativeEncryptedUnpickle, "made")
      /\ Path("fresh", Account_nativeUnpickleLegacy, "made")
  BY UnpicklePaths
     DEF Account_nativeNew, Account_nativeUnpickle, Handles,
         Account_nativeEncryptedUnpickle, Account_nativeUnpickleLegacy
<1>4. /\ Path("fresh", <<CheckPtr>>, "ready") /\ Path("ready", <<Jni>>, "ready")
      /\ Path("fresh", <<Jni>>, "fresh") /\ Path("boxed", <<Jni>>, "boxed")
      /\ Path("ready", <<Advance>>, "changed")
      /\ Path("changed", <<OrNull>>, "changed")
  BY CheckPtrStep, JniStep, AdvanceStep DEF Fallible, Refusable
<1>5. \A E \in SUBSET Typed :
        /\ Path("ready", <<Reject(E)>>, "ready")
        /\ Path("fresh", <<Reject(E)>>, "fresh")
        /\ Path("ready", <<ReadOr(E)>>, "ready")
        /\ Path("ready", <<AdvanceOr(E)>>, "changed")
  BY RejectStep, ReadStep, AdvanceStep DEF Refusable
<1>6. Path("fresh", <<CheckPtr>> \o SessionConfig \o Decoded(Key), "ready")
  <2>1. Path("fresh", <<CheckPtr>> \o SessionConfig, "ready")
    BY <1>4, ArgumentHelpers, EarlyAfter DEF Refusable
  <2> QED  BY <2>1, ArgumentHelpers, Thrown, EarlyAfter DEF Refusable
<1>7. /\ Path("ready", <<RawBoxNew("OlmSession")>>, "boxed")
      /\ Path("changed", <<RawBoxNew("OlmSession")>>, "boxed")
      /\ Path("boxed", <<NewObject>>, "wrapped")
      /\ Path("wrapped", <<Leak>>, "handed")
  BY HandOverSteps DEF Handles
<1>8. Path("fresh", Account_nativeCreateOutboundSession, "handed")
  <2>1. Path("ready", <<ReadOr(Creation), RawBoxNew("OlmSession"), NewObject,
                        Leak>>, "handed")
    BY <1>5, <1>7, Thrown, Tuple4
  <2>2. Path("fresh", <<CheckPtr>> \o SessionConfig \o Decoded(Key)
                        \o Decoded(Key), "ready")
    BY <1>6, ArgumentHelpers, Thrown, EarlyAfter DEF Refusable
  <2> QED  BY <2>1, <2>2, Join DEF Account_nativeCreateOutboundSession
<1>9. Path("fresh", Account_nativeCreateInboundSession, "handed")
  <2>1. Path("ready", <<Reject(Creation), AdvanceOr(Creation),
                        RawBoxNew("OlmSession"), Jni, NewObject, Leak>>, "handed")
    BY <1>4, <1>5, <1>7, Thrown, Tuple6
  <2>2. Path("fresh", <<CheckPtr>> \o SessionConfig \o Decoded(Key)
                        \o Decoded(Creation), "ready")
    BY <1>6, ArgumentHelpers, Thrown, EarlyAfter DEF Refusable
  <2> QED  BY <2>1, <2>2, Join DEF Account_nativeCreateInboundSession
<1>10. Path("fresh", Account_nativeGenerateOneTimeKeys, "changed")
  <2>1. Path("fresh", <<CheckPtr, Reject(Conversion), Reject(Conversion),
                        Advance>>, "changed")
    BY <1>4, <1>5, Thrown, Tuple4
  <2> QED  BY <2>1, ResultHelpers, QuietAfter
              DEF Account_nativeGenerateOneTimeKeys, Fallible
<1>11. Path("fresh", Account_nativeGenerateFallbackKey, "changed")
  <2>1. Path("fresh", <<CheckPtr, Advance, OrNull>>, "changed")
    BY <1>4, Tuple3
  <2> QED  BY <2>1, ResultHelpers, QuietAfter
              DEF Account_nativeGenerateFallbackKey, Fallible
<1>12. /\ Path("fresh", Account_nativeForgetFallbackKey, "changed")
       /\ Path("fresh", Account_nativeMarkKeysAsPublished, "changed")
  BY <1>4, Tuple2 DEF Account_nativeForgetFallbackKey,
                      Account_nativeMarkKeysAsPublished
<1>13. Path("fresh", Account_nativeSign, "ready")
  <2>1. Path("fresh", <<CheckPtr, Jni, Read>>, "ready")
    BY <1>4, ReadStep, Tuple3
  <2> QED  BY <2>1, ResultHelpers, QuietAfter
              DEF Account_nativeSign, Fallible, Refusable
<1>14. Path("fresh", Account_nativeFromDehydratedDevice, "made")
  <2>1. Path("fresh", <<Jni, Jni>>, "fresh")
    BY <1>4, Tuple2
  <2>2. Path("fresh", <<Jni, Jni>> \o Wrap, "fresh")
    BY <2>1, ArgumentHelpers, EarlyAfter DEF Refusable
  <2>3. Path("fresh", <<Reject(Pickle), BoxToJlong("Account")>>, "made")
    BY <1>5, Thrown, BoxToJlongStep, Tuple2 DEF Handles
  <2> QED  BY <2>2, <2>3, Join DEF Account_nativeFromDehydratedDevice
<1>15. Path("fresh", Account_nativeToDehydratedDevice, "ready")
  <2>1. Path("fresh", <<CheckPtr>> \o Wrap, "ready")
    BY <1>4, ArgumentHelpers, EarlyAfter DEF Refusable
  <2>2. Path("ready", <<ReadOr(Pickle), Jni, Jni, Jni>>, "ready")
    BY <1>4, <1>5, Thrown, Tuple4
  <2> QED  BY <2>1, <2>2, Join DEF Account_nativeToDehydratedDevice
<1>16. \A m \in DOMAIN AccountNatives \ {"nativeFree"} :
         \E p \in Final : Path("fresh", AccountNatives[m], p)
  BY <1>1, <1>2, <1>3, <1>8, <1>9, <1>10, <1>11, <1>12, <1>13, <1>14, <1>15
     DEF AccountNatives, Final
<1>17. AccountNatives["nativeFree"] = NativeFree
  BY DEF AccountNatives, Account_nativeFree
<1> QED  BY <1>16, <1>17, PlainClass DEF Classes, Natives

\* The steps the other classes use, at the places they use them.
LEMMA CommonSteps ==
  /\ Path("fresh", <<CheckPtr>>, "ready")
  /\ Path("fresh", <<Jni>>, "fresh") /\ Path("ready", <<Jni>>, "ready")
  /\ Path("boxed", <<Jni>>, "boxed") /\ Path("changed", <<Jni>>, "changed")
  /\ Path("holding", <<Jni>>, "holding")
  /\ Path("ready", <<Read>>, "ready")
  /\ Path("ready", <<Advance>>, "changed")
  /\ Path("ready", <<OrNull>>, "ready")
BY CheckPtrStep, JniStep, ReadStep, AdvanceStep DEF Fallible, Refusable

\* The same of the steps that throw.
LEMMA CommonThrows ==
  ASSUME NEW E \in SUBSET Typed
  PROVE  /\ Path("ready", <<Reject(E)>>, "ready")
         /\ Path("fresh", <<Reject(E)>>, "fresh")
         /\ Path("ready", <<ReadOr(E)>>, "ready")
         /\ Path("ready", <<AdvanceOr(E)>>, "changed")
         /\ Path("taken", <<AdvanceOr(E)>>, "taken")
BY RejectStep, ReadStep, AdvanceStep DEF Refusable

\* An argument decoded after the check, and one decoded first.
LEMMA DecodedPaths ==
  ASSUME NEW E \in SUBSET Typed
  PROVE  /\ Path("fresh", <<CheckPtr>> \o Decoded(E), "ready")
         /\ Path("lent", <<CheckPtr>> \o Decoded(E), "holding")
         /\ Path("fresh", Decoded(E), "fresh")
         /\ Path("taken", Decoded(E), "taken")
<1>1. Early(Decoded(E))
  BY ArgumentHelpers
<1> QED  BY <1>1, CheckPtrStep, EarlyAfter, EarlyStays DEF Refusable

\* session.rs
LEMMA OlmSessionSound ==
  \A m \in DOMAIN OlmSessionNatives :
    Sound("OlmSession", m, OlmSessionNatives[m])
<1>1. /\ Path("fresh", OlmSession_nativeSessionId, "ready")
      /\ Path("fresh", OlmSession_nativeSessionKeys, "ready")
      /\ Path("fresh", OlmSession_nativeSessionConfig, "ready")
      /\ Path("fresh", OlmSession_nativeHasReceivedMessage, "ready")
  BY ResultHelpers, QuietTuples, QuietIsEarly, GetterPath
     DEF OlmSession_nativeSessionId, OlmSession_nativeSessionKeys,
         OlmSession_nativeSessionConfig, OlmSession_nativeHasReceivedMessage
<1>2. /\ Path("fresh", OlmSession_nativePickle, "ready")
      /\ Path("fresh", OlmSession_nativeEncryptedPickle, "ready")
  BY PicklePaths DEF OlmSession_nativePickle, OlmSession_nativeEncryptedPickle
<1>3. /\ Path("fresh", OlmSession_nativeUnpickle, "made")
      /\ Path("fresh", OlmSession_nativeEncryptedUnpickle, "made")
      /\ Path("fresh", OlmSession_nativeUnpickleLegacy, "made")
  BY UnpicklePaths DEF OlmSession_nativeUnpickle, Handles,
       OlmSession_nativeEncryptedUnpickle, OlmSession_nativeUnpickleLegacy
<1>4. Path("fresh", OlmSession_nativeEncrypt, "changed")
  <2>1. Path("fresh", <<CheckPtr, Jni, AdvanceOr(Encryption)>>, "changed")
    BY CommonSteps, CommonThrows, Thrown, Tuple3
  <2> QED  BY <2>1, ResultHelpers, QuietAfter
              DEF OlmSession_nativeEncrypt, Fallible
<1>5. Path("fresh", OlmSession_nativeDecrypt, "changed")
  <2>1. Path("fresh", <<CheckPtr>> \o Decoded(Decryption), "ready")
    BY DecodedPaths, Thrown
  <2>2. Path("ready", <<AdvanceOr(Decryption), Jni>>, "changed")
    BY CommonSteps, CommonThrows, Thrown, Tuple2
  <2> QED  BY <2>1, <2>2, Join DEF OlmSession_nativeDecrypt
<1>6. \A m \in DOMAIN OlmSessionNatives \ {"nativeFree"} :
        \E p \in Final : Path("fresh", OlmSessionNatives[m], p)
  BY <1>1, <1>2, <1>3, <1>4, <1>5 DEF OlmSessionNatives, Final
<1>7. OlmSessionNatives["nativeFree"] = NativeFree
  BY DEF OlmSessionNatives, OlmSession_nativeFree
<1> QED  BY <1>6, <1>7, PlainClass DEF Classes, Natives

\* inbound_group_session.rs
LEMMA InboundGroupSessionSound ==
  \A m \in DOMAIN InboundGroupSessionNatives :
    Sound("InboundGroupSession", m, InboundGroupSessionNatives[m])
<1> DEFINE N == InboundGroupSessionNatives
           C == "InboundGroupSession"
<1>1. \A m : StartOf(C, m) =
         IF m = "nativeFree" THEN "closing"
         ELSE IF m \in {"nativeConnected", "nativeCompare", "nativeMerge"}
              THEN "pair" ELSE "fresh"
  BY DEF StartOf, Pairs, Consuming
<1>2. /\ Path("fresh", InboundGroupSession_nativeSessionId, "ready")
      /\ Path("fresh", InboundGroupSession_nativeFirstKnownIndex, "ready")
      /\ Path("fresh", InboundGroupSession_nativeExportAtFirstKnownIndex, "ready")
  BY ResultHelpers, QuietTuples, QuietIsEarly, GetterPath
     DEF InboundGroupSession_nativeSessionId,
         InboundGroupSession_nativeFirstKnownIndex,
         InboundGroupSession_nativeExportAtFirstKnownIndex
<1>3. /\ Path("fresh", InboundGroupSession_nativePickle, "ready")
      /\ Path("fresh", InboundGroupSession_nativeEncryptedPickle, "ready")
  BY PicklePaths DEF InboundGroupSession_nativePickle,
                     InboundGroupSession_nativeEncryptedPickle
<1>4. /\ Path("fresh", InboundGroupSession_nativeUnpickle, "made")
      /\ Path("fresh", InboundGroupSession_nativeEncryptedUnpickle, "made")
      /\ Path("fresh", InboundGroupSession_nativeUnpickleLegacy, "made")
  BY UnpicklePaths
     DEF InboundGroupSession_nativeUnpickle, Handles,
         InboundGroupSession_nativeEncryptedUnpickle,
         InboundGroupSession_nativeUnpickleLegacy
<1>5. /\ Path("fresh", InboundGroupSession_nativeNew, "made")
      /\ Path("fresh", InboundGroupSession_nativeImport, "made")
  <2>1. Path("fresh", SessionConfig, "fresh")
    BY ArgumentHelpers, EarlyStays DEF Refusable
  <2>2. Path("fresh", SessionConfig \o Decoded(SessionKeyDecode), "fresh")
    BY <2>1, ArgumentHelpers, Thrown, EarlyAfter DEF Refusable
  <2>3. Path("fresh", <<BoxToJlong("InboundGroupSession")>>, "made")
    BY BoxToJlongStep DEF Handles
  <2> QED  BY <2>2, <2>3, Join DEF InboundGroupSession_nativeNew,
                                   InboundGroupSession_nativeImport
<1>6. Path("fresh", InboundGroupSession_nativeDecrypt, "ready")
  <2>1. Path("fresh", <<CheckPtr>> \o Decoded(MessageDecode), "ready")
    BY DecodedPaths, Thrown
  <2>2. Path("fresh", <<CheckPtr>> \o Decoded(MessageDecode)
                        \o <<ReadOr(MegolmDecryption)>>, "ready")
    BY <2>1, CommonThrows, Thrown, Join
  <2> QED  BY <2>2, ResultHelpers, QuietAfter
              DEF InboundGroupSession_nativeDecrypt, Fallible, Refusable
<1>7. Path("fresh", InboundGroupSession_nativeExportAt, "ready")
  <2>1. Path("fresh", <<CheckPtr, Reject(Conversion), Read, OrNull>>, "ready")
    BY CommonSteps, CommonThrows, Thrown, Tuple4
  <2> QED  BY <2>1, ResultHelpers, QuietAfter
              DEF InboundGroupSession_nativeExportAt, Fallible, Refusable
<1>8. Path("fresh", InboundGroupSession_nativeAdvanceTo, "changed")
  BY CommonSteps, CommonThrows, Thrown, Tuple3
     DEF InboundGroupSession_nativeAdvanceTo
<1>9. /\ Path("pair", <<CheckSelf>>, "self") /\ Path("self", <<CheckPtr>>, "selfptr")
      /\ Path("selfptr", <<CheckOther>>, "ready")
  BY PairSteps, CheckPtrStep
<1>10. /\ Path("pair", InboundGroupSession_nativeConnected, "ready")
       /\ Path("pair", InboundGroupSession_nativeCompare, "ready")
  <2>1. Path("pair", <<CheckSelf, CheckPtr, CheckOther, Read>>, "ready")
    BY <1>9, CommonSteps, Tuple4
  <2> QED  BY <2>1, ResultHelpers, QuietAfter
              DEF InboundGroupSession_nativeConnected, Fallible, Refusable,
                  InboundGroupSession_nativeCompare
<1>11. Path("pair", InboundGroupSession_nativeMerge, "handed")
  <2>1. /\ Path("ready", <<RawBoxNew("InboundGroupSession")>>, "boxed")
        /\ Path("boxed", <<NewObject>>, "wrapped")
        /\ Path("wrapped", <<Leak>>, "handed")
    BY HandOverSteps DEF Handles
  <2> QED  BY <1>9, <2>1, CommonSteps, Tuple8
              DEF InboundGroupSession_nativeMerge
<1>12. \A m \in DOMAIN N \ {"nativeFree", "nativeConnected", "nativeCompare",
                            "nativeMerge"} :
         \E p \in Final : Path("fresh", N[m], p)
  BY <1>2, <1>3, <1>4, <1>5, <1>6, <1>7, <1>8
     DEF InboundGroupSessionNatives, Final
<1>13. \A m \in {"nativeConnected", "nativeCompare", "nativeMerge"} :
         \E p \in Final : Path("pair", N[m], p)
  BY <1>10, <1>11 DEF InboundGroupSessionNatives, Final
<1>14. \E p \in Final : Path("closing", N["nativeFree"], p)
  BY NativeFreePath
     DEF InboundGroupSessionNatives, InboundGroupSession_nativeFree, Final
<1> HIDE DEF N
<1> QED  BY <1>1, <1>12, <1>13, <1>14 DEF Sound, N

\* outbound_group_session.rs
LEMMA OutboundGroupSessionSound ==
  \A m \in DOMAIN OutboundGroupSessionNatives :
    Sound("OutboundGroupSession", m, OutboundGroupSessionNatives[m])
<1>1. /\ Path("fresh", OutboundGroupSession_nativeSessionId, "ready")
      /\ Path("fresh", OutboundGroupSession_nativeMessageIndex, "ready")
      /\ Path("fresh", OutboundGroupSession_nativeSessionKey, "ready")
      /\ Path("fresh", OutboundGroupSession_nativeSessionConfig, "ready")
  BY ResultHelpers, QuietTuples, QuietIsEarly, GetterPath
     DEF OutboundGroupSession_nativeSessionId,
         OutboundGroupSession_nativeMessageIndex,
         OutboundGroupSession_nativeSessionKey,
         OutboundGroupSession_nativeSessionConfig
<1>2. /\ Path("fresh", OutboundGroupSession_nativePickle, "ready")
      /\ Path("fresh", OutboundGroupSession_nativeEncryptedPickle, "ready")
  BY PicklePaths DEF OutboundGroupSession_nativePickle,
                     OutboundGroupSession_nativeEncryptedPickle
<1>3. /\ Path("fresh", OutboundGroupSession_nativeUnpickle, "made")
      /\ Path("fresh", OutboundGroupSession_nativeEncryptedUnpickle, "made")
      /\ Path("fresh", OutboundGroupSession_nativeUnpickleLegacy, "made")
  BY UnpicklePaths
     DEF OutboundGroupSession_nativeUnpickle, Handles,
         OutboundGroupSession_nativeEncryptedUnpickle,
         OutboundGroupSession_nativeUnpickleLegacy
<1>4. Path("fresh", OutboundGroupSession_nativeNew, "made")
  <2>1. Path("fresh", SessionConfig, "fresh")
    BY ArgumentHelpers, EarlyStays DEF Refusable
  <2>2. Path("fresh", <<BoxToJlong("OutboundGroupSession")>>, "made")
    BY BoxToJlongStep DEF Handles
  <2> QED  BY <2>1, <2>2, Join DEF OutboundGroupSession_nativeNew
<1>5. Path("fresh", OutboundGroupSession_nativeEncrypt, "changed")
  <2>1. Path("fresh", <<CheckPtr, Jni, Advance>>, "changed")
    BY CommonSteps, Tuple3
  <2> QED  BY <2>1, ResultHelpers, QuietAfter
              DEF OutboundGroupSession_nativeEncrypt, Fallible
<1>6. \A m \in DOMAIN OutboundGroupSessionNatives \ {"nativeFree"} :
        \E p \in Final : Path("fresh", OutboundGroupSessionNatives[m], p)
  BY <1>1, <1>2, <1>3, <1>4, <1>5 DEF OutboundGroupSessionNatives, Final
<1>7. OutboundGroupSessionNatives["nativeFree"] = NativeFree
  BY DEF OutboundGroupSessionNatives, OutboundGroupSession_nativeFree
<1> QED  BY <1>6, <1>7, PlainClass DEF Classes, Natives

\* sas.rs
LEMMA SasSound ==
  \A m \in DOMAIN SasNatives : Sound("Sas", m, SasNatives[m])
<1> DEFINE N == SasNatives
<1>1. \A m : StartOf("Sas", m) =
         IF m = "nativeFree" THEN "closing"
         ELSE IF m = "nativeDiffieHellman" THEN "given" ELSE "fresh"
  BY DEF StartOf, Pairs, Consuming
<1>2. Path("fresh", Sas_nativeNew, "made")
  BY BoxToJlongStep DEF Sas_nativeNew, Handles
<1>3. Path("fresh", Sas_nativePublicKey, "ready")
  BY ResultHelpers, QuietIsEarly, GetterPath DEF Sas_nativePublicKey
<1>4. Path("given", Sas_nativeDiffieHellman, "handed")
  <2>1. Path("given", <<CheckPtr, FromRaw>>, "taken")
    BY CheckPtrStep, FromRawStep, Tuple2
  <2>2. Path("given", <<CheckPtr, FromRaw>> \o Decoded(Key), "taken")
    BY <2>1, ArgumentHelpers, Thrown, EarlyAfter DEF Refusable
  <2>3. /\ Path("taken", <<RawBoxNew("EstablishedSas")>>, "boxed")
        /\ Path("boxed", <<NewObject>>, "wrapped")
        /\ Path("wrapped", <<Leak>>, "handed")
    BY HandOverSteps DEF Handles
  <2>4. Path("taken", <<AdvanceOr(Key), RawBoxNew("EstablishedSas"), NewObject,
                        Leak>>, "handed")
    BY <2>3, CommonThrows, Thrown, Tuple4
  <2> QED  BY <2>2, <2>4, Join DEF Sas_nativeDiffieHellman
<1>5. \A m \in {"nativeNew", "nativePublicKey"} :
        \E p \in Final : Path("fresh", N[m], p)
  BY <1>2, <1>3 DEF SasNatives, Final
<1>6. \E p \in Final : Path("given", N["nativeDiffieHellman"], p)
  BY <1>4 DEF SasNatives, Final
<1>7. \E p \in Final : Path("closing", N["nativeFree"], p)
  BY NativeFreePath DEF SasNatives, Sas_nativeFree, Final
<1>8. DOMAIN N = {"nativeNew", "nativePublicKey", "nativeDiffieHellman",
                  "nativeFree"}
  BY DEF SasNatives
<1> HIDE DEF N
<1> QED  BY <1>1, <1>5, <1>6, <1>7, <1>8 DEF Sound, N

\* established_sas.rs
LEMMA EstablishedSasSound ==
  \A m \in DOMAIN EstablishedSasNatives :
    Sound("EstablishedSas", m, EstablishedSasNatives[m])
<1>1. /\ Path("fresh", EstablishedSas_nativeOurPublicKey, "ready")
      /\ Path("fresh", EstablishedSas_nativeTheirPublicKey, "ready")
  BY ResultHelpers, QuietIsEarly, GetterPath
     DEF EstablishedSas_nativeOurPublicKey, EstablishedSas_nativeTheirPublicKey
<1>2. Path("fresh", EstablishedSas_nativeBytes, "ready")
  <2>1. Path("fresh", <<CheckPtr, Jni, Read>>, "ready")
    BY CommonSteps, Tuple3
  <2> QED  BY <2>1, ResultHelpers, QuietAfter
              DEF EstablishedSas_nativeBytes, Fallible, Refusable
<1>3. Path("fresh", EstablishedSas_nativeBytesRaw, "ready")
  <2>1. Path("fresh", <<CheckPtr, Jni, Reject(Conversion), ReadOr(Sas)>>, "ready")
    BY CommonSteps, CommonThrows, Thrown, Tuple4
  <2> QED  BY <2>1, ResultHelpers, QuietAfter
              DEF EstablishedSas_nativeBytesRaw, Fallible, Refusable
<1>4. /\ Path("fresh", EstablishedSas_nativeCalculateMac, "ready")
      /\ Path("fresh", EstablishedSas_nativeCalculateMacInvalidBase64, "ready")
  <2>1. Path("fresh", <<CheckPtr, Jni, Jni, Read>>, "ready")
    BY CommonSteps, Tuple4
  <2> QED  BY <2>1, ResultHelpers, QuietAfter
              DEF EstablishedSas_nativeCalculateMac, Fallible, Refusable,
                  EstablishedSas_nativeCalculateMacInvalidBase64
<1>5. Path("fresh", EstablishedSas_nativeVerifyMac, "ready")
  <2>1. Path("fresh", <<CheckPtr, Jni, Jni>>, "ready")
    BY CommonSteps, Tuple3
  <2>2. Path("fresh", <<CheckPtr, Jni, Jni>> \o Decoded(Conversion), "ready")
    BY <2>1, ArgumentHelpers, Thrown, EarlyAfter DEF Refusable
  <2> QED  BY <2>2, CommonThrows, Thrown, Join
              DEF EstablishedSas_nativeVerifyMac
<1>6. \A m \in DOMAIN EstablishedSasNatives \ {"nativeFree"} :
        \E p \in Final : Path("fresh", EstablishedSasNatives[m], p)
  BY <1>1, <1>2, <1>3, <1>4, <1>5 DEF EstablishedSasNatives, Final
<1>7. EstablishedSasNatives["nativeFree"] = NativeFree
  BY DEF EstablishedSasNatives, EstablishedSas_nativeFree
<1> QED  BY <1>6, <1>7, PlainClass DEF Classes, Natives

\* ecies.rs
LEMMA EciesSound ==
  \A m \in DOMAIN EciesNatives : Sound("Ecies", m, EciesNatives[m])
<1> DEFINE N == EciesNatives
<1>1. \A m : StartOf("Ecies", m) =
         IF m = "nativeFree" THEN "closing"
         ELSE IF m \in {"nativeEstablishOutboundChannel",
                        "nativeEstablishInboundChannel"} THEN "lent" ELSE "fresh"
  BY DEF StartOf, Pairs, Consuming
<1>2. Path("fresh", <<BoxToJlong("Ecies")>>, "made")
  BY BoxToJlongStep DEF Handles
<1>3. /\ Path("fresh", Ecies_nativeNew, "made")
      /\ Path("fresh", Ecies_nativeWithInfo, "made")
  BY <1>2, CommonSteps, Tuple2 DEF Ecies_nativeNew, Ecies_nativeWithInfo
<1>4. Path("fresh", Ecies_nativePublicKey, "ready")
  BY ResultHelpers, QuietIsEarly, GetterPath DEF Ecies_nativePublicKey
<1>5. /\ Path("holding", <<Jni>>, "holding") /\ Path("boxed", <<Jni>>, "boxed")
      /\ Path("holding", <<FromRaw>>, "taken")
      /\ Path("taken", <<AdvanceOr(Ecies)>>, "taken")
      /\ Path("taken", <<RawBoxNew("EstablishedEcies")>>, "boxed")
      /\ Path("boxed", <<NewObject>>, "wrapped")
      /\ Path("wrapped", <<Leak>>, "handed")
  BY CommonSteps, FromRawStep, HandOverSteps, CommonThrows, Thrown DEF Handles
<1>6. Path("lent", Ecies_nativeEstablishOutboundChannel, "handed")
  <2>1. Path("lent", <<CheckPtr>> \o Decoded(Key), "holding")
    BY DecodedPaths, Thrown
  <2>2. Path("holding", <<Jni, FromRaw, AdvanceOr(Ecies),
                          RawBoxNew("EstablishedEcies"), Jni, NewObject, Leak>>,
             "handed")
    BY <1>5, Tuple7
  <2> QED  BY <2>1, <2>2, Join DEF Ecies_nativeEstablishOutboundChannel
<1>7. Path("lent", Ecies_nativeEstablishInboundChannel, "handed")
  <2>1. Path("lent", <<CheckPtr>> \o Decoded(Ecies), "holding")
    BY DecodedPaths, Thrown
  <2>2. Path("holding", <<FromRaw, AdvanceOr(Ecies),
                          RawBoxNew("EstablishedEcies"), Jni, NewObject, Leak>>,
             "handed")
    BY <1>5, Tuple6
  <2> QED  BY <2>1, <2>2, Join DEF Ecies_nativeEstablishInboundChannel
<1>8. \A m \in {"nativeNew", "nativeWithInfo", "nativePublicKey"} :
        \E p \in Final : Path("fresh", N[m], p)
  BY <1>3, <1>4 DEF EciesNatives, Final
<1>9. \A m \in {"nativeEstablishOutboundChannel",
                "nativeEstablishInboundChannel"} :
        \E p \in Final : Path("lent", N[m], p)
  BY <1>6, <1>7 DEF EciesNatives, Final
<1>10. \E p \in Final : Path("closing", N["nativeFree"], p)
  BY NativeFreePath DEF EciesNatives, Ecies_nativeFree, Final
<1>11. DOMAIN N = {"nativeNew", "nativeWithInfo", "nativePublicKey",
                   "nativeEstablishOutboundChannel",
                   "nativeEstablishInboundChannel", "nativeFree"}
  BY DEF EciesNatives
<1> HIDE DEF N
<1> QED  BY <1>1, <1>8, <1>9, <1>10, <1>11 DEF Sound, N

\* established_ecies.rs
LEMMA EstablishedEciesSound ==
  \A m \in DOMAIN EstablishedEciesNatives :
    Sound("EstablishedEcies", m, EstablishedEciesNatives[m])
<1>1. /\ Path("fresh", EstablishedEcies_nativePublicKey, "ready")
      /\ Path("fresh", EstablishedEcies_nativeCheckCode, "ready")
  BY ResultHelpers, QuietIsEarly, GetterPath
     DEF EstablishedEcies_nativePublicKey, EstablishedEcies_nativeCheckCode
<1>2. Path("fresh", EstablishedEcies_nativeEncrypt, "changed")
  <2>1. Path("fresh", <<CheckPtr, Jni, Advance>>, "changed")
    BY CommonSteps, Tuple3
  <2> QED  BY <2>1, ResultHelpers, QuietAfter
              DEF EstablishedEcies_nativeEncrypt, Fallible
<1>3. Path("fresh", EstablishedEcies_nativeDecrypt, "changed")
  <2>1. Path("fresh", <<CheckPtr>> \o Decoded(Ecies), "ready")
    BY DecodedPaths, Thrown
  <2>2. Path("ready", <<AdvanceOr(Ecies), Jni>>, "changed")
    BY CommonSteps, CommonThrows, Thrown, Tuple2
  <2> QED  BY <2>1, <2>2, Join DEF EstablishedEcies_nativeDecrypt
<1>4. \A m \in DOMAIN EstablishedEciesNatives \ {"nativeFree"} :
        \E p \in Final : Path("fresh", EstablishedEciesNatives[m], p)
  BY <1>1, <1>2, <1>3 DEF EstablishedEciesNatives, Final
<1>5. EstablishedEciesNatives["nativeFree"] = NativeFree
  BY DEF EstablishedEciesNatives, EstablishedEcies_nativeFree
<1> QED  BY <1>4, <1>5, PlainClass DEF Classes, Natives

\* encryption.rs
LEMMA PkEncryptionSound ==
  \A m \in DOMAIN PkEncryptionNatives :
    Sound("PkEncryption", m, PkEncryptionNatives[m])
<1>1. Path("fresh", PkEncryption_nativeFromKey, "made")
  <2>1. Path("fresh", <<BoxToJlong("PkEncryption")>>, "made")
    BY BoxToJlongStep DEF Handles
  <2> QED  BY <2>1, DecodedPaths, Thrown, Join DEF PkEncryption_nativeFromKey
<1>2. Path("fresh", PkEncryption_nativeEncrypt, "ready")
  <2>1. Path("fresh", <<CheckPtr, Jni, ReadOr(Encryption)>>, "ready")
    BY CommonSteps, CommonThrows, Thrown, Tuple3
  <2> QED  BY <2>1, ResultHelpers, QuietAfter
              DEF PkEncryption_nativeEncrypt, Fallible, Refusable
<1>3. \A m \in DOMAIN PkEncryptionNatives \ {"nativeFree"} :
        \E p \in Final : Path("fresh", PkEncryptionNatives[m], p)
  BY <1>1, <1>2 DEF PkEncryptionNatives, Final
<1>4. PkEncryptionNatives["nativeFree"] = NativeFree
  BY DEF PkEncryptionNatives, PkEncryption_nativeFree
<1> QED  BY <1>3, <1>4, PlainClass DEF Classes, Natives

\* decryption.rs
LEMMA PkDecryptionSound ==
  \A m \in DOMAIN PkDecryptionNatives :
    Sound("PkDecryption", m, PkDecryptionNatives[m])
<1>1. /\ Path("fresh", PkDecryption_nativeSecretKey, "ready")
      /\ Path("fresh", PkDecryption_nativePublicKey, "ready")
  BY ResultHelpers, QuietIsEarly, GetterPath
     DEF PkDecryption_nativeSecretKey, PkDecryption_nativePublicKey
<1>2. Path("fresh", PkDecryption_nativePickleLegacy, "ready")
  BY PicklePaths DEF PkDecryption_nativePickleLegacy
<1>3. /\ Path("fresh", PkDecryption_nativeNew, "made")
      /\ Path("fresh", PkDecryption_nativeUnpickleLegacy, "made")
  BY UnpicklePaths
     DEF PkDecryption_nativeNew, PkDecryption_nativeUnpickleLegacy, Handles
<1>4. Path("fresh", PkDecryption_nativeFromKey, "made")
  <2>1. Path("fresh", <<BoxToJlong("PkDecryption")>>, "made")
    BY BoxToJlongStep DEF Handles
  <2>2. Path("fresh", <<Reject(Conversion), BoxToJlong("PkDecryption")>>, "made")
    BY <2>1, CommonThrows, Thrown, Tuple2
  <2> QED  BY <2>2, DecodedPaths, Thrown, Join DEF PkDecryption_nativeFromKey
<1>5. Path("fresh", PkDecryption_nativeDecrypt, "ready")
  <2>1. Path("fresh", <<CheckPtr>> \o Decoded(Conversion), "ready")
    BY DecodedPaths, Thrown
  <2>2. Path("fresh", <<CheckPtr>> \o Decoded(Conversion)
                        \o Decoded(Conversion), "ready")
    BY <2>1, ArgumentHelpers, Thrown, EarlyAfter DEF Refusable
  <2>3. Path("fresh", <<CheckPtr>> \o Decoded(Conversion)
                        \o Decoded(Conversion) \o Decoded(Key), "ready")
    BY <2>2, ArgumentHelpers, Thrown, EarlyAfter DEF Refusable
  <2>4. Path("ready", <<ReadOr(Decryption), Jni>>, "ready")
    BY CommonSteps, CommonThrows, Thrown, Tuple2
  <2> QED  BY <2>3, <2>4, Join DEF PkDecryption_nativeDecrypt
<1>6. \A m \in DOMAIN PkDecryptionNatives \ {"nativeFree"} :
        \E p \in Final : Path("fresh", PkDecryptionNatives[m], p)
  BY <1>1, <1>2, <1>3, <1>4, <1>5 DEF PkDecryptionNatives, Final
<1>7. PkDecryptionNatives["nativeFree"] = NativeFree
  BY DEF PkDecryptionNatives, PkDecryption_nativeFree
<1> QED  BY <1>6, <1>7, PlainClass DEF Classes, Natives

\* keypair.rs
LEMMA Ed25519KeyPairSound ==
  \A m \in DOMAIN Ed25519KeyPairNatives :
    Sound("Ed25519KeyPair", m, Ed25519KeyPairNatives[m])
<1>1. Path("fresh", <<BoxToJlong("Ed25519KeyPair")>>, "made")
  BY BoxToJlongStep DEF Handles
<1>2. Path("fresh", Ed25519KeyPair_nativePublicKey, "ready")
  BY ResultHelpers, QuietIsEarly, GetterPath
     DEF Ed25519KeyPair_nativePublicKey
<1>3. Path("fresh", Ed25519KeyPair_nativeSign, "ready")
  <2>1. Path("fresh", <<CheckPtr, Jni, Read>>, "ready")
    BY CommonSteps, Tuple3
  <2> QED  BY <2>1, ResultHelpers, QuietAfter
              DEF Ed25519KeyPair_nativeSign, Fallible, Refusable
<1>4. Path("fresh", Ed25519KeyPair_nativeUnpickle, "made")
  <2>1. Path("fresh", FromJson, "fresh")
    BY ArgumentHelpers, EarlyStays DEF Refusable
  <2> QED  BY <1>1, <2>1, Join DEF Ed25519KeyPair_nativeUnpickle
<1>5. \A m \in DOMAIN Ed25519KeyPairNatives \ {"nativeFree"} :
        \E p \in Final : Path("fresh", Ed25519KeyPairNatives[m], p)
  BY <1>1, <1>2, <1>3, <1>4, PicklePaths
     DEF Ed25519KeyPairNatives, Ed25519KeyPair_nativeNew,
         Ed25519KeyPair_nativePickle, Final
<1>6. Ed25519KeyPairNatives["nativeFree"] = NativeFree
  BY DEF Ed25519KeyPairNatives, Ed25519KeyPair_nativeFree
<1> QED  BY <1>5, <1>6, PlainClass DEF Classes, Natives

\* message.rs, types/mod.rs, utils/mod.rs: the methods without a receiver.
LEMMA StaticSound ==
  /\ \A m \in DOMAIN MegolmMessageNatives :
       Sound("MegolmMessage", m, MegolmMessageNatives[m])
  /\ \A m \in DOMAIN Ed25519PublicKeyNatives :
       Sound("Ed25519PublicKey", m, Ed25519PublicKeyNatives[m])
  /\ \A m \in DOMAIN Ed25519SignatureNatives :
       Sound("Ed25519Signature", m, Ed25519SignatureNatives[m])
  /\ \A m \in DOMAIN Curve25519PublicKeyNatives :
       Sound("Curve25519PublicKey", m, Curve25519PublicKeyNatives[m])
  /\ \A m \in DOMAIN VodozemacNatives :
       Sound("Vodozemac", m, VodozemacNatives[m])
<1>1. \A E \in SUBSET Typed : Path("fresh", Decoded(E), "fresh")
  BY DecodedPaths
<1>2. \A m \in DOMAIN MegolmMessageNatives :
        Path("fresh", MegolmMessageNatives[m], "fresh")
  <2>1. Path("fresh", MegolmMessage_nativeFromBase64, "fresh")
    BY <1>1, Thrown, ResultHelpers, QuietAfter
       DEF MegolmMessage_nativeFromBase64, Fallible, Refusable
  <2> QED  BY <2>1 DEF MegolmMessageNatives
<1>3. \A m \in DOMAIN Ed25519PublicKeyNatives :
        Path("fresh", Ed25519PublicKeyNatives[m], "fresh")
  <2>1. Path("fresh", Ed25519PublicKey_nativeVerify, "fresh")
    BY CommonSteps, CommonThrows, Thrown, Tuple5
       DEF Ed25519PublicKey_nativeVerify
  <2> QED  BY <1>1, <2>1, Thrown
              DEF Ed25519PublicKeyNatives, Ed25519PublicKey_nativeValidate
<1>4. /\ Path("fresh", Ed25519Signature_nativeValidate, "noted")
      /\ Path("fresh", Curve25519PublicKey_nativeValidate, "noted")
  BY CommonSteps, NoteStep, Thrown, Tuple2
     DEF Ed25519Signature_nativeValidate, Curve25519PublicKey_nativeValidate
<1>5. /\ Path("fresh", Vodozemac_nativeBase64Encode, "fresh")
      /\ Path("fresh", Vodozemac_nativeBase64Decode, "fresh")
      /\ Path("fresh", Vodozemac_nativeVersion, "fresh")
  BY <1>1, Thrown, CommonSteps, ResultHelpers, QuietAfter, Join
     DEF Vodozemac_nativeBase64Encode, Vodozemac_nativeBase64Decode,
         Vodozemac_nativeVersion, Fallible, Refusable
<1>6. /\ \A m \in DOMAIN Ed25519SignatureNatives :
           Path("fresh", Ed25519SignatureNatives[m], "noted")
      /\ \A m \in DOMAIN Curve25519PublicKeyNatives :
           Path("fresh", Curve25519PublicKeyNatives[m], "noted")
      /\ \A m \in DOMAIN VodozemacNatives :
           Path("fresh", VodozemacNatives[m], "fresh")
  BY <1>4, <1>5
     DEF Ed25519SignatureNatives, Curve25519PublicKeyNatives, VodozemacNatives
<1>7. /\ "nativeFree" \notin DOMAIN MegolmMessageNatives
      /\ "nativeFree" \notin DOMAIN Ed25519PublicKeyNatives
      /\ "nativeFree" \notin DOMAIN Ed25519SignatureNatives
      /\ "nativeFree" \notin DOMAIN Curve25519PublicKeyNatives
      /\ "nativeFree" \notin DOMAIN VodozemacNatives
  BY DEF MegolmMessageNatives, Ed25519PublicKeyNatives, VodozemacNatives,
         Ed25519SignatureNatives, Curve25519PublicKeyNatives
<1>8. {"MegolmMessage", "Ed25519PublicKey", "Ed25519Signature",
       "Curve25519PublicKey", "Vodozemac"}
        \subseteq Classes \ {"InboundGroupSession", "Sas", "Ecies"}
  BY DEF Classes, Natives
<1>9. "fresh" \in Final /\ "noted" \in Final
  BY DEF Final
<1>10. \A m \in DOMAIN MegolmMessageNatives :
         Sound("MegolmMessage", m, MegolmMessageNatives[m])
  BY <1>2, <1>7, <1>8, <1>9, PlainClass
<1>11. \A m \in DOMAIN Ed25519PublicKeyNatives :
         Sound("Ed25519PublicKey", m, Ed25519PublicKeyNatives[m])
  BY <1>3, <1>7, <1>8, <1>9, PlainClass
<1>12. \A m \in DOMAIN Ed25519SignatureNatives :
         Sound("Ed25519Signature", m, Ed25519SignatureNatives[m])
  BY <1>6, <1>7, <1>8, <1>9, PlainClass
<1>13. \A m \in DOMAIN Curve25519PublicKeyNatives :
         Sound("Curve25519PublicKey", m, Curve25519PublicKeyNatives[m])
  BY <1>6, <1>7, <1>8, <1>9, PlainClass
<1>14. \A m \in DOMAIN VodozemacNatives :
         Sound("Vodozemac", m, VodozemacNatives[m])
  BY <1>6, <1>7, <1>8, <1>9, PlainClass
<1> QED  BY <1>10, <1>11, <1>12, <1>13, <1>14

\* Every exported function keeps to the protocol of the places.
THEOREM EveryMethodIsSound ==
  \A c \in Classes : \A m \in DOMAIN Natives[c] : Sound(c, m, Natives[c][m])
BY AccountSound, OlmSessionSound, InboundGroupSessionSound,
   OutboundGroupSessionSound, SasSound, EstablishedSasSound, EciesSound,
   EstablishedEciesSound, PkEncryptionSound, PkDecryptionSound,
   Ed25519KeyPairSound, StaticSound
   DEF Classes, Natives

(***************************************************************************)
(* The inductive invariant.                                                *)
(***************************************************************************)

\* The rest of the closure keeps to the protocol from place p on.
Onward(s, n, p) ==
  /\ s \in Seq(Steps)
  /\ \E q \in [1..(Len(s) + 1) -> Places] :
       /\ q[n] = p /\ q[Len(s) + 1] \in Final
       /\ \A i \in n..Len(s) : Fits(s[i], q[i], q[i + 1])

\* The closure owns what it has taken back and what it has made.
Dropped == \A x \in rust : GiveUp(x) \/ x = made

\* Nothing has failed unless the method goes on after a failure.
Seen(p) ==
  /\ failed <=> pending # "none"
  /\ failed => p \in {"noted", "freed"}

\* The operands are objects of the class, and those that have to be checked
\* at p have been.
Checked(p) ==
  /\ p # "freed" =>
       \A x \in {call.recv, call.other} \ {NULL} : heap[x] = call.class
  /\ p \in {"selfptr", "held", "holding", "ready", "changed", "taken"} =>
       call.recv # NULL
  /\ p \in {"self", "selfptr"} => call.recv # call.other
  /\ p \in {"ready", "changed"} /\ Id \in Pairs =>
       call.other \notin {NULL, call.recv}
  /\ p = "fresh" => Id \notin Pairs
  /\ p = "closing" => Id \notin Consuming
  /\ p \in {"given", "held", "lent", "holding", "taken"} => Id \in Consuming

\* The receiver of a consuming method is dropped with the closure. Only an
\* Ecies is left behind, by a call that fails before it takes the box.
GivenUp == \A x \in Objs : GiveUp(x) => x \in rust \/ heap[x] = "Ecies"

\* What the closure has made, and who has it.
Boxes(p) ==
  /\ p \notin {"taken", "boxed", "wrapped", "handed"} => rust = {}
  /\ p \notin {"boxed", "wrapped", "handed", "made"} => made = NULL
  /\ p \in {"boxed", "wrapped"} => made \in rust
  /\ p \in {"handed", "made"} => made \in Objs \ rust
  /\ p \in {"boxed", "wrapped", "handed"} => ~GiveUp(made)
  /\ p = "boxed" => java[made] = NULL
  /\ p = "wrapped" => java[made] = heap[made]
  /\ p = "made" => Has(steps, {"box_to_jlong"})
  /\ p = "closing" /\ call.recv # NULL => java[call.recv] = NULL
  /\ p \notin {"given", "held"} => GivenUp

\* Every object has an owner: a handle, the closure, or the step at p.
Owners(p) ==
  \A x \in Objs : heap[x] \notin {NULL, "Ecies"} =>
    \/ java[x] = heap[x]
    \/ x \in rust
    \/ p = "made" /\ x = made
    \/ p = "closing" /\ x = call.recv

\* The call has not changed the receiver.
Steady(p) == p \in Untouched => ~advanced

\* A running call at place p ...
At(p) == Seen(p) /\ Checked(p) /\ Boxes(p) /\ Owners(p) /\ Steady(p)

\* ... a call with an Err ...
Failing ==
  /\ failed /\ GivenUp /\ Owners("failed")
  /\ \A x \in rust : GiveUp(x) \/ java[x] = NULL
  /\ pending \in Refusals => \/ Id \in Consuming
                             \/ call.class = "EstablishedEcies"
                             \/ ~advanced

\* ... and no call.
Returned ==
  /\ rust = {} /\ Owners("returned")
  /\ EveryFailureIsSeen /\ RejectedMeansUnchanged

Inv ==
  /\ TypeOK /\ HandlesAreLive /\ Dropped
  /\ phase = "run" => \E p \in Places : Onward(steps, at, p) /\ At(p)
  /\ phase = "failed" => Failing
  /\ phase = "returned" => Returned

\* A sound method can be run from its start.
LEMMA Begin ==
  ASSUME NEW c, NEW m, NEW s, Sound(c, m, s)
  PROVE  Onward(s, 1, StartOf(c, m))
<1>1. PICK z \in Final : Path(StartOf(c, m), s, z)
  BY DEF Sound
<1>2. PICK q \in [1..(Len(s) + 1) -> Places] :
        /\ q[1] = StartOf(c, m) /\ q[Len(s) + 1] = z
        /\ \A i \in 1..Len(s) : Fits(s[i], q[i], q[i + 1])
  BY <1>1 DEF Path
<1> QED  BY <1>1, <1>2 DEF Path, Onward

\* Its next step fits the place it is at.
LEMMA StepFits ==
  ASSUME NEW s, NEW n \in Nat \ {0}, NEW p, Onward(s, n, p), n <= Len(s)
  PROVE  \E r \in Places : Fits(s[n], p, r) /\ Onward(s, n + 1, r)
<1>1. s \in Seq(Steps) /\ Len(s) \in Nat
  BY DEF Onward
<1>2. PICK q \in [1..(Len(s) + 1) -> Places] :
        /\ q[n] = p /\ q[Len(s) + 1] \in Final
        /\ \A i \in n..Len(s) : Fits(s[i], q[i], q[i + 1])
  BY DEF Onward
<1>3. q[n + 1] \in Places /\ Fits(s[n], p, q[n + 1])
  BY <1>1, <1>2
<1>4. \A i \in (n + 1)..Len(s) : Fits(s[i], q[i], q[i + 1])
  <2>1. (n + 1)..Len(s) \subseteq n..Len(s)
    BY <1>1
  <2> QED  BY <1>2, <2>1
<1>5. Onward(s, n + 1, q[n + 1])
  BY <1>1, <1>2, <1>4 DEF Onward
<1> QED  BY <1>3, <1>5

\* After its last step it may return, and where there is nothing to return
\* it may do so at once.
LEMMA Ends ==
  ASSUME NEW s, NEW p
  PROVE  /\ Onward(s, Len(s) + 1, p) => p \in Final
         /\ s \in Seq(Steps) /\ p \in {"ready", "changed"}
              => Onward(s, Len(s) + 1, p)
<1>1. Onward(s, Len(s) + 1, p) => p \in Final
  BY DEF Onward
<1>2. ASSUME s \in Seq(Steps), p \in {"ready", "changed"}
      PROVE  Onward(s, Len(s) + 1, p)
  <2> DEFINE q == [i \in 1..(Len(s) + 1) |-> p]
  <2>1. Len(s) \in Nat /\ p \in Places /\ p \in Final
    BY <1>2 DEF Places, Final
  <2>2. q \in [1..(Len(s) + 1) -> Places] /\ q[Len(s) + 1] = p
    BY <2>1
  <2>3. (Len(s) + 1)..Len(s) = {}
    BY <2>1
  <2> QED  BY <1>2, <2>1, <2>2, <2>3 DEF Onward
<1> QED  BY <1>1, <1>2

\* What a step finds, and where it leads.
LEMMA StepFound ==
  ASSUME Inv, NEW o, Running(o)
  PROVE  /\ at + 1 \in 1..(Len(steps) + 1) /\ at + 1 # at
         /\ step.op = o /\ phase = "run" /\ steps \in Seq(Steps)
         /\ \E p \in Places, r \in Places :
              /\ At(p) /\ Fits(step, p, r) /\ Onward(steps, at + 1, r)
<1>1. at \in 1..(Len(steps) + 1) /\ at <= Len(steps) /\ step.op = o /\ phase = "run"
  BY DEF Inv, TypeOK, Running
<1>2. PICK p \in Places : Onward(steps, at, p) /\ At(p)
  BY <1>1 DEF Inv
<1>3. steps \in Seq(Steps) /\ Len(steps) \in Nat
  BY <1>2 DEF Onward
<1>4. at \in Nat \ {0} /\ at + 1 \in 1..(Len(steps) + 1) /\ at + 1 # at
  BY <1>1, <1>3
<1>5. \E r \in Places : Fits(steps[at], p, r) /\ Onward(steps, at + 1, r)
  BY <1>1, <1>2, <1>4, StepFits
<1> QED  BY <1>1, <1>2, <1>3, <1>4, <1>5 DEF step

\* A step that goes on and changes nothing.
LEMMA GoesOn ==
  ASSUME Inv, phase = "run", NEW r \in Places, Onward(steps, at', r), At(r),
         at' \in 1..(Len(steps) + 1),
         UNCHANGED <<phase, pending, err, failed, Owned, call, advanced>>
  PROVE  Inv'
<1>1. steps' = steps
  BY DEF steps
<1>2. TypeOK'
  BY <1>1 DEF Inv, TypeOK, Owned
<1>3. HandlesAreLive' /\ Dropped'
  BY DEF Inv, HandlesAreLive, Dropped, Owned, GiveUp, Id
<1>4. At(r)'
  BY <1>1 DEF At, Seen, Checked, Boxes, Owners, Steady, GivenUp, GiveUp, Id,
              Has, Owned
<1>5. Onward(steps, at, r)'
  BY <1>1
<1> QED  BY <1>2, <1>3, <1>4, <1>5 DEF Inv

\* A step that ends the closure with an Err.
LEMMA Fails ==
  ASSUME Inv, phase = "run", NEW p \in Places, At(p),
         \/ p \in Fallible \cup {"pair", "self", "selfptr"}
         \/ p = "given" /\ call.recv = NULL,
         phase' = "failed", failed' = TRUE, at' = at,
         UNCHANGED <<Owned, call>>, advanced' \in BOOLEAN,
         pending' \in Exceptions \cup {"none"},
         err' \in {"none", "JavaException", "Other"},
         pending' \in Refusals => \/ Id \in Consuming
                                  \/ call.class = "EstablishedEcies"
                                  \/ ~advanced'
  PROVE  Inv'
<1>1. steps' = steps /\ Id' = Id
  BY DEF steps, Id
<1>2. TypeOK'
  BY <1>1 DEF Inv, TypeOK, Owned
<1>3. HandlesAreLive' /\ Dropped'
  BY <1>1 DEF Inv, HandlesAreLive, Dropped, Owned, GiveUp
<1>4. Owners("failed")'
  BY DEF At, Owners, Owned, Fallible, Refusable
<1>5. GivenUp'
  <2>1. GivenUp
    <3>1. CASE p = "given" /\ call.recv = NULL
      BY <3>1, NullAssumption DEF GivenUp, GiveUp
    <3>2. CASE p # "given"
      BY <3>2 DEF At, Boxes, Fallible, Refusable
    <3> QED  BY <3>1, <3>2 DEF Fallible, Refusable
  <2> QED  BY <1>1, <2>1 DEF GivenUp, GiveUp, Owned
<1>6. \A x \in rust' : GiveUp(x)' \/ java'[x] = NULL
  <2>1. ASSUME NEW x \in rust PROVE GiveUp(x) \/ java[x] = NULL
    <3>1. x \in Objs /\ x # NULL
      BY NullAssumption DEF Inv, TypeOK
    <3>2. GiveUp(x) \/ x = made
      BY DEF Inv, Dropped
    <3>3. x = made => p = "boxed"
      BY <3>1 DEF At, Boxes, Fallible, Refusable
    <3> QED  BY <3>2, <3>3 DEF At, Boxes
  <2> QED  BY <1>1, <2>1 DEF GiveUp, Owned
<1> QED  BY <1>1, <1>2, <1>3, <1>4, <1>5, <1>6 DEF Inv, Failing

(***************************************************************************)
(* One lemma for each action.                                              *)
(***************************************************************************)

\* A step that throws where a refusal is allowed, or throws none.
LEMMA Throws ==
  ASSUME Inv, phase = "run", NEW p \in Places, At(p),
         \/ p \in Fallible \cup {"pair", "self", "selfptr"}
         \/ p = "given" /\ call.recv = NULL,
         NEW E \in SUBSET Typed, ThrowErr(E),
         UNCHANGED <<Owned, call>>, advanced' \in BOOLEAN,
         E \cap Refusals # {} => \/ Id \in Consuming
                                 \/ call.class = "EstablishedEcies"
                                 \/ ~advanced'
  PROVE  Inv'
<1>1. pending' \in E \cup {"JavaError"}
  BY DEF ThrowErr, Throw
<1>2. pending' \in Exceptions \cup {"none"}
  BY <1>1 DEF Exceptions
<1>3. "JavaError" \notin Refusals
  BY DEF Refusals, Typed
<1>4. pending' \in Refusals => E \cap Refusals # {}
  BY <1>1, <1>3
<1>5. /\ phase' = "failed" /\ failed' = TRUE /\ at' = at
      /\ err' \in {"none", "JavaException", "Other"}
  BY DEF ThrowErr, Throw
<1> QED  BY <1>2, <1>4, <1>5, Fails

\* A panic of the crate, and an error of jni, is no refusal.
LEMMA Panics ==
  ASSUME Inv, phase = "run", NEW p \in Places, At(p), p \in Fallible,
         Panic \/ JniErr, UNCHANGED <<Owned, call>>, advanced' \in BOOLEAN
  PROVE  Inv'
<1>1. CASE Panic
  <2>1. Conversion \in SUBSET Typed /\ Conversion \cap Refusals = {}
    BY Thrown DEF Refusals
  <2> QED  BY <1>1, <2>1, Throws DEF Panic
<1>2. CASE JniErr
  <2>1. p \notin {"noted", "freed"}
    BY DEF Fallible, Refusable
  <2>2. pending = "none"
    BY <2>1 DEF At, Seen, Inv, TypeOK
  <2>3. pending' \in {"JavaError", "none"}
    BY <1>2, <2>2 DEF JniErr
  <2>4. "JavaError" \notin Refusals /\ "none" \notin Refusals
    BY DEF Refusals, Typed
  <2>5. /\ phase' = "failed" /\ failed' = TRUE /\ at' = at
        /\ err' \in {"none", "JavaException", "Other"}
    BY <1>2 DEF JniErr
  <2> QED  BY <2>3, <2>4, <2>5, Fails DEF Exceptions
<1> QED  BY <1>1, <1>2

\* A call starts.
LEMMA CallKeepsInv ==
  ASSUME Inv, NEW c \in Classes, NEW m \in DOMAIN Natives[c], Call(c, m)
  PROVE  Inv'
<1> DEFINE s == Natives[c][m]
<1>1. PICK r \in IF TakesReceiver(c, m) THEN Operands(c) ELSE {NULL},
           o \in IF <<c, m>> \in Pairs THEN Operands(c) ELSE {NULL} :
        /\ call' = [class |-> c, method |-> m, recv |-> r, other |-> o]
        /\ java' = [x \in Objs |->
                      IF m = "nativeFree" /\ x = r THEN NULL ELSE java[x]]
  BY DEF Call
<1>2. /\ phase = "returned" /\ at' = 1 /\ phase' = "run" /\ made' = NULL
      /\ pending' = "none" /\ err' = "none" /\ advanced' = FALSE
      /\ failed' = FALSE /\ heap' = heap /\ rust' = rust
  BY DEF Call
<1>3. steps' = s /\ Id' = <<c, m>>
  BY <1>1 DEF steps, Id
<1>4. Onward(s, 1, StartOf(c, m)) /\ s \in Seq(Steps) /\ Len(s) \in Nat
  BY EveryMethodIsSound, Begin DEF Onward
<1>5. r \in Objs \cup {NULL} /\ o \in Objs \cup {NULL}
  BY DEF Operands
<1>6. TypeOK /\ HandlesAreLive /\ rust = {} /\ Owners("returned")
  BY <1>2 DEF Inv, Returned
<1>7. TypeOK'
  <2>1. java' \in [Objs -> Handles \cup {NULL}]
    BY <1>1, <1>6 DEF TypeOK
  <2>2. /\ call'.class = c /\ call'.method = m
        /\ call'.recv = r /\ call'.other = o
    BY <1>1
  <2>3. at' \in 1..(Len(s) + 1)
    BY <1>2, <1>4
  <2> QED  BY <1>2, <1>3, <1>5, <1>6, <2>1, <2>2, <2>3 DEF TypeOK
<1>8. HandlesAreLive' /\ Dropped'
  BY <1>1, <1>2, <1>6 DEF HandlesAreLive, Dropped
<1> DEFINE p == StartOf(c, m)
<1>9. /\ p \in {"closing", "pair", "given", "lent", "fresh"}
      /\ p = "closing" <=> m = "nativeFree"
      /\ p = "fresh" => <<c, m>> \notin Pairs
      /\ p \in {"given", "lent"} => <<c, m>> \in Consuming
      /\ p = "lent" => c # "Sas"
      /\ p \in {"closing", "pair", "fresh"} => <<c, m>> \notin Consuming
  BY DEF StartOf, Pairs, Consuming
<1> HIDE DEF p
<1>10. \A x \in {r, o} \ {NULL} : heap[x] = c
  BY <1>5, <1>6, NullAssumption DEF Operands, HandlesAreLive
<1>11. Seen(p)' /\ Steady(p)'
  BY <1>2 DEF Seen, Steady
<1>12. Checked(p)'
  BY <1>1, <1>2, <1>3, <1>9, <1>10 DEF Checked
<1>13. Boxes(p)'
  <2>1. GivenUp' \/ p = "given"
    <3>1. CASE p = "lent"
      <4>1. c = "Ecies"
        BY <1>9, <3>1 DEF Consuming
      <4> QED  BY <1>1, <1>2, <1>3, <1>10, <4>1, NullAssumption
               DEF GivenUp, GiveUp
    <3>2. CASE p \in {"closing", "pair", "fresh"}
      BY <1>3, <1>9, <3>2 DEF GivenUp, GiveUp
    <3> QED  BY <1>9, <3>1, <3>2
  <2>2. p = "closing" /\ r # NULL => java'[r] = NULL
    BY <1>1, <1>5, <1>9
  <2> QED  BY <1>1, <1>2, <1>6, <1>9, <2>1, <2>2 DEF Boxes
<1>14. Owners(p)'
  BY <1>1, <1>2, <1>6, <1>9 DEF Owners
<1>15. p \in Places
  BY <1>9 DEF Places
<1> QED  BY <1>2, <1>3, <1>4, <1>7, <1>8, <1>11, <1>12, <1>13, <1>14, <1>15
         DEF Inv, At, p

\* A pointer is checked.
LEMMA CheckKeepsInv ==
  ASSUME Inv, Check
  PROVE  Inv'
<1>1. UNCHANGED <<Owned, call, advanced>>
  BY DEF Check
<1>2. advanced' \in BOOLEAN /\ Conversion \in SUBSET Typed
        /\ Conversion \cap Refusals = {}
  BY <1>1, Thrown DEF Inv, TypeOK, Refusals
<1>3. CASE Running("check_ptr")
  <2>1. PICK p \in Places, r \in Places :
          /\ At(p) /\ Fits(step, p, r) /\ Onward(steps, at + 1, r)
    BY <1>3, StepFound
  <2>2. /\ step.op = "check_ptr" /\ phase = "run"
        /\ at + 1 \in 1..(Len(steps) + 1)
    BY <1>3, StepFound
  <2>3. <<p, r>> \in {<<"fresh", "ready">>, <<"self", "selfptr">>,
                      <<"given", "held">>, <<"lent", "holding">>}
    BY <2>1, <2>2 DEF Fits, Leads
  <2>4. IF call.recv = NULL THEN ThrowErr(Conversion) ELSE Continue
    BY <2>2 DEF Check, Running
  <2>5. CASE call.recv = NULL
    BY <1>1, <1>2, <2>1, <2>2, <2>3, <2>4, <2>5, Throws DEF Fallible, Refusable
  <2>6. CASE call.recv # NULL
    <3>1. At(r)
      BY <2>1, <2>3, <2>6 DEF At, Seen, Checked, Boxes, Owners, Steady, Untouched
    <3> QED  BY <1>1, <2>1, <2>2, <2>4, <2>6, <3>1, GoesOn DEF Continue
  <2> QED  BY <2>5, <2>6
<1>4. CASE Running("check_other")
  <2>1. PICK p \in Places, r \in Places :
          /\ At(p) /\ Fits(step, p, r) /\ Onward(steps, at + 1, r)
    BY <1>4, StepFound
  <2>2. /\ step.op = "check_other" /\ phase = "run"
        /\ at + 1 \in 1..(Len(steps) + 1)
    BY <1>4, StepFound
  <2>3. p = "selfptr" /\ r = "ready"
    BY <2>1, <2>2 DEF Fits, Leads
  <2>4. IF call.other = NULL THEN ThrowErr(Conversion) ELSE Continue
    BY <2>2 DEF Check, Running
  <2>5. CASE call.other = NULL
    BY <1>1, <1>2, <2>1, <2>2, <2>3, <2>4, <2>5, Throws
  <2>6. CASE call.other # NULL
    <3>1. At(r)
      BY <2>1, <2>3, <2>6 DEF At, Seen, Checked, Boxes, Owners, Steady, Untouched
    <3> QED  BY <1>1, <2>1, <2>2, <2>4, <2>6, <3>1, GoesOn DEF Continue
  <2> QED  BY <2>5, <2>6
<1>5. CASE Running("check_self")
  <2>1. PICK p \in Places, r \in Places :
          /\ At(p) /\ Fits(step, p, r) /\ Onward(steps, at + 1, r)
    BY <1>5, StepFound
  <2>2. /\ step.op = "check_self" /\ phase = "run"
        /\ at + 1 \in 1..(Len(steps) + 1)
    BY <1>5, StepFound
  <2>3. p = "pair" /\ r = "self"
    BY <2>1, <2>2 DEF Fits, Leads
  <2>4. IF call.recv = call.other THEN ThrowErr(Conversion) ELSE Continue
    BY <2>2 DEF Check, Running
  <2>5. CASE call.recv = call.other
    BY <1>1, <1>2, <2>1, <2>2, <2>3, <2>4, <2>5, Throws
  <2>6. CASE call.recv # call.other
    <3>1. At(r)
      BY <2>1, <2>3, <2>6 DEF At, Seen, Checked, Boxes, Owners, Steady, Untouched
    <3> QED  BY <1>1, <2>1, <2>2, <2>4, <2>6, <3>1, GoesOn DEF Continue
  <2> QED  BY <2>5, <2>6
<1> QED  BY <1>3, <1>4, <1>5 DEF Check

\* A call into the JVM.
LEMMA CallJvmKeepsInv ==
  ASSUME Inv, CallJvm
  PROVE  Inv'
<1>1. PICK p \in Places, r \in Places :
        /\ At(p) /\ Fits(step, p, r) /\ Onward(steps, at + 1, r)
  BY StepFound DEF CallJvm
<1>2. step.op = "jni" /\ phase = "run" /\ at + 1 \in 1..(Len(steps) + 1)
  BY StepFound DEF CallJvm
<1>3. p \in Fallible /\ r = p
  BY <1>1, <1>2 DEF Fits, Leads
<1>4. UNCHANGED <<Owned, call, advanced>> /\ advanced' \in BOOLEAN
  BY DEF CallJvm, Inv, TypeOK
<1>5. CASE Continue
  BY <1>1, <1>2, <1>3, <1>4, <1>5, GoesOn DEF Continue
<1>6. CASE JniErr
  BY <1>1, <1>2, <1>3, <1>4, <1>6, Panics
<1>7. CASE ThrowErr(step.exc)
  <2>1. step.exc \in SUBSET Typed
    BY <1>1 DEF Fits, Steps
  <2>2. step.exc \cap Refusals # {} => Id \in Consuming \/ ~advanced'
    BY <1>1, <1>4 DEF Fits, At, Checked, Steady, Refusable, Untouched
  <2> QED  BY <1>1, <1>2, <1>3, <1>4, <1>7, <2>1, <2>2, Throws
<1> QED  BY <1>5, <1>6, <1>7 DEF CallJvm

\* An argument is decoded.
LEMMA DecodeKeepsInv ==
  ASSUME Inv, Decode
  PROVE  Inv'
<1>1. PICK p \in Places, r \in Places :
        /\ At(p) /\ Fits(step, p, r) /\ Onward(steps, at + 1, r)
  BY StepFound DEF Decode
<1>2. step.op = "reject" /\ phase = "run" /\ at + 1 \in 1..(Len(steps) + 1)
  BY StepFound DEF Decode
<1>3. p \in Fallible /\ r = p
  BY <1>1, <1>2 DEF Fits, Leads
<1>4. UNCHANGED <<Owned, call, advanced>> /\ advanced' \in BOOLEAN
  BY DEF Decode, Inv, TypeOK
<1>5. CASE Continue
  BY <1>1, <1>2, <1>3, <1>4, <1>5, GoesOn DEF Continue
<1>6. CASE Panic
  BY <1>1, <1>2, <1>3, <1>4, <1>6, Panics
<1>7. CASE ThrowErr(step.exc)
  <2>1. step.exc \in SUBSET Typed
    BY <1>1 DEF Fits, Steps
  <2>2. step.exc \cap Refusals # {} => Id \in Consuming \/ ~advanced'
    BY <1>1, <1>4 DEF Fits, At, Checked, Steady, Refusable, Untouched
  <2> QED  BY <1>1, <1>2, <1>3, <1>4, <1>7, <2>1, <2>2, Throws
<1> QED  BY <1>5, <1>6, <1>7 DEF Decode

\* An error is thrown and dropped.
LEMMA NoticeKeepsInv ==
  ASSUME Inv, Notice
  PROVE  Inv'
<1>1. PICK p \in Places, r \in Places :
        /\ At(p) /\ Fits(step, p, r) /\ Onward(steps, at + 1, r)
  BY StepFound DEF Notice
<1>2. step.op = "note" /\ phase = "run" /\ at + 1 \in 1..(Len(steps) + 1)
  BY StepFound DEF Notice
<1>3. p = "fresh" /\ r = "noted" /\ step.exc \subseteq Typed
  BY <1>1, <1>2 DEF Fits, Leads, Steps
<1>4. UNCHANGED <<Owned, call, advanced>> /\ advanced' \in BOOLEAN
  BY DEF Notice, Inv, TypeOK
<1>5. CASE Continue
  <2>1. At(r)
    BY <1>1, <1>3 DEF At, Seen, Checked, Boxes, Owners, Steady, Untouched
  <2> QED  BY <1>1, <1>2, <1>4, <1>5, <2>1, GoesOn DEF Continue
<1>6. CASE Panic
  BY <1>1, <1>2, <1>3, <1>4, <1>6, Panics DEF Fallible, Refusable
<1>7. CASE Throw(step.exc) /\ at' = at + 1 /\ UNCHANGED <<phase, err>>
  <2>1. steps' = steps /\ Id' = Id
    BY <1>4 DEF steps, Id
  <2>2. pending' \in Exceptions /\ pending' # "none" /\ failed' = TRUE
    BY <1>3, <1>7 DEF Throw, Exceptions, Typed
  <2>3. TypeOK'
    BY <1>2, <1>4, <1>7, <2>1, <2>2 DEF Inv, TypeOK, Owned
  <2>4. HandlesAreLive' /\ Dropped'
    BY <1>4, <2>1 DEF Inv, HandlesAreLive, Dropped, Owned, GiveUp
  <2>5. At(r)'
    <3>1. Seen(r)'
      BY <1>3, <2>2 DEF Seen
    <3>2. Checked(r)' /\ Steady(r)'
      BY <1>1, <1>3, <1>4, <2>1 DEF At, Checked, Steady, Untouched, Owned
    <3>3. Boxes(r)'
      BY <1>1, <1>3, <1>4, <2>1 DEF At, Boxes, Owned, GivenUp, GiveUp
    <3>4. Owners(r)'
      BY <1>1, <1>3, <1>4 DEF At, Owners, Owned
    <3> QED  BY <3>1, <3>2, <3>3, <3>4 DEF At
  <2> QED  BY <1>1, <1>2, <1>7, <2>1, <2>3, <2>4, <2>5 DEF Inv
<1> QED  BY <1>5, <1>6, <1>7 DEF Notice

\* The crate reads an object.
LEMMA CrateReadsKeepsInv ==
  ASSUME Inv, CrateReads
  PROVE  Inv'
<1>1. PICK p \in Places, r \in Places :
        /\ At(p) /\ Fits(step, p, r) /\ Onward(steps, at + 1, r)
  BY StepFound DEF CrateReads
<1>2. step.op = "read" /\ phase = "run" /\ at + 1 \in 1..(Len(steps) + 1)
  BY StepFound DEF CrateReads
<1>3. p = "ready" /\ r = p /\ p \in Fallible
  BY <1>1, <1>2 DEF Fits, Leads, Fallible, Refusable
<1>4. UNCHANGED <<Owned, call, advanced>> /\ advanced' \in BOOLEAN
  BY DEF CrateReads, Inv, TypeOK
<1>5. CASE Continue
  BY <1>1, <1>2, <1>3, <1>4, <1>5, GoesOn DEF Continue
<1>6. CASE Panic
  BY <1>1, <1>2, <1>3, <1>4, <1>6, Panics
<1>7. CASE ThrowErr(step.exc)
  <2>1. step.exc \in SUBSET Typed
    BY <1>1 DEF Fits, Steps
  <2>2. ~advanced'
    BY <1>1, <1>3, <1>4 DEF At, Steady, Untouched
  <2> QED  BY <1>1, <1>2, <1>3, <1>4, <1>7, <2>1, <2>2, Throws
<1> QED  BY <1>5, <1>6, <1>7 DEF CrateReads

\* The crate changes an object.
LEMMA CrateAdvancesKeepsInv ==
  ASSUME Inv, CrateAdvances
  PROVE  Inv'
<1>1. PICK p \in Places, r \in Places :
        /\ At(p) /\ Fits(step, p, r) /\ Onward(steps, at + 1, r)
  BY StepFound DEF CrateAdvances
<1>2. step.op = "advance" /\ phase = "run" /\ at + 1 \in 1..(Len(steps) + 1)
  BY StepFound DEF CrateAdvances
<1>3. /\ \/ p \in {"ready", "changed"} /\ r = "changed"
         \/ p = "taken" /\ r = "taken"
      /\ p \in Fallible
  BY <1>1, <1>2 DEF Fits, Leads, Fallible, Refusable
<1>4. UNCHANGED <<Owned, call>>
  BY DEF CrateAdvances
<1>5. CASE Continue /\ advanced' = TRUE
  <2>1. steps' = steps /\ Id' = Id
    BY <1>4 DEF steps, Id
  <2>2. TypeOK'
    BY <1>2, <1>4, <1>5, <2>1 DEF Inv, TypeOK, Owned, Continue
  <2>3. HandlesAreLive' /\ Dropped'
    BY <1>4, <2>1 DEF Inv, HandlesAreLive, Dropped, Owned, GiveUp
  <2>4. At(r)'
    <3>1. Seen(r)' /\ Steady(r)'
      BY <1>1, <1>3, <1>5 DEF At, Seen, Steady, Untouched, Continue
    <3>2. Checked(r)'
      BY <1>1, <1>3, <1>4, <2>1 DEF At, Checked, Owned
    <3>3. Boxes(r)'
      BY <1>1, <1>3, <1>4, <2>1 DEF At, Boxes, Owned, GivenUp, GiveUp
    <3>4. Owners(r)'
      BY <1>1, <1>3, <1>4 DEF At, Owners, Owned
    <3> QED  BY <3>1, <3>2, <3>3, <3>4 DEF At
  <2> QED  BY <1>1, <1>2, <1>5, <2>1, <2>2, <2>3, <2>4 DEF Inv, Continue
<1>6. CASE Panic /\ advanced' \in BOOLEAN
  BY <1>1, <1>2, <1>3, <1>4, <1>6, Panics
<1>7. CASE /\ ThrowErr(step.exc)
           /\ advanced' \in {advanced, call.class = "EstablishedEcies"}
  <2>1. step.exc \in SUBSET Typed
    BY <1>1 DEF Fits, Steps
  <2>2. advanced' \in BOOLEAN
    BY <1>7 DEF Inv, TypeOK
  <2>3. step.exc \cap Refusals # {} => \/ Id \in Consuming
                                       \/ call.class = "EstablishedEcies"
                                       \/ ~advanced'
    BY <1>1, <1>7 DEF Fits, At, Checked, Steady, Refusable, Untouched
  <2> QED  BY <1>1, <1>2, <1>3, <1>4, <1>7, <2>1, <2>2, <2>3, Throws
<1> QED  BY <1>5, <1>6, <1>7 DEF CrateAdvances

\* There is nothing to return.
LEMMA ReturnsNullKeepsInv ==
  ASSUME Inv, ReturnsNull
  PROVE  Inv'
<1>1. PICK p \in Places, r \in Places :
        /\ At(p) /\ Fits(step, p, r) /\ Onward(steps, at + 1, r)
  BY StepFound DEF ReturnsNull
<1>2. /\ step.op = "or_null" /\ phase = "run" /\ steps \in Seq(Steps)
      /\ at + 1 \in 1..(Len(steps) + 1)
  BY StepFound DEF ReturnsNull
<1>3. p \in {"ready", "changed"} /\ r = p
  BY <1>1, <1>2 DEF Fits, Leads
<1>4. Onward(steps, at', r) /\ at' \in 1..(Len(steps) + 1)
  <2>1. Len(steps) \in Nat
    BY <1>2
  <2>2. CASE at' = at + 1
    BY <1>1, <1>2, <2>2
  <2>3. CASE at' = Len(steps) + 1
    <3>1. Onward(steps, Len(steps) + 1, r)
      BY <1>2, <1>3, Ends
    <3> QED  BY <2>1, <2>3, <3>1
  <2> QED  BY <2>2, <2>3 DEF ReturnsNull
<1>5. UNCHANGED <<phase, pending, err, failed, Owned, call, advanced>>
  BY DEF ReturnsNull
<1> QED  BY <1>1, <1>2, <1>3, <1>4, <1>5, GoesOn

\* The box is taken back.
LEMMA TakeBackKeepsInv ==
  ASSUME Inv, TakeBack
  PROVE  Inv'
<1>1. PICK p \in Places, r \in Places :
        /\ At(p) /\ Fits(step, p, r) /\ Onward(steps, at + 1, r)
  BY StepFound DEF TakeBack
<1>2. step.op = "from_raw" /\ phase = "run" /\ at + 1 \in 1..(Len(steps) + 1)
  BY StepFound DEF TakeBack
<1>3. p \in {"held", "holding"} /\ r = "taken"
  BY <1>1, <1>2 DEF Fits, Leads
<1>4. /\ UNCHANGED <<heap, java, made, call, advanced, phase, pending, err, failed>>
      /\ at' = at + 1 /\ rust' = rust \cup {call.recv}
  BY DEF TakeBack, Continue
<1>5. steps' = steps /\ Id' = Id
  BY <1>4 DEF steps, Id
<1>6. call.recv \in Objs /\ Id \in Consuming /\ GiveUp(call.recv)
  BY <1>1, <1>3 DEF At, Checked, Inv, TypeOK, GiveUp
<1>7. TypeOK'
  BY <1>2, <1>4, <1>5, <1>6 DEF Inv, TypeOK
<1>8. HandlesAreLive' /\ Dropped'
  BY <1>4, <1>5, <1>6 DEF Inv, HandlesAreLive, Dropped, GiveUp
<1>9. Seen(r)' /\ Checked(r)' /\ Steady(r)'
  BY <1>1, <1>3, <1>4, <1>5 DEF At, Seen, Checked, Steady, Untouched
<1>10. Boxes(r)'
  BY <1>1, <1>3, <1>4, <1>5 DEF At, Boxes, GivenUp, GiveUp
<1>11. Owners(r)'
  BY <1>1, <1>3, <1>4 DEF At, Owners
<1> QED  BY <1>1, <1>2, <1>4, <1>5, <1>7, <1>8, <1>9, <1>10, <1>11 DEF Inv, At

\* An object is made in a box.
LEMMA MakeBoxKeepsInv ==
  ASSUME Inv, MakeBox
  PROVE  Inv'
<1>1. PICK p \in Places, r \in Places :
        /\ At(p) /\ Fits(step, p, r) /\ Onward(steps, at + 1, r)
  BY StepFound DEF MakeBox
<1>2. step.op = "raw_box" /\ phase = "run" /\ at + 1 \in 1..(Len(steps) + 1)
  BY StepFound DEF MakeBox
<1>3. /\ p \in {"ready", "changed", "taken"} /\ r = "boxed"
      /\ step.class \in Handles
  BY <1>1, <1>2 DEF Fits, Leads
<1>4. /\ UNCHANGED <<java, call, advanced, phase, pending, err, failed>>
      /\ at' = at + 1
  BY DEF MakeBox, Continue
<1>5. PICK x \in Objs :
        /\ heap[x] = NULL /\ heap' = [heap EXCEPT ![x] = step.class]
        /\ made' = x /\ rust' = rust \cup {x}
  BY DEF MakeBox, Allocate
<1>6. steps' = steps /\ Id' = Id
  BY <1>4 DEF steps, Id
<1>7. java[x] = NULL
  BY <1>5 DEF Inv, HandlesAreLive
<1>8. heap' \in [Objs -> Handles \cup {NULL}] /\ heap'[x] \in Handles
        /\ \A y \in Objs \ {x} : heap'[y] = heap[y]
  BY <1>3, <1>5 DEF Inv, TypeOK
<1>9. TypeOK'
  BY <1>2, <1>4, <1>5, <1>6, <1>8 DEF Inv, TypeOK
<1>10. \A y \in {call.recv, call.other} \ {NULL} : y \in Objs /\ y # x
  <2>1. call.class \in Classes /\ call.class # NULL
    BY NullAssumption DEF Inv, TypeOK
  <2> QED  BY <1>1, <1>3, <1>5, <2>1 DEF At, Checked, Inv, TypeOK
<1>11. ~GiveUp(x)
  BY <1>5, <1>10, NullAssumption DEF GiveUp
<1>12. HandlesAreLive'
  BY <1>4, <1>7, <1>8 DEF Inv, HandlesAreLive
<1>13. \A y \in rust : GiveUp(y)
  <2> SUFFICES ASSUME NEW y \in rust PROVE GiveUp(y)
    OBVIOUS
  <2>1. y \in Objs /\ made = NULL
    BY <1>1, <1>3 DEF At, Boxes, Inv, TypeOK
  <2> QED  BY <2>1, NullAssumption DEF Inv, Dropped
<1>14. Dropped'
  BY <1>4, <1>5, <1>6, <1>13 DEF Dropped, GiveUp
<1>15. Seen(r)' /\ Steady(r)'
  BY <1>1, <1>3, <1>4 DEF At, Seen, Steady, Untouched
<1>16. Checked(r)'
  BY <1>1, <1>3, <1>4, <1>6, <1>8, <1>10 DEF At, Checked
<1>17. Boxes(r)'
  <2>1. GivenUp'
    BY <1>1, <1>3, <1>4, <1>5, <1>6, <1>8, <1>11
       DEF At, Boxes, GivenUp, GiveUp
  <2> QED  BY <1>3, <1>4, <1>5, <1>6, <1>7, <1>11, <2>1 DEF Boxes, GiveUp
<1>18. Owners(r)'
  BY <1>1, <1>3, <1>4, <1>5, <1>8 DEF At, Owners
<1> QED  BY <1>1, <1>2, <1>4, <1>6, <1>9, <1>12, <1>14, <1>15, <1>16, <1>17,
            <1>18 DEF Inv, At

\* A handle is made for the box.
LEMMA MakeObjectKeepsInv ==
  ASSUME Inv, MakeObject
  PROVE  Inv'
<1>1. PICK p \in Places, r \in Places :
        /\ At(p) /\ Fits(step, p, r) /\ Onward(steps, at + 1, r)
  BY StepFound DEF MakeObject
<1>2. step.op = "new_object" /\ phase = "run" /\ at + 1 \in 1..(Len(steps) + 1)
  BY StepFound DEF MakeObject
<1>3. p = "boxed" /\ r = "wrapped"
  BY <1>1, <1>2 DEF Fits, Leads
<1>4. UNCHANGED <<heap, rust, made, call, advanced>>
  BY DEF MakeObject
<1>5. CASE JniErr /\ UNCHANGED java
  <2>1. UNCHANGED <<Owned, call>> /\ advanced' \in BOOLEAN
    BY <1>4, <1>5 DEF Owned, Inv, TypeOK
  <2> QED  BY <1>1, <1>2, <1>3, <1>5, <2>1, Panics DEF Fallible
<1>6. CASE java' = [java EXCEPT ![made] = heap[made]] /\ Continue
  <2>1. UNCHANGED <<phase, pending, err, failed>> /\ at' = at + 1
    BY <1>6 DEF Continue
  <2>2. steps' = steps /\ Id' = Id
    BY <1>4 DEF steps, Id
  <2>3. made \in rust /\ made \in Objs
    BY <1>1, <1>3 DEF At, Boxes, Inv, TypeOK
  <2>4. /\ java' \in [Objs -> Handles \cup {NULL}] /\ java'[made] = heap[made]
        /\ \A y \in Objs \ {made} : java'[y] = java[y]
    BY <1>6, <2>3 DEF Inv, TypeOK
  <2>5. TypeOK'
    BY <1>2, <1>4, <2>1, <2>2, <2>4 DEF Inv, TypeOK
  <2>6. HandlesAreLive' /\ Dropped'
    BY <1>4, <2>2, <2>4 DEF Inv, HandlesAreLive, Dropped, GiveUp
  <2>7. Seen(r)' /\ Steady(r)' /\ Checked(r)'
    BY <1>1, <1>3, <1>4, <2>1, <2>2 DEF At, Seen, Steady, Untouched, Checked
  <2>8. Boxes(r)'
    BY <1>1, <1>3, <1>4, <2>2, <2>4 DEF At, Boxes, GivenUp, GiveUp
  <2>9. Owners(r)'
    BY <1>1, <1>3, <1>4, <2>3, <2>4 DEF At, Owners
  <2> QED  BY <1>1, <1>2, <2>1, <2>2, <2>5, <2>6, <2>7, <2>8, <2>9 DEF Inv, At
<1> QED  BY <1>5, <1>6 DEF MakeObject

\* The box is leaked: Java owns the object.
LEMMA LeakBoxKeepsInv ==
  ASSUME Inv, LeakBox
  PROVE  Inv'
<1>1. PICK p \in Places, r \in Places :
        /\ At(p) /\ Fits(step, p, r) /\ Onward(steps, at + 1, r)
  BY StepFound DEF LeakBox
<1>2. step.op = "leak" /\ phase = "run" /\ at + 1 \in 1..(Len(steps) + 1)
  BY StepFound DEF LeakBox
<1>3. p = "wrapped" /\ r = "handed"
  BY <1>1, <1>2 DEF Fits, Leads
<1>4. /\ UNCHANGED <<heap, java, made, call, advanced, phase, pending, err, failed>>
      /\ rust' = rust \ {made} /\ at' = at + 1
  BY DEF LeakBox, Continue
<1>5. steps' = steps /\ Id' = Id
  BY <1>4 DEF steps, Id
<1>6. made \in rust /\ made \in Objs /\ ~GiveUp(made) /\ java[made] = heap[made]
  BY <1>1, <1>3 DEF At, Boxes, Inv, TypeOK
<1>7. TypeOK'
  BY <1>2, <1>4, <1>5 DEF Inv, TypeOK
<1>8. HandlesAreLive' /\ Dropped'
  BY <1>4, <1>5 DEF Inv, HandlesAreLive, Dropped, GiveUp
<1>9. Seen(r)' /\ Steady(r)' /\ Checked(r)'
  BY <1>1, <1>3, <1>4, <1>5 DEF At, Seen, Steady, Untouched, Checked
<1>10. Boxes(r)'
  BY <1>1, <1>3, <1>4, <1>5, <1>6 DEF At, Boxes, GivenUp, GiveUp
<1>11. Owners(r)'
  BY <1>1, <1>3, <1>4, <1>6 DEF At, Owners
<1> QED  BY <1>1, <1>2, <1>4, <1>5, <1>7, <1>8, <1>9, <1>10, <1>11 DEF Inv, At

\* An object is made and handed over as a jlong.
LEMMA MakeLongKeepsInv ==
  ASSUME Inv, MakeLong
  PROVE  Inv'
<1>1. PICK p \in Places, r \in Places :
        /\ At(p) /\ Fits(step, p, r) /\ Onward(steps, at + 1, r)
  BY StepFound DEF MakeLong
<1>2. /\ step.op = "box_to_jlong" /\ phase = "run" /\ steps \in Seq(Steps)
      /\ at + 1 \in 1..(Len(steps) + 1)
  BY StepFound DEF MakeLong
<1>3. p = "fresh" /\ r = "made" /\ step.class \in Handles
  BY <1>1, <1>2 DEF Fits, Leads
<1>4. /\ UNCHANGED <<java, rust, call, advanced, phase, pending, err, failed>>
      /\ at' = at + 1
  BY DEF MakeLong, Continue
<1>5. PICK x \in Objs : /\ heap[x] = NULL /\ made' = x
                        /\ heap' = [heap EXCEPT ![x] = step.class]
  BY DEF MakeLong, Allocate
<1>6. steps' = steps /\ Id' = Id
  BY <1>4 DEF steps, Id
<1>7. java[x] = NULL
  BY <1>5 DEF Inv, HandlesAreLive
<1>8. heap' \in [Objs -> Handles \cup {NULL}]
        /\ \A y \in Objs \ {x} : heap'[y] = heap[y]
  BY <1>3, <1>5 DEF Inv, TypeOK
<1>9. TypeOK'
  BY <1>2, <1>4, <1>5, <1>6, <1>8 DEF Inv, TypeOK
<1>10. rust = {}
  BY <1>1, <1>3 DEF At, Boxes
<1>11. HandlesAreLive' /\ Dropped'
  BY <1>4, <1>7, <1>8, <1>10 DEF Inv, HandlesAreLive, Dropped
<1>12. Has(steps, {"box_to_jlong"})
  <2>1. at \in DOMAIN steps
    BY <1>2 DEF MakeLong, Running, Inv, TypeOK
  <2> QED  BY <1>2, <2>1 DEF Has, step
<1>13. Seen(r)' /\ Steady(r)'
  BY <1>1, <1>3, <1>4 DEF At, Seen, Steady, Untouched
<1>14. \A y \in {call.recv, call.other} \ {NULL} : y \in Objs /\ y # x
  <2>1. call.class # NULL
    BY NullAssumption DEF Inv, TypeOK
  <2> QED  BY <1>1, <1>3, <1>5, <2>1 DEF At, Checked, Inv, TypeOK
<1>15. Checked(r)'
  BY <1>1, <1>3, <1>4, <1>6, <1>8, <1>14 DEF At, Checked
<1>16. Boxes(r)'
  <2>1. ~GiveUp(x)
    BY <1>5, <1>14, NullAssumption DEF GiveUp
  <2>2. GivenUp'
    BY <1>1, <1>3, <1>4, <1>6, <1>8, <2>1 DEF At, Boxes, GivenUp, GiveUp
  <2> QED  BY <1>3, <1>4, <1>5, <1>6, <1>10, <1>12, <2>2 DEF Boxes
<1>17. Owners(r)'
  BY <1>1, <1>3, <1>4, <1>5, <1>8 DEF At, Owners
<1> QED  BY <1>1, <1>2, <1>4, <1>6, <1>9, <1>11, <1>13, <1>15, <1>16, <1>17
         DEF Inv, At

\* An object is freed.
LEMMA FreeBoxKeepsInv ==
  ASSUME Inv, FreeBox
  PROVE  Inv'
<1>1. PICK p \in Places, r \in Places :
        /\ At(p) /\ Fits(step, p, r) /\ Onward(steps, at + 1, r)
  BY StepFound DEF FreeBox
<1>2. step.op = "native_free" /\ phase = "run" /\ at + 1 \in 1..(Len(steps) + 1)
  BY StepFound DEF FreeBox
<1>3. p = "closing" /\ r = "freed"
  BY <1>1, <1>2 DEF Fits, Leads
<1>4. /\ UNCHANGED <<java, rust, made, call, phase, err, advanced>>
      /\ at' = at + 1
  BY DEF FreeBox
<1>5. steps' = steps /\ Id' = Id
  BY <1>4 DEF steps, Id
<1>6. CASE call.recv = NULL
  <2>1. heap' = heap /\ failed' = TRUE
          /\ pending' \in Conversion \cup {"JavaError"}
    BY <1>6 DEF FreeBox, Throw
  <2>2. pending' \in Exceptions /\ pending' # "none"
    BY <2>1 DEF Exceptions, Conversion, Typed
  <2>3. TypeOK'
    BY <1>2, <1>4, <1>5, <2>1, <2>2 DEF Inv, TypeOK
  <2>4. HandlesAreLive' /\ Dropped'
    BY <1>4, <1>5, <2>1 DEF Inv, HandlesAreLive, Dropped, GiveUp
  <2>5. Seen(r)' /\ Steady(r)' /\ Checked(r)'
    BY <1>1, <1>3, <1>4, <2>1, <2>2 DEF At, Seen, Steady, Untouched, Checked
  <2>6. Boxes(r)'
    BY <1>1, <1>3, <1>4, <1>5, <2>1 DEF At, Boxes, GivenUp, GiveUp
  <2>7. Owners(r)'
    BY <1>1, <1>3, <1>4, <1>6, <2>1, NullAssumption DEF At, Owners
  <2> QED  BY <1>1, <1>2, <1>4, <1>5, <2>3, <2>4, <2>5, <2>6, <2>7 DEF Inv, At
<1>7. CASE call.recv # NULL
  <2>1. /\ heap' = [heap EXCEPT ![call.recv] = NULL]
        /\ UNCHANGED <<pending, failed>>
    BY <1>7 DEF FreeBox
  <2>2. /\ call.recv \in Objs /\ java[call.recv] = NULL
        /\ heap' \in [Objs -> Handles \cup {NULL}]
        /\ heap'[call.recv] = NULL
        /\ \A y \in Objs \ {call.recv} : heap'[y] = heap[y]
    BY <1>1, <1>3, <1>7, <2>1 DEF At, Boxes, Inv, TypeOK
  <2>3. TypeOK'
    BY <1>2, <1>4, <1>5, <2>1, <2>2 DEF Inv, TypeOK
  <2>4. HandlesAreLive' /\ Dropped'
    BY <1>4, <1>5, <2>2 DEF Inv, HandlesAreLive, Dropped, GiveUp
  <2>5. Seen(r)' /\ Steady(r)' /\ Checked(r)'
    BY <1>1, <1>3, <1>4, <2>1 DEF At, Seen, Steady, Untouched, Checked
  <2>6. Boxes(r)'
    <3>1. GivenUp'
      BY <1>1, <1>3, <1>5 DEF At, Checked, GivenUp, GiveUp
    <3> QED  BY <1>1, <1>3, <1>4, <1>5, <3>1 DEF At, Boxes
  <2>7. Owners(r)'
    BY <1>1, <1>3, <1>4, <2>2 DEF At, Owners
  <2> QED  BY <1>1, <1>2, <1>4, <1>5, <2>1, <2>3, <2>4, <2>5, <2>6, <2>7
           DEF Inv, At
<1> QED  BY <1>6, <1>7

\* Java sees the exception.
LEMMA ResolveErrKeepsInv ==
  ASSUME Inv, ResolveErr
  PROVE  Inv'
<1>1. /\ phase = "failed" /\ phase' = "returned" /\ Failing
      /\ UNCHANGED <<call, at, made, err, advanced, failed>>
  BY DEF ResolveErr, Inv
<1>2. /\ heap' = [x \in Objs |-> IF x \in rust THEN NULL ELSE heap[x]]
      /\ rust' = {}
      /\ java' = [x \in Objs |-> IF GiveUp(x) THEN NULL ELSE java[x]]
  BY DEF ResolveErr, DropBoxes
<1>3. pending' = IF pending = "none" THEN "RuntimeException" ELSE pending
  BY DEF ResolveErr
<1>4. steps' = steps /\ Id' = Id
  BY <1>1 DEF steps, Id
<1>5. pending' \in Exceptions /\ pending' # "none"
        /\ (pending' \in Refusals => pending \in Refusals)
  BY <1>3 DEF Inv, TypeOK, Exceptions, Typed, Refusals
<1>6. TypeOK'
  BY <1>1, <1>2, <1>4, <1>5 DEF Inv, TypeOK
<1>7. HandlesAreLive' /\ Dropped'
  BY <1>1, <1>2 DEF Inv, HandlesAreLive, Dropped, Failing
<1>8. Owners("returned")'
  BY <1>1, <1>2 DEF Failing, Owners, GivenUp
<1>9. EveryFailureIsSeen'
  BY <1>1, <1>5 DEF Failing, EveryFailureIsSeen
<1>10. RejectedMeansUnchanged'
  BY <1>1, <1>4, <1>5 DEF Failing, RejectedMeansUnchanged, Refusals
<1> QED  BY <1>1, <1>2, <1>6, <1>7, <1>8, <1>9, <1>10 DEF Inv, Returned

\* Java sees the result.
LEMMA ResolveOkKeepsInv ==
  ASSUME Inv, ResolveOk
  PROVE  Inv'
<1>1. /\ phase = "run" /\ phase' = "returned" /\ at > Len(steps)
      /\ UNCHANGED <<call, at, made, pending, err, advanced, failed>>
  BY DEF ResolveOk
<1>2. /\ heap' = [x \in Objs |-> IF x \in rust THEN NULL ELSE heap[x]]
      /\ rust' = {}
      /\ java' = [x \in Objs |->
           IF GiveUp(x) THEN NULL
           ELSE IF x = made /\ Has(steps, {"box_to_jlong"}) /\ pending = "none"
                THEN heap[x]
           ELSE java[x]]
  BY DEF ResolveOk, DropBoxes
<1>3. steps' = steps /\ Id' = Id
  BY <1>1 DEF steps, Id
<1>4. PICK p \in Places : Onward(steps, at, p) /\ At(p)
  BY <1>1 DEF Inv
<1>5. p \in Final
  <2>1. at = Len(steps) + 1
    <3>1. Len(steps) \in Nat /\ at \in 1..(Len(steps) + 1)
      BY <1>4 DEF Onward, Inv, TypeOK
    <3> QED  BY <1>1, <3>1
  <2> QED  BY <1>4, <2>1, Ends
<1>6. TypeOK'
  BY <1>1, <1>2, <1>3 DEF Inv, TypeOK
<1>7. GivenUp /\ made \notin rust
  BY <1>4, <1>5, NullAssumption DEF At, Boxes, Final, Inv, TypeOK
<1>8. \A x \in rust : GiveUp(x)
  BY <1>7 DEF Inv, Dropped
<1>9. HandlesAreLive' /\ Dropped'
  BY <1>2, <1>7, <1>8 DEF Inv, HandlesAreLive, Dropped
<1>10. Owners("returned")'
  <2> SUFFICES ASSUME NEW x \in Objs, heap'[x] \notin {NULL, "Ecies"}
               PROVE  java'[x] = heap'[x]
    BY DEF Owners
  <2>1. heap'[x] = heap[x] /\ x \notin rust
    BY <1>2
  <2>2. ~GiveUp(x)
    BY <1>7, <2>1 DEF GivenUp
  <2>3. \/ java[x] = heap[x]
        \/ p = "made" /\ x = made
    <3>1. heap[x] \notin {NULL, "Ecies"}
      BY <2>1
    <3> QED  BY <1>4, <1>5, <2>1, <3>1 DEF At, Owners, Final
  <2>4. p = "made" => Has(steps, {"box_to_jlong"}) /\ pending = "none"
    BY <1>4 DEF At, Boxes, Seen, Inv, TypeOK
  <2> QED  BY <1>2, <2>1, <2>2, <2>3, <2>4
<1>11. EveryFailureIsSeen'
  BY <1>1, <1>4 DEF At, Seen, EveryFailureIsSeen
<1>12. RejectedMeansUnchanged'
  <2>1. pending # "none" => ~advanced
    BY <1>4 DEF At, Seen, Steady, Untouched
  <2> QED  BY <1>1, <2>1 DEF RejectedMeansUnchanged, Typed
<1> QED  BY <1>1, <1>2, <1>6, <1>9, <1>10, <1>11, <1>12 DEF Inv, Returned

(***************************************************************************)
(* The theorems.                                                           *)
(***************************************************************************)

\* Before the first call there is no object.
LEMMA InitInv == Init => Inv
<1> SUFFICES ASSUME Init PROVE Inv
  OBVIOUS
<1>1. /\ heap = [x \in Objs |-> NULL] /\ java = [x \in Objs |-> NULL]
      /\ call = [class |-> "Vodozemac", method |-> "nativeVersion",
                 recv |-> NULL, other |-> NULL]
      /\ at = Len(Vodozemac_nativeVersion) + 1
      /\ phase = "returned" /\ rust = {} /\ made = NULL
      /\ pending = "none" /\ err = "none" /\ advanced = FALSE /\ failed = FALSE
  BY DEF Init
<1>2. /\ call.class = "Vodozemac" /\ call.method = "nativeVersion"
      /\ call.recv = NULL /\ call.other = NULL
  BY <1>1
<1>3. /\ "Vodozemac" \in Classes /\ Natives["Vodozemac"] = VodozemacNatives
      /\ "nativeVersion" \in DOMAIN VodozemacNatives
      /\ VodozemacNatives["nativeVersion"] = Vodozemac_nativeVersion
  BY DEF Classes, Natives, VodozemacNatives
<1>4. steps = Vodozemac_nativeVersion
  BY <1>2, <1>3 DEF steps
<1>5. at \in 1..(Len(steps) + 1)
  <2>1. Sound("Vodozemac", "nativeVersion", Natives["Vodozemac"]["nativeVersion"])
    BY <1>3, EveryMethodIsSound
  <2>2. steps \in Seq(Steps)
    BY <1>2, <2>1 DEF Sound, Path, steps
  <2>3. Len(steps) \in Nat
    BY <2>2
  <2> QED  BY <1>1, <1>4, <2>3
<1>6. TypeOK
  BY <1>1, <1>2, <1>3, <1>5 DEF TypeOK
<1>7. HandlesAreLive /\ Dropped
  BY <1>1 DEF HandlesAreLive, Dropped
<1>8. Returned
  BY <1>1 DEF Returned, Owners, EveryFailureIsSeen, RejectedMeansUnchanged
<1> QED  BY <1>1, <1>6, <1>7, <1>8 DEF Inv

\* No step breaks the invariant.
LEMMA NextInv == Inv /\ [Next]_vars => Inv'
<1> SUFFICES ASSUME Inv, [Next]_vars PROVE Inv'
  OBVIOUS
<1>1. ASSUME NEW c \in Classes, NEW m \in DOMAIN Natives[c], Call(c, m)
      PROVE  Inv'
  BY <1>1, CallKeepsInv
<1>2. CASE UNCHANGED vars
  <2>1. steps' = steps /\ Id' = Id
    BY <1>2 DEF vars, steps, Id
  <2> QED  BY <1>2, <2>1
           DEF vars, Inv, TypeOK, HandlesAreLive, Dropped, At, Seen, Checked,
               Boxes, Owners, Steady, GivenUp, GiveUp, Failing, Returned,
               EveryFailureIsSeen, RejectedMeansUnchanged, Has
<1>3. CASE \/ Check \/ CallJvm \/ Decode \/ Notice \/ CrateReads
           \/ CrateAdvances \/ ReturnsNull \/ TakeBack
  BY <1>3, CheckKeepsInv, CallJvmKeepsInv, DecodeKeepsInv, NoticeKeepsInv,
     CrateReadsKeepsInv, CrateAdvancesKeepsInv, ReturnsNullKeepsInv,
     TakeBackKeepsInv
<1>4. CASE \/ MakeBox \/ MakeObject \/ LeakBox \/ MakeLong \/ FreeBox
           \/ ResolveErr \/ ResolveOk
  BY <1>4, MakeBoxKeepsInv, MakeObjectKeepsInv, LeakBoxKeepsInv,
     MakeLongKeepsInv, FreeBoxKeepsInv, ResolveErrKeepsInv, ResolveOkKeepsInv
<1> QED  BY <1>1, <1>2, <1>3, <1>4 DEF Next

\* The invariant of every run of the calls.
THEOREM Invariance == Spec => []Inv
BY InitInv, NextInv, PTL DEF Spec

\* Every variable has its type; above all, a call never runs past its steps.
THEOREM TypeCorrect == Spec => []TypeOK
<1>1. Inv => TypeOK
  BY DEF Inv
<1> QED  BY <1>1, Invariance, PTL

\* A call returns with an exception exactly if something failed in it.
THEOREM FailuresAreSeen == Spec => []EveryFailureIsSeen
<1>1. Inv => EveryFailureIsSeen
  BY DEF Inv, Returned, EveryFailureIsSeen
<1> QED  BY <1>1, Invariance, PTL

\* A refused call has left its receiver as it was.
THEOREM RefusalsChangeNothing == Spec => []RejectedMeansUnchanged
<1>1. Inv => RejectedMeansUnchanged
  BY DEF Inv, Returned, RejectedMeansUnchanged
<1> QED  BY <1>1, Invariance, PTL

\* Between two calls every native object but an Ecies is held by a handle.
THEOREM NoObjectIsLost == Spec => []NothingIsLost
<1>1. Inv => NothingIsLost
  BY DEF Inv, Returned, Owners, NothingIsLost
<1> QED  BY <1>1, Invariance, PTL

\* At no moment does a handle hold the pointer of an object that is freed.
THEOREM HandlesStayLive == Spec => []HandlesAreLive
<1>1. Inv => HandlesAreLive
  BY DEF Inv
<1> QED  BY <1>1, Invariance, PTL

\* The crate is reached through checked pointers only.
THEOREM PointersAreChecked == Spec => []CheckedBeforeUse
<1>1. ASSUME Inv, phase = "run", at <= Len(steps),
             step.op \in {"read", "advance", "from_raw"}
      PROVE  /\ call.recv # NULL /\ heap[call.recv] = call.class
             /\ Id \in Pairs => /\ call.other \notin {NULL, call.recv}
                                /\ heap[call.other] = call.class
  <2>1. Running(step.op)
    BY <1>1 DEF Running
  <2>2. PICK p \in Places, r \in Places : At(p) /\ Fits(step, p, r)
    BY <1>1, <2>1, StepFound
  <2>3. p \in {"ready", "changed", "taken", "held", "holding"}
    BY <1>1, <2>2 DEF Fits, Leads
  <2>4. call.recv # NULL /\ heap[call.recv] = call.class
    BY <2>2, <2>3 DEF At, Checked
  <2>5. ASSUME Id \in Pairs
        PROVE  call.other \notin {NULL, call.recv} /\ heap[call.other] = call.class
    <3>1. Id \notin Consuming
      BY <2>5 DEF Pairs, Consuming
    <3> QED  BY <2>2, <2>3, <2>5, <3>1 DEF At, Checked
  <2> QED  BY <2>4, <2>5
<1>2. Inv => CheckedBeforeUse
  BY <1>1 DEF CheckedBeforeUse
<1> QED  BY <1>2, Invariance, PTL

====
