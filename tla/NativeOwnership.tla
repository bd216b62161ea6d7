--------------------------- MODULE NativeOwnership ---------------------------
(***************************************************************************)
(* What the binding promises about native memory, whatever threads, locks  *)
(* and Cleaner do to keep the promise: the life of an address.             *)
(*                                                                         *)
(*   free     not allocated                                                *)
(*   claimed  allocated, and exactly one party is about to hand it to a    *)
(*            Java object or to release it                                 *)
(*   idle     owned by a Java object, no native call is using it           *)
(*   inuse    owned by a Java object and used by a native call             *)
(*                                                                         *)
(* There is no way from inuse to free that does not pass through claimed,  *)
(* no way to release an idle box without claiming it first, and no state   *)
(* in which an allocated box belongs to nobody.                            *)
(***************************************************************************)
CONSTANT Boxes

VARIABLE state

States == {"free", "claimed", "idle", "inuse"}

Init == state = [b \in Boxes |-> "free"]

Move(b, from, to) ==
  /\ state[b] = from
  /\ state' = [state EXCEPT ![b] = to]

\* A fresh native object, still in the hands of the code that allocated it.
Allocate(b) == Move(b, "free", "claimed")

\* A Java object becomes its owner.
Adopt(b) == Move(b, "claimed", "idle")

\* A native call starts on a box that nobody else uses, and ends.
Enter(b) == Move(b, "idle", "inuse")
Exit(b) == Move(b, "inuse", "idle")

\* close() or the Cleaner takes the box from an owner nobody is using, and a
\* consuming call takes it from the owner it was called on.
Claim(b) == Move(b, "idle", "claimed") \/ Move(b, "inuse", "claimed")

Release(b) == Move(b, "claimed", "free")

\* A consuming call turns one native object into another.
Replace(b, c) ==
  /\ state[b] = "claimed"
  /\ state[c] = "free"
  /\ state' = [state EXCEPT ![b] = "free", ![c] = "claimed"]

\* A call on one box makes another: the session of an account.
Spawn(b, c) ==
  /\ state[b] = "inuse"
  /\ state[c] = "free"
  /\ state' = [state EXCEPT ![b] = "idle", ![c] = "claimed"]

Next ==
  \E b \in Boxes :
    \/ Allocate(b) \/ Adopt(b) \/ Enter(b) \/ Exit(b) \/ Claim(b) \/ Release(b)
    \/ \E c \in Boxes : Replace(b, c) \/ Spawn(b, c)

Spec == Init /\ [][Next]_state
=============================================================================
