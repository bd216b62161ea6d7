----------------------------- MODULE MegolmReach -----------------------------
(***************************************************************************)
(* What the Javadoc of InboundGroupSession promises, without ratchets: a   *)
(* session is the set of the messages it can decrypt, a string that leaves *)
(* the library (a session key, an exported key, a pickle) is the set it    *)
(* gives access to.  advanceTo and exportAt restrict a set, merge unites   *)
(* two, compare is inclusion.                                              *)
(***************************************************************************)
EXTENDS Naturals

CONSTANTS
  Outs,      \* outbound sessions
  Versions,  \* Megolm session versions
  Handles,   \* inbound sessions
  MaxU32     \* the largest message index

VARIABLES
  reach,    \* the messages each session can decrypt; none if it is closed
  keys,     \* the messages that each known key gives access to
  pickles,  \* ... and each known pickle
  answer    \* what a call returned or threw, until the caller looks at it

reachVars == <<reach, keys, pickles, answer>>

Msgs == [g : Outs, v : Versions, n : 0..MaxU32]

\* All messages of g from index i on, of every version.
KeyOf(g, i) == [g : {g}, v : Versions, n : i..MaxU32]

Open(h) == reach[h] # {}

ReachInit ==
  /\ reach = [h \in Handles |-> {}]
  /\ keys = {} /\ pickles = {} /\ answer = "none"

(***************************************************************************)
(* Strings: they may be forgotten at any time.                             *)
(***************************************************************************)
Forget(K, P) == keys' \subseteq keys \cup K /\ pickles' \subseteq pickles \cup P

\* sessionKey() of an outbound session: all it will send from now on.
ReachShare(g, i) ==
  /\ answer' = "present"
  /\ Forget({KeyOf(g, i)}, {})
  /\ UNCHANGED reach

\* A new session knows what its key gives, under the version it is made for.
ReachReceive(h, K, v) ==
  /\ answer' = "present"
  /\ ~Open(h)
  /\ reach' = [reach EXCEPT ![h] = {m \in K : m.v = v}]
  /\ UNCHANGED <<keys, pickles>>

\* exportAt(i): the part from i on, if all of that part is known.
ReachExport(h, i) ==
  /\ answer' \in {"present", "empty"}
  /\ UNCHANGED reach
  /\ \E g \in Outs, v \in Versions :
       /\ \E m \in reach[h] : m.g = g /\ m.v = v
       /\ IF [g : {g}, v : {v}, n : i..MaxU32] \subseteq reach[h]
            THEN answer' = "present" /\ Forget({KeyOf(g, i)}, {})
            ELSE answer' = "empty" /\ UNCHANGED <<keys, pickles>>

ReachPickle(h) ==
  /\ answer' = "present"
  /\ Forget({}, {reach[h]})
  /\ UNCHANGED reach

ReachUnpickle(h, P) ==
  /\ answer' = "present"
  /\ ~Open(h)
  /\ reach' = [reach EXCEPT ![h] = P]
  /\ UNCHANGED <<keys, pickles>>

(***************************************************************************)
(* Sessions.                                                               *)
(***************************************************************************)
ReachAdvance(h, i) ==
  /\ answer' \in {"true", "false"}
  /\ reach' = [reach EXCEPT ![h] = {m \in reach[h] : m.n >= i}]
  /\ answer' = "true" <=> reach' # reach
  /\ UNCHANGED <<keys, pickles>>

ReachDecrypt(h, m) ==
  /\ answer' \in IF m \in reach[h] THEN {"plaintext"}
                 ELSE {"SignatureException", "DecryptionException"}
  /\ UNCHANGED <<reach, keys, pickles>>

Ordering(A, B) ==
  IF A \cap B = {} THEN "UNCONNECTED"
  ELSE IF A = B THEN "EQUAL"
  ELSE IF B \subseteq A THEN "BETTER"
  ELSE "WORSE"

ReachCompare(a, b) ==
  /\ answer' = Ordering(reach[a], reach[b])
  /\ UNCHANGED <<reach, keys, pickles>>

ReachConnected(a, b) ==
  /\ answer' = IF reach[a] \cap reach[b] = {} THEN "false" ELSE "true"
  /\ UNCHANGED <<reach, keys, pickles>>

ReachMerge(a, b, h) ==
  /\ IF reach[a] \cap reach[b] = {}
       THEN answer' = "empty" /\ UNCHANGED reach
       ELSE /\ ~Open(h)
            /\ reach' = [reach EXCEPT ![h] = reach[a] \cup reach[b]]
            /\ answer' = "present"
  /\ UNCHANGED <<keys, pickles>>

ReachClose(h) ==
  /\ reach' = [reach EXCEPT ![h] = {}]
  /\ UNCHANGED <<keys, pickles, answer>>

\* The caller takes the result; then it may call again.
ReachTaken == answer' = "none" /\ UNCHANGED <<reach, keys, pickles>>

\* A call that is refused changes nothing: an index that is no unsigned 32
\* bit number, a key of the wrong kind, a session compared with itself.
ReachRefuse ==
  /\ answer' \in {"IllegalArgumentException", "KeyException",
                  "ConversionException"}
  /\ UNCHANGED <<reach, keys, pickles>>

ReachCall ==
  \/ \E g \in Outs, i \in 0..MaxU32 : ReachShare(g, i)
  \/ \E h \in Handles : \E K \in keys, v \in Versions : ReachReceive(h, K, v)
  \/ \E h \in Handles : \E P \in pickles : ReachUnpickle(h, P)
  \/ \E h \in Handles : Open(h) /\
       \/ ReachPickle(h) \/ ReachClose(h)
       \/ \E i \in 0..MaxU32 : ReachExport(h, i) \/ ReachAdvance(h, i)
       \/ \E m \in Msgs : ReachDecrypt(h, m)
  \/ \E a, b \in Handles : Open(a) /\ Open(b) /\ a # b /\
       \/ ReachCompare(a, b) \/ ReachConnected(a, b)
       \/ \E h \in Handles : ReachMerge(a, b, h)
  \/ ReachRefuse

ReachNext == (answer = "none" /\ ReachCall) \/ ReachTaken

ReachSpec == ReachInit /\ [][ReachNext]_reachVars
=============================================================================
