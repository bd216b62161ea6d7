----------------------------- MODULE MegolmGroup -----------------------------
(***************************************************************************)
(* Megolm group sessions: a sender with outbound sessions, peers with      *)
(* inbound sessions, and the strings they exchange and keep.  An inbound   *)
(* session is the session id, a version and the first index it knows.      *)
(* The ratchets are those of the crate: a message is its index and the     *)
(* session it was encrypted by.                                            *)
(*                                                                         *)
(* A string is copied at will and may be lost. Messages arrive in any      *)
(* order and any number of times: decrypt is called on any message there   *)
(* is.                                                                     *)
(***************************************************************************)
EXTENDS Integers, FiniteSets

CONSTANTS
  Peers,
  Outs,        \* outbound sessions, named by their session id
  Versions,    \* MegolmSessionVersion
  Handles,     \* inbound sessions of all the peers
  MaxU32,      \* u32::MAX
  MaxSent,     \* bound: the index up to which the sender encrypts
  MaxStrings,  \* bound: how many strings are kept at a time
  NULL

ASSUME IndexAssumption == MaxU32 \in Nat /\ MaxSent \in 0..MaxU32

ASSUME NullIsNoPeer == NULL \notin Peers

VARIABLES
  out,       \* the outbound sessions of the running sender: their index
  rolled,    \* the largest index an outbound session was restored from to a
             \* smaller one: below it, indices are used a second time
  sent,      \* the indices of the messages of each outbound session
  session,   \* the inbound session behind each handle
  keys,      \* the keys that are known to everybody
  pickles,   \* the pickles of inbound sessions
  floor,     \* from which index on a peer was ever given a session
  answer     \* what a call returned or threw, until the caller looks at it

vars == <<out, rolled, sent, session, keys, pickles, floor, answer>>

senderVars == <<out, rolled, sent>>

Index == 0..MaxU32

\* A session id, a version and a first known index, and who holds it.
Sessions == [owner : Peers, g : Outs, v : Versions, first : Index]

Closed == [owner |-> NULL]

\* A base64 session key or exported session key, and what was asked for.
Keys == [kind : {"session", "exported"}, g : Outs, at : Index, asked : Index]

Messages == [g : Outs, v : Versions, n : Index]

\* No index at all.
Never == MaxU32 + 1

Answers == {"none", "present", "empty", "true", "false", "plaintext",
            "EQUAL", "BETTER", "WORSE", "UNCONNECTED",
            "IllegalArgumentException", "ConversionException",
            "KeyException", "SignatureException", "DecryptionException"}

TypeOK ==
  /\ out \in [Outs -> [v : Versions, index : Index]]
  /\ rolled \in [Outs -> Index]
  /\ sent \in [Outs -> SUBSET Index]
  /\ session \in [Handles -> Sessions \cup {Closed}]
  /\ keys \subseteq Keys
  /\ pickles \subseteq Sessions
  /\ floor \in [Peers -> [Outs -> Index \cup {Never}]]
  /\ answer \in Answers

\* new OutboundGroupSession(version)
Init ==
  /\ out \in [Outs -> [v : Versions, index : {0}]]
  /\ rolled = [g \in Outs |-> 0]
  /\ sent = [g \in Outs |-> {}]
  /\ session = [h \in Handles |-> Closed]
  /\ keys = {} /\ pickles = {}
  /\ floor = [p \in Peers |-> [g \in Outs |-> Never]]
  /\ answer = "none"

Open(h) == session[h] # Closed

Return(a) == answer' = a

Unchanged == UNCHANGED <<senderVars, session, keys, pickles, floor>>

\* A new string is kept, and perhaps others.
Keep(K, P) ==
  /\ keys' \in SUBSET (keys \cup K) /\ K \subseteq keys'
  /\ pickles' \in SUBSET (pickles \cup P) /\ P \subseteq pickles'
  /\ Cardinality(keys') + Cardinality(pickles') <= MaxStrings

(***************************************************************************)
(* Indices are longs in Java. checkIndexRange, and what u32::try_from      *)
(* makes of the rest.                                                      *)
(***************************************************************************)
Longs == -1..(MaxU32 + 1)

CheckIndexRange(i) == 0 <= i /\ i < MaxU32 + 1

TryFrom(i) == 0 <= i /\ i <= MaxU32

\* Mutant: negative indices are rejected, the upper end is not checked.
AcceptedUpward(i) == 0 <= i

Accepted(i) == CheckIndexRange(i) /\ TryFrom(i)

\* exportAt and advanceTo of any open session.
RejectIndex(i) ==
  /\ \E h \in Handles : Open(h)
  /\ ~Accepted(i)
  /\ Return(IF CheckIndexRange(i) THEN "ConversionException"
            ELSE "IllegalArgumentException")
  /\ Unchanged

(***************************************************************************)
(* Outbound sessions.                                                      *)
(***************************************************************************)

\* Mutant: the ratchet of a copy of the session moves on.
EncryptOnCopy(g) ==
  /\ out[g].index < MaxSent
  /\ sent' \in {sent, [sent EXCEPT ![g] = @ \cup {out[g].index}]}
  /\ UNCHANGED <<out, rolled, session, keys, pickles, floor, answer>>

\* The index moves on also if the MegolmMessage for Java cannot be made.
Encrypt(g) ==
  /\ out[g].index < MaxSent
  /\ out' = [out EXCEPT ![g].index = @ + 1]
  /\ sent' \in {sent, [sent EXCEPT ![g] = @ \cup {out[g].index}]}
  /\ UNCHANGED <<rolled, session, keys, pickles, floor, answer>>

\* Mutant: the key of the ratchet after the next message.
SessionKeyOfNext(g) ==
  /\ out[g].index < MaxU32
  /\ Keep({[kind |-> "session", g |-> g,
            at |-> out[g].index + 1, asked |-> out[g].index + 1]}, {})
  /\ Return("present")
  /\ UNCHANGED <<senderVars, session, floor>>

SessionKey(g) ==
  /\ Keep({[kind |-> "session", g |-> g,
            at |-> out[g].index, asked |-> out[g].index]}, {})
  /\ Return("present")
  /\ UNCHANGED <<senderVars, session, floor>>

\* The sender restarts with a pickle: the application has pickled at moments
\* of its own choice, so that may be any state there was, also one from before
\* an earlier restart.
Restart(g, i) ==
  /\ i <= out[g].index \/ i <= rolled[g]
  /\ rolled' = IF i < out[g].index /\ rolled[g] < out[g].index
               THEN [rolled EXCEPT ![g] = out[g].index] ELSE rolled
  /\ out' = [out EXCEPT ![g].index = i]
  /\ UNCHANGED <<sent, session, keys, pickles, floor, answer>>

(***************************************************************************)
(* Inbound sessions.                                                       *)
(***************************************************************************)
Becomes(h, s) == session' = [session EXCEPT ![h] = s]

\* p has been given a key.
Receive(h, p, k, v) ==
  /\ ~Open(h) /\ k \in keys
  /\ Becomes(h, [owner |-> p, g |-> k.g, v |-> v, first |-> k.at])
  /\ floor' = [floor EXCEPT ![p][k.g] = IF k.asked < @ THEN k.asked ELSE @]
  /\ Return("present")
  /\ UNCHANGED <<senderVars, keys, pickles>>

New(h, p, k, v) == k.kind = "session" /\ Receive(h, p, k, v)

ImportSession(h, p, k, v) == k.kind = "exported" /\ Receive(h, p, k, v)

\* Each of the two reads one kind of key: the other one does not decode.
RejectKey(k) == k \in keys /\ Return("KeyException") /\ Unchanged

\* Signature first, then the index, then the MAC, whose length depends on
\* the version. The session stays as it is.
Decrypt(h, m) ==
  /\ Open(h) /\ m.n \in sent[m.g] /\ m.v = out[m.g].v
  /\ Return(IF m.g # session[h].g THEN "SignatureException"
            ELSE IF m.n < session[h].first \/ m.v # session[h].v
                 THEN "DecryptionException"
            ELSE "plaintext")
  /\ UNCHANGED <<senderVars, session, keys, pickles, floor>>

\* Mutant: the index is checked, and the session exported as it is.
ExportWhole(h, i) ==
  /\ Open(h) /\ Accepted(i) /\ i >= session[h].first
  /\ Keep({[kind |-> "exported", g |-> session[h].g,
            at |-> session[h].first, asked |-> i]}, {})
  /\ Return("present")
  /\ UNCHANGED <<senderVars, session, floor>>

\* None for an index the ratchet is beyond.
ExportAt(h, i) ==
  /\ Open(h) /\ Accepted(i)
  /\ IF i >= session[h].first
       THEN /\ Keep({[kind |-> "exported", g |-> session[h].g,
                      at |-> i, asked |-> i]}, {})
            /\ Return("present")
       ELSE Return("empty") /\ UNCHANGED <<keys, pickles>>
  /\ UNCHANGED <<senderVars, session, floor>>

ExportAtFirstKnownIndex(h) ==
  /\ Open(h)
  /\ Keep({[kind |-> "exported", g |-> session[h].g,
            at |-> session[h].first, asked |-> session[h].first]}, {})
  /\ Return("present")
  /\ UNCHANGED <<senderVars, session, floor>>

AdvanceTo(h, i) ==
  /\ Open(h) /\ Accepted(i)
  /\ IF i > session[h].first
       THEN Becomes(h, [session[h] EXCEPT !.first = i]) /\ Return("true")
       ELSE UNCHANGED session /\ Return("false")
  /\ UNCHANGED <<senderVars, keys, pickles, floor>>

Pickle(h) ==
  /\ Open(h)
  /\ Keep({}, {session[h]})
  /\ Return("present")
  /\ UNCHANGED <<senderVars, session, floor>>

Unpickle(h, s) ==
  /\ ~Open(h) /\ s \in pickles
  /\ Becomes(h, s)
  /\ Return("present")
  /\ UNCHANGED <<senderVars, keys, pickles, floor>>

Close(h) ==
  /\ Open(h)
  /\ Becomes(h, Closed)
  /\ UNCHANGED <<senderVars, keys, pickles, floor, answer>>

(***************************************************************************)
(* Two sessions of one peer.                                               *)
(***************************************************************************)
IsConnected(s, t) == s.g = t.g /\ s.v = t.v

Ordering(s, t) ==
  IF ~IsConnected(s, t) THEN "UNCONNECTED"
  ELSE IF s.first = t.first THEN "EQUAL"
  ELSE IF s.first < t.first THEN "BETTER"
  ELSE "WORSE"

Operands(a, b) ==
  Open(a) /\ Open(b) /\ session[a].owner = session[b].owner

\* check_self_pointer comes first in all three.
WithItself(a) == Open(a) /\ Return("ConversionException") /\ Unchanged

Connected(a, b) ==
  /\ Operands(a, b) /\ a # b
  /\ Return(IF IsConnected(session[a], session[b]) THEN "true" ELSE "false")
  /\ Unchanged

Compare(a, b) ==
  /\ Operands(a, b) /\ a # b
  /\ Return(Ordering(session[a], session[b]))
  /\ Unchanged

\* Mutant: this session, whichever is better.
MergeKeepsThis(a, b, h) ==
  /\ Operands(a, b) /\ a # b
  /\ IsConnected(session[a], session[b]) /\ ~Open(h)
  /\ Becomes(h, session[a]) /\ Return("present")
  /\ UNCHANGED <<senderVars, keys, pickles, floor>>

\* The better one, as a third session.
Merge(a, b, h) ==
  /\ Operands(a, b) /\ a # b
  /\ IF IsConnected(session[a], session[b])
       THEN /\ ~Open(h)
            /\ Becomes(h, IF session[b].first < session[a].first
                          THEN session[b] ELSE session[a])
            /\ Return("present")
       ELSE UNCHANGED session /\ Return("empty")
  /\ UNCHANGED <<senderVars, keys, pickles, floor>>

\* The caller has the result: the next call may be made, by anyone.
Taken == answer # "none" /\ Return("none") /\ Unchanged

Call ==
  \/ \E g \in Outs :
       Encrypt(g) \/ SessionKey(g) \/ \E i \in Index : Restart(g, i)
  \/ \E h \in Handles, p \in Peers, k \in keys, v \in Versions :
       New(h, p, k, v) \/ ImportSession(h, p, k, v)
  \/ \E k \in keys : RejectKey(k)
  \/ \E i \in Longs :
       RejectIndex(i) \/ \E h \in Handles : ExportAt(h, i) \/ AdvanceTo(h, i)
  \/ \E h \in Handles :
       \/ ExportAtFirstKnownIndex(h) \/ Pickle(h) \/ Close(h) \/ WithItself(h)
       \/ \E m \in Messages : Decrypt(h, m)
  \/ \E h \in Handles, s \in pickles : Unpickle(h, s)
  \/ \E a, b \in Handles :
       \/ Connected(a, b) \/ Compare(a, b)
       \/ \E h \in Handles : Merge(a, b, h)

Next == (answer = "none" /\ Call) \/ Taken

Spec == Init /\ [][Next]_vars

(***************************************************************************)
(* Properties.                                                             *)
(***************************************************************************)

\* No session of a peer reaches further back than the indices for which keys
\* were issued that this peer received: along every chain of exportAt,
\* importSession, advanceTo, merge, pickle and unpickle, by any peers.
NoAccessBelowGrant ==
  \A h \in Handles : Open(h) =>
    session[h].first >= floor[session[h].owner][session[h].g]

\* Who has a session key can read everything that is encrypted after it was
\* shared; after a restart from an older pickle, everything but messages at
\* indices that are used for the second time.
SharedKeyCovers ==
  \A k \in keys :
    k.kind = "session" => k.at <= out[k.g].index \/ k.at <= rolled[k.g]

\* The index a sender encrypts with next has no message yet, nor have those
\* after it, except the indices that a restart from an older pickle has taken
\* it back behind: once it is past these, its indices are fresh again.
IndicesAreFresh ==
  \A g \in Outs : \A n \in sent[g] : n < out[g].index \/ n < rolled[g]

(***************************************************************************)
(* The sets of messages behind sessions and strings.                       *)
(***************************************************************************)
ReachOf(s) ==
  IF s = Closed THEN {}
  ELSE [g : {s.g}, v : {s.v}, n : s.first..MaxU32]

GivenBy(k) == [g : {k.g}, v : Versions, n : k.asked..MaxU32]

Reach == INSTANCE MegolmReach WITH
           reach <- [h \in Handles |-> ReachOf(session[h])],
           keys <- {GivenBy(k) : k \in keys},
           pickles <- {ReachOf(s) : s \in pickles}

\* Sessions are sets of messages: what advanceTo, exportAt, compare, merge
\* and decrypt do with indices is what the Javadoc says about the messages
\* one can read.
ImplementsReach == Reach!ReachSpec
=============================================================================
