--------------------------- MODULE MegolmGroupProofs ---------------------------
(***************************************************************************)
(* Theorems about MegolmGroup, for any number of peers and sessions and    *)
(* any largest index: the invariants the run checks, and that it           *)
(* implements MegolmReach.                                                 *)
(***************************************************************************)
EXTENDS MegolmGroup, TLAPS

-------------------------------------------------------------------------------
(* The invariant: not only sessions, but also the strings that can become  *)
(* sessions, reach no further back than what their holder was given.       *)
KeysAsAsked == \A k \in keys : k.at = k.asked

PicklesAboveGrant == \A s \in pickles : s.first >= floor[s.owner][s.g]

IInv ==
  /\ TypeOK /\ KeysAsAsked /\ PicklesAboveGrant
  /\ NoAccessBelowGrant /\ SharedKeyCovers /\ IndicesAreFresh

\* Indices, and the record of no session.
LEMMA Indices ==
  /\ Index \subseteq Nat /\ Never \in Nat /\ MaxU32 \in Nat
  /\ \A i \in Longs : Accepted(i) <=> i \in Index
  /\ \A i \in Index : i <= MaxU32
BY IndexAssumption DEF Index, Never, Longs, Accepted, CheckIndexRange, TryFrom

LEMMA OpenSession ==
  ASSUME TypeOK, NEW h \in Handles, Open(h)
  PROVE  /\ session[h] \in Sessions /\ session[h].owner \in Peers
         /\ session[h].g \in Outs /\ session[h].v \in Versions
         /\ session[h].first \in Index
BY DEF TypeOK, Open, Sessions

LEMMA Floors ==
  ASSUME TypeOK
  PROVE  \A p \in Peers, g \in Outs : floor[p][g] \in Nat
BY Indices DEF TypeOK

-------------------------------------------------------------------------------
(* Strings and indices that change while the sessions stay as they are.    *)
LEMMA KeepInv ==
  ASSUME IInv, NEW K \in SUBSET Keys, NEW P \in SUBSET Sessions, Keep(K, P),
         \A k \in K : k.at = k.asked,
         \A k \in K : k.kind = "session" => k.at <= out[k.g].index,
         \A s \in P : s.first >= floor[s.owner][s.g],
         UNCHANGED <<senderVars, session, floor>>, answer' \in Answers
  PROVE  IInv'
<1>1. keys' \subseteq keys \cup K /\ pickles' \subseteq pickles \cup P
  BY DEF Keep
<1>2. UNCHANGED <<out, rolled, sent>>
  BY DEF senderVars
<1>3. TypeOK'
  BY <1>1, <1>2 DEF IInv, TypeOK
<1> QED  BY <1>1, <1>2, <1>3
         DEF IInv, KeysAsAsked, PicklesAboveGrant, NoAccessBelowGrant,
             SharedKeyCovers, IndicesAreFresh, Open

LEMMA UnchangedInv == ASSUME IInv, Unchanged, answer' \in Answers PROVE IInv'
<1>1. UNCHANGED <<out, rolled, sent, session, keys, pickles, floor>>
  BY DEF Unchanged, senderVars
<1> QED  BY <1>1
         DEF IInv, TypeOK, KeysAsAsked, PicklesAboveGrant, NoAccessBelowGrant,
             SharedKeyCovers, IndicesAreFresh, Open

\* A session gets a value that its owner is entitled to, or is closed.
LEMMA BecomesInv ==
  ASSUME IInv, NEW h \in Handles, NEW s \in Sessions \cup {Closed},
         Becomes(h, s), s # Closed => s.first >= floor[s.owner][s.g],
         UNCHANGED <<senderVars, keys, pickles, floor>>, answer' \in Answers
  PROVE  IInv'
<1>1. /\ session' = [session EXCEPT ![h] = s]
      /\ UNCHANGED <<out, rolled, sent, keys, pickles, floor>>
  BY DEF Becomes, senderVars
<1>2. /\ session \in [Handles -> Sessions \cup {Closed}]
      /\ \A g \in Handles : session'[g] = IF g = h THEN s ELSE session[g]
  BY <1>1 DEF IInv, TypeOK
<1>3. TypeOK'
  BY <1>1 DEF IInv, TypeOK
<1>4. NoAccessBelowGrant'
  BY <1>1, <1>2 DEF IInv, NoAccessBelowGrant, Open
<1> QED  BY <1>1, <1>3, <1>4
         DEF IInv, KeysAsAsked, PicklesAboveGrant, SharedKeyCovers,
             IndicesAreFresh

-------------------------------------------------------------------------------
(* The sender.                                                             *)
LEMMA EncryptInv == ASSUME IInv, NEW g \in Outs, Encrypt(g) PROVE IInv'
<1>1. /\ out \in [Outs -> [v : Versions, index : Index]]
      /\ sent \in [Outs -> SUBSET Index]
      /\ out[g].index \in Index /\ out[g].index < MaxSent
  BY DEF IInv, TypeOK, Encrypt
<1>2. out[g].index + 1 \in Index /\ out[g].index \in Nat
  BY <1>1, IndexAssumption DEF Index
<1>3. /\ out' = [out EXCEPT ![g].index = @ + 1]
      /\ sent' = sent \/ sent' = [sent EXCEPT ![g] = @ \cup {out[g].index}]
      /\ UNCHANGED <<rolled, session, keys, pickles, floor, answer>>
  BY DEF Encrypt
<1>4. /\ out' \in [Outs -> [v : Versions, index : Index]]
      /\ \A k \in Outs : out'[k].index >= out[k].index
  BY <1>1, <1>2, <1>3, Indices
<1>5. sent' \in [Outs -> SUBSET Index]
  BY <1>1, <1>3
<1>6. TypeOK'
  BY <1>3, <1>4, <1>5 DEF IInv, TypeOK
<1>7. SharedKeyCovers'
  <2>1. ASSUME NEW k \in keys, k.kind = "session", ~(k.at <= rolled[k.g])
        PROVE  k.at <= out'[k.g].index
    <3>1. k.g \in Outs /\ k.at \in Index
      BY DEF IInv, TypeOK, Keys
    <3>2. out'[k.g].index \in Index /\ out[k.g].index \in Index
      BY <1>1, <1>4, <3>1
    <3>3. k.at <= out[k.g].index /\ out'[k.g].index >= out[k.g].index
      BY <2>1, <3>1, <1>4 DEF IInv, SharedKeyCovers
    <3>4. k.at \in Nat /\ out'[k.g].index \in Nat /\ out[k.g].index \in Nat
      BY <3>1, <3>2, Indices
    <3> QED  BY <3>3, <3>4
  <2> QED  BY <2>1, <1>3 DEF SharedKeyCovers
<1>8. IndicesAreFresh'
  <2>1. ASSUME NEW k \in Outs, NEW n \in sent'[k], ~(n < rolled[k])
        PROVE  n < out'[k].index
    <3>1. /\ n \in Nat /\ out[k].index \in Nat /\ out'[k].index \in Nat
          /\ out'[k].index >= out[k].index
      BY <1>1, <1>4, <1>5, Indices
    <3>2. CASE n \in sent[k]
      BY <2>1, <3>1, <3>2 DEF IInv, IndicesAreFresh
    <3>3. CASE k = g /\ n = out[g].index
      <4>1. out'[g].index = out[g].index + 1
        BY <1>1, <1>3
      <4> QED  BY <3>1, <3>3, <4>1
    <3> QED  BY <1>1, <1>3, <3>2, <3>3
  <2> QED  BY <2>1, <1>3 DEF IndicesAreFresh
<1> QED  BY <1>3, <1>6, <1>7, <1>8
         DEF IInv, KeysAsAsked, PicklesAboveGrant, NoAccessBelowGrant, Open

LEMMA RestartInv ==
  ASSUME IInv, NEW g \in Outs, NEW i \in Index, Restart(g, i) PROVE IInv'
<1>1. /\ out' = [out EXCEPT ![g].index = i]
      /\ out \in [Outs -> [v : Versions, index : Index]]
      /\ rolled \in [Outs -> Index] /\ rolled' \in [Outs -> Index]
      /\ \A k \in Outs : rolled'[k] >= rolled[k]
      /\ i >= out[g].index \/ rolled'[g] >= out[g].index
      /\ UNCHANGED <<sent, session, keys, pickles, floor, answer>>
  <2>1. /\ out \in [Outs -> [v : Versions, index : Index]]
        /\ rolled \in [Outs -> Index]
        /\ out[g].index \in Index /\ \A k \in Outs : rolled[k] \in Nat
    BY Indices DEF IInv, TypeOK
  <2>2. out[g].index \in Nat /\ i \in Nat
    BY <2>1, Indices
  <2>3. CASE i < out[g].index /\ rolled[g] < out[g].index
    <3>1. rolled' = [rolled EXCEPT ![g] = out[g].index]
      BY <2>3 DEF Restart
    <3> QED  BY <2>1, <2>2, <2>3, <3>1 DEF Restart
  <2>4. CASE ~(i < out[g].index /\ rolled[g] < out[g].index)
    BY <2>1, <2>2, <2>4 DEF Restart
  <2> QED  BY <2>3, <2>4
<1>2. /\ out' \in [Outs -> [v : Versions, index : Index]]
      /\ out'[g].index = i
      /\ \A k \in Outs : k # g => out'[k] = out[k]
  BY <1>1
<1>3. TypeOK'
  BY <1>1, <1>2 DEF IInv, TypeOK
<1>4. \A k \in Outs : /\ out[k].index \in Nat /\ out'[k].index \in Nat
                       /\ rolled[k] \in Nat /\ rolled'[k] \in Nat
  BY <1>1, <1>2, Indices
<1>5. \A k \in Outs, n \in Nat :
        /\ n <= out[k].index \/ n <= rolled[k]
             => n <= out'[k].index \/ n <= rolled'[k]
        /\ n < out[k].index \/ n < rolled[k]
             => n < out'[k].index \/ n < rolled'[k]
  BY <1>1, <1>2, <1>4
<1>6. SharedKeyCovers'
  <2>1. \A k \in keys : k.g \in Outs /\ k.at \in Nat
    BY Indices DEF IInv, TypeOK, Keys
  <2> QED  BY <1>1, <1>5, <2>1 DEF IInv, SharedKeyCovers
<1>7. IndicesAreFresh'
  <2>1. \A k \in Outs : \A n \in sent[k] : n \in Nat
    BY Indices DEF IInv, TypeOK
  <2> QED  BY <1>1, <1>5, <2>1 DEF IInv, IndicesAreFresh
<1> QED  BY <1>1, <1>3, <1>6, <1>7
         DEF IInv, KeysAsAsked, PicklesAboveGrant, NoAccessBelowGrant, Open

LEMMA SessionKeyInv == ASSUME IInv, NEW g \in Outs, SessionKey(g) PROVE IInv'
<1> DEFINE k == [kind |-> "session", g |-> g,
                 at |-> out[g].index, asked |-> out[g].index]
<1>1. k \in Keys /\ k.at = out[g].index /\ k.asked = k.at /\ k.g = g
      /\ k.at \in Nat
  BY Indices DEF IInv, TypeOK, Keys
<1>2. Keep({k}, {}) /\ answer' \in Answers
      /\ UNCHANGED <<senderVars, session, floor>>
  BY DEF SessionKey, Return, Answers
<1> HIDE DEF k
<1> QED  BY <1>1, <1>2, KeepInv

-------------------------------------------------------------------------------
(* The inbound sessions.                                                   *)
LEMMA ReceiveInv ==
  ASSUME IInv, NEW h \in Handles, NEW p \in Peers, NEW k \in keys,
         NEW v \in Versions, Receive(h, p, k, v)
  PROVE  IInv'
<1> DEFINE s == [owner |-> p, g |-> k.g, v |-> v, first |-> k.at]
<1>1. /\ k.g \in Outs /\ k.at \in Index /\ k.asked \in Index /\ k.at = k.asked
  BY DEF IInv, TypeOK, Keys, KeysAsAsked
<1>2. s \in Sessions /\ s.owner = p /\ s.g = k.g /\ s.first = k.at
  BY <1>1 DEF Sessions
<1>3. /\ session' = [session EXCEPT ![h] = s]
      /\ floor' = [floor EXCEPT ![p][k.g] = IF k.asked < @ THEN k.asked ELSE @]
      /\ UNCHANGED <<out, rolled, sent, keys, pickles>> /\ answer' \in Answers
  BY DEF Receive, Becomes, Return, Answers, senderVars
<1> HIDE DEF s
<1>4. /\ floor \in [Peers -> [Outs -> Index \cup {Never}]]
      /\ session \in [Handles -> Sessions \cup {Closed}]
      /\ \A q \in Peers, g \in Outs : floor[q][g] \in Nat
  BY Floors DEF IInv, TypeOK
<1>5. /\ floor' \in [Peers -> [Outs -> Index \cup {Never}]]
      /\ \A q \in Peers, g \in Outs : floor'[q][g] <= floor[q][g]
                                      /\ floor'[q][g] \in Nat
      /\ floor'[p][k.g] <= k.asked
  <2> DEFINE f == IF k.asked < floor[p][k.g] THEN k.asked ELSE floor[p][k.g]
  <2>1. /\ k.asked \in Nat /\ floor[p][k.g] \in Nat
        /\ floor[p] \in [Outs -> Index \cup {Never}]
        /\ floor[p][k.g] \in Index \cup {Never}
    BY <1>1, <1>4, Indices
  <2>2. /\ f \in Index \cup {Never} /\ f \in Nat
        /\ f <= floor[p][k.g] /\ f <= k.asked
    BY <1>1, <2>1
  <2>3. floor' = [floor EXCEPT ![p] = [floor[p] EXCEPT ![k.g] = f]]
    BY <1>3
  <2> HIDE DEF f
  <2>4. [floor[p] EXCEPT ![k.g] = f] \in [Outs -> Index \cup {Never}]
    BY <2>1, <2>2
  <2>5. floor' \in [Peers -> [Outs -> Index \cup {Never}]]
    BY <1>4, <2>3, <2>4
  <2>6. \A q \in Peers, g \in Outs :
          floor'[q][g] = IF q = p /\ g = k.g THEN f ELSE floor[q][g]
    BY <1>4, <2>1, <2>3
  <2>7. \A q \in Peers, g \in Outs :
          floor'[q][g] <= floor[q][g] /\ floor'[q][g] \in Nat
    BY <1>4, <2>2, <2>6
  <2>8. floor'[p][k.g] <= k.asked
    BY <1>1, <2>2, <2>6
  <2> QED  BY <2>5, <2>7, <2>8
<1>6. \A g \in Handles : session'[g] = IF g = h THEN s ELSE session[g]
  BY <1>3, <1>4
<1>7. TypeOK'
  BY <1>2, <1>3, <1>5 DEF IInv, TypeOK
<1>8. ASSUME NEW t \in Sessions, t.first >= floor[t.owner][t.g]
      PROVE  t.first >= floor'[t.owner][t.g]
  <2>1. t.owner \in Peers /\ t.g \in Outs /\ t.first \in Nat
    BY Indices DEF Sessions
  <2> QED  BY <1>4, <1>5, <1>8, <2>1
<1>9. PicklesAboveGrant'
  BY <1>3, <1>8 DEF IInv, TypeOK, PicklesAboveGrant
<1>10. s.first >= floor'[s.owner][s.g]
  <2>1. k.at \in Nat /\ k.asked \in Nat /\ floor'[p][k.g] \in Nat
        /\ k.at = k.asked /\ floor'[p][k.g] <= k.asked
    BY <1>1, <1>5, Indices
  <2> QED  BY <1>2, <2>1
<1>11. NoAccessBelowGrant'
  <2> SUFFICES ASSUME NEW g \in Handles, Open(g)'
               PROVE  session'[g].first >= floor'[session'[g].owner][session'[g].g]
    BY DEF NoAccessBelowGrant
  <2>1. CASE g = h
    BY <2>1, <1>6, <1>10
  <2>2. CASE g # h
    <3>1. session'[g] = session[g] /\ Open(g) /\ session[g] \in Sessions
      BY <2>2, <1>4, <1>6 DEF Open
    <3>2. session[g].first >= floor[session[g].owner][session[g].g]
      BY <3>1 DEF IInv, NoAccessBelowGrant
    <3> QED  BY <3>1, <3>2, <1>8
  <2> QED  BY <2>1, <2>2
<1> QED  BY <1>3, <1>7, <1>9, <1>11
         DEF IInv, KeysAsAsked, SharedKeyCovers, IndicesAreFresh

\* The keys and pickles that a session makes.
LEMMA ExportInv ==
  ASSUME IInv, NEW h \in Handles, NEW i \in Index, Open(h),
         Keep({[kind |-> "exported", g |-> session[h].g, at |-> i, asked |-> i]}, {}),
         UNCHANGED <<senderVars, session, floor>>, answer' \in Answers
  PROVE  IInv'
<1> DEFINE k == [kind |-> "exported", g |-> session[h].g, at |-> i, asked |-> i]
<1>1. k \in Keys /\ k.at = k.asked /\ k.kind # "session"
  BY OpenSession, Indices DEF IInv, Keys
<1> HIDE DEF k
<1>2. Keep({k}, {})
  BY DEF k
<1> QED  BY <1>1, <1>2, KeepInv

LEMMA SessionCallsInv ==
  ASSUME IInv, NEW h \in Handles,
         \/ \E i \in Longs : ExportAt(h, i) \/ AdvanceTo(h, i)
         \/ ExportAtFirstKnownIndex(h) \/ Pickle(h) \/ Close(h)
         \/ \E s \in pickles : Unpickle(h, s)
  PROVE  IInv'
<1>1. ASSUME NEW i \in Longs, ExportAt(h, i) PROVE IInv'
  <2>1. i \in Index /\ Open(h)
    BY <1>1, Indices DEF ExportAt
  <2>2. CASE i >= session[h].first
    BY <1>1, <2>1, <2>2, ExportInv DEF ExportAt, Return, Answers
  <2>3. CASE ~(i >= session[h].first)
    BY <1>1, <2>3, UnchangedInv DEF ExportAt, Return, Answers, Unchanged
  <2> QED  BY <2>2, <2>3
<1>2. ASSUME NEW i \in Longs, AdvanceTo(h, i) PROVE IInv'
  <2>1. i \in Index /\ Open(h) /\ session[h] \in Sessions
    BY <1>2, Indices, OpenSession DEF AdvanceTo, IInv
  <2>2. CASE i > session[h].first
    <3> DEFINE s == [session[h] EXCEPT !.first = i]
    <3>1. s \in Sessions /\ s.owner = session[h].owner /\ s.g = session[h].g
          /\ s.first = i
      BY <2>1 DEF Sessions
    <3> HIDE DEF s
    <3>2. session[h].first >= floor[session[h].owner][session[h].g]
      BY <2>1 DEF IInv, NoAccessBelowGrant
    <3>3. s.first >= floor[s.owner][s.g]
      <4>1. /\ session[h].first \in Nat /\ i \in Nat
            /\ floor[session[h].owner][session[h].g] \in Nat
        BY <2>1, Indices, Floors, OpenSession DEF IInv
      <4> QED  BY <4>1, <3>1, <3>2, <2>2
    <3>4. Becomes(h, s) /\ answer' \in Answers
          /\ UNCHANGED <<senderVars, keys, pickles, floor>>
      BY <1>2, <2>2 DEF AdvanceTo, Return, Answers, s
    <3> QED  BY <3>1, <3>3, <3>4, BecomesInv
  <2>3. CASE ~(i > session[h].first)
    BY <1>2, <2>3, UnchangedInv DEF AdvanceTo, Return, Answers, Unchanged
  <2> QED  BY <2>2, <2>3
<1>3. CASE ExportAtFirstKnownIndex(h)
  BY <1>3, ExportInv, OpenSession
     DEF ExportAtFirstKnownIndex, Return, Answers, IInv
<1>4. CASE Pickle(h)
  <2>1. session[h] \in Sessions
        /\ session[h].first >= floor[session[h].owner][session[h].g]
    BY <1>4, OpenSession DEF Pickle, IInv, NoAccessBelowGrant
  <2> QED  BY <1>4, <2>1, KeepInv DEF Pickle, Return, Answers
<1>5. CASE Close(h)
  BY <1>5, BecomesInv DEF Close, IInv, TypeOK
<1>6. ASSUME NEW s \in pickles, Unpickle(h, s) PROVE IInv'
  <2>1. s \in Sessions /\ s.first >= floor[s.owner][s.g]
    BY DEF IInv, TypeOK, PicklesAboveGrant
  <2> QED  BY <1>6, <2>1, BecomesInv DEF Unpickle, Return, Answers
<1> QED  BY <1>1, <1>2, <1>3, <1>4, <1>5, <1>6

LEMMA MergeInv ==
  ASSUME IInv, NEW a \in Handles, NEW b \in Handles, NEW h \in Handles,
         Merge(a, b, h)
  PROVE  IInv'
<1>1. CASE IsConnected(session[a], session[b])
  <2> DEFINE s == IF session[b].first < session[a].first
                    THEN session[b] ELSE session[a]
  <2>1. s \in Sessions /\ s.first >= floor[s.owner][s.g]
    BY OpenSession DEF Merge, Operands, IInv, NoAccessBelowGrant
  <2>2. Becomes(h, s) /\ answer' \in Answers
        /\ UNCHANGED <<senderVars, keys, pickles, floor>>
    BY <1>1 DEF Merge, Return, Answers
  <2> HIDE DEF s
  <2> QED  BY <2>1, <2>2, BecomesInv
<1>2. CASE ~IsConnected(session[a], session[b])
  BY <1>2, UnchangedInv DEF Merge, Return, Answers, Unchanged
<1> QED  BY <1>1, <1>2

\* Calls that read, and calls that are refused.
LEMMA ReadInv ==
  ASSUME IInv,
         \/ \E k \in keys : RejectKey(k)
         \/ \E i \in Longs : RejectIndex(i)
         \/ \E h \in Handles, m \in Messages : Decrypt(h, m)
         \/ \E h \in Handles : WithItself(h)
         \/ \E a, b \in Handles : Connected(a, b) \/ Compare(a, b)
         \/ Taken
  PROVE  IInv'
<1>1. Unchanged /\ answer' \in Answers
  BY DEF RejectKey, RejectIndex, Decrypt, WithItself, Connected, Compare, Taken,
         Return, Answers, Unchanged, Ordering
<1> QED  BY <1>1, UnchangedInv

-------------------------------------------------------------------------------
(* The invariant holds, and with it the properties.                        *)
LEMMA InitInv == Init => IInv
BY Indices DEF Init, IInv, TypeOK, KeysAsAsked, PicklesAboveGrant, Open,
   NoAccessBelowGrant, SharedKeyCovers, IndicesAreFresh, Answers, Index

LEMMA StepInv == IInv /\ [Next]_vars => IInv'
<1> SUFFICES ASSUME IInv, [Next]_vars PROVE IInv'
  OBVIOUS
<1>1. CASE UNCHANGED vars
  BY <1>1, UnchangedInv DEF vars, Unchanged, senderVars, IInv, TypeOK
<1>2. ASSUME NEW g \in Outs, Encrypt(g) PROVE IInv'
  BY <1>2, EncryptInv
<1>3. ASSUME NEW g \in Outs, SessionKey(g) PROVE IInv'
  BY <1>3, SessionKeyInv
<1>4. ASSUME NEW g \in Outs, NEW i \in Index, Restart(g, i) PROVE IInv'
  BY <1>4, RestartInv
<1>5. ASSUME NEW h \in Handles, NEW p \in Peers, NEW k \in keys,
             NEW v \in Versions, New(h, p, k, v) \/ ImportSession(h, p, k, v)
      PROVE  IInv'
  BY <1>5, ReceiveInv DEF New, ImportSession
<1>6. ASSUME NEW a \in Handles, NEW b \in Handles, NEW h \in Handles, Merge(a, b, h)
      PROVE  IInv'
  BY <1>6, MergeInv
<1> QED  BY <1>1, <1>2, <1>3, <1>4, <1>5, <1>6, SessionCallsInv, ReadInv
         DEF Next, Call

LEMMA Invariance == Spec => []IInv
<1> QED  BY InitInv, StepInv, PTL DEF Spec

\* The types of sessions, strings and answers.
THEOREM TypeCorrect == Spec => []TypeOK
<1>1. IInv => TypeOK
  BY DEF IInv
<1> QED  BY <1>1, Invariance, PTL

\* No peer's session reaches below the indices for which it was given keys.
THEOREM AccessIsGranted == Spec => []NoAccessBelowGrant
<1>1. IInv => NoAccessBelowGrant
  BY DEF IInv
<1> QED  BY <1>1, Invariance, PTL

\* A session key covers what is encrypted after it was shared; after a restart
\* of the sender from an older pickle, all but what has an index used before.
THEOREM KeysCover == Spec => []SharedKeyCovers
<1>1. IInv => SharedKeyCovers
  BY DEF IInv
<1> QED  BY <1>1, Invariance, PTL

\* No index is used twice, but those that a restart of the sender from an older
\* pickle has taken it back behind.
THEOREM IndicesStayFresh == Spec => []IndicesAreFresh
<1>1. IInv => IndicesAreFresh
  BY DEF IInv
<1> QED  BY <1>1, Invariance, PTL

-------------------------------------------------------------------------------
(* The refinement: sessions, and intervals of messages.                    *)
LEMMA Member ==
  ASSUME NEW s \in Sessions
  PROVE  /\ s # Closed
         /\ \A m : m \in ReachOf(s) <=>
              m \in Messages /\ m.g = s.g /\ m.v = s.v /\ m.n >= s.first
<1>1. s # Closed
  BY NullIsNoPeer DEF Sessions, Closed
<1>2. s.g \in Outs /\ s.v \in Versions /\ s.first \in 0..MaxU32
  BY DEF Sessions, Index
<1>3. ReachOf(s) = [g : {s.g}, v : {s.v}, n : s.first..MaxU32]
  BY <1>1 DEF ReachOf
<1>4. ASSUME NEW m PROVE
        m \in ReachOf(s) <=>
          m \in Messages /\ m.g = s.g /\ m.v = s.v /\ m.n >= s.first
  <2>1. \A i : i \in s.first..MaxU32 <=> i \in Index /\ i >= s.first
    BY <1>2, IndexAssumption DEF Index
  <2> QED  BY <1>2, <1>3, <2>1 DEF Messages
<1> QED  BY <1>1, <1>4

\* The messages at the two ends of a session's interval.
LEMMA Ends ==
  ASSUME NEW s \in Sessions
  PROVE  /\ [g |-> s.g, v |-> s.v, n |-> MaxU32] \in ReachOf(s)
         /\ [g |-> s.g, v |-> s.v, n |-> s.first] \in ReachOf(s)
         /\ s.g \in Outs /\ s.v \in Versions /\ s.first \in Nat
         /\ s.first <= MaxU32
<1>1. s.g \in Outs /\ s.v \in Versions /\ s.first \in 0..MaxU32
  BY DEF Sessions, Index
<1>2. [g |-> s.g, v |-> s.v, n |-> MaxU32] \in Messages
      /\ [g |-> s.g, v |-> s.v, n |-> s.first] \in Messages
  BY <1>1, IndexAssumption DEF Messages, Index
<1> QED  BY <1>1, <1>2, Member, IndexAssumption

LEMMA Disjoint ==
  ASSUME NEW s \in Sessions, NEW t \in Sessions
  PROVE  ReachOf(s) \cap ReachOf(t) = {} <=> ~IsConnected(s, t)
<1>1. CASE IsConnected(s, t)
  <2>1. [g |-> s.g, v |-> s.v, n |-> MaxU32] \in ReachOf(s) \cap ReachOf(t)
    BY <1>1, Ends DEF IsConnected
  <2> QED  BY <1>1, <2>1
<1>2. CASE ~IsConnected(s, t)
  BY <1>2, Member DEF IsConnected
<1> QED  BY <1>1, <1>2

LEMMA Included ==
  ASSUME NEW s \in Sessions, NEW t \in Sessions, IsConnected(s, t)
  PROVE  ReachOf(s) \subseteq ReachOf(t) <=> t.first <= s.first
<1>1. s.first \in Nat /\ t.first \in Nat
  BY Ends
<1>2. CASE t.first <= s.first
  <2> SUFFICES ASSUME NEW m \in ReachOf(s) PROVE m \in ReachOf(t)
    BY <1>2
  <2>1. m \in Messages /\ m.g = s.g /\ m.v = s.v /\ m.n >= s.first
    BY Member
  <2>2. m.n \in Nat
    BY <2>1, Indices DEF Messages
  <2>3. m.n >= t.first
    BY <1>1, <1>2, <2>1, <2>2
  <2> QED  BY <2>1, <2>3, Member DEF IsConnected
<1>3. CASE ~(t.first <= s.first)
  <2> DEFINE m == [g |-> s.g, v |-> s.v, n |-> s.first]
  <2>1. m \in ReachOf(s) /\ m.n = s.first
    BY Ends
  <2>2. m \notin ReachOf(t)
    BY <1>1, <1>3, <2>1, Member
  <2> QED  BY <1>3, <2>1, <2>2
<1> QED  BY <1>2, <1>3

LEMMA SameReach ==
  ASSUME NEW s \in Sessions, NEW t \in Sessions, IsConnected(s, t)
  PROVE  ReachOf(s) = ReachOf(t) <=> s.first = t.first
<1>1. IsConnected(t, s)
  BY DEF IsConnected
<1>2. s.first \in Nat /\ t.first \in Nat
  BY Ends
<1>3. ReachOf(s) = ReachOf(t)
        <=> ReachOf(s) \subseteq ReachOf(t) /\ ReachOf(t) \subseteq ReachOf(s)
  OBVIOUS
<1> QED  BY <1>1, <1>2, <1>3, Included

\* A session that starts at i or where it did, whichever is later.
LEMMA Advanced ==
  ASSUME NEW s \in Sessions, NEW i \in Index
  PROVE  LET t == IF i > s.first THEN [s EXCEPT !.first = i] ELSE s IN
           {m \in ReachOf(s) : m.n >= i} = ReachOf(t)
<1> DEFINE t == IF i > s.first THEN [s EXCEPT !.first = i] ELSE s
<1>1. s.first \in Nat /\ i \in Nat
  BY Ends, Indices
<1>2. t \in Sessions /\ t.g = s.g /\ t.v = s.v
      /\ t.first = IF i > s.first THEN i ELSE s.first
  BY DEF Sessions
<1> HIDE DEF t
<1>3. ASSUME NEW m \in Messages
      PROVE  m.n >= s.first /\ m.n >= i <=> m.n >= t.first
  <2>1. m.n \in Nat
    BY Indices DEF Messages
  <2> QED  BY <1>1, <1>2, <2>1
<1>4. \A m : m \in {k \in ReachOf(s) : k.n >= i} <=> m \in ReachOf(t)
  BY <1>2, <1>3, Member
<1>5. {m \in ReachOf(s) : m.n >= i} = ReachOf(t)
  BY <1>4
<1> QED  BY <1>5 DEF t

\* A key gives all versions; a session is for one.
LEMMA Received ==
  ASSUME NEW k \in Keys, k.at = k.asked, NEW p \in Peers, NEW v \in Versions
  PROVE  {m \in GivenBy(k) : m.v = v}
           = ReachOf([owner |-> p, g |-> k.g, v |-> v, first |-> k.at])
<1> DEFINE s == [owner |-> p, g |-> k.g, v |-> v, first |-> k.at]
<1>1. s \in Sessions /\ s # Closed /\ k.g \in Outs
  BY Member DEF Keys, Sessions
<1>2. ReachOf(s) = [g : {k.g}, v : {v}, n : (k.at)..MaxU32]
  BY <1>1 DEF ReachOf
<1> QED  BY <1>2 DEF GivenBy

-------------------------------------------------------------------------------
(* The steps of the mapping.                                               *)
Sets == [h \in Handles |-> ReachOf(session[h])]

KeySets == {GivenBy(k) : k \in keys}

PickleSets == {ReachOf(s) : s \in pickles}

LEMMA OpenReach ==
  ASSUME TypeOK, NEW h \in Handles
  PROVE  Sets[h] = ReachOf(session[h]) /\ (Reach!Open(h) <=> Open(h))
<1>1. Sets[h] = ReachOf(session[h])
  BY DEF Sets
<1>2. CASE Open(h)
  BY <1>1, <1>2, OpenSession, Ends DEF Reach!Open, Sets
<1>3. CASE ~Open(h)
  BY <1>1, <1>3 DEF Reach!Open, Sets, Open, ReachOf
<1> QED  BY <1>1, <1>2, <1>3

\* What the actions on sessions and on strings do to the sets.
LEMMA BecomesSet ==
  ASSUME TypeOK, NEW h \in Handles, NEW s, Becomes(h, s),
         UNCHANGED <<keys, pickles>>
  PROVE  /\ Sets' = [Sets EXCEPT ![h] = ReachOf(s)]
         /\ UNCHANGED <<KeySets, PickleSets>>
BY DEF TypeOK, Becomes, Sets, KeySets, PickleSets

LEMMA KeepSet ==
  ASSUME NEW K, NEW P, Keep(K, P), UNCHANGED session
  PROVE  /\ UNCHANGED Sets
         /\ KeySets' \subseteq KeySets \cup {GivenBy(k) : k \in K}
         /\ PickleSets' \subseteq PickleSets \cup {ReachOf(s) : s \in P}
BY DEF Keep, Sets, KeySets, PickleSets

LEMMA SameSets ==
  ASSUME UNCHANGED <<session, keys, pickles>>
  PROVE  UNCHANGED <<Sets, KeySets, PickleSets>>
BY DEF Sets, KeySets, PickleSets

\* A call of the sender moves no set.
LEMMA SenderMaps ==
  ASSUME IInv, NEW g \in Outs, answer = "none",
         Encrypt(g) \/ (\E i \in Index : Restart(g, i)) \/ SessionKey(g)
  PROVE  Reach!ReachNext \/ UNCHANGED Reach!reachVars
<1>1. CASE Encrypt(g) \/ \E i \in Index : Restart(g, i)
  BY <1>1, SameSets
     DEF Encrypt, Restart, Reach!reachVars, Sets, KeySets, PickleSets
<1>2. CASE SessionKey(g)
  <2> DEFINE k == [kind |-> "session", g |-> g,
                   at |-> out[g].index, asked |-> out[g].index]
             i == out[g].index
  <2>1. i \in 0..MaxU32
    BY DEF IInv, TypeOK, Index
  <2>2. GivenBy(k) = Reach!KeyOf(g, i)
    BY DEF GivenBy, Reach!KeyOf
  <2>3. Keep({k}, {}) /\ UNCHANGED session /\ answer' = "present"
    BY <1>2 DEF SessionKey, Return
  <2>4. {GivenBy(x) : x \in {k}} = {GivenBy(k)}
    OBVIOUS
  <2> HIDE DEF k, i
  <2>5. /\ UNCHANGED Sets /\ PickleSets' \subseteq PickleSets \cup {}
        /\ KeySets' \subseteq KeySets \cup {Reach!KeyOf(g, i)}
    BY <2>2, <2>3, <2>4, KeepSet
  <2>6. Reach!ReachShare(g, i)
    BY <2>3, <2>5
       DEF Reach!ReachShare, Reach!Forget, Sets, KeySets, PickleSets
  <2> QED  BY <2>1, <2>6 DEF Reach!ReachNext, Reach!ReachCall
<1> QED  BY <1>1, <1>2

LEMMA ReceiveMaps ==
  ASSUME IInv, NEW h \in Handles, NEW p \in Peers, NEW k \in keys,
         NEW v \in Versions, Receive(h, p, k, v), answer = "none"
  PROVE  Reach!ReachNext
<1> DEFINE s == [owner |-> p, g |-> k.g, v |-> v, first |-> k.at]
<1>1. k \in Keys /\ k.at = k.asked
  BY DEF IInv, TypeOK, KeysAsAsked
<1>2. {m \in GivenBy(k) : m.v = v} = ReachOf(s)
  BY <1>1, Received
<1>3. Becomes(h, s) /\ UNCHANGED <<keys, pickles>> /\ answer' = "present" /\ ~Open(h)
  BY DEF Receive, Return
<1> HIDE DEF s
<1>4. /\ Sets' = [Sets EXCEPT ![h] = ReachOf(s)]
      /\ UNCHANGED <<KeySets, PickleSets>> /\ ~Reach!Open(h)
  BY <1>3, BecomesSet, OpenReach DEF IInv
<1>5. Reach!ReachReceive(h, GivenBy(k), v)
  BY <1>2, <1>3, <1>4 DEF Reach!ReachReceive, Sets, KeySets, PickleSets
<1>6. GivenBy(k) \in KeySets
  BY DEF KeySets
<1> QED  BY <1>5, <1>6 DEF Reach!ReachNext, Reach!ReachCall, KeySets

\* exportAt and exportAtFirstKnownIndex, when there is a key.
LEMMA ExportMaps ==
  ASSUME IInv, NEW h \in Handles, Open(h), NEW i \in Index,
         i >= session[h].first, answer = "none", answer' = "present",
         Keep({[kind |-> "exported", g |-> session[h].g, at |-> i, asked |-> i]}, {}),
         UNCHANGED session
  PROVE  Reach!ReachNext
<1> DEFINE s == session[h]
           k == [kind |-> "exported", g |-> s.g, at |-> i, asked |-> i]
<1>1. s \in Sessions /\ s.g \in Outs /\ s.v \in Versions /\ s.first \in Nat
      /\ i \in Nat /\ i \in 0..MaxU32
  BY OpenSession, Ends, Indices DEF IInv, Index
<1>2. GivenBy(k) = Reach!KeyOf(s.g, i)
  BY DEF GivenBy, Reach!KeyOf
<1>3. {GivenBy(x) : x \in {k}} = {GivenBy(k)}
  OBVIOUS
<1>4. /\ UNCHANGED Sets /\ PickleSets' \subseteq PickleSets \cup {}
      /\ KeySets' \subseteq KeySets \cup {Reach!KeyOf(s.g, i)}
  <2> HIDE DEF k
  <2>1. Keep({k}, {})
    BY DEF k
  <2> QED  BY <2>1, <1>2, <1>3, KeepSet
<1>5. [g : {s.g}, v : {s.v}, n : i..MaxU32] \subseteq ReachOf(s)
  <2> SUFFICES ASSUME NEW m \in [g : {s.g}, v : {s.v}, n : i..MaxU32]
               PROVE  m \in ReachOf(s)
    OBVIOUS
  <2>1. m \in Messages /\ m.g = s.g /\ m.v = s.v /\ m.n >= s.first
    BY <1>1, IndexAssumption DEF Messages, Index
  <2> QED  BY <1>1, <2>1, Member
<1>6. PICK m \in ReachOf(s) : m.g = s.g /\ m.v = s.v
  BY <1>1, Ends
<1>7. Sets[h] = ReachOf(s)
  BY DEF Sets
<1> HIDE DEF s
<1>8. Reach!ReachExport(h, i)
  BY <1>1, <1>4, <1>5, <1>6, <1>7
     DEF Reach!ReachExport, Reach!Forget, Sets, KeySets, PickleSets
<1>9. Reach!Open(h)
  BY OpenReach DEF IInv
<1> QED  BY <1>1, <1>8, <1>9 DEF Reach!ReachNext, Reach!ReachCall

LEMMA NoExportMaps ==
  ASSUME IInv, NEW h \in Handles, Open(h), NEW i \in Index,
         ~(i >= session[h].first), answer = "none", answer' = "empty",
         UNCHANGED <<session, keys, pickles>>
  PROVE  Reach!ReachNext
<1> DEFINE s == session[h]
           m == [g |-> s.g, v |-> s.v, n |-> i]
<1>1. s \in Sessions /\ s.g \in Outs /\ s.v \in Versions
      /\ i \in Nat /\ i \in 0..MaxU32
  BY OpenSession, Ends, Indices DEF IInv, Index
<1>2. m \in [g : {s.g}, v : {s.v}, n : i..MaxU32] /\ m.n = i
  BY <1>1, IndexAssumption
<1>3. m \notin ReachOf(s)
  BY <1>1, <1>2, Member
<1>4. PICK x \in ReachOf(s) : x.g = s.g /\ x.v = s.v
  BY <1>1, Ends
<1>5. Sets[h] = ReachOf(s) /\ UNCHANGED <<Sets, KeySets, PickleSets>>
  BY SameSets DEF Sets
<1> HIDE DEF s, m
<1>6. Reach!ReachExport(h, i)
  BY <1>1, <1>2, <1>3, <1>4, <1>5
     DEF Reach!ReachExport, Sets, KeySets, PickleSets
<1>7. Reach!Open(h)
  BY OpenReach DEF IInv
<1> QED  BY <1>1, <1>6, <1>7 DEF Reach!ReachNext, Reach!ReachCall

LEMMA AdvanceMaps ==
  ASSUME IInv, NEW h \in Handles, NEW i \in Longs, AdvanceTo(h, i), answer = "none"
  PROVE  Reach!ReachNext
<1> DEFINE s == session[h]
           t == IF i > s.first THEN [s EXCEPT !.first = i] ELSE s
<1>1. i \in Index /\ i \in 0..MaxU32 /\ i \in Nat /\ Open(h) /\ s \in Sessions
      /\ s.first \in Nat
  BY Indices, OpenSession, Ends DEF AdvanceTo, IInv, Index
<1>2. {m \in ReachOf(s) : m.n >= i} = ReachOf(t)
  BY <1>1, Advanced
<1>3. Becomes(h, t) /\ UNCHANGED <<keys, pickles>>
  <2>1. session \in [Handles -> Sessions \cup {Closed}]
    BY DEF IInv, TypeOK
  <2> QED  BY <2>1 DEF AdvanceTo, Becomes
<1>4. answer' = IF i > s.first THEN "true" ELSE "false"
  BY DEF AdvanceTo, Return
<1>5. Sets' = [Sets EXCEPT ![h] = ReachOf(t)] /\ UNCHANGED <<KeySets, PickleSets>>
  <2> HIDE DEF t
  <2> QED  BY <1>3, BecomesSet DEF IInv
<1>6. i > s.first <=> ReachOf(t) # ReachOf(s)
  <2>1. CASE i > s.first
    <3>1. PICK m \in ReachOf(s) : m.n = s.first
      BY <1>1, Ends
    <3>2. ~(m.n >= i)
      BY <3>1, <2>1, <1>1
    <3>3. m \notin ReachOf(t)
      BY <3>2, <1>2
    <3> QED  BY <3>1, <3>3, <2>1
  <2>2. CASE ~(i > s.first)
    BY <2>2
  <2> QED  BY <2>1, <2>2
<1>7. Sets[h] = ReachOf(s) /\ Reach!Open(h)
  BY <1>1, OpenReach DEF IInv
<1>8. Sets' # Sets <=> ReachOf(t) # ReachOf(s)
  <2> HIDE DEF s, t
  <2>1. DOMAIN Sets = Handles
    BY DEF Sets
  <2>2. Sets'[h] = ReachOf(t)
    BY <1>5, <2>1
  <2>3. ReachOf(t) = ReachOf(s) => Sets' = Sets
    BY <1>5, <1>7 DEF Sets
  <2> QED  BY <2>2, <2>3, <1>7
<1>9. /\ Sets' = [Sets EXCEPT ![h] = {m \in Sets[h] : m.n >= i}]
      /\ answer' \in {"true", "false"} /\ (answer' = "true" <=> Sets' # Sets)
  <2>1. {m \in Sets[h] : m.n >= i} = ReachOf(t)
    BY <1>2, <1>7
  <2>2. answer' = "true" <=> i > s.first
    BY <1>4
  <2>3. answer' \in {"true", "false"}
    BY <1>4
  <2> HIDE DEF s, t
  <2> QED  BY <2>1, <2>2, <2>3, <1>5, <1>6, <1>8
<1>10. Reach!ReachAdvance(h, i)
  BY <1>5, <1>9 DEF Reach!ReachAdvance, Sets, KeySets, PickleSets
<1> QED  BY <1>1, <1>7, <1>10 DEF Reach!ReachNext, Reach!ReachCall

LEMMA PickleMaps ==
  ASSUME IInv, NEW h \in Handles, answer = "none",
         Pickle(h) \/ Close(h) \/ \E s \in pickles : Unpickle(h, s)
  PROVE  Reach!ReachNext
<1>1. Sets[h] = ReachOf(session[h]) /\ (Reach!Open(h) <=> Open(h))
  BY OpenReach DEF IInv
<1>2. CASE Pickle(h)
  <2>1. Keep({}, {session[h]}) /\ UNCHANGED session /\ answer' = "present" /\ Open(h)
    BY <1>2 DEF Pickle, Return
  <2>2. {ReachOf(s) : s \in {session[h]}} = {Sets[h]}
    BY <1>1
  <2>3. /\ UNCHANGED Sets /\ KeySets' \subseteq KeySets \cup {}
        /\ PickleSets' \subseteq PickleSets \cup {Sets[h]}
    BY <2>1, <2>2, KeepSet
  <2>4. Reach!ReachPickle(h)
    BY <2>1, <2>3
       DEF Reach!ReachPickle, Reach!Forget, Sets, KeySets, PickleSets
  <2> QED  BY <1>1, <2>1, <2>4 DEF Reach!ReachNext, Reach!ReachCall
<1>3. CASE Close(h)
  <2>1. Becomes(h, Closed) /\ UNCHANGED <<keys, pickles, answer>> /\ Open(h)
    BY <1>3 DEF Close
  <2>2. Sets' = [Sets EXCEPT ![h] = {}] /\ UNCHANGED <<KeySets, PickleSets>>
    BY <2>1, BecomesSet DEF ReachOf, IInv
  <2>3. Reach!ReachClose(h)
    BY <2>1, <2>2 DEF Reach!ReachClose, Sets, KeySets, PickleSets
  <2> QED  BY <1>1, <2>1, <2>3 DEF Reach!ReachNext, Reach!ReachCall
<1>4. ASSUME NEW s \in pickles, Unpickle(h, s) PROVE Reach!ReachNext
  <2>1. Becomes(h, s) /\ UNCHANGED <<keys, pickles>> /\ ~Open(h)
        /\ answer' = "present"
    BY <1>4 DEF Unpickle, Return
  <2>2. /\ Sets' = [Sets EXCEPT ![h] = ReachOf(s)]
        /\ UNCHANGED <<KeySets, PickleSets>>
    BY <2>1, BecomesSet DEF IInv
  <2>3. Reach!ReachUnpickle(h, ReachOf(s))
    BY <1>1, <2>1, <2>2 DEF Reach!ReachUnpickle, Sets, KeySets, PickleSets
  <2>4. ReachOf(s) \in PickleSets
    BY DEF PickleSets
  <2> QED  BY <2>3, <2>4 DEF Reach!ReachNext, Reach!ReachCall, PickleSets
<1> QED  BY <1>2, <1>3, <1>4

LEMMA DecryptMaps ==
  ASSUME IInv, NEW h \in Handles, NEW m \in Messages, Decrypt(h, m), answer = "none"
  PROVE  Reach!ReachNext
<1> DEFINE s == session[h]
<1>1. s \in Sessions /\ Open(h) /\ s.first \in Nat /\ m.n \in Nat
  BY OpenSession, Ends, Indices DEF Decrypt, IInv, Messages
<1>2. m \in ReachOf(s) <=> m.g = s.g /\ m.v = s.v /\ ~(m.n < s.first)
  BY <1>1, Member
<1>3. answer' \in IF m \in ReachOf(s) THEN {"plaintext"}
                  ELSE {"SignatureException", "DecryptionException"}
  <2>1. CASE m \in ReachOf(s)
    <3>1. m.g = s.g /\ m.v = s.v /\ ~(m.n < s.first)
      BY <1>2, <2>1
    <3> QED  BY <2>1, <3>1 DEF Decrypt, Return
  <2>2. CASE m \notin ReachOf(s)
    <3>1. m.g # s.g \/ m.v # s.v \/ m.n < s.first
      BY <1>2, <2>2
    <3> QED  BY <2>2, <3>1 DEF Decrypt, Return
  <2> QED  BY <2>1, <2>2
<1>4. Sets[h] = ReachOf(s) /\ Reach!Open(h)
  BY <1>1, OpenReach DEF IInv
<1>5. UNCHANGED <<Sets, KeySets, PickleSets>>
  BY SameSets DEF Decrypt
<1>6. Reach!ReachDecrypt(h, m)
  BY <1>3, <1>4, <1>5 DEF Reach!ReachDecrypt, Sets, KeySets, PickleSets
<1>7. m \in Reach!Msgs
  BY DEF Messages, Reach!Msgs, Index
<1> QED  BY <1>4, <1>6, <1>7 DEF Reach!ReachNext, Reach!ReachCall

\* compare is inclusion, connected is to have a message in common.
LEMMA CompareMaps ==
  ASSUME IInv, NEW a \in Handles, NEW b \in Handles, answer = "none",
         Compare(a, b) \/ Connected(a, b)
  PROVE  Reach!ReachNext
<1> DEFINE s == session[a]
           t == session[b]
<1>1. s \in Sessions /\ t \in Sessions /\ Open(a) /\ Open(b) /\ a # b
      /\ s.first \in Nat /\ t.first \in Nat
  BY OpenSession, Ends DEF Compare, Connected, Operands, IInv
<1>2. /\ Sets[a] = ReachOf(s) /\ Sets[b] = ReachOf(t)
      /\ Reach!Open(a) /\ Reach!Open(b)
  BY <1>1, OpenReach DEF IInv
<1>3. UNCHANGED <<Sets, KeySets, PickleSets>>
  BY SameSets DEF Compare, Connected, Unchanged
<1>4. ReachOf(s) \cap ReachOf(t) = {} <=> ~IsConnected(s, t)
  BY <1>1, Disjoint
<1>5. CASE Connected(a, b)
  <2>1. answer' = IF ReachOf(s) \cap ReachOf(t) = {} THEN "false" ELSE "true"
    BY <1>4, <1>5 DEF Connected, Return
  <2>2. Reach!ReachConnected(a, b)
    BY <1>2, <1>3, <2>1 DEF Reach!ReachConnected, Sets, KeySets, PickleSets
  <2> QED  BY <1>1, <1>2, <2>2 DEF Reach!ReachNext, Reach!ReachCall
<1>6. CASE Compare(a, b)
  <2>1. Ordering(s, t) = Reach!Ordering(ReachOf(s), ReachOf(t))
    <3>1. CASE ~IsConnected(s, t)
      BY <1>4, <3>1 DEF Ordering, Reach!Ordering
    <3>2. CASE IsConnected(s, t)
      <4>1. IsConnected(t, s)
        BY <3>2 DEF IsConnected
      <4>2. /\ ReachOf(s) = ReachOf(t) <=> s.first = t.first
            /\ ReachOf(t) \subseteq ReachOf(s) <=> s.first <= t.first
        BY <1>1, <3>2, <4>1, SameReach, Included
      <4>3. s.first = t.first \/ (s.first < t.first <=> s.first <= t.first)
        BY <1>1
      <4> HIDE DEF s, t
      <4> QED  BY <1>4, <3>2, <4>2, <4>3 DEF Ordering, Reach!Ordering
    <3> QED  BY <3>1, <3>2
  <2>2. answer' = Reach!Ordering(ReachOf(s), ReachOf(t))
    BY <1>6, <2>1 DEF Compare, Return
  <2>3. Reach!ReachCompare(a, b)
    BY <1>2, <1>3, <2>2 DEF Reach!ReachCompare, Sets, KeySets, PickleSets
  <2> QED  BY <1>1, <1>2, <2>3 DEF Reach!ReachNext, Reach!ReachCall
<1> QED  BY <1>5, <1>6

\* merge is union: of two connected sessions one includes the other.
LEMMA MergeMaps ==
  ASSUME IInv, NEW a \in Handles, NEW b \in Handles, NEW h \in Handles,
         Merge(a, b, h), answer = "none"
  PROVE  Reach!ReachNext
<1> DEFINE s == session[a]
           t == session[b]
           u == IF t.first < s.first THEN t ELSE s
<1>1. s \in Sessions /\ t \in Sessions /\ Open(a) /\ Open(b) /\ a # b
      /\ s.first \in Nat /\ t.first \in Nat
  BY OpenSession, Ends DEF Merge, Operands, IInv
<1>2. /\ Sets[a] = ReachOf(s) /\ Sets[b] = ReachOf(t)
      /\ Reach!Open(a) /\ Reach!Open(b)
  BY <1>1, OpenReach DEF IInv
<1>3. ReachOf(s) \cap ReachOf(t) = {} <=> ~IsConnected(s, t)
  BY <1>1, Disjoint
<1>4. Reach!ReachMerge(a, b, h)
  <2>1. CASE IsConnected(s, t)
    <3>1. IsConnected(t, s)
      BY <2>1 DEF IsConnected
    <3>2. ReachOf(s) \cup ReachOf(t) = ReachOf(u)
      <4>1. CASE t.first < s.first
        <5>1. ReachOf(s) \subseteq ReachOf(t)
          BY <4>1, <1>1, <2>1, Included
        <5> QED  BY <4>1, <5>1
      <4>2. CASE ~(t.first < s.first)
        <5>1. ReachOf(t) \subseteq ReachOf(s)
          BY <4>2, <1>1, <3>1, Included
        <5> QED  BY <4>2, <5>1
      <4> QED  BY <4>1, <4>2
    <3>3. Becomes(h, u) /\ UNCHANGED <<keys, pickles>> /\ ~Open(h)
          /\ answer' = "present"
      BY <2>1 DEF Merge, Return
    <3> HIDE DEF u
    <3>4. /\ Sets' = [Sets EXCEPT ![h] = ReachOf(u)]
          /\ UNCHANGED <<KeySets, PickleSets>> /\ ~Reach!Open(h)
      BY <3>3, BecomesSet, OpenReach DEF IInv
    <3> HIDE DEF s, t
    <3> QED  BY <1>2, <1>3, <2>1, <3>2, <3>3, <3>4
             DEF Reach!ReachMerge, Sets, KeySets, PickleSets
  <2>2. CASE ~IsConnected(s, t)
    <3>1. UNCHANGED <<session, keys, pickles>> /\ answer' = "empty"
      BY <2>2 DEF Merge, Return
    <3>2. UNCHANGED <<Sets, KeySets, PickleSets>>
      BY <3>1, SameSets
    <3> HIDE DEF s, t, u
    <3> QED  BY <1>2, <1>3, <2>2, <3>1, <3>2
             DEF Reach!ReachMerge, Sets, KeySets, PickleSets
  <2> QED  BY <2>1, <2>2
<1> QED  BY <1>1, <1>2, <1>4 DEF Reach!ReachNext, Reach!ReachCall

LEMMA RefuseMaps ==
  ASSUME answer = "none",
         \/ \E k \in keys : RejectKey(k)
         \/ \E i \in Longs : RejectIndex(i)
         \/ \E h \in Handles : WithItself(h)
  PROVE  Reach!ReachNext
<1>1. /\ answer' \in {"IllegalArgumentException", "KeyException",
                      "ConversionException"}
      /\ UNCHANGED <<session, keys, pickles>>
  BY DEF RejectKey, RejectIndex, WithItself, Return, Unchanged
<1>2. Reach!ReachRefuse
  BY <1>1, SameSets DEF Reach!ReachRefuse, Sets, KeySets, PickleSets
<1> QED  BY <1>2 DEF Reach!ReachNext, Reach!ReachCall

LEMMA StepMaps ==
  IInv /\ [Next]_vars => [Reach!ReachNext]_(Reach!reachVars)
<1> SUFFICES ASSUME IInv, [Next]_vars
             PROVE  Reach!ReachNext \/ UNCHANGED Reach!reachVars
  OBVIOUS
<1>1. CASE UNCHANGED vars
  BY <1>1, SameSets DEF vars, Reach!reachVars, Sets, KeySets, PickleSets
<1>2. CASE Taken
  BY <1>2, SameSets DEF Taken, Return, Unchanged, Reach!ReachNext,
     Reach!ReachTaken, Sets, KeySets, PickleSets
<1>3. CASE answer = "none" /\ Call
  <2>1. ASSUME NEW h \in Handles, NEW i \in Longs, ExportAt(h, i)
        PROVE  Reach!ReachNext
    <3>1. i \in Index /\ Open(h)
      BY <2>1, Indices DEF ExportAt
    <3>2. CASE i >= session[h].first
      BY <1>3, <2>1, <3>1, <3>2, ExportMaps DEF ExportAt, Return
    <3>3. CASE ~(i >= session[h].first)
      BY <1>3, <2>1, <3>1, <3>3, NoExportMaps DEF ExportAt, Return
    <3> QED  BY <3>2, <3>3
  <2>2. ASSUME NEW h \in Handles, ExportAtFirstKnownIndex(h)
        PROVE  Reach!ReachNext
    <3>1. session[h].first \in Index /\ session[h].first >= session[h].first
      <4>1. session[h].first \in Index
        BY <2>2, OpenSession DEF ExportAtFirstKnownIndex, IInv
      <4>2. session[h].first \in Nat
        BY <4>1, Indices
      <4> QED  BY <4>1, <4>2
    <3> QED  BY <1>3, <2>2, <3>1, ExportMaps
             DEF ExportAtFirstKnownIndex, Return
  <2>3. ASSUME NEW h \in Handles, NEW p \in Peers, NEW k \in keys,
               NEW v \in Versions, New(h, p, k, v) \/ ImportSession(h, p, k, v)
        PROVE  Reach!ReachNext
    BY <1>3, <2>3, ReceiveMaps DEF New, ImportSession
  <2>4. ASSUME NEW g \in Outs,
               Encrypt(g) \/ SessionKey(g) \/ \E i \in Index : Restart(g, i)
        PROVE  Reach!ReachNext \/ UNCHANGED Reach!reachVars
    BY <1>3, <2>4, SenderMaps
  <2>5. ASSUME NEW h \in Handles,
               \/ Pickle(h) \/ Close(h) \/ WithItself(h)
               \/ \E i \in Longs : AdvanceTo(h, i)
               \/ \E m \in Messages : Decrypt(h, m)
               \/ \E s \in pickles : Unpickle(h, s)
        PROVE  Reach!ReachNext
    BY <1>3, <2>5, PickleMaps, RefuseMaps, AdvanceMaps, DecryptMaps
  <2>6. ASSUME NEW a \in Handles, NEW b \in Handles,
               \/ Connected(a, b) \/ Compare(a, b)
               \/ \E h \in Handles : Merge(a, b, h)
        PROVE  Reach!ReachNext
    BY <1>3, <2>6, CompareMaps, MergeMaps
  <2>7. ASSUME (\E k \in keys : RejectKey(k)) \/ \E i \in Longs : RejectIndex(i)
        PROVE  Reach!ReachNext
    BY <1>3, <2>7, RefuseMaps
  <2> QED  BY <1>3, <2>1, <2>2, <2>3, <2>4, <2>5, <2>6, <2>7 DEF Call
<1> QED  BY <1>1, <1>2, <1>3 DEF Next

LEMMA InitMaps == Init => Reach!ReachInit
BY DEF Init, Reach!ReachInit, ReachOf

\* The sessions with their ratchets implement the sets of messages.
THEOREM Refinement == Spec => ImplementsReach
<1> QED  BY InitMaps, StepMaps, Invariance, PTL
         DEF Spec, ImplementsReach, Reach!ReachSpec
================================================================================
