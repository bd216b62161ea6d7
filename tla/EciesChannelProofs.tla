-------------------------- MODULE EciesChannelProofs --------------------------
(***************************************************************************)
(* Theorems about EciesChannel, for channels of any length.                *)
(***************************************************************************)
EXTENDS EciesChannel, SequenceTheorems, TLAPS

\* Initially and after each step: what was returned to a side came before the
\* nonce it expects next, in order, and without a failure nothing is missing.
Below(x) ==
  IsEstablished(x) =>
    \A i \in DOMAIN plain[x] : plain[x][i] < ecies[x].dec

Empty(x) == ecies[x] = Unused => plain[x] = <<>>

EciesInv ==
  /\ EciesTypeOK /\ EciesInOrder /\ EciesSkipsOnFailure
  /\ \A x \in Sides : Below(x) /\ Empty(x)

LEMMA EciesInitInv == EciesInit => EciesInv
BY NonceAssumption DEF EciesInit, EciesInv, EciesTypeOK, EciesInOrder, Below, Empty,
   EciesSkipsOnFailure, Sides, Established, Unused, Gone, IsEstablished

\* An EstablishedEcies is no Ecies and not closed.
LEMMA Apart == Unused \notin Established /\ Gone \notin Established
               /\ Unused # Gone
BY DEF Unused, Gone, Established

\* What a side with a new nonce and perhaps one more plaintext looks like.
LEMMA ConsumeInv ==
  ASSUME EciesInv, NEW x \in Sides, ecies' = [ecies EXCEPT ![x] = Gone],
         UNCHANGED <<wire, plain, failed>>
  PROVE  EciesInv'
BY Apart DEF EciesInv, EciesTypeOK, EciesInOrder, EciesSkipsOnFailure, Below, Empty,
   IsEstablished, Gone, Unused

\* The counters of an established side, before and after they move.
LEMMA EstablishedSide ==
  ASSUME EciesInv, NEW x \in Sides, IsEstablished(x)
  PROVE  ecies[x] \in Established
BY DEF EciesInv, EciesTypeOK, IsEstablished

LEMMA Advance ==
  ASSUME NEW c \in Established
  PROVE  /\ c.enc \in 0..MaxNonce /\ c.dec \in 0..MaxNonce
         /\ c.enc < MaxNonce =>
              /\ [c EXCEPT !.enc = @ + 1] \in Established
              /\ [c EXCEPT !.enc = @ + 1].dec = c.dec
         /\ c.dec < MaxNonce =>
              /\ [c EXCEPT !.dec = @ + 1] \in Established
              /\ [c EXCEPT !.dec = @ + 1].dec = c.dec + 1
              /\ c.dec + 1 \in 0..MaxNonce
BY NonceAssumption DEF Established

\* A sequence with one more element.
LEMMA Appended ==
  ASSUME NEW S, NEW q \in Seq(S), NEW c \in S
  PROVE  /\ Append(q, c) \in Seq(S)
         /\ DOMAIN Append(q, c) = 1..(Len(q) + 1)
         /\ \A i \in 1..Len(q) : Append(q, c)[i] = q[i] /\ q[i] \in S
         /\ Append(q, c)[Len(q) + 1] = c
         /\ DOMAIN q = 1..Len(q) /\ Len(q) \in Nat
OBVIOUS

LEMMA OutboundInv == EciesInv /\ EstablishOutboundChannel => EciesInv'
<1> SUFFICES ASSUME EciesInv, EstablishOutboundChannel PROVE EciesInv'
  OBVIOUS
<1> DEFINE a == "initiator"
<1>1. a \in Sides /\ ecies[a] = Unused /\ plain[a] = <<>>
  BY DEF EciesInv, EstablishOutboundChannel, Empty, Sides
<1>2. [enc |-> 1, dec |-> 0] \in Established
  BY NonceAssumption DEF Established
<1>3. ecies' = [ecies EXCEPT ![a] = [enc |-> 1, dec |-> 0]]
      /\ UNCHANGED <<plain, failed>>
  BY DEF EstablishOutboundChannel, Becomes
<1>4. EciesTypeOK'
  BY <1>2, <1>3, NonceAssumption
     DEF EciesInv, EciesTypeOK, EstablishOutboundChannel, Wire, Sides
<1>5. EciesInOrder'
  BY <1>3 DEF EciesInv, EciesInOrder
<1>6. EciesSkipsOnFailure'
  <2> SUFFICES ASSUME NEW x \in Sides, IsEstablished(x)', x \notin failed'
               PROVE  plain'[x] = [i \in 1..(ecies'[x].dec) |-> i - 1]
    BY DEF EciesSkipsOnFailure
  <2>1. CASE x = a
    BY <2>1, <1>1, <1>3 DEF EciesInv, EciesTypeOK
  <2>2. CASE x # a
    BY <2>2, <1>3 DEF EciesInv, EciesTypeOK, EciesSkipsOnFailure, IsEstablished
  <2> QED  BY <2>1, <2>2
<1>7. ASSUME NEW x \in Sides PROVE Below(x)' /\ Empty(x)'
  BY <1>1, <1>2, <1>3, Apart DEF EciesInv, EciesTypeOK, Below, Empty, IsEstablished
<1> QED  BY <1>4, <1>5, <1>6, <1>7 DEF EciesInv

LEMMA InboundInv == EciesInv /\ EstablishInboundChannel => EciesInv'
<1> SUFFICES ASSUME EciesInv, EstablishInboundChannel PROVE EciesInv'
  OBVIOUS
<1> DEFINE a == "recipient"
<1>1. a \in Sides /\ ecies[a] = Unused
  BY DEF EciesInv, EstablishInboundChannel, Sides
<1>2. [enc |-> 0, dec |-> 1] \in Established
  BY NonceAssumption DEF Established
<1>3. /\ ecies' = [ecies EXCEPT ![a] = [enc |-> 0, dec |-> 1]]
      /\ plain' = [plain EXCEPT ![a] = <<0>>] /\ UNCHANGED <<wire, failed>>
  BY DEF EstablishInboundChannel, Becomes
<1>4. EciesTypeOK'
  BY <1>2, <1>3, NonceAssumption DEF EciesInv, EciesTypeOK, Sides
<1>5. EciesInOrder'
  BY <1>3 DEF EciesInv, EciesInOrder, EciesTypeOK
<1>6. EciesSkipsOnFailure'
  <2> SUFFICES ASSUME NEW x \in Sides, IsEstablished(x)', x \notin failed'
               PROVE  plain'[x] = [i \in 1..(ecies'[x].dec) |-> i - 1]
    BY DEF EciesSkipsOnFailure
  <2>1. CASE x = a
    <3>1. plain'[x] = <<0>> /\ ecies'[x].dec = 1
      BY <2>1, <1>3 DEF EciesInv, EciesTypeOK
    <3> QED  BY <3>1
  <2>2. CASE x # a
    BY <2>2, <1>3 DEF EciesInv, EciesTypeOK, EciesSkipsOnFailure, IsEstablished
  <2> QED  BY <2>1, <2>2
<1>7. ASSUME NEW x \in Sides PROVE Below(x)' /\ Empty(x)'
  BY <1>1, <1>2, <1>3, Apart DEF EciesInv, EciesTypeOK, Below, Empty, IsEstablished
<1> QED  BY <1>4, <1>5, <1>6, <1>7 DEF EciesInv

LEMMA EncryptInv == ASSUME EciesInv, NEW x \in Sides, EciesEncrypt(x) PROVE EciesInv'
<1> DEFINE e == [ecies[x] EXCEPT !.enc = @ + 1]
<1>1. ecies[x] \in Established /\ e \in Established /\ e.dec = ecies[x].dec
  <2>1. ecies[x] \in Established /\ ecies[x].enc < MaxNonce
    BY EstablishedSide DEF EciesEncrypt
  <2> QED  BY <2>1, Advance
<1>2. ecies' = [ecies EXCEPT ![x] = e] /\ UNCHANGED <<plain, failed>>
  BY DEF EciesEncrypt, Becomes
<1>3. EciesTypeOK'
  <2>1. [from |-> x, n |-> ecies[x].enc] \in Wire
    BY <1>1 DEF Wire, Established
  <2> QED  BY <2>1, <1>1, <1>2 DEF EciesInv, EciesTypeOK, EciesEncrypt
<1>4. \A y \in Sides : /\ IsEstablished(y)' <=> IsEstablished(y)
                       /\ IsEstablished(y) => ecies'[y].dec = ecies[y].dec
                       /\ ecies'[y] = Unused <=> ecies[y] = Unused
  BY <1>1, <1>2, Apart DEF IsEstablished, EciesInv, EciesTypeOK
<1> QED  BY <1>2, <1>3, <1>4
         DEF EciesInv, EciesInOrder, EciesSkipsOnFailure, Below, Empty

LEMMA DecryptInv ==
  ASSUME EciesInv, NEW x \in Sides, NEW m \in wire, EciesDecrypt(x, m) PROVE EciesInv'
<1> DEFINE d == ecies[x].dec
           e == [ecies[x] EXCEPT !.dec = @ + 1]
<1>1. /\ ecies[x] \in Established /\ d \in Nat /\ d + 1 \in 0..MaxNonce
      /\ e \in Established /\ e.dec = d + 1
  <2>1. ecies[x] \in Established /\ ecies[x].dec < MaxNonce
    BY EstablishedSide DEF EciesDecrypt
  <2>2. d \in 0..MaxNonce /\ e \in Established /\ e.dec = d + 1
        /\ d + 1 \in 0..MaxNonce
    BY <2>1, Advance
  <2> QED  BY <2>1, <2>2, NonceAssumption
<1>2. plain[x] \in Seq(0..MaxNonce) /\ plain \in [Sides -> Seq(0..MaxNonce)]
      /\ ecies \in [Sides -> Established \cup {Unused, Gone}]
      /\ \A i \in DOMAIN plain[x] : plain[x][i] \in Nat /\ plain[x][i] < d
  <2>1. plain \in [Sides -> Seq(0..MaxNonce)]
        /\ ecies \in [Sides -> Established \cup {Unused, Gone}]
        /\ plain[x] \in Seq(0..MaxNonce)
    BY DEF EciesInv, EciesTypeOK
  <2>2. \A i \in DOMAIN plain[x] : plain[x][i] \in 0..MaxNonce
    BY <2>1, NonceAssumption
  <2>3. \A i \in DOMAIN plain[x] : plain[x][i] < d
    BY DEF EciesInv, Below, EciesDecrypt
  <2> QED  BY <2>1, <2>2, <2>3, NonceAssumption
<1>2a. d = ecies[x].dec /\ (x \notin failed => plain[x] = [i \in 1..d |-> i - 1])
      /\ m \in wire
  BY DEF EciesInv, EciesSkipsOnFailure, EciesDecrypt
<1> HIDE DEF d, e
<1>3. CASE UNCHANGED ecies /\ Thrown(x) /\ UNCHANGED wire
  BY <1>3 DEF Thrown, EciesInv, EciesTypeOK, EciesInOrder, EciesSkipsOnFailure,
              Below, Empty, IsEstablished
<1>4. CASE ecies' = [ecies EXCEPT ![x] = e] /\ Thrown(x) /\ UNCHANGED wire
  <2>1. EciesTypeOK' /\ EciesInOrder'
    BY <1>1, <1>4 DEF Thrown, EciesInv, EciesTypeOK, EciesInOrder
  <2>2. EciesSkipsOnFailure'
    BY <1>2, <1>4 DEF Thrown, EciesInv, EciesSkipsOnFailure, IsEstablished
  <2>3. ASSUME NEW y \in Sides PROVE Below(y)' /\ Empty(y)'
    <3>1. CASE y = x
      <4>1. \A i \in DOMAIN plain[x] : plain[x][i] < d + 1
        BY <1>1, <1>2
      <4> QED  BY <4>1, <3>1, <1>1, <1>2, <1>4, Apart
               DEF Thrown, Below, Empty
    <3>2. CASE y # x
      BY <3>2, <1>2, <1>4 DEF Thrown, EciesInv, Below, Empty, IsEstablished
    <3> QED  BY <3>1, <3>2
  <2> QED  BY <2>1, <2>2, <2>3 DEF EciesInv
<1>5. CASE /\ m.n = d /\ ecies' = [ecies EXCEPT ![x] = e]
           /\ Returned(x, m) /\ UNCHANGED wire
  <2>1. plain' = [plain EXCEPT ![x] = Append(plain[x], d)]
        /\ UNCHANGED failed
    BY <1>5, <1>2 DEF Returned
  <2>2. /\ plain'[x] \in Seq(0..MaxNonce)
        /\ DOMAIN plain'[x] = 1..(Len(plain[x]) + 1)
        /\ \A i \in 1..Len(plain[x]) : plain'[x][i] = plain[x][i]
        /\ plain'[x][Len(plain[x]) + 1] = d
        /\ DOMAIN plain[x] = 1..Len(plain[x]) /\ Len(plain[x]) \in Nat
    <3>1. plain'[x] = Append(plain[x], d)
      BY <2>1, <1>2
    <3>2. d \in 0..MaxNonce
      BY <1>1, NonceAssumption
    <3> QED  BY <3>1, <3>2, <1>2, Appended
  <2>3. EciesTypeOK'
    BY <2>1, <2>2, <1>1, <1>2, <1>5 DEF EciesInv, EciesTypeOK
  <2>4. EciesInOrder'
    <3> SUFFICES ASSUME NEW y \in Sides, NEW i \in DOMAIN plain'[y],
                        NEW j \in DOMAIN plain'[y], i < j
                 PROVE  plain'[y][i] < plain'[y][j]
      BY DEF EciesInOrder
    <3>1. CASE y # x
      BY <3>1, <2>1, <1>2 DEF EciesInv, EciesInOrder
    <3>2. CASE y = x /\ j = Len(plain[x]) + 1
      BY <3>2, <2>2, <1>2
    <3>3. CASE y = x /\ j # Len(plain[x]) + 1
      <4>1. i \in DOMAIN plain[x] /\ j \in DOMAIN plain[x]
        BY <3>3, <2>2
      <4>2. plain[x][i] < plain[x][j]
        BY <4>1 DEF EciesInv, EciesInOrder
      <4> QED  BY <4>1, <4>2, <3>3, <2>2
    <3> QED  BY <3>1, <3>2, <3>3
  <2>5. EciesSkipsOnFailure'
    <3> SUFFICES ASSUME NEW y \in Sides, IsEstablished(y)', y \notin failed'
                 PROVE  plain'[y] = [i \in 1..(ecies'[y].dec) |-> i - 1]
      BY DEF EciesSkipsOnFailure
    <3>1. CASE y # x
      BY <3>1, <2>1, <1>2, <1>5 DEF EciesInv, EciesSkipsOnFailure, IsEstablished
    <3>2. CASE y = x
      <4>1. plain[x] = [i \in 1..d |-> i - 1]
        BY <3>2, <2>1, <1>2a
      <4>2. Len(plain[x]) = d /\ ecies'[x].dec = d + 1
        <5>1. Len(plain[x]) = d
          BY <4>1, <1>1
        <5> QED  BY <5>1, <1>1, <1>2, <1>5
      <4>3. ASSUME NEW i \in 1..(d + 1) PROVE plain'[x][i] = i - 1
        <5>1. CASE i = d + 1
          BY <5>1, <4>2, <2>2, <1>1
        <5>2. CASE i # d + 1
          <6>1. i \in 1..d
            BY <5>2, <1>1
          <6> QED  BY <6>1, <4>1, <4>2, <2>2
        <5> QED  BY <5>1, <5>2
      <4>4. plain'[x] = [i \in DOMAIN plain'[x] |-> plain'[x][i]]
        BY <2>2, LenProperties
      <4>5. DOMAIN plain'[x] = 1..(d + 1)
        BY <4>2, <2>2
      <4> HIDE DEF d
      <4>6. plain'[x] = [i \in 1..(d + 1) |-> i - 1]
        BY <4>3, <4>4, <4>5
      <4> QED  BY <4>2, <4>6, <3>2
    <3> QED  BY <3>1, <3>2
  <2>6. ASSUME NEW y \in Sides PROVE Below(y)' /\ Empty(y)'
    <3>1. CASE y = x
      <4>1. \A i \in DOMAIN plain'[x] : plain'[x][i] < d + 1
        <5> SUFFICES ASSUME NEW i \in DOMAIN plain'[x]
                     PROVE  plain'[x][i] < d + 1
          OBVIOUS
        <5>1. CASE i = Len(plain[x]) + 1
          BY <5>1, <2>2, <1>1
        <5>2. CASE i # Len(plain[x]) + 1
          <6>1. i \in DOMAIN plain[x] /\ plain'[x][i] = plain[x][i]
            BY <5>2, <2>2
          <6> QED  BY <6>1, <1>1, <1>2
        <5> QED  BY <5>1, <5>2
      <4> QED  BY <4>1, <3>1, <1>1, <1>2, <1>5, Apart DEF Below, Empty
    <3>2. CASE y # x
      BY <3>2, <2>1, <1>2, <1>5 DEF EciesInv, Below, Empty, IsEstablished
    <3> QED  BY <3>1, <3>2
  <2> QED  BY <2>3, <2>4, <2>5, <2>6 DEF EciesInv
<1> QED  BY <1>3, <1>4, <1>5 DEF EciesDecrypt, Becomes, d, e

LEMMA EciesNextInv == EciesInv /\ [EciesNext]_eciesVars => EciesInv'
<1> SUFFICES ASSUME EciesInv, [EciesNext]_eciesVars PROVE EciesInv'
  OBVIOUS
<1>1. CASE UNCHANGED eciesVars
  BY <1>1 DEF eciesVars, EciesInv, EciesTypeOK, EciesInOrder, EciesSkipsOnFailure,
     Below, Empty, IsEstablished
<1>2. CASE EstablishOutboundChannel
  BY <1>2, OutboundInv
<1>3. CASE EstablishInboundChannel
  BY <1>3, InboundInv
<1>4. ASSUME NEW x \in Sides, Consume(x) \/ EciesClose(x) PROVE EciesInv'
  BY <1>4, ConsumeInv DEF Consume, EciesClose, Becomes
<1>5. ASSUME NEW x \in Sides, EciesEncrypt(x) PROVE EciesInv'
  BY <1>5, EncryptInv
<1>6. ASSUME NEW x \in Sides, NEW m \in wire, EciesDecrypt(x, m) PROVE EciesInv'
  BY <1>6, DecryptInv
<1> QED  BY <1>1, <1>2, <1>3, <1>4, <1>5, <1>6 DEF EciesNext

LEMMA EciesInvariance == EciesSpec => []EciesInv
<1> QED  BY EciesInitInv, EciesNextInv, PTL DEF EciesSpec

\* The types of a channel's state.
THEOREM EciesTypeCorrect == EciesSpec => []EciesTypeOK
<1>1. EciesInv => EciesTypeOK
  BY DEF EciesInv
<1> QED  BY <1>1, EciesInvariance, PTL

\* Plaintexts are returned in the order of encryption, none of them twice.
THEOREM DeliveredInOrder == EciesSpec => []EciesInOrder
<1>1. EciesInv => EciesInOrder
  BY DEF EciesInv
<1> QED  BY <1>1, EciesInvariance, PTL

\* A side on which no call to decrypt has thrown has every message up to now.
THEOREM OnlyFailuresSkip == EciesSpec => []EciesSkipsOnFailure
<1>1. EciesInv => EciesSkipsOnFailure
  BY DEF EciesInv
<1> QED  BY <1>1, EciesInvariance, PTL
===============================================================================
