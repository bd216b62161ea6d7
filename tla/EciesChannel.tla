----------------------------- MODULE EciesChannel -----------------------------
(***************************************************************************)
(* The two ends of one ECIES channel, from the Ecies each side starts with *)
(* to the EstablishedEcies, and the messages between them. Messages are    *)
(* lost, reordered and repeated: all that was sent can be tried at any     *)
(* time, on both sides.                                                    *)
(***************************************************************************)
EXTENDS Naturals, Sequences

CONSTANT MaxNonce  \* bound: how many messages a side encrypts

ASSUME NonceAssumption == MaxNonce \in Nat \ {0}

VARIABLES
  ecies,   \* what each side has
  wire,    \* the messages that were sent
  plain,   \* the plaintexts each side was returned, in order, by number
  failed   \* sides on which a call to decrypt has thrown

eciesVars == <<ecies, wire, plain, failed>>

Sides == {"initiator", "recipient"}

Wire == [from : Sides, n : 0..MaxNonce]

\* Nonce counters of an EstablishedEcies; an Ecies has none yet.
Established == [enc : 0..MaxNonce, dec : 0..MaxNonce]

Unused == [state |-> "Ecies"]
Gone == [state |-> "closed"]

EciesTypeOK ==
  /\ ecies \in [Sides -> Established \cup {Unused, Gone}]
  /\ wire \subseteq Wire
  /\ plain \in [Sides -> Seq(0..MaxNonce)]
  /\ failed \subseteq Sides

EciesInit ==
  /\ ecies = [x \in Sides |-> Unused]
  /\ wire = {}
  /\ plain = [x \in Sides |-> <<>>]
  /\ failed = {}

IsEstablished(x) == ecies[x] \notin {Unused, Gone}

Becomes(x, e) == ecies' = [ecies EXCEPT ![x] = e]

(***************************************************************************)
(* Establishing the channel. Both calls consume the Ecies, also when they  *)
(* throw.                                                                  *)
(***************************************************************************)
Consume(x) ==
  /\ ecies[x] = Unused
  /\ Becomes(x, Gone)
  /\ UNCHANGED <<wire, plain, failed>>

EstablishOutboundChannel ==
  /\ ecies["initiator"] = Unused
  /\ Becomes("initiator", [enc |-> 1, dec |-> 0])
  /\ wire' = wire \cup {[from |-> "initiator", n |-> 0]}
  /\ UNCHANGED <<plain, failed>>

\* Mutant: the nonce of the initial message is expected once more.
EstablishFromNonceZero ==
  /\ ecies["recipient"] = Unused
  /\ [from |-> "initiator", n |-> 0] \in wire
  /\ Becomes("recipient", [enc |-> 0, dec |-> 0])
  /\ plain' = [plain EXCEPT !["recipient"] = <<0>>]
  /\ UNCHANGED <<wire, failed>>

\* The initial message is the first of the channel.
EstablishInboundChannel ==
  /\ ecies["recipient"] = Unused
  /\ [from |-> "initiator", n |-> 0] \in wire
  /\ Becomes("recipient", [enc |-> 0, dec |-> 1])
  /\ plain' = [plain EXCEPT !["recipient"] = <<0>>]
  /\ UNCHANGED <<wire, failed>>

(***************************************************************************)
(* The established channel.                                                *)
(***************************************************************************)

\* The nonce is used also if the string for the message cannot be made.
EciesEncrypt(x) ==
  /\ IsEstablished(x) /\ ecies[x].enc < MaxNonce
  /\ Becomes(x, [ecies[x] EXCEPT !.enc = @ + 1])
  /\ wire' \in {wire, wire \cup {[from |-> x, n |-> ecies[x].enc]}}
  /\ UNCHANGED <<plain, failed>>

Returned(x, m) ==
  plain' = [plain EXCEPT ![x] = Append(@, m.n)] /\ UNCHANGED failed

Thrown(x) == failed' = failed \cup {x} /\ UNCHANGED plain

\* Mutant: the message brings its own nonce.
DecryptAnyNonce(x, m) ==
  /\ IsEstablished(x) /\ m \in wire /\ ecies[x].dec < MaxNonce
  /\ Becomes(x, [ecies[x] EXCEPT !.dec = @ + 1])
  /\ IF m.from # x THEN Returned(x, m) ELSE Thrown(x)
  /\ UNCHANGED wire

\* The message must be the one of the other side with the next nonce. Its
\* plaintext is lost if the byte array cannot be made. For another message
\* decrypt throws; the nonce may be used up with it.
EciesDecrypt(x, m) ==
  /\ IsEstablished(x) /\ m \in wire /\ ecies[x].dec < MaxNonce
  /\ IF m.from # x /\ m.n = ecies[x].dec
       THEN /\ Becomes(x, [ecies[x] EXCEPT !.dec = @ + 1])
            /\ Returned(x, m) \/ Thrown(x)
       ELSE /\ \/ UNCHANGED ecies
               \/ Becomes(x, [ecies[x] EXCEPT !.dec = @ + 1])
            /\ Thrown(x)
  /\ UNCHANGED wire

EciesClose(x) ==
  /\ IsEstablished(x)
  /\ Becomes(x, Gone)
  /\ UNCHANGED <<wire, plain, failed>>

EciesNext ==
  \/ EstablishOutboundChannel \/ EstablishInboundChannel
  \/ \E x \in Sides :
       \/ Consume(x) \/ EciesEncrypt(x) \/ EciesClose(x)
       \/ \E m \in wire : EciesDecrypt(x, m)

EciesSpec == EciesInit /\ [][EciesNext]_eciesVars

(***************************************************************************)
(* Properties.                                                             *)
(***************************************************************************)

\* Plaintexts are returned in the order in which they were encrypted, and none
\* of them twice, whatever the order in which decrypt is called on the
\* messages and whichever calls fail.
EciesInOrder ==
  \A x \in Sides : \A i, j \in DOMAIN plain[x] :
    i < j => plain[x][i] < plain[x][j]

\* A message is skipped only if a call has thrown on that side: whoever calls
\* decrypt in order, without an exception, has everything up to now.
EciesSkipsOnFailure ==
  \A x \in Sides : IsEstablished(x) /\ x \notin failed =>
    plain[x] = [i \in 1..ecies[x].dec |-> i - 1]
===============================================================================
