------------------------------ MODULE OlmChannels ------------------------------
(***************************************************************************)
(* Olm sessions between others and the account of OlmAccount. A channel is *)
(* a sender's session, created with a key of the account, and whatever     *)
(* sessions the account's owner has for it.                                *)
(*                                                                         *)
(* Messages are numbered per channel. They are lost, reordered and         *)
(* repeated: every message that was sent can be tried at any time.         *)
(***************************************************************************)
EXTENDS OlmAccount

CONSTANTS
  Chans,        \* the sessions of the senders
  Handles,      \* the sessions of the receiver
  MaxMessages,  \* bound: messages of a channel
  NULL

VARIABLES
  chan,      \* the senders' sessions: their key, the messages encrypted, and
             \* from which message on they are no pre-key messages
  session,   \* the session behind each handle of the receiver
  pickles,   \* the last pickle of a session of each channel
  got,       \* messages whose plaintext was returned to the receiver
  twice,     \* channels on which a plaintext was returned more than once
  copied,    \* channels of which an old or a second copy was unpickled
  dropped    \* channels whose session was closed, or lost in a failing call

channelVars == <<chan, session, pickles, got, twice, copied, dropped>>

vars == <<accountVars, channelVars>>

Numbers == 0..(MaxMessages - 1)

Messages == [s : Chans, n : Numbers]

\* A sender's session, and a session of the receiver with the numbers of the
\* messages it has used up.
Channels == [key : OneTime \cup Fallback, sent : 0..MaxMessages,
             normal : 0..MaxMessages]

Sessions == [s : Chans, used : SUBSET Numbers]

ASSUME MessagesAssumption ==
  MaxMessages \in Nat /\ NULL \notin Channels \cup Sessions

TypeOK ==
  /\ AccountTypeOK
  /\ chan \in [Chans -> Channels \cup {NULL}]
  /\ session \in [Handles -> Sessions \cup {NULL}]
  /\ pickles \in [Chans -> Sessions \cup {NULL}]
  /\ got \subseteq Messages /\ twice \subseteq Chans
  /\ copied \subseteq Chans /\ dropped \subseteq Chans

Init ==
  /\ AccountInit
  /\ chan = [s \in Chans |-> NULL]
  /\ session = [h \in Handles |-> NULL]
  /\ pickles = [s \in Chans |-> NULL]
  /\ got = {} /\ twice = {} /\ copied = {} /\ dropped = {}

Open(h) == session[h] # NULL

HasSession(s) == \E h \in Handles : Open(h) /\ session[h].s = s

Sent(m) == chan[m.s] # NULL /\ m.n < chan[m.s].sent

\* PRE_KEY until the sender has decrypted a reply.
PreKey(m) == m.n < chan[m.s].normal

\* The plaintext of m is returned.
Deliver(m) ==
  /\ got' = got \cup {m}
  /\ twice' = IF m \in got THEN twice \cup {m.s} ELSE twice

(***************************************************************************)
(* The senders.                                                            *)
(***************************************************************************)

\* Account.createOutboundSession with a key of the server.
CreateOutboundSession(s, key) ==
  /\ chan[s] = NULL
  /\ Claim(key)
  /\ chan' = [chan EXCEPT ![s] = [key |-> key, sent |-> 0,
                                  normal |-> MaxMessages]]
  /\ UNCHANGED <<session, pickles, got, twice, copied, dropped>>

\* The number is used also if the message cannot be returned: a lost message.
Encrypt(s) ==
  /\ chan[s] # NULL /\ chan[s].sent < MaxMessages
  /\ chan' = [chan EXCEPT ![s].sent = @ + 1]
  /\ UNCHANGED <<accountVars, session, pickles, got, twice, copied,
                 dropped>>

\* The sender decrypts a reply: the receiver encrypted one as soon as it had a
\* session.
DecryptReply(s) ==
  /\ \E m \in got : m.s = s
  /\ chan[s].normal = MaxMessages
  /\ chan' = [chan EXCEPT ![s].normal = chan[s].sent]
  /\ UNCHANGED <<accountVars, session, pickles, got, twice, copied,
                 dropped>>

(***************************************************************************)
(* The receiver.                                                           *)
(***************************************************************************)

\* The key is used up before the result is made: then the session and the
\* plaintext are lost if that fails.
CreateInboundSession(h, m) ==
  /\ ~Open(h) /\ Sent(m) /\ PreKey(m)
  /\ UseKey(chan[m.s].key)
  /\ \/ /\ session' = [session EXCEPT ![h] = [s |-> m.s, used |-> {m.n}]]
        /\ Deliver(m)
        /\ UNCHANGED dropped
     \/ dropped' = dropped \cup {m.s} /\ UNCHANGED <<session, got, twice>>
  /\ UNCHANGED <<chan, pickles, copied>>

Uses(h, n) ==
  session' = [session EXCEPT ![h].used = session[h].used \cup {n}]

\* OlmSession.decrypt: in any order, each message once. It is used up before
\* the byte array is made: then it is lost if that fails.
Decrypt(h, m) ==
  /\ Open(h) /\ Sent(m) /\ m.s = session[h].s
  /\ m.n \notin session[h].used
  /\ Uses(h, m.n)
  /\ Deliver(m) \/ UNCHANGED <<got, twice>>
  /\ UNCHANGED <<accountVars, chan, pickles, copied, dropped>>

\* Older pickles of the channel are replaced.
PickleSession(h) ==
  /\ Open(h)
  /\ pickles' = [pickles EXCEPT ![session[h].s] = session[h]]
  /\ UNCHANGED <<accountVars, chan, session, got, twice, copied,
                 dropped>>

\* The pickle has not seen everything that was returned on its channel, or
\* another session of the channel is open.
IsCopy(s) ==
  HasSession(s) \/ \E m \in got : m.s = s /\ m.n \notin pickles[s].used

UnpickleSession(h, s) ==
  /\ ~Open(h) /\ pickles[s] # NULL
  /\ session' = [session EXCEPT ![h] = pickles[s]]
  /\ copied' = IF IsCopy(s) THEN copied \cup {s} ELSE copied
  /\ UNCHANGED <<accountVars, chan, pickles, got, twice, dropped>>

Close(h) ==
  /\ Open(h)
  /\ session' = [session EXCEPT ![h] = NULL]
  /\ dropped' = dropped \cup {session[h].s}
  /\ UNCHANGED <<accountVars, chan, pickles, got, twice, copied>>

\* The receiver's process ends. It starts again with the account's pickle,
\* and may unpickle sessions.
Restart ==
  /\ Unpickle
  /\ session' = [h \in Handles |-> NULL]
  /\ dropped' = dropped \cup {s \in Chans : HasSession(s)}
  /\ UNCHANGED <<chan, pickles, got, twice, copied>>

Next ==
  \/ AccountCall /\ UNCHANGED channelVars
  \/ \E s \in Chans :
       \/ \E key \in OneTime \cup Fallback : CreateOutboundSession(s, key)
       \/ Encrypt(s) \/ DecryptReply(s)
  \/ \E h \in Handles :
       \/ \E m \in Messages :
            CreateInboundSession(h, m) \/ Decrypt(h, m)
       \/ PickleSession(h) \/ Close(h)
       \/ \E s \in Chans : UnpickleSession(h, s)
  \/ Restart

Spec == Init /\ [][Next]_vars

(***************************************************************************)
(* Properties.                                                             *)
(***************************************************************************)

\* Whoever has claimed a key and created an Olm session with it reaches the
\* account's owner: the account still has the private key, or the owner has a
\* session or its pickle. Else the owner closed the session, or a call failed
\* after it had changed the account; or the key is gone, and a call reported it
\* or was asked to remove it, or the report was lost with its call or came to
\* nothing in a restart.
NoDeadChannel ==
  \A s \in Chans : chan[s] # NULL =>
    \/ chan[s].key \in PrivateKeys(account)
    \/ HasSession(s) \/ pickles[s] # NULL
    \/ s \in dropped
    \/ chan[s].key \in told \cup missed

\* A message is returned twice only on a channel of which there was an old
\* or a second copy: the session's by unpickling it, or the account's by
\* restarting from a pickle that still had the key, or because its key is a
\* fallback key, which is not used up.
DeliveredOnce ==
  \A s \in twice : s \in copied \/ chan[s].key \in revived \cup Fallback
================================================================================
