--------------------------- MODULE OlmChannelsProofs ---------------------------
(***************************************************************************)
(* Theorems about OlmAccount and OlmChannels, for any number of keys,      *)
(* channels, sessions and messages.                                        *)
(*                                                                         *)
(* The invariant has two halves. AccountInv is about the keys alone; the   *)
(* account's actions preserve it. ChannelInv relates keys and channels. To *)
(* preserve it an action on the channels needs of the account only what    *)
(* Kept says, so the two meet in few lemmas.                               *)
(*                                                                         *)
(* At the end, that what is proved here and in EciesChannelProofs also     *)
(* holds in MCOlmChannels, the two systems that one run checks.            *)
(***************************************************************************)
EXTENDS MCOlmChannels, EciesChannelProofs, TLAPS

-------------------------------------------------------------------------------
(* The invariant.                                                          *)

\* Keys are numbered as they are generated.
Numbered == account.otks \cup saved.otks \cup uploaded \subseteq 1..born.oneTime

Known(key) == key \in PrivateKeys(account) \cup told \cup missed

OfferedIsKnown == offered = NoKey \/ Known(offered)

AccountInv ==
  /\ AccountTypeOK /\ saved.unpublished \subseteq saved.otks
  /\ Numbered /\ OfferedIsKnown /\ ClaimableKeysAreUsable

ChannelTypeOK ==
  /\ chan \in [Chans -> Channels \cup {NULL}]
  /\ session \in [Handles -> Sessions \cup {NULL}]
  /\ pickles \in [Chans -> Sessions \cup {NULL}]
  /\ got \subseteq Messages /\ twice \subseteq Chans
  /\ copied \subseteq Chans /\ dropped \subseteq Chans

\* The key of a channel was claimed, and only fallback keys are claimed twice.
Claimed ==
  /\ \A s \in Chans : chan[s] # NULL =>
       chan[s].key \in (uploaded \ pool) \cup Fallback
  /\ \A s, t \in Chans :
       s # t /\ chan[s] # NULL /\ chan[t] # NULL /\ chan[s].key = chan[t].key
         => chan[s].key \in Fallback

\* Something of the channel has reached the receiver.
Reached(s) == HasSession(s) \/ pickles[s] # NULL \/ \E m \in got : m.s = s

ReachedOverChannel ==
  /\ \A s \in Chans : Reached(s) \/ s \in twice => chan[s] # NULL
  /\ \A s \in Chans : pickles[s] # NULL => pickles[s].s = s

\* On such a channel nothing is returned twice.
Once(s) ==
  chan[s] # NULL /\ s \notin copied /\ chan[s].key \notin revived \cup Fallback

UsedUp == \A s \in Chans : Once(s) /\ Reached(s) => chan[s].key \notin account.otks

OneSession ==
  \A s \in Chans : Once(s) =>
    \A g, h \in Handles :
      Open(g) /\ session[g].s = s /\ Open(h) /\ session[h].s = s => g = h

Recorded ==
  \A s \in Chans, h \in Handles, m \in got :
    Once(s) /\ Open(h) /\ session[h].s = s /\ m.s = s =>
      m.n \in session[h].used

ChannelInv ==
  /\ ChannelTypeOK /\ Claimed /\ ReachedOverChannel /\ NoDeadChannel
  /\ UsedUp /\ OneSession /\ Recorded /\ DeliveredOnce

IInv == AccountInv /\ ChannelInv

-------------------------------------------------------------------------------
(* The account.                                                            *)

\* What an action leaves of the keys: a private key goes only if it is in K
\* or its end becomes known or missed, and none comes back but by an old pickle.
Kept(K) ==
  /\ \A key \in OneTime \cup Fallback : Known(key) => Known(key)' \/ key \in K
  /\ told \subseteq told' /\ missed \subseteq missed' /\ revived \subseteq revived'
  /\ uploaded \subseteq uploaded' /\ pool' \cap uploaded \subseteq pool
  /\ \A key \in 1..born.oneTime :
       key \in account'.otks => key \in account.otks \cup revived'

LEMMA Bounds ==
  /\ MaxOneTime \in Nat /\ MaxFallback \in Nat
  /\ NoKey \notin OneTime \cup Fallback /\ OneTime \cap Fallback = {}
  /\ OneTime \subseteq Nat /\ Fallback \subseteq Nat
BY BoundsAssumption DEF NoKey, OneTime, Fallback

\* Whatever leaves the account as it is.
LEMMA SameAccount ==
  ASSUME AccountInv, UNCHANGED accountVars PROVE AccountInv' /\ Kept({})
BY DEF accountVars, AccountInv, AccountTypeOK, Numbered, OfferedIsKnown, Known,
       ClaimableKeysAreUsable, Kept, PrivateKeys

LEMMA GenerateInv ==
  ASSUME AccountInv, NEW count \in 0..(Limit + 1), GenerateOneTimeKeys(count)
  PROVE  AccountInv' /\ Kept({})
<1>1. Created(count) \subseteq OneTime /\ Created(count) \subseteq 1..(born.oneTime + count)
      /\ Created(count) \cap (1..born.oneTime) = {}
      /\ born.oneTime \in Nat /\ count \in Nat /\ born.oneTime + count <= MaxOneTime
  <2>1. born.oneTime \in 0..MaxOneTime /\ count \in Nat
        /\ born.oneTime + count <= MaxOneTime
    BY BoundsAssumption
       DEF AccountInv, AccountTypeOK, GenerateOneTimeKeys, Generated
  <2> QED  BY <2>1, Bounds DEF Created, OneTime
<1>2. Removed(count) \subseteq account.otks \cup Created(count)
  BY DEF Removed
<1> DEFINE C == Created(count)
           R == Removed(count)
<1> HIDE DEF C, R
<1>3. /\ account' = [account EXCEPT !.otks = (@ \cup C) \ R,
                                    !.unpublished = (@ \cup C) \ R]
      /\ born' = [born EXCEPT !.oneTime = @ + count]
      /\ UNCHANGED <<saved, pool, uploaded, offered, revived>>
      /\ \/ told' = told \cup R /\ UNCHANGED missed
         \/ missed' = missed \cup R /\ UNCHANGED told
  BY DEF GenerateOneTimeKeys, Generated, C, R
<1>4. /\ account'.otks = (account.otks \cup C) \ R
      /\ account'.unpublished = (account.unpublished \cup C) \ R
      /\ account'.current = account.current /\ account'.previous = account.previous
      /\ account'.fresh = account.fresh
      /\ born'.oneTime = born.oneTime + count
      /\ born'.fallback = born.fallback
  BY <1>3 DEF AccountInv, AccountTypeOK, Accounts
<1>5. R \subseteq OneTime /\ R \subseteq 1..(born.oneTime + count)
      /\ R \subseteq account.otks \cup C
  <2>1. account.otks \subseteq OneTime /\ account.otks \subseteq 1..born.oneTime
    BY DEF AccountInv, AccountTypeOK, Accounts, Numbered
  <2> QED  BY <2>1, <1>1, <1>2 DEF C, R
<1>6. AccountTypeOK'
  <2>1. account' \in Accounts
    BY <1>1, <1>3, <1>4, <1>5 DEF AccountInv, AccountTypeOK, Accounts, C
  <2>2. born' \in [oneTime : 0..MaxOneTime, fallback : 0..MaxFallback]
    BY <1>1, <1>3, Bounds DEF AccountInv, AccountTypeOK
  <2> QED  BY <1>3, <1>4, <1>5, <2>1, <2>2 DEF AccountInv, AccountTypeOK
<1>7. Numbered'
  BY <1>1, <1>3, <1>4 DEF AccountInv, Numbered, C
<1>8. \A key \in OneTime \cup Fallback : Known(key) => Known(key)'
  BY <1>3, <1>4 DEF Known, PrivateKeys
<1>9. OfferedIsKnown'
  BY <1>3, <1>8 DEF AccountInv, AccountTypeOK, OfferedIsKnown
<1>10. ClaimableKeysAreUsable'
  BY <1>3, <1>4 DEF AccountInv, ClaimableKeysAreUsable
<1>11. Kept({})
  BY <1>1, <1>3, <1>4, <1>8 DEF Kept, C
<1> QED  BY <1>3, <1>6, <1>7, <1>9, <1>10, <1>11 DEF AccountInv

LEMMA FallbackInv ==
  ASSUME AccountInv, GenerateFallbackKey PROVE AccountInv' /\ Kept({})
<1>1. /\ account' = [account EXCEPT
                       !.current = MaxOneTime + born.fallback + 1,
                       !.previous = account.current, !.fresh = TRUE]
      /\ born' = [born EXCEPT !.fallback = @ + 1]
      /\ \/ told' = told \cup ({account.previous} \ {NoKey}) /\ UNCHANGED missed
         \/ missed' = missed \cup ({account.previous} \ {NoKey}) /\ UNCHANGED told
      /\ UNCHANGED <<saved, pool, uploaded, offered, revived>>
  BY DEF GenerateFallbackKey, ReportFallbackKey, FallbackKeyReturned
<1>2. /\ account \in Accounts
      /\ born \in [oneTime : 0..MaxOneTime, fallback : 0..MaxFallback]
      /\ born.fallback < MaxFallback
  BY DEF AccountInv, AccountTypeOK, GenerateFallbackKey
<1>3. MaxOneTime + born.fallback + 1 \in Fallback
      /\ born.fallback + 1 \in 0..MaxFallback
  BY <1>2, Bounds DEF Fallback
<1>4. /\ account' \in Accounts
      /\ account'.otks = account.otks
      /\ account'.unpublished = account.unpublished
      /\ account'.previous = account.current
  BY <1>1, <1>2, <1>3 DEF Accounts
<1>5. AccountTypeOK' /\ born'.oneTime = born.oneTime
  BY <1>1, <1>2, <1>3, <1>4 DEF AccountInv, AccountTypeOK, Accounts
<1>6. \A key \in OneTime \cup Fallback : Known(key) => Known(key)'
  BY <1>1, <1>2, <1>4, Bounds DEF Known, PrivateKeys
<1> QED  BY <1>1, <1>4, <1>5, <1>6
         DEF AccountInv, AccountTypeOK, Numbered, OfferedIsKnown,
             ClaimableKeysAreUsable, Kept

LEMMA ForgetInv ==
  ASSUME AccountInv, ForgetFallbackKey PROVE AccountInv' /\ Kept({})
<1>1. /\ account' = [account EXCEPT !.previous = NoKey]
      /\ told' = told \cup {account.previous}
      /\ account.previous # NoKey /\ account \in Accounts
      /\ UNCHANGED <<saved, born, pool, uploaded, offered, missed, revived>>
  BY DEF ForgetFallbackKey, AccountInv, AccountTypeOK
<1>2. /\ account' \in Accounts
      /\ account'.otks = account.otks
      /\ account'.unpublished = account.unpublished
      /\ account'.current = account.current
  BY <1>1 DEF Accounts
<1>3. AccountTypeOK'
  BY <1>1, <1>2 DEF AccountInv, AccountTypeOK, Accounts
<1>4. \A key \in OneTime \cup Fallback : Known(key) => Known(key)'
  BY <1>1, <1>2 DEF Known, PrivateKeys
<1> QED  BY <1>1, <1>2, <1>3, <1>4
         DEF AccountInv, AccountTypeOK, Numbered, OfferedIsKnown,
             ClaimableKeysAreUsable, Kept

LEMMA MarkInv ==
  ASSUME AccountInv, MarkKeysAsPublished PROVE AccountInv' /\ Kept({})
<1>1. /\ account' = [account EXCEPT !.unpublished = {}, !.fresh = FALSE]
      /\ account \in Accounts
      /\ UNCHANGED <<saved, born, pool, uploaded, offered, told, missed, revived>>
  BY DEF MarkKeysAsPublished, AccountInv, AccountTypeOK
<1>2. /\ account' \in Accounts
      /\ account'.otks = account.otks /\ account'.unpublished = {}
      /\ PrivateKeys(account)' = PrivateKeys(account)
  BY <1>1 DEF Accounts, PrivateKeys
<1> QED  BY <1>1, <1>2
         DEF AccountInv, AccountTypeOK, Numbered, OfferedIsKnown, Known,
             ClaimableKeysAreUsable, Kept

LEMMA UploadInv == ASSUME AccountInv, Upload PROVE AccountInv' /\ Kept({})
<1>1. /\ account.unpublished \subseteq account.otks
      /\ account.otks \subseteq OneTime /\ account.otks \subseteq 1..born.oneTime
      /\ account.current \in Fallback \cup {NoKey}
  BY DEF AccountInv, AccountTypeOK, Accounts, Numbered
<1>2. AccountTypeOK' /\ Numbered'
  BY <1>1 DEF AccountInv, AccountTypeOK, Numbered, Upload
<1>3. OfferedIsKnown'
  BY DEF AccountInv, OfferedIsKnown, Known, PrivateKeys, Upload
<1>4. ClaimableKeysAreUsable'
  BY <1>1 DEF AccountInv, ClaimableKeysAreUsable, Upload
<1>5. Kept({})
  BY DEF Kept, Known, PrivateKeys, Upload
<1> QED  BY <1>2, <1>3, <1>4, <1>5 DEF AccountInv, Upload

LEMMA PickleInv == ASSUME AccountInv, Pickle PROVE AccountInv' /\ Kept({})
BY DEF AccountInv, AccountTypeOK, Numbered, OfferedIsKnown, Known,
       ClaimableKeysAreUsable, Kept, PrivateKeys, Pickle

LEMMA UnpickleInv == ASSUME AccountInv, Unpickle PROVE AccountInv' /\ Kept({})
<1>1. AccountTypeOK' /\ Numbered' /\ saved'.unpublished \subseteq saved'.otks
  BY DEF AccountInv, AccountTypeOK, Numbered, Unpickle, Accounts, PrivateKeys
<1>2. \A key \in OneTime \cup Fallback : Known(key) => Known(key)'
  BY DEF Known, Unpickle
<1>3. OfferedIsKnown'
  BY <1>2 DEF AccountInv, AccountTypeOK, OfferedIsKnown, Unpickle
<1>4. ClaimableKeysAreUsable'
  <2>1. saved \in Accounts /\ account \in Accounts
    BY DEF AccountInv, AccountTypeOK
  <2>2. \A key \in account.otks :
          key \in PrivateKeys(account)
          /\ (key \in PrivateKeys(saved) => key \in saved.otks)
    BY <2>1, Bounds DEF PrivateKeys, Accounts
  <2> QED  BY <2>2 DEF AccountInv, ClaimableKeysAreUsable, Unpickle
<1>5. Kept({})
  BY <1>2 DEF Kept, Unpickle
<1> QED  BY <1>1, <1>2, <1>3, <1>4, <1>5 DEF AccountInv

LEMMA AccountCallInv ==
  ASSUME AccountInv, AccountCall PROVE AccountInv' /\ Kept({})
BY GenerateInv, FallbackInv, ForgetInv, MarkInv, UploadInv, PickleInv
   DEF AccountCall

\* A key is claimed that nobody else can claim, unless it is a fallback key.
LEMMA ClaimInv ==
  ASSUME AccountInv, NEW key, Claim(key)
  PROVE  /\ AccountInv' /\ Kept({})
         /\ key \in OneTime \cup Fallback /\ Known(key)' /\ UNCHANGED revived
         /\ account' = account
         /\ key \in (uploaded \ pool)' \cup Fallback
         /\ key \in pool \cup Fallback /\ pool' \subseteq pool
<1>1. /\ pool' = pool \ {key}
      /\ UNCHANGED <<account, saved, born, uploaded, offered, told, missed, revived>>
  BY DEF Claim
<1>2. AccountInv' /\ Kept({})
  BY <1>1 DEF AccountInv, AccountTypeOK, Numbered, OfferedIsKnown, Known,
     PrivateKeys, ClaimableKeysAreUsable, Kept
<1>3. key \in pool \/ (key = offered /\ key # NoKey)
  BY DEF Claim
<1>4. CASE key \in pool
  <2>1. key \in OneTime /\ key \in uploaded /\ Known(key)
    BY <1>4 DEF AccountInv, AccountTypeOK, ClaimableKeysAreUsable, Known, PrivateKeys
  <2> QED  BY <1>1, <1>2, <1>4, <2>1 DEF Known, PrivateKeys
<1>5. CASE key = offered /\ key # NoKey
  <2>1. key \in Fallback /\ Known(key)
    BY <1>5 DEF AccountInv, AccountTypeOK, OfferedIsKnown
  <2> QED  BY <1>1, <1>2, <2>1 DEF Known, PrivateKeys
<1> QED  BY <1>3, <1>4, <1>5

\* Only a one-time key is used up.
LEMMA UseKeyInv ==
  ASSUME AccountInv, NEW key \in (uploaded \ pool) \cup Fallback, UseKey(key)
  PROVE  /\ AccountInv' /\ Kept({key} \ Fallback)
         /\ key \in account.otks \cup Fallback /\ key \notin account'.otks
         /\ UNCHANGED revived
<1>1. /\ account' = [account EXCEPT !.otks = @ \ {key}, !.unpublished = @ \ {key}]
      /\ UNCHANGED <<saved, born, pool, uploaded, offered, told, missed, revived>>
      /\ key \in PrivateKeys(account) /\ account \in Accounts
  BY DEF UseKey, AccountInv, AccountTypeOK
<1>2. /\ account' \in Accounts
      /\ account'.otks = account.otks \ {key}
      /\ account'.unpublished = account.unpublished \ {key}
      /\ account'.current = account.current
      /\ account'.previous = account.previous
  BY <1>1 DEF Accounts
<1>3. key \notin pool
  BY Bounds DEF AccountInv, AccountTypeOK
<1>4. key \in account.otks \cup Fallback
  BY <1>1 DEF PrivateKeys, Accounts
<1>5. AccountTypeOK' /\ Numbered'
  BY <1>1, <1>2 DEF AccountInv, AccountTypeOK, Numbered
<1>6. \A k \in OneTime \cup Fallback : Known(k) => Known(k)' \/ k \in {key} \ Fallback
  <2>1. account.otks \cap Fallback = {}
    BY <1>1, Bounds DEF Accounts
  <2> QED  BY <1>1, <1>2, <2>1 DEF Known, PrivateKeys
<1>7. OfferedIsKnown'
  BY <1>1, <1>6 DEF AccountInv, AccountTypeOK, OfferedIsKnown
<1>8. ClaimableKeysAreUsable'
  BY <1>1, <1>2, <1>3 DEF AccountInv, ClaimableKeysAreUsable
<1>9. Kept({key} \ Fallback)
  BY <1>1, <1>2, <1>6 DEF Kept
<1> QED  BY <1>1, <1>2, <1>4, <1>5, <1>7, <1>8, <1>9 DEF AccountInv

-------------------------------------------------------------------------------
(* The channels.                                                           *)

\* What each conjunct of ChannelInv needs of a step; K is what Kept allows to go.
Related ==
  /\ \A s \in Chans : chan[s] # NULL =>
       chan'[s] # NULL /\ chan'[s].key = chan[s].key
  /\ \A s \in Chans : chan'[s] # NULL => chan[s] # NULL
  /\ copied \subseteq copied' /\ dropped \subseteq dropped'

\* The account's owner does nothing with the sessions, and no channel is new.
Idle ==
  UNCHANGED <<session, pickles, got, twice, copied, dropped>>

\* What is known of the key of a channel.
LEMMA KeyOfChannel ==
  ASSUME AccountInv, ChannelInv, NEW s \in Chans, chan[s] # NULL
  PROVE  /\ chan[s] \in Channels /\ chan[s].key \in OneTime \cup Fallback
         /\ chan[s].key \in (uploaded \ pool) \cup Fallback
         /\ chan[s].key \in Fallback \/ chan[s].key \in 1..born.oneTime
BY DEF AccountInv, Numbered, ChannelInv, ChannelTypeOK, Claimed, Channels

\* The conjuncts about keys: claims stay claims.
LEMMA ClaimedStays ==
  ASSUME AccountInv, ChannelInv, NEW K, Kept(K), Related PROVE Claimed'
<1>1. \A s \in Chans : chan'[s] # NULL =>
        chan[s] # NULL /\ chan'[s].key = chan[s].key
  BY DEF Related
<1>2. \A s \in Chans : chan[s] # NULL =>
        chan[s].key \in (uploaded' \ pool') \cup Fallback
  BY KeyOfChannel DEF Kept
<1> QED  BY <1>1, <1>2 DEF ChannelInv, Claimed

\* A key that is there or known to be gone remains so.
LEMMA KnownStays ==
  ASSUME AccountInv, ChannelInv, NEW K, Kept(K), Related,
         NEW s \in Chans, chan[s] # NULL, chan[s].key \notin K,
         chan[s].key \in PrivateKeys(account) \cup told \cup missed
  PROVE  chan'[s].key \in PrivateKeys(account)' \cup told' \cup missed'
<1>1. PICK key \in OneTime \cup Fallback : key = chan[s].key /\ key = chan'[s].key
  BY KeyOfChannel DEF Related
<1>2. Known(key)
  BY <1>1 DEF Known
<1>3. Known(key)'
  BY <1>1, <1>2 DEF Kept
<1> QED  BY <1>1, <1>3 DEF Known

LEMMA OnceBefore ==
  ASSUME AccountInv, ChannelInv, NEW K, Kept(K), Related,
         NEW s \in Chans, Once(s)'
  PROVE  /\ Once(s) /\ chan'[s].key = chan[s].key
         /\ chan[s].key \in account'.otks => chan[s].key \in account.otks
<1>1. chan[s] # NULL /\ chan'[s].key = chan[s].key
  BY DEF Related, Once
<1>2. Once(s) /\ chan[s].key \notin revived'
  BY <1>1 DEF Once, Kept, Related
<1>3. chan[s].key \in 1..born.oneTime
  BY <1>1, <1>2, KeyOfChannel DEF Once
<1> QED  BY <1>1, <1>2, <1>3 DEF Kept

\* An action on the account or of a sender, on a channel that there was.
LEMMA IdleInv ==
  ASSUME AccountInv, ChannelInv, Kept({}), Related, Idle, ChannelTypeOK'
  PROVE  ChannelInv'
<1>1. Claimed'
  BY ClaimedStays
<1>2. \A s \in Chans : (Reached(s)' <=> Reached(s)) /\ (HasSession(s)' <=> HasSession(s))
  BY DEF Idle, Reached, HasSession, Open
<1>3. ReachedOverChannel'
  BY <1>2 DEF ChannelInv, ReachedOverChannel, Related, Idle
<1>4. NoDeadChannel'
  BY <1>2, KnownStays DEF ChannelInv, NoDeadChannel, Related, Idle
<1>5. UsedUp'
  BY <1>2, OnceBefore DEF ChannelInv, UsedUp
<1>6. OneSession'
  BY OnceBefore DEF ChannelInv, OneSession, Idle, Open
<1>7. Recorded'
  BY OnceBefore DEF ChannelInv, Recorded, Idle, Open
<1>8. DeliveredOnce'
  <2> SUFFICES ASSUME NEW s \in twice
               PROVE  s \in copied \/ chan'[s].key \in revived' \cup Fallback
    BY DEF DeliveredOnce, Idle
  <2>1. s \in Chans /\ chan[s] # NULL
    BY DEF ChannelInv, ChannelTypeOK, ReachedOverChannel
  <2> QED  BY <2>1 DEF ChannelInv, DeliveredOnce, Related, Kept
<1> QED  BY <1>1, <1>3, <1>4, <1>5, <1>6, <1>7, <1>8 DEF ChannelInv

LEMMA AccountSteps ==
  ASSUME IInv, AccountCall, UNCHANGED channelVars PROVE IInv'
<1>1. AccountInv' /\ Kept({})
  BY AccountCallInv DEF IInv
<1>2. Related /\ Idle /\ ChannelTypeOK'
  BY DEF IInv, ChannelInv, ChannelTypeOK, channelVars, Related, Idle
<1> QED  BY <1>1, <1>2, IdleInv DEF IInv

\* A message is encrypted, or a reply decrypted: the sender's session moves on.
LEMMA SenderSteps ==
  ASSUME IInv, NEW s \in Chans, Encrypt(s) \/ DecryptReply(s) PROVE IInv'
<1>1. AccountInv' /\ Kept({})
  BY SameAccount DEF IInv, Encrypt, DecryptReply
<1>2. Idle
  BY DEF Idle, Encrypt, DecryptReply
<1>3. chan \in [Chans -> Channels \cup {NULL}] /\ chan[s] \in Channels
  <2>1. chan[s] # NULL
    BY DEF Encrypt, DecryptReply, IInv, ChannelInv, ReachedOverChannel, Reached
  <2> QED  BY <2>1 DEF IInv, ChannelInv, ChannelTypeOK
<1>4. PICK c \in Channels : chan' = [chan EXCEPT ![s] = c] /\ c.key = chan[s].key
  <2>1. CASE Encrypt(s)
    <3> DEFINE c == [chan[s] EXCEPT !.sent = @ + 1]
    <3>1. chan[s].sent \in 0..MaxMessages /\ chan[s].sent < MaxMessages
      BY <1>3, <2>1 DEF Channels, Encrypt
    <3>2. chan[s].sent + 1 \in 0..MaxMessages
      BY <3>1, MessagesAssumption
    <3>3. c \in Channels /\ c.key = chan[s].key
      BY <1>3, <3>2 DEF Channels
    <3>4. chan' = [chan EXCEPT ![s] = c]
      BY <2>1 DEF Encrypt
    <3> QED  BY <3>3, <3>4
  <2>2. CASE DecryptReply(s)
    <3> DEFINE c == [chan[s] EXCEPT !.normal = chan[s].sent]
    <3>1. c \in Channels /\ c.key = chan[s].key
      BY <1>3 DEF Channels
    <3>2. chan' = [chan EXCEPT ![s] = c]
      BY <2>2 DEF DecryptReply
    <3> QED  BY <3>1, <3>2
  <2> QED  BY <2>1, <2>2
<1>5. ChannelTypeOK' /\ Related
  BY <1>2, <1>3, <1>4, MessagesAssumption
     DEF IInv, ChannelInv, ChannelTypeOK, Idle, Related
<1> QED  BY <1>1, <1>2, <1>5, IdleInv DEF IInv

\* A new channel: nothing of it has reached the receiver.
LEMMA OutboundSteps ==
  ASSUME IInv, NEW s \in Chans, NEW key \in OneTime \cup Fallback,
         CreateOutboundSession(s, key)
  PROVE  IInv'
<1> DEFINE c == [key |-> key, sent |-> 0, normal |-> MaxMessages]
<1>1. /\ AccountInv' /\ Kept({}) /\ Known(key)'
      /\ UNCHANGED revived /\ account' = account
      /\ key \in (uploaded' \ pool') \cup Fallback /\ key \in pool \cup Fallback
      /\ pool' \subseteq pool
  BY ClaimInv DEF CreateOutboundSession, IInv
<1>2. /\ chan' = [chan EXCEPT ![s] = c] /\ chan[s] = NULL
      /\ UNCHANGED <<session, pickles, got, twice, copied, dropped>>
  BY DEF CreateOutboundSession
<1>3. c \in Channels /\ c # NULL /\ c.key = key
  BY MessagesAssumption DEF Channels
<1> HIDE DEF c
<1>4. chan \in [Chans -> Channels \cup {NULL}]
  BY DEF IInv, ChannelInv, ChannelTypeOK
<1>5. /\ chan'[s] = c
      /\ \A t \in Chans : t # s => chan'[t] = chan[t]
      /\ \A t \in Chans : Reached(t)' <=> Reached(t)
      /\ ~Reached(s) /\ s \notin twice
  BY <1>2, <1>4 DEF IInv, ChannelInv, ReachedOverChannel, Reached, HasSession, Open
<1>6. ChannelTypeOK'
  BY <1>2, <1>3, <1>4 DEF IInv, ChannelInv, ChannelTypeOK
<1>7. \A t \in Chans : chan[t] # NULL =>
        /\ chan[t].key \in (uploaded \ pool) \cup Fallback
        /\ chan[t].key \in (uploaded' \ pool') \cup Fallback
  BY <1>1, KeyOfChannel DEF Kept, IInv
<1>8. Claimed'
  <2>1. ASSUME NEW t \in Chans, t # s, chan[t] # NULL, chan[t].key = key
        PROVE  key \in Fallback
    BY <1>1, <1>7, <2>1
  <2>2. \A t \in Chans : chan'[t] # NULL =>
          chan'[t].key \in (uploaded' \ pool') \cup Fallback
    BY <1>1, <1>3, <1>5, <1>7
  <2>3. ASSUME NEW t \in Chans, NEW u \in Chans, t # u, chan'[t] # NULL,
               chan'[u] # NULL, chan'[t].key = chan'[u].key
        PROVE  chan'[t].key \in Fallback
    <3>1. CASE t # s /\ u # s
      BY <3>1, <2>3, <1>5 DEF IInv, ChannelInv, Claimed
    <3>2. CASE t = s
      BY <3>2, <2>3, <2>1, <1>3, <1>5
    <3>3. CASE u = s
      BY <3>3, <2>3, <2>1, <1>3, <1>5
    <3> QED  BY <3>1, <3>2, <3>3
  <2> QED  BY <2>2, <2>3 DEF Claimed
<1>9. ReachedOverChannel'
  BY <1>2, <1>3, <1>5 DEF IInv, ChannelInv, ReachedOverChannel
<1>10. NoDeadChannel'
  <2> SUFFICES ASSUME NEW t \in Chans, chan'[t] # NULL
               PROVE  \/ chan'[t].key \in PrivateKeys(account)'
                      \/ HasSession(t)' \/ pickles'[t] # NULL \/ t \in dropped'
                      \/ chan'[t].key \in told' \cup missed'
    BY DEF NoDeadChannel
  <2>1. CASE t = s
    BY <2>1, <1>1, <1>3, <1>5 DEF Known
  <2>2. CASE t # s
    <3>1. told' = told /\ missed' = missed
      BY DEF CreateOutboundSession, Claim
    <3>2. PrivateKeys(account)' = PrivateKeys(account)
      BY <1>1 DEF PrivateKeys
    <3>3. HasSession(t)' <=> HasSession(t)
      BY <1>2 DEF HasSession, Open
    <3> QED  BY <2>2, <3>1, <3>2, <3>3, <1>2, <1>5
             DEF IInv, ChannelInv, NoDeadChannel
  <2> QED  BY <2>1, <2>2
<1>11. ASSUME NEW t \in Chans, t # s PROVE Once(t)' <=> Once(t)
  BY <1>1, <1>2, <1>5, <1>11 DEF Once
<1>12. UsedUp'
  BY <1>1, <1>5, <1>11 DEF IInv, ChannelInv, UsedUp
<1>13. \A h \in Handles : Open(h) => session[h].s # s
  BY <1>5 DEF Reached, HasSession
<1>14. OneSession'
  BY <1>2, <1>11, <1>13 DEF IInv, ChannelInv, OneSession, Open
<1>15. Recorded'
  BY <1>2, <1>11, <1>13 DEF IInv, ChannelInv, Recorded, Open
<1>16. DeliveredOnce'
  BY <1>1, <1>2, <1>5, <1>6 DEF IInv, ChannelInv, ChannelTypeOK, DeliveredOnce
<1> QED  BY <1>1, <1>6, <1>8, <1>9, <1>10, <1>12, <1>14, <1>15, <1>16
         DEF IInv, ChannelInv

-------------------------------------------------------------------------------
(* The receiver.                                                           *)

LEMMA NewSession ==
  ASSUME IInv, NEW h \in Handles, NEW m \in Messages,
         CreateInboundSession(h, m)
  PROVE  /\ m.s \in Chans /\ chan[m.s] # NULL
         /\ AccountInv' /\ Kept({chan[m.s].key} \ Fallback)
         /\ UNCHANGED <<revived, chan, pickles, copied>> /\ Related
         /\ chan[m.s].key \notin account'.otks /\ ~Open(h)
         /\ Once(m.s) => ~Reached(m.s)
<1>1. m.s \in Chans /\ chan[m.s] # NULL /\ UseKey(chan[m.s].key)
      /\ chan[m.s].key \in (uploaded \ pool) \cup Fallback
  BY KeyOfChannel DEF CreateInboundSession, Sent, Messages, IInv
<1>2. /\ AccountInv' /\ Kept({chan[m.s].key} \ Fallback)
      /\ chan[m.s].key \in account.otks \cup Fallback
      /\ chan[m.s].key \notin account'.otks /\ UNCHANGED revived
  BY <1>1, UseKeyInv DEF IInv
<1>3. Once(m.s) => ~Reached(m.s)
  BY <1>1, <1>2 DEF IInv, ChannelInv, UsedUp, Once
<1>4. /\ UNCHANGED <<chan, pickles, copied>> /\ Related /\ ~Open(h)
  BY DEF CreateInboundSession, Related
<1> QED  BY <1>1, <1>2, <1>3, <1>4

\* The other channels' keys are not the one that was used up.
LEMMA OthersKnown ==
  ASSUME IInv, NEW s \in Chans, chan[s] # NULL, Kept({chan[s].key} \ Fallback),
         Related, NEW t \in Chans, t # s, chan[t] # NULL,
         chan[t].key \in PrivateKeys(account) \cup told \cup missed
  PROVE  chan'[t].key \in PrivateKeys(account)' \cup told' \cup missed'
<1>1. chan[t].key \notin {chan[s].key} \ Fallback
  BY DEF IInv, ChannelInv, Claimed
<1> QED  BY <1>1, KnownStays DEF IInv

LEMMA InboundSteps ==
  ASSUME IInv, NEW h \in Handles, NEW m \in Messages,
         CreateInboundSession(h, m)
  PROVE  IInv'
<1> DEFINE s == m.s
           v == [s |-> m.s, used |-> {m.n}]
<1>1. /\ s \in Chans /\ chan[s] # NULL
      /\ AccountInv' /\ Kept({chan[s].key} \ Fallback)
      /\ UNCHANGED <<revived, chan, pickles, copied>> /\ Related
      /\ chan[s].key \notin account'.otks /\ ~Open(h)
      /\ Once(s) => ~Reached(s)
  BY NewSession
<1>2. v \in Sessions /\ v # NULL /\ v.s = s /\ v.used = {m.n} /\ m \in Messages
  BY MessagesAssumption DEF Sessions, Messages
<1> HIDE DEF v
<1>3. \/ /\ session' = [session EXCEPT ![h] = v] /\ UNCHANGED dropped
         /\ got' = got \cup {m}
         /\ twice' = IF m \in got THEN twice \cup {s} ELSE twice
      \/ dropped' = dropped \cup {s} /\ UNCHANGED <<session, got, twice>>
  BY DEF CreateInboundSession, Deliver, v
<1>4. Claimed'
  BY <1>1, ClaimedStays DEF IInv
<1>5. \A t \in Chans : Once(t)' => Once(t)
  BY <1>1 DEF Once
<1>6. ASSUME NEW t \in Chans, chan[t] # NULL, chan[t].key \in account'.otks, Once(t)
      PROVE  chan[t].key \in account.otks
  BY <1>1, <1>6, KeyOfChannel DEF IInv, Kept, Once
<1>7. CASE dropped' = dropped \cup {s} /\ UNCHANGED <<session, got, twice>>
  <2>1. \A t \in Chans : (Reached(t)' <=> Reached(t))
                         /\ (HasSession(t)' <=> HasSession(t))
    BY <1>1, <1>7 DEF Reached, HasSession, Open
  <2>2. ChannelTypeOK' /\ ReachedOverChannel'
    BY <1>1, <1>7, <2>1 DEF IInv, ChannelInv, ChannelTypeOK, ReachedOverChannel
  <2>3. NoDeadChannel'
    BY <1>1, <1>7, <2>1, OthersKnown DEF IInv, ChannelInv, NoDeadChannel
  <2>4. UsedUp'
    BY <1>1, <1>5, <1>6, <2>1 DEF IInv, ChannelInv, UsedUp, Once
  <2>5. OneSession' /\ Recorded'
    BY <1>5, <1>7 DEF IInv, ChannelInv, OneSession, Recorded, Open
  <2>6. DeliveredOnce'
    BY <1>1, <1>7 DEF IInv, ChannelInv, DeliveredOnce
  <2> QED  BY <1>1, <1>4, <2>2, <2>3, <2>4, <2>5, <2>6 DEF IInv, ChannelInv
<1>8. CASE /\ session' = [session EXCEPT ![h] = v] /\ UNCHANGED dropped
           /\ got' = got \cup {m}
           /\ twice' = IF m \in got THEN twice \cup {s} ELSE twice
  <2>1. /\ session \in [Handles -> Sessions \cup {NULL}] /\ session'[h] = v
        /\ \A g \in Handles : g # h => session'[g] = session[g]
    BY <1>8 DEF IInv, ChannelInv, ChannelTypeOK
  <2>2. ChannelTypeOK'
    BY <1>1, <1>2, <1>8 DEF IInv, ChannelInv, ChannelTypeOK
  <2>3. \A t \in Chans : t # s => (Reached(t)' <=> Reached(t))
                                  /\ (HasSession(t)' <=> HasSession(t))
    BY <1>1, <1>2, <1>8, <2>1 DEF Reached, HasSession, Open
  <2>4. ReachedOverChannel'
    BY <1>1, <1>8, <2>3 DEF IInv, ChannelInv, ReachedOverChannel
  <2>5. HasSession(s)'
    BY <1>2, <2>1 DEF HasSession, Open
  <2>6. NoDeadChannel'
    BY <1>1, <1>8, <2>3, <2>5, OthersKnown DEF IInv, ChannelInv, NoDeadChannel
  <2>7. UsedUp'
    BY <1>1, <1>5, <1>6, <2>3 DEF IInv, ChannelInv, UsedUp, Once
  <2>8. Once(s)' => /\ \A g \in Handles : Open(g) => session[g].s # s
                    /\ \A k \in got : k.s # s
    BY <1>1, <1>5 DEF Reached, HasSession
  <2>9. OneSession'
    BY <1>1, <1>2, <1>5, <2>1, <2>8 DEF IInv, ChannelInv, OneSession, Open
  <2>10. Recorded'
    <3> SUFFICES ASSUME NEW t \in Chans, NEW g \in Handles, NEW k \in got',
                        Once(t)', Open(g)', session'[g].s = t, k.s = t
                 PROVE  k.n \in session'[g].used
      BY DEF Recorded
    <3>1. CASE t = s
      <4>1. g = h /\ k = m
        BY <3>1, <1>8, <2>1, <2>8 DEF Open
      <4> QED  BY <4>1, <2>1, <1>2
    <3>2. CASE t # s
      <4>1. g # h /\ k \in got
        BY <3>2, <1>2, <1>8, <2>1
      <4> QED  BY <4>1, <2>1, <1>5 DEF IInv, ChannelInv, Recorded, Open
    <3> QED  BY <3>1, <3>2
  <2>11. DeliveredOnce'
    <3>1. m \in got => ~Once(s)
      BY <1>1 DEF Reached
    <3> QED  BY <3>1, <1>1, <1>8 DEF IInv, ChannelInv, DeliveredOnce, Once
  <2> QED  BY <1>1, <1>4, <2>2, <2>4, <2>6, <2>7, <2>9, <2>10, <2>11
           DEF IInv, ChannelInv
<1> QED  BY <1>3, <1>7, <1>8

\* What stays in a step on the sessions alone.
LEMMA SameKeys ==
  ASSUME IInv, UNCHANGED <<accountVars, chan>>,
         copied \subseteq copied', dropped \subseteq dropped'
  PROVE  /\ AccountInv' /\ Claimed'
         /\ UNCHANGED <<account, revived, told, missed>>
         /\ PrivateKeys(account)' = PrivateKeys(account)
         /\ \A s \in Chans : Once(s)' => Once(s)
<1>1. AccountInv' /\ Kept({})
  BY SameAccount DEF IInv
<1>2. Related
  BY DEF Related
<1>3. Claimed'
  BY <1>1, <1>2, ClaimedStays DEF IInv
<1> QED  BY <1>1, <1>3 DEF accountVars, PrivateKeys, Once

LEMMA DecryptSteps ==
  ASSUME IInv, NEW h \in Handles, NEW m \in Messages, Decrypt(h, m) PROVE IInv'
<1> DEFINE s == m.s
           v == [session[h] EXCEPT !.used = @ \cup {m.n}]
<1>1. /\ AccountInv' /\ Claimed' /\ UNCHANGED <<account, revived, told, missed>>
      /\ PrivateKeys(account)' = PrivateKeys(account)
      /\ \A t \in Chans : Once(t)' => Once(t)
  BY SameKeys DEF Decrypt
<1>2. /\ session[h] \in Sessions /\ session[h].s = s /\ Open(h)
      /\ s \in Chans /\ m.n \notin session[h].used /\ m.n \in Numbers
      /\ session \in [Handles -> Sessions \cup {NULL}]
  BY DEF Decrypt, Open, IInv, ChannelInv, ChannelTypeOK, Messages
<1>3. /\ v \in Sessions /\ v # NULL /\ v.s = s
      /\ v.used = session[h].used \cup {m.n}
  BY <1>2, MessagesAssumption DEF Sessions
<1> HIDE DEF v
<1>4. /\ session' = [session EXCEPT ![h] = v]
      /\ UNCHANGED <<chan, pickles, copied, dropped>>
      /\ \/ /\ got' = got \cup {m}
            /\ twice' = IF m \in got THEN twice \cup {s} ELSE twice
         \/ UNCHANGED <<got, twice>>
  <2>1. session' = [session EXCEPT ![h] = v]
    BY DEF Decrypt, Uses, v
  <2> QED  BY <2>1 DEF Decrypt, Deliver
<1>5. session'[h] = v /\ \A g \in Handles : g # h => session'[g] = session[g]
  BY <1>2, <1>4
<1>6. ChannelTypeOK'
  BY <1>2, <1>3, <1>4 DEF IInv, ChannelInv, ChannelTypeOK
<1>7. \A g \in Handles : (Open(g)' <=> Open(g)) /\ (Open(g) => session'[g].s = session[g].s)
  BY <1>2, <1>3, <1>5 DEF Open
<1>8. \A t \in Chans : HasSession(t)' <=> HasSession(t)
  BY <1>7 DEF HasSession
<1>9. \A t \in Chans : Reached(t)' <=> Reached(t)
  BY <1>2, <1>4, <1>8 DEF Reached, HasSession
<1>10. HasSession(s)
  BY <1>2 DEF HasSession
<1>11. ReachedOverChannel'
  BY <1>4, <1>9, <1>10 DEF IInv, ChannelInv, ReachedOverChannel, Reached
<1>12. NoDeadChannel'
  BY <1>1, <1>4, <1>8 DEF IInv, ChannelInv, NoDeadChannel
<1>13. UsedUp'
  BY <1>1, <1>4, <1>9 DEF IInv, ChannelInv, UsedUp
<1>14. OneSession'
  BY <1>1, <1>7 DEF IInv, ChannelInv, OneSession
<1>15. Recorded'
  <2> SUFFICES ASSUME NEW t \in Chans, NEW g \in Handles, NEW k \in got',
                      Once(t)', Open(g)', session'[g].s = t, k.s = t
               PROVE  k.n \in session'[g].used
    BY DEF Recorded
  <2>1. Once(t) /\ Open(g) /\ session[g].s = t
    BY <1>1, <1>7
  <2>2. CASE k \in got
    <3>1. k.n \in session[g].used
      BY <2>1, <2>2 DEF IInv, ChannelInv, Recorded
    <3> QED  BY <3>1, <1>3, <1>5
  <2>3. CASE k \notin got
    <3>1. k = m /\ t = s
      BY <2>3, <1>4
    <3>2. g = h
      BY <2>1, <3>1, <1>2 DEF IInv, ChannelInv, OneSession
    <3> QED  BY <3>1, <3>2, <1>3, <1>5
  <2> QED  BY <2>2, <2>3
<1>16. DeliveredOnce'
  <2>1. m \in got => ~Once(s)
    BY <1>2 DEF IInv, ChannelInv, Recorded
  <2>2. chan[s] # NULL
    BY <1>10, <1>2 DEF IInv, ChannelInv, ReachedOverChannel, Reached
  <2> QED  BY <2>1, <2>2, <1>1, <1>4 DEF IInv, ChannelInv, DeliveredOnce, Once
<1> QED  BY <1>1, <1>6, <1>11, <1>12, <1>13, <1>14, <1>15, <1>16
         DEF IInv, ChannelInv

LEMMA PickleSteps ==
  ASSUME IInv, NEW h \in Handles, PickleSession(h) PROVE IInv'
<1> DEFINE s == session[h].s
<1>1. /\ AccountInv' /\ Claimed' /\ UNCHANGED <<account, revived, told, missed>>
      /\ PrivateKeys(account)' = PrivateKeys(account)
      /\ \A t \in Chans : Once(t)' => Once(t)
  BY SameKeys DEF PickleSession
<1>2. /\ session[h] \in Sessions /\ session[h] # NULL /\ Open(h) /\ s \in Chans
      /\ pickles \in [Chans -> Sessions \cup {NULL}]
  BY DEF PickleSession, Open, IInv, ChannelInv, ChannelTypeOK, Sessions
<1>3. /\ pickles' = [pickles EXCEPT ![s] = session[h]]
      /\ UNCHANGED <<chan, session, got, twice, copied, dropped>>
  BY DEF PickleSession
<1>4. /\ pickles'[s] = session[h]
      /\ \A t \in Chans : t # s => pickles'[t] = pickles[t]
  BY <1>2, <1>3
<1>5. HasSession(s) /\ \A t \in Chans : HasSession(t)' <=> HasSession(t)
  BY <1>2, <1>3 DEF HasSession, Open
<1>6. \A t \in Chans : Reached(t)' <=> Reached(t)
  BY <1>3, <1>4, <1>5 DEF Reached
<1>7. ChannelTypeOK'
  BY <1>2, <1>3 DEF IInv, ChannelInv, ChannelTypeOK
<1>8. ReachedOverChannel' /\ NoDeadChannel'
  BY <1>1, <1>2, <1>3, <1>4, <1>5, <1>6
     DEF IInv, ChannelInv, ReachedOverChannel, NoDeadChannel
<1>9. UsedUp'
  BY <1>1, <1>3, <1>6 DEF IInv, ChannelInv, UsedUp
<1>10. OneSession' /\ Recorded' /\ DeliveredOnce'
  BY <1>1, <1>3
     DEF IInv, ChannelInv, OneSession, Recorded, DeliveredOnce, Open
<1> QED  BY <1>1, <1>7, <1>8, <1>9, <1>10 DEF IInv, ChannelInv

\* A session from a pickle is no copy if it has seen all that was returned and
\* is the only one.
LEMMA UnpickleSteps ==
  ASSUME IInv, NEW h \in Handles, NEW s \in Chans, UnpickleSession(h, s)
  PROVE  IInv'
<1>1. /\ session' = [session EXCEPT ![h] = pickles[s]]
      /\ copied' = IF IsCopy(s) THEN copied \cup {s} ELSE copied
      /\ UNCHANGED <<accountVars, chan, pickles, got, twice, dropped>>
      /\ ~Open(h) /\ pickles[s] # NULL
  BY DEF UnpickleSession
<1>2. /\ AccountInv' /\ Claimed' /\ UNCHANGED <<account, revived, told, missed>>
      /\ PrivateKeys(account)' = PrivateKeys(account)
      /\ \A t \in Chans : Once(t)' => Once(t)
  BY <1>1, SameKeys
<1>3. /\ pickles[s] \in Sessions /\ pickles[s].s = s /\ Reached(s)
      /\ session \in [Handles -> Sessions \cup {NULL}]
  BY <1>1 DEF IInv, ChannelInv, ChannelTypeOK, ReachedOverChannel, Reached
<1>4. /\ session'[h] = pickles[s]
      /\ \A g \in Handles : g # h => session'[g] = session[g]
  BY <1>1, <1>3
<1>5. ChannelTypeOK'
  BY <1>1, <1>3 DEF IInv, ChannelInv, ChannelTypeOK
<1>6. /\ \A t \in Chans : HasSession(t) => HasSession(t)'
      /\ \A t \in Chans : t # s => (HasSession(t)' => HasSession(t))
  BY <1>1, <1>3, <1>4 DEF HasSession, Open
<1>7. \A t \in Chans : Reached(t)' <=> Reached(t)
  BY <1>1, <1>3, <1>6 DEF Reached
<1>8. ReachedOverChannel' /\ NoDeadChannel'
  BY <1>1, <1>2, <1>6, <1>7
     DEF IInv, ChannelInv, ReachedOverChannel, NoDeadChannel
<1>9. UsedUp'
  BY <1>1, <1>2, <1>7 DEF IInv, ChannelInv, UsedUp
<1>10. Once(s)' => ~HasSession(s) /\ \A m \in got : m.s = s => m.n \in pickles[s].used
  BY <1>1 DEF Once, IsCopy
<1>11. OneSession'
  <2> SUFFICES ASSUME NEW t \in Chans, Once(t)', NEW f \in Handles,
                      NEW g \in Handles, Open(f)', session'[f].s = t,
                      Open(g)', session'[g].s = t
               PROVE  f = g
    BY DEF OneSession
  <2>1. CASE t = s
    BY <2>1, <1>4, <1>10 DEF HasSession, Open
  <2>2. CASE t # s
    BY <2>2, <1>2, <1>3, <1>4 DEF IInv, ChannelInv, OneSession, Open
  <2> QED  BY <2>1, <2>2
<1>12. Recorded'
  <2> SUFFICES ASSUME NEW t \in Chans, NEW g \in Handles, NEW k \in got,
                      Once(t)', Open(g)', session'[g].s = t, k.s = t
               PROVE  k.n \in session'[g].used
    BY <1>1 DEF Recorded
  <2>1. CASE g = h
    BY <2>1, <1>3, <1>4, <1>10
  <2>2. CASE g # h
    BY <2>2, <1>2, <1>4 DEF IInv, ChannelInv, Recorded, Open
  <2> QED  BY <2>1, <2>2
<1>13. DeliveredOnce'
  BY <1>1, <1>2 DEF IInv, ChannelInv, DeliveredOnce
<1> QED  BY <1>2, <1>5, <1>8, <1>9, <1>11, <1>12, <1>13 DEF IInv, ChannelInv

LEMMA CloseSteps ==
  ASSUME IInv, NEW h \in Handles, Close(h) PROVE IInv'
<1>1. /\ session' = [session EXCEPT ![h] = NULL]
      /\ dropped' = dropped \cup {session[h].s} /\ Open(h)
      /\ UNCHANGED <<accountVars, chan, pickles, got, twice, copied>>
  BY DEF Close
<1>2. /\ AccountInv' /\ Claimed' /\ UNCHANGED <<account, revived, told, missed>>
      /\ PrivateKeys(account)' = PrivateKeys(account)
      /\ \A t \in Chans : Once(t)' => Once(t)
  BY <1>1, SameKeys
<1>3. /\ session \in [Handles -> Sessions \cup {NULL}]
      /\ session[h] \in Sessions /\ session[h].s \in Chans
  BY <1>1 DEF IInv, ChannelInv, ChannelTypeOK, Sessions, Open
<1>4. \A g \in Handles : session'[g] = IF g = h THEN NULL ELSE session[g]
  BY <1>1, <1>3
<1>5. ChannelTypeOK'
  BY <1>1, <1>3 DEF IInv, ChannelInv, ChannelTypeOK
<1>6. \A g \in Handles : Open(g)' => Open(g) /\ session'[g] = session[g]
  BY <1>4 DEF Open
<1>7. \A t \in Chans : /\ HasSession(t)' => HasSession(t)
                       /\ HasSession(t) => HasSession(t)' \/ t \in dropped'
  BY <1>1, <1>4, <1>6 DEF HasSession, Open
<1>8. \A t \in Chans : Reached(t)' => Reached(t)
  BY <1>1, <1>7 DEF Reached
<1>9. ReachedOverChannel' /\ NoDeadChannel'
  BY <1>1, <1>2, <1>7, <1>8
     DEF IInv, ChannelInv, ReachedOverChannel, NoDeadChannel
<1>10. UsedUp' /\ DeliveredOnce'
  BY <1>1, <1>2, <1>8 DEF IInv, ChannelInv, UsedUp, DeliveredOnce
<1>11. OneSession' /\ Recorded'
  BY <1>1, <1>2, <1>6 DEF IInv, ChannelInv, OneSession, Recorded
<1> QED  BY <1>2, <1>5, <1>9, <1>10, <1>11 DEF IInv, ChannelInv

LEMMA RestartSteps == ASSUME IInv, Restart PROVE IInv'
<1>1. /\ session' = [h \in Handles |-> NULL]
      /\ dropped' = dropped \cup {s \in Chans : HasSession(s)}
      /\ UNCHANGED <<chan, pickles, got, twice, copied>>
  BY DEF Restart
<1>2. AccountInv' /\ Kept({}) /\ Related
  BY <1>1, UnpickleInv DEF IInv, Restart, Related
<1>3. Claimed'
  BY <1>2, ClaimedStays DEF IInv
<1>4. ChannelTypeOK'
  BY <1>1 DEF IInv, ChannelInv, ChannelTypeOK
<1>5. \A h \in Handles : ~Open(h)'
  BY <1>1 DEF Open
<1>6. \A t \in Chans : ~HasSession(t)' /\ (Reached(t)' => Reached(t))
  BY <1>1, <1>5 DEF Reached, HasSession
<1>7. ReachedOverChannel'
  BY <1>1, <1>6 DEF IInv, ChannelInv, ReachedOverChannel
<1>8. NoDeadChannel'
  BY <1>1, <1>2, KnownStays DEF IInv, ChannelInv, NoDeadChannel
<1>9. UsedUp'
  BY <1>2, <1>6, OnceBefore DEF IInv, ChannelInv, UsedUp
<1>10. OneSession' /\ Recorded'
  BY <1>5 DEF OneSession, Recorded
<1>11. DeliveredOnce'
  BY <1>1, <1>2 DEF IInv, ChannelInv, DeliveredOnce, Kept
<1> QED  BY <1>2, <1>3, <1>4, <1>7, <1>8, <1>9, <1>10, <1>11
         DEF IInv, ChannelInv

-------------------------------------------------------------------------------
(* The theorems.                                                           *)

LEMMA InitInv == Init => IInv
<1> SUFFICES ASSUME Init PROVE IInv
  OBVIOUS
<1>1. AccountInv
  BY BoundsAssumption, Bounds
     DEF Init, AccountInit, AccountInv, AccountTypeOK, Accounts, NewAccount,
         Numbered, OfferedIsKnown, ClaimableKeysAreUsable
<1>2. \A s \in Chans : chan[s] = NULL /\ ~Reached(s) /\ s \notin twice
  BY DEF Init, Reached, HasSession, Open
<1>3. ChannelTypeOK /\ Claimed /\ ReachedOverChannel /\ NoDeadChannel
  BY <1>2 DEF Init, ChannelTypeOK, Claimed, ReachedOverChannel, NoDeadChannel
<1>4. UsedUp /\ OneSession /\ Recorded /\ DeliveredOnce
  BY <1>2 DEF Init, UsedUp, OneSession, Recorded, DeliveredOnce, Once
<1> QED  BY <1>1, <1>3, <1>4 DEF IInv, ChannelInv

LEMMA StepInv == IInv /\ [Next]_vars => IInv'
<1> SUFFICES ASSUME IInv, [Next]_vars PROVE IInv'
  OBVIOUS
<1>1. CASE UNCHANGED vars
  <2>1. AccountInv' /\ Kept({})
    BY <1>1, SameAccount DEF IInv, vars
  <2>2. Related /\ Idle /\ ChannelTypeOK'
    BY <1>1 DEF IInv, ChannelInv, ChannelTypeOK, vars, channelVars, Related, Idle
  <2> QED  BY <2>1, <2>2, IdleInv DEF IInv
<1>2. CASE AccountCall /\ UNCHANGED channelVars
  BY <1>2, AccountSteps
<1>3. ASSUME NEW s \in Chans, NEW key \in OneTime \cup Fallback,
             CreateOutboundSession(s, key)
      PROVE  IInv'
  BY <1>3, OutboundSteps
<1>4. ASSUME NEW s \in Chans, Encrypt(s) \/ DecryptReply(s) PROVE IInv'
  BY <1>4, SenderSteps
<1>5. ASSUME NEW h \in Handles, NEW m \in Messages, CreateInboundSession(h, m)
      PROVE  IInv'
  BY <1>5, InboundSteps
<1>6. ASSUME NEW h \in Handles, NEW m \in Messages, Decrypt(h, m) PROVE IInv'
  BY <1>6, DecryptSteps
<1>7. ASSUME NEW h \in Handles, PickleSession(h) PROVE IInv'
  BY <1>7, PickleSteps
<1>8. ASSUME NEW h \in Handles, Close(h) PROVE IInv'
  BY <1>8, CloseSteps
<1>9. ASSUME NEW h \in Handles, NEW s \in Chans, UnpickleSession(h, s) PROVE IInv'
  BY <1>9, UnpickleSteps
<1>10. CASE Restart
  BY <1>10, RestartSteps
<1> QED  BY <1>1, <1>2, <1>3, <1>4, <1>5, <1>6, <1>7, <1>8, <1>9, <1>10 DEF Next

LEMMA Invariance == Spec => []IInv
<1> QED  BY InitInv, StepInv, PTL DEF Spec

\* The types of the keys, channels and sessions.
THEOREM TypeCorrect == Spec => []TypeOK
<1>1. IInv => TypeOK
  BY DEF IInv, AccountInv, ChannelInv, ChannelTypeOK, TypeOK
<1> QED  BY <1>1, Invariance, PTL

\* What can be claimed from the server can be used by the account, or its
\* owner could know that it is gone, or could not for a named reason.
THEOREM ClaimedKeysWork == Spec => []ClaimableKeysAreUsable
<1>1. IInv => ClaimableKeysAreUsable
  BY DEF IInv, AccountInv
<1> QED  BY <1>1, Invariance, PTL

\* No channel is dead without a reason that NoDeadChannel names.
THEOREM ChannelsReachTheOwner == Spec => []NoDeadChannel
<1>1. IInv => NoDeadChannel
  BY DEF IInv, ChannelInv
<1> QED  BY <1>1, Invariance, PTL

\* Without an old copy of the session or of the account, and but for fallback
\* keys, no message is returned twice.
THEOREM NothingTwice == Spec => []DeliveredOnce
<1>1. IInv => DeliveredOnce
  BY DEF IInv, ChannelInv
<1> QED  BY <1>1, Invariance, PTL
-------------------------------------------------------------------------------
(* Olm and ECIES together.                                                 *)

\* A behaviour of the two is one of each: the steps of one stutter in the
\* other.
THEOREM Composition == MCSpec => Spec /\ EciesSpec
<1>1. MCInit => Init /\ EciesInit
  BY DEF MCInit
<1>2. [MCNext]_<<vars, eciesVars, system>> => [Next]_vars /\ [EciesNext]_eciesVars
  BY DEF MCNext, vars, eciesVars
<1> QED  BY <1>1, <1>2, PTL DEF MCSpec, Spec, EciesSpec

\* So the variables of both keep their types, in account, server, channels
\* and sessions as in the two ends of an ECIES channel ...
THEOREM TypesCorrect == MCSpec => []TypesOK
<1>1. TypeOK /\ EciesTypeOK => TypesOK
  BY DEF TypesOK
<1> QED  BY <1>1, Composition, TypeCorrect, EciesTypeCorrect, PTL

\* ... and every other invariant the run checks holds as well: keys that can
\* be claimed are usable, no channel dies without a reason, nothing is
\* delivered twice, and ECIES delivers in order.
THEOREM AllTogether ==
  MCSpec => []/\ ClaimableKeysAreUsable /\ NoDeadChannel /\ DeliveredOnce
              /\ EciesInOrder /\ EciesSkipsOnFailure
BY Composition, ClaimedKeysWork, ChannelsReachTheOwner, NothingTwice,
   DeliveredInOrder, OnlyFailuresSkip, PTL

===============================================================================
