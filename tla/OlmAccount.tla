------------------------------ MODULE OlmAccount ------------------------------
(***************************************************************************)
(* The keys of an account: one-time keys and fallback keys, from their     *)
(* generation over the key server to the session that uses them, with      *)
(* pickles, restarts, and calls that fail when they make their result.     *)
(*                                                                         *)
(* Keys are numbers, in the order of their generation. The account is the  *)
(* crate's: it keeps the private parts.                                    *)
(***************************************************************************)
EXTENDS Integers, FiniteSets

CONSTANTS
  Capacity,      \* how many one-time keys the crate keeps
  Limit,         \* MAX_ONE_TIME_KEYS_GENERATION_LIMIT, in Java and in Rust
  MaxOneTime,    \* bound: one-time keys that are ever generated
  MaxFallback    \* bound: fallback keys that are ever generated

ASSUME BoundsAssumption ==
  /\ Capacity \in Nat \ {0} /\ Limit \in 1..Capacity
  /\ MaxOneTime \in Nat /\ MaxFallback \in Nat

VARIABLES
  account,    \* the account of the running process
  saved,      \* the pickle it was last saved to
  born,       \* how many keys of each kind were generated
  pool,       \* the server: one-time keys that nobody has claimed
  uploaded,   \* ... those it has ever been given
  offered,    \* ... and the fallback key it was last given
  told,       \* keys the application knows to be gone: reported or asked for
  missed,     \* keys it does not know of: the call failed, or it restarted
  revived     \* one-time keys that came back with an old pickle

accountVars ==
  <<account, saved, born, pool, uploaded, offered, told, missed, revived>>

OneTime == 1..MaxOneTime
Fallback == (MaxOneTime + 1)..(MaxOneTime + MaxFallback)
NoKey == 0

\* At most two fallback keys have their private part.
Accounts ==
  [otks : SUBSET OneTime, unpublished : SUBSET OneTime,
   current : Fallback \cup {NoKey}, previous : Fallback \cup {NoKey},
   fresh : BOOLEAN]

AccountTypeOK ==
  /\ account \in Accounts /\ saved \in Accounts
  /\ account.unpublished \subseteq account.otks
  /\ born \in [oneTime : 0..MaxOneTime, fallback : 0..MaxFallback]
  /\ pool \subseteq uploaded /\ uploaded \subseteq OneTime
  /\ offered \in Fallback \cup {NoKey}
  /\ told \subseteq OneTime \cup Fallback
  /\ missed \subseteq OneTime \cup Fallback
  /\ revived \subseteq OneTime

NewAccount ==
  [otks |-> {}, unpublished |-> {},
   current |-> NoKey, previous |-> NoKey, fresh |-> FALSE]

AccountInit ==
  /\ account = NewAccount /\ saved = NewAccount
  /\ born = [oneTime |-> 0, fallback |-> 0]
  /\ pool = {} /\ uploaded = {} /\ offered = NoKey
  /\ told = {} /\ missed = {} /\ revived = {}

\* The keys createInboundSession can use.
PrivateKeys(a) == a.otks \cup ({a.current, a.previous} \ {NoKey})

\* The same check in Java and in Rust.
CountAllowed(count) == 0 < count /\ count <= Limit

(***************************************************************************)
(* Calls of the application.                                               *)
(***************************************************************************)
Created(count) == (born.oneTime + 1)..(born.oneTime + count)

\* The oldest keys make room, published or not.
Removed(count) ==
  LET keys == account.otks \cup Created(count) IN
    {k \in keys :
       Cardinality({j \in keys : j <= k}) <= Cardinality(keys) - Capacity}

Generated(count) ==
  /\ CountAllowed(count) /\ born.oneTime + count <= MaxOneTime
  /\ account' =
       [account EXCEPT
          !.otks = (@ \cup Created(count)) \ Removed(count),
          !.unpublished = (@ \cup Created(count)) \ Removed(count)]
  /\ born' = [born EXCEPT !.oneTime = @ + count]
  /\ UNCHANGED <<saved, pool, uploaded, offered, revived>>

\* Mutant: the result does not list the keys that were removed.
GenerateHidesRemoved(count) ==
  Generated(count) /\ UNCHANGED <<told, missed>>

\* generateOneTimeKeys: the result lists the removed keys, unless it cannot
\* be made; the keys are generated in either case.
GenerateOneTimeKeys(count) ==
  /\ Generated(count)
  /\ \/ told' = told \cup Removed(count) /\ UNCHANGED missed
     \/ missed' = missed \cup Removed(count) /\ UNCHANGED told

\* What generateFallbackKey returns, NoKey for an empty Optional: the key that
\* the account gives up.
FallbackKeyReturned == account.previous

\* The call has changed the account; its result lists the key that is gone,
\* unless it cannot be made.
ReportFallbackKey ==
  LET gone == {FallbackKeyReturned} \ {NoKey} IN
  \/ told' = told \cup gone /\ UNCHANGED missed
  \/ missed' = missed \cup gone /\ UNCHANGED told

\* Mutant: the key that was current has no private part any more.
GenerateFallbackDropsCurrent ==
  /\ born.fallback < MaxFallback
  /\ account' = [account EXCEPT
                   !.current = MaxOneTime + born.fallback + 1, !.fresh = TRUE]
  /\ born' = [born EXCEPT !.fallback = @ + 1]
  /\ ReportFallbackKey
  /\ UNCHANGED <<saved, pool, uploaded, offered, revived>>

\* The current key becomes the previous one, and its predecessor is gone.
GenerateFallbackKey ==
  /\ born.fallback < MaxFallback
  /\ account' = [account EXCEPT
                   !.current = MaxOneTime + born.fallback + 1,
                   !.previous = account.current, !.fresh = TRUE]
  /\ born' = [born EXCEPT !.fallback = @ + 1]
  /\ ReportFallbackKey
  /\ UNCHANGED <<saved, pool, uploaded, offered, revived>>

ForgetFallbackKey ==
  /\ account.previous # NoKey
  /\ account' = [account EXCEPT !.previous = NoKey]
  /\ told' = told \cup {account.previous}
  /\ UNCHANGED <<saved, born, pool, uploaded, offered, missed, revived>>

MarkKeysAsPublished ==
  /\ account' = [account EXCEPT !.unpublished = {}, !.fresh = FALSE]
  /\ UNCHANGED <<saved, born, pool, uploaded, offered, told, missed, revived>>

\* What unpublishedOneTimeKeys and unpublishedFallbackKey return is uploaded;
\* markKeysAsPublished is a call of its own. No key is accepted twice.
Upload ==
  /\ pool' = pool \cup (account.unpublished \ uploaded)
  /\ uploaded' = uploaded \cup account.unpublished
  /\ offered' = IF account.fresh THEN account.current ELSE offered
  /\ UNCHANGED <<account, saved, born, told, missed, revived>>

Pickle ==
  /\ saved' = account
  /\ UNCHANGED <<account, born, pool, uploaded, offered, told, missed, revived>>

\* The process ends and starts again from the pickle. What has happened to
\* the account since then is undone.
Unpickle ==
  /\ account' = saved
  /\ missed' = missed \cup (PrivateKeys(account) \ PrivateKeys(saved))
  /\ revived' = revived \cup (saved.otks \ account.otks)
  /\ UNCHANGED <<saved, born, pool, uploaded, offered, told>>

\* Someone claims a key of the account. The fallback key is for when there is
\* no one-time key.
Claim(key) ==
  /\ IF pool # {} THEN key \in pool ELSE key = offered /\ key # NoKey
  /\ pool' = pool \ {key}
  /\ UNCHANGED <<account, saved, born, uploaded, offered, told, missed, revived>>

\* Mutant: createInboundSession works on a copy of the account.
UseKeyOfCopy(key) ==
  key \in PrivateKeys(account) /\ UNCHANGED accountVars

\* Mutant: the key is still to be published.
UseKeyKeepsUnpublished(key) ==
  /\ key \in PrivateKeys(account)
  /\ account' = [account EXCEPT !.otks = @ \ {key}]
  /\ UNCHANGED <<saved, born, pool, uploaded, offered, told, missed, revived>>

\* createInboundSession: one-time keys are used once, fallback keys remain.
UseKey(key) ==
  /\ key \in PrivateKeys(account)
  /\ account' = [account EXCEPT !.otks = @ \ {key}, !.unpublished = @ \ {key}]
  /\ UNCHANGED <<saved, born, pool, uploaded, offered, told, missed, revived>>

AccountCall ==
  \/ \E count \in 0..(Limit + 1) : GenerateOneTimeKeys(count)
  \/ GenerateFallbackKey \/ ForgetFallbackKey \/ MarkKeysAsPublished
  \/ Upload \/ Pickle

(***************************************************************************)
(* Properties.                                                             *)
(***************************************************************************)

\* Whoever claims a one-time key from the server can use it: the account has
\* its private part, unless a call has reported the key as removed, the
\* report was lost with its call, or the process restarted from a pickle that
\* was older than the key.
ClaimableKeysAreUsable ==
  pool \subseteq account.otks \cup told \cup missed

\* MIGRATION-GUIDE.md: generateFallbackKey returns "(the new fallback key)". An
\* empty result says nothing; a key that is returned is the one that is current
\* from now on. It is not: the call returns the key that is gone, on which the
\* owner of the account relies in NoDeadChannel.
ReturnsNewFallbackKey ==
  [][born'.fallback > born.fallback =>
       FallbackKeyReturned \in {NoKey, account'.current}]_accountVars
===============================================================================
