-------------------------------- MODULE Wallet --------------------------------
(* The wallet: accounts derived from a seed by their nonces, in a store that  *)
(* keeps what was committed over a crash, and in a cache beside it.  The      *)
(* calls that change it exclude each other, a crash comes between any of      *)
(* their steps.  An account is its nonce here.                                *)
EXTENDS Integers, FiniteSetsExt, Functions

CONSTANTS
  MaxNonce,  \* bound on the accounts made
  None

ASSUME WalletAssumption ==
  /\ MaxNonce \in Nat
  /\ None \notin [does : {"generate", "delete"}, step : {"cache", "store", "commit"},
                  account : Nat]

Nonce == 0..MaxNonce - 1

VARIABLES
  stored,         \* [nonce, accounts]: the maps of the store, accounts by key
  committed,      \* what is left of them after a crash
  accountsCache,
  call,           \* the call in progress: [does, account, to come]
  handed,         \* ghost: how often generateNewAccount answered each account
  deleted         \* ghost: the accounts deleteAccount has deleted

vars == <<stored, committed, accountsCache, call, handed, deleted>>

Accounts(maps) == Range(maps.accounts)

Init ==
  /\ stored = [nonce |-> 0, accounts |-> <<>>] /\ committed = stored
  /\ accountsCache = {} /\ call = None
  /\ handed = [n \in Nonce |-> 0] /\ deleted = {}

At(does, step) == call # None /\ call.does = does /\ call.step = step

Goes(step) == call' = [call EXCEPT !.step = step]
-----------------------------------------------------------------------------
\* getAndIncrementNonce; put answers what was there before.
GenerateNewAccount ==
  /\ call = None /\ stored.nonce < MaxNonce
  /\ stored' = [stored EXCEPT !.nonce = @ + 1]
  /\ call' = [does |-> "generate", step |-> "cache", account |-> stored.nonce]
  /\ UNCHANGED <<committed, accountsCache, handed, deleted>>

\* Without an account that is new nothing is written and nothing answered.
PutIntoCache ==
  /\ At("generate", "cache")
  /\ IF call.account \in accountsCache THEN call' = None /\ UNCHANGED accountsCache
     ELSE /\ accountsCache' = accountsCache \cup {call.account} /\ Goes("store")
  /\ UNCHANGED <<stored, committed, handed, deleted>>

\* (Defect for mutation: the keys are counted.)
NextInCount == Cardinality(DOMAIN stored.accounts) + 1

\* lastKey() + 1
NextKey == Max({0} \cup DOMAIN stored.accounts) + 1

PutAccount ==
  /\ At("generate", "store") /\ Goes("commit")
  /\ stored' = [stored EXCEPT !.accounts =
       [k \in DOMAIN @ \cup {NextKey} |-> IF k = NextKey THEN call.account ELSE @[k]]]
  /\ UNCHANGED <<committed, accountsCache, handed, deleted>>

\* (Defect for mutation: the accounts are not committed, as in no map of its own.)
NonceOnly == [committed EXCEPT !.nonce = stored.nonce]

\* (Defect for mutation: the nonce is not committed.)
AccountsOnly == [committed EXCEPT !.accounts = stored.accounts]

Committed == stored

CommitNewAccount ==
  /\ At("generate", "commit") /\ committed' = Committed /\ call' = None
  /\ handed' = [handed EXCEPT ![call.account] = @ + 1]
  /\ UNCHANGED <<stored, accountsCache, deleted>>

KeysOf(n) == {k \in DOMAIN stored.accounts : stored.accounts[k] = n}

\* An account that was answered, or that readers see: a crash may leave one there
\* whose making was never answered.  The first key that holds it is removed.
DeleteAccount(n) ==
  /\ call = None /\ (handed[n] > 0 \/ n \in accountsCache)
  /\ stored' = IF KeysOf(n) = {} THEN stored
               ELSE [stored EXCEPT !.accounts = Restrict(@, DOMAIN @ \ {Min(KeysOf(n))})]
  /\ call' = [does |-> "delete", step |-> "commit", account |-> n]
  /\ UNCHANGED <<committed, accountsCache, handed, deleted>>

CommitDeletion ==
  /\ At("delete", "commit") /\ committed' = Committed /\ Goes("cache")
  /\ UNCHANGED <<stored, accountsCache, handed, deleted>>

CacheWithout(n) == accountsCache \ {n}

RemoveFromCache ==
  /\ At("delete", "cache") /\ accountsCache' = CacheWithout(call.account) /\ call' = None
  /\ deleted' = deleted \cup {call.account}
  /\ UNCHANGED <<stored, committed, handed>>
-----------------------------------------------------------------------------
(* The store *)

\* MVStore commits from time to time by itself.
AutoCommit ==
  /\ committed # stored /\ committed' = stored
  /\ UNCHANGED <<stored, accountsCache, call, handed, deleted>>

\* A crash and the start after it.
CrashAndRestart ==
  /\ stored' = committed /\ accountsCache' = Accounts(committed) /\ call' = None
  /\ UNCHANGED <<committed, handed, deleted>>

\* close() and the next start.
CloseAndReopen ==
  /\ call = None /\ committed' = stored /\ accountsCache' = Accounts(stored)
  /\ UNCHANGED <<stored, call, handed, deleted>>

Next ==
  \/ GenerateNewAccount \/ PutIntoCache \/ PutAccount \/ CommitNewAccount
  \/ \E n \in Nonce : DeleteAccount(n)
  \/ CommitDeletion \/ RemoveFromCache
  \/ AutoCommit \/ CrashAndRestart \/ CloseAndReopen

Spec == Init /\ [][Next]_vars
-----------------------------------------------------------------------------
BeingDeleted(n) == call # None /\ call.does = "delete" /\ call.account = n

\* An account that was answered is in the store, and would be after a crash,
\* until it is deleted: whatever was deleted, interrupted or committed before
\* (Wallet.scala:76-78).  It may be that its deletion was interrupted.
AnsweredIsKept ==
  [][\A n \in Nonce :
       /\ n \in Accounts(stored) /\ handed[n] > 0 /\ ~BeingDeleted(n)
       /\ ~BeingDeleted(n)'
       => n \in Accounts(stored)']_vars

\* No account is answered twice, also when a crash undoes the nonce.
AnsweredOnce == \A n \in Nonce : handed[n] <= 1

\* An account whose deletion was answered does not come back with a crash, nor
\* by being made again.
DeletedIsGone ==
  \A n \in deleted : n \notin Accounts(stored) \cup Accounts(committed) \cup accountsCache

\* Between two calls the cache, which the readers see, shows what is stored
\* (Wallet.scala:60-63, 76-77, 95-96).
CacheMatches == call = None => accountsCache = Accounts(stored)
=============================================================================
