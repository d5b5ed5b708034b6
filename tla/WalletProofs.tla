---------------------------- MODULE WalletProofs ----------------------------
(* However many accounts are made and deleted, and wherever the process ends *)
(* or the store commits by itself, no account is answered twice, none that   *)
(* was answered is lost, none that was deleted comes back, and between two   *)
(* calls the cache shows what is stored.                                     *)
EXTENDS Wallet, WellFoundedInduction, TLAPS

\* The maps of one moment: a finite number of keys, each account under one of
\* them and made before the next one.
GoodMaps(maps) ==
  /\ maps = [nonce |-> maps.nonce, accounts |-> maps.accounts]
  /\ maps.nonce \in 0..MaxNonce
  /\ DOMAIN maps.accounts \subseteq Nat
  /\ \E bound \in Nat : \A k \in DOMAIN maps.accounts : k <= bound
  /\ \A k \in DOMAIN maps.accounts : maps.accounts[k] \in 0..maps.nonce - 1
  /\ \A j, k \in DOMAIN maps.accounts : maps.accounts[j] = maps.accounts[k] => j = k

Calls ==
  [does : {"generate"}, step : {"cache", "store", "commit"}, account : Nonce] \cup
  [does : {"delete"}, step : {"commit", "cache"}, account : Nonce]

\* What was answered outlives a crash: its nonce, and unless it is being deleted
\* its entry.  So does the nonce of what was deleted, answered or not.
AnswersCommitted ==
  /\ handed \in [Nonce -> {0, 1}] /\ deleted \subseteq Nonce
  /\ \A n \in deleted : n < committed.nonce
  /\ \A n \in Nonce : handed[n] = 1 => n < committed.nonce
  /\ \A n \in Accounts(stored) : handed[n] = 1 => n \in Accounts(committed)

\* The nonces of the accounts stored outlive a crash, those of others at least.
NoncesCommitted(others) == \A n \in Accounts(stored) : n < committed.nonce \/ n \in others

\* How far the call in progress has got.
CallInv ==
  \/ call = None /\ accountsCache = Accounts(stored) /\ NoncesCommitted({})
  \/ /\ call \in Calls /\ call.does = "generate"
     /\ call.account < stored.nonce /\ handed[call.account] = 0
     /\ call.account \notin deleted /\ NoncesCommitted({call.account})
     /\ IF call.step = "commit" THEN accountsCache = Accounts(stored)
        ELSE /\ call.account \notin Accounts(stored)
             /\ accountsCache = Accounts(stored) \cup
                  (IF call.step = "store" THEN {call.account} ELSE {})
  \/ /\ call \in Calls /\ call.does = "delete"
     /\ call.account < committed.nonce /\ NoncesCommitted({})
     /\ accountsCache \ {call.account} = Accounts(stored)
     /\ call.account \notin Accounts(stored)
     /\ call.step = "cache" => call.account \notin Accounts(committed)

WalletInv ==
  /\ GoodMaps(stored) /\ GoodMaps(committed) /\ committed.nonce <= stored.nonce
  /\ AnswersCommitted /\ CallInv /\ DeletedIsGone

LEMMA InitInv == Init => WalletInv
BY WalletAssumption DEF Init, WalletInv, GoodMaps, AnswersCommitted, CallInv,
   NoncesCommitted, DeletedIsGone, Accounts, Range, Nonce

(* The smallest and the greatest of a set *)

Less == {ss \in Nat \X Nat : ss[1] < ss[2]}

LEMMA LessWellFounded == IsWellFoundedOn(Less, Nat)
BY Zenon, NatLessThanWellFounded DEF OpToRel, Less

LEMMA SmallestExists ==
  ASSUME NEW S \in SUBSET Nat, S # {}
  PROVE  \E m \in S : \A x \in S : m <= x
<1>1. PICK m \in S : \A x \in S : ~ (<<x, m>> \in Less)
  BY LessWellFounded, WFMin, Zenon
<1>2. ASSUME NEW x \in S PROVE m <= x
  <2>1. x < m => <<x, m>> \in Less
    BY DEF Less
  <2>. QED
    BY <1>1, <2>1
<1>. QED
  BY <1>2

\* Min, of a set of keys.
LEMMA MinIsSmallest ==
  ASSUME NEW S \in SUBSET Nat, S # {}
  PROVE  Min(S) \in S
BY SmallestExists DEF Min

\* Max, of a set with a bound: the smallest distance from the bound is its own.
LEMMA MaxIsGreatest ==
  ASSUME NEW S \in SUBSET Nat, S # {}, NEW bound \in Nat, \A x \in S : x <= bound
  PROVE  Max(S) \in S /\ \A x \in S : x <= Max(S)
<1>. DEFINE Distances == {bound - x : x \in S}
<1>1. Distances \in SUBSET Nat /\ Distances # {}
  <2>1. \A x \in S : bound - x \in Nat
    OBVIOUS
  <2>. QED
    BY <2>1
<1>2. PICK d \in Distances : \A e \in Distances : d <= e
  <2>. HIDE DEF Distances
  <2>. QED
    BY <1>1, SmallestExists
<1>3. PICK m \in S : d = bound - m
  BY DEF Distances
<1>4. ASSUME NEW x \in S PROVE m >= x
  <2>1. bound - x \in Distances
    BY DEF Distances
  <2>. QED
    BY <1>2, <1>3, <2>1
<1>. QED
  BY <1>4 DEF Max
-----------------------------------------------------------------------------
(* What the steps make of the maps *)

LEMMA NextKeyIsNew ==
  ASSUME GoodMaps(stored)
  PROVE  NextKey \in Nat /\ \A k \in DOMAIN stored.accounts : k < NextKey
<1>. DEFINE Keys == {0} \cup DOMAIN stored.accounts
<1>1. PICK bound \in Nat : \A k \in DOMAIN stored.accounts : k <= bound
  BY DEF GoodMaps
<1>2. Keys \in SUBSET Nat /\ Keys # {} /\ \A k \in Keys : k <= bound
  BY <1>1 DEF GoodMaps
<1>3. Max(Keys) \in Keys /\ \A k \in Keys : k <= Max(Keys)
  <2>. HIDE DEF Keys
  <2>. QED
    BY <1>2, MaxIsGreatest
<1>. QED
  BY <1>2, <1>3 DEF NextKey

\* A new account under the next key hides none of the others.
LEMMA PutKeepsOthers ==
  ASSUME GoodMaps(stored), NEW n \in Nonce, n < stored.nonce, n \notin Accounts(stored),
         stored' = [stored EXCEPT !.accounts =
           [k \in DOMAIN @ \cup {NextKey} |-> IF k = NextKey THEN n ELSE @[k]]]
  PROVE  GoodMaps(stored)' /\ stored'.nonce = stored.nonce
         /\ Accounts(stored)' = Accounts(stored) \cup {n}
<1>. DEFINE old == stored.accounts
            new == [k \in DOMAIN old \cup {NextKey} |-> IF k = NextKey THEN n ELSE old[k]]
<1>1. stored' = [nonce |-> stored.nonce, accounts |-> new]
  BY DEF GoodMaps
<1>2. NextKey \in Nat /\ \A k \in DOMAIN old : k < NextKey
  BY NextKeyIsNew
<1>3. NextKey \notin DOMAIN old
  BY <1>2 DEF GoodMaps
<1>4. \A k \in DOMAIN new : k <= NextKey
  BY <1>2 DEF GoodMaps
<1>5. \A k \in DOMAIN old : old[k] # n
  BY DEF Accounts, Range
<1>6. \A k \in DOMAIN new : new[k] \in 0..stored.nonce - 1
  BY DEF GoodMaps, Nonce
<1>7. \A j, k \in DOMAIN new : new[j] = new[k] => j = k
  BY <1>3, <1>5 DEF GoodMaps
<1>8. GoodMaps(stored)'
  <2>1. DOMAIN new \subseteq Nat
    BY <1>2 DEF GoodMaps
  <2>. QED
    BY <1>1, <1>2, <1>4, <1>6, <1>7, <2>1 DEF GoodMaps
<1>9. Range(new) = Range(old) \cup {n}
  BY <1>3 DEF Range
<1>. QED
  BY <1>1, <1>8, <1>9 DEF Accounts

\* An account that is deleted is under no other key, and it alone goes.
LEMMA DeletionKeepsOthers ==
  ASSUME GoodMaps(stored), NEW n \in Nonce,
         stored' = IF KeysOf(n) = {} THEN stored
                   ELSE [stored EXCEPT !.accounts = Restrict(@, DOMAIN @ \ {Min(KeysOf(n))})]
  PROVE  GoodMaps(stored)' /\ stored'.nonce = stored.nonce
         /\ Accounts(stored)' = Accounts(stored) \ {n}
<1>1. CASE KeysOf(n) = {}
  <2>1. n \notin Accounts(stored)
    BY <1>1 DEF KeysOf, Accounts, Range
  <2>. QED
    BY <1>1, <2>1
<1>2. CASE KeysOf(n) # {}
  <2>. DEFINE old == stored.accounts
              key == Min(KeysOf(n))
              new == [k \in DOMAIN old \ {key} |-> old[k]]
  <2>1. KeysOf(n) \in SUBSET Nat
    BY DEF GoodMaps, KeysOf
  <2>2. key \in KeysOf(n)
    BY <1>2, <2>1, MinIsSmallest
  <2>3. stored' = [nonce |-> stored.nonce, accounts |-> new]
    BY <1>2 DEF GoodMaps, Restrict
  <2>4. GoodMaps(stored)'
    <3>1. \A k \in DOMAIN new : k \in DOMAIN old /\ new[k] = old[k]
      OBVIOUS
    <3>2. PICK bound \in Nat : \A k \in DOMAIN old : k <= bound
      BY DEF GoodMaps
    <3>3. DOMAIN new \subseteq Nat /\ \A k \in DOMAIN new : k <= bound
      BY <3>1, <3>2 DEF GoodMaps
    <3>4. \A k \in DOMAIN new : new[k] \in 0..stored.nonce - 1
      BY <3>1 DEF GoodMaps
    <3>5. \A j, k \in DOMAIN new : new[j] = new[k] => j = k
      <4>1. SUFFICES ASSUME NEW j \in DOMAIN new, NEW k \in DOMAIN new, new[j] = new[k]
                     PROVE  j = k
        OBVIOUS
      <4>2. j \in DOMAIN old /\ k \in DOMAIN old /\ old[j] = old[k]
        BY <3>1, <4>1
      <4>. HIDE DEF new, key
      <4>. QED BY <4>2 DEF GoodMaps
    <3>. QED
      <4>. DEFINE m == [nonce |-> stored.nonce, accounts |-> new]
      <4>1. m.nonce = stored.nonce /\ m.accounts = new /\ stored.nonce \in 0..MaxNonce
        BY DEF GoodMaps
      <4>. HIDE DEF new
      <4>2. GoodMaps(m)
        BY <3>2, <3>3, <3>4, <3>5, <4>1 DEF GoodMaps
      <4>. QED BY <2>3, <4>2
  <2>5. Range(new) = Range(old) \ {n}
    <3>1. \A k \in DOMAIN old : old[k] = n <=> k = key
      BY <2>2 DEF GoodMaps, KeysOf
    <3>. HIDE DEF key
    <3>. QED
      BY <3>1 DEF Range
  <2>. QED
    BY <2>3, <2>4, <2>5 DEF Accounts
<1>. QED
  BY <1>1, <1>2
-----------------------------------------------------------------------------
LEMMA MadeBeforeNonce ==
  ASSUME NEW maps, GoodMaps(maps)
  PROVE  \A n \in Accounts(maps) : n < maps.nonce
BY WalletAssumption DEF GoodMaps, Accounts, Range

\* A commit puts every nonce out of reach of a crash.
LEMMA CommittingNonces ==
  ASSUME GoodMaps(stored), committed' = stored, UNCHANGED stored
  PROVE  NoncesCommitted({})'
<1>1. Accounts(stored)' = Accounts(stored) /\ committed'.nonce = stored.nonce
  BY DEF Accounts
<1>. QED
  BY <1>1, MadeBeforeNonce DEF NoncesCommitted

LEMMA NoneIsNoCall == None \notin Calls
<1>1. Nonce \subseteq Nat
  BY WalletAssumption DEF Nonce
<1>. QED
  BY <1>1, WalletAssumption DEF Calls

\* A commit only adds to what outlives a crash, of the answered accounts.
LEMMA CommittingKeepsAnswers ==
  ASSUME AnswersCommitted, GoodMaps(stored), GoodMaps(committed),
         committed.nonce <= stored.nonce, committed' = stored,
         UNCHANGED <<stored, handed, deleted>>
  PROVE  AnswersCommitted'
<1>1. Accounts(stored)' = Accounts(stored) /\ Accounts(committed)' = Accounts(stored)
  BY DEF Accounts
<1>2. ASSUME NEW n \in Nonce, handed[n] = 1 PROVE n < stored.nonce
  BY <1>2, WalletAssumption DEF AnswersCommitted, GoodMaps, Nonce
<1>3. ASSUME NEW n \in deleted PROVE n < stored.nonce
  BY WalletAssumption DEF AnswersCommitted, GoodMaps, Nonce
<1>. QED
  BY <1>1, <1>2, <1>3 DEF AnswersCommitted

LEMMA NextInv ==
  ASSUME WalletInv, [Next]_vars
  PROVE  WalletInv'
<1>. USE WalletAssumption
<1>1. ASSUME GenerateNewAccount PROVE WalletInv'
  <2>1. stored' = [nonce |-> stored.nonce + 1, accounts |-> stored.accounts]
    BY <1>1 DEF GenerateNewAccount, WalletInv, GoodMaps
  <2>2. stored.nonce \in Nonce /\ stored.nonce \notin Accounts(stored)
    BY <1>1 DEF GenerateNewAccount, WalletInv, GoodMaps, Nonce, Accounts, Range
  <2>3. handed[stored.nonce] = 0 /\ stored.nonce \notin deleted
    BY <2>2 DEF WalletInv, AnswersCommitted, GoodMaps
  <2>4. GoodMaps(stored)' /\ GoodMaps(committed)' /\ (committed.nonce <= stored.nonce)'
    BY <1>1, <2>1 DEF GenerateNewAccount, WalletInv, GoodMaps
  <2>5. AnswersCommitted' /\ DeletedIsGone'
    BY <1>1, <2>1 DEF GenerateNewAccount, WalletInv, AnswersCommitted, DeletedIsGone, Accounts
  <2>6. CallInv'
    <3>1. call' = [does |-> "generate", step |-> "cache", account |-> stored.nonce]
      BY <1>1 DEF GenerateNewAccount
    <3>2. accountsCache = Accounts(stored) /\ NoncesCommitted({})
      BY <1>1, NoneIsNoCall DEF GenerateNewAccount, WalletInv, CallInv
    <3>3. Accounts(stored)' = Accounts(stored)
      BY <2>1 DEF Accounts
    <3>4. stored.nonce < stored'.nonce
      BY <2>1, <2>2 DEF Nonce
    <3>. QED
      BY <1>1, <2>2, <2>3, <3>1, <3>2, <3>3, <3>4 DEF GenerateNewAccount, CallInv, Calls,
         NoncesCommitted
  <2>. QED
    BY <2>4, <2>5, <2>6 DEF WalletInv
<1>2. ASSUME PutIntoCache PROVE WalletInv'
  <2>1. CallInv'
    BY <1>2 DEF PutIntoCache, At, Goes, WalletInv, CallInv, Calls, Accounts, NoncesCommitted
  <2>2. DeletedIsGone'
    BY <1>2 DEF PutIntoCache, At, Goes, WalletInv, CallInv, Calls, AnswersCommitted,
       DeletedIsGone, Accounts
  <2>. QED
    BY <1>2, <2>1, <2>2 DEF PutIntoCache, WalletInv, AnswersCommitted, Accounts
<1>3. ASSUME PutAccount PROVE WalletInv'
  <2>1. /\ call \in Calls /\ call.does = "generate" /\ call.step = "store"
        /\ call.account \in Nonce /\ call.account < stored.nonce
        /\ handed[call.account] = 0 /\ call.account \notin Accounts(stored)
        /\ call.account \notin deleted /\ NoncesCommitted({call.account})
        /\ accountsCache = Accounts(stored) \cup {call.account}
    BY <1>3 DEF PutAccount, At, WalletInv, CallInv, Calls
  <2>2. /\ GoodMaps(stored)' /\ stored'.nonce = stored.nonce
        /\ Accounts(stored)' = Accounts(stored) \cup {call.account}
    BY <1>3, <2>1, PutKeepsOthers DEF PutAccount, WalletInv
  <2>3. AnswersCommitted'
    <3>1. Accounts(committed)' = Accounts(committed)
      BY <1>3 DEF PutAccount, Accounts
    <3>2. AnswersCommitted /\ UNCHANGED <<handed, deleted, committed>>
      BY <1>3 DEF PutAccount, WalletInv
    <3>. QED
      BY <2>1, <2>2, <3>1, <3>2 DEF AnswersCommitted
  <2>4. DeletedIsGone'
    BY <1>3, <2>1, <2>2 DEF PutAccount, WalletInv, AnswersCommitted, DeletedIsGone, Accounts
  <2>5. CallInv'
    <3>1. call' = [does |-> "generate", step |-> "commit", account |-> call.account]
      BY <1>3, <2>1 DEF PutAccount, Goes, Calls
    <3>. QED
      BY <1>3, <2>1, <2>2, <3>1 DEF PutAccount, CallInv, Calls, NoncesCommitted
  <2>. QED
    BY <1>3, <2>2, <2>3, <2>4, <2>5 DEF PutAccount, WalletInv
<1>4. ASSUME CommitNewAccount PROVE WalletInv'
  <2>1. /\ call.account \in Nonce /\ call.account < stored.nonce
        /\ handed[call.account] = 0 /\ accountsCache = Accounts(stored)
        /\ NoncesCommitted({call.account})
    BY <1>4 DEF CommitNewAccount, At, WalletInv, CallInv, Calls
  <2>2. AnswersCommitted'
    BY <1>4, <2>1 DEF CommitNewAccount, Committed, WalletInv, AnswersCommitted, Accounts,
       GoodMaps, Nonce
  <2>3. NoncesCommitted({})'
    BY <1>4, CommittingNonces DEF CommitNewAccount, Committed, WalletInv
  <2>. QED
    BY <1>4, <2>1, <2>2, <2>3 DEF CommitNewAccount, Committed, WalletInv, CallInv,
       DeletedIsGone, Accounts, GoodMaps
<1>5. ASSUME NEW n \in Nonce, DeleteAccount(n) PROVE WalletInv'
  <2>1. /\ GoodMaps(stored)' /\ stored'.nonce = stored.nonce
        /\ Accounts(stored)' = Accounts(stored) \ {n}
    BY <1>5, DeletionKeepsOthers DEF DeleteAccount, WalletInv
  <2>2. accountsCache = Accounts(stored) /\ NoncesCommitted({}) /\ n < committed.nonce
    BY <1>5, NoneIsNoCall DEF DeleteAccount, WalletInv, AnswersCommitted, CallInv,
       NoncesCommitted
  <2>3. AnswersCommitted' /\ DeletedIsGone'
    BY <1>5, <2>1 DEF DeleteAccount, WalletInv, AnswersCommitted, DeletedIsGone, Accounts
  <2>4. CallInv'
    BY <1>5, <2>1, <2>2 DEF DeleteAccount, CallInv, Calls, NoncesCommitted
  <2>. QED
    BY <1>5, <2>1, <2>3, <2>4 DEF DeleteAccount, WalletInv
<1>6. ASSUME CommitDeletion PROVE WalletInv'
  <2>1. /\ call \in Calls /\ call.does = "delete"
        /\ call.account < committed.nonce /\ NoncesCommitted({})
        /\ accountsCache \ {call.account} = Accounts(stored)
        /\ call.account \notin Accounts(stored)
    BY <1>6 DEF CommitDeletion, At, WalletInv, CallInv, Calls
  <2>2. call' = [does |-> "delete", step |-> "cache", account |-> call.account]
    BY <1>6, <2>1 DEF CommitDeletion, At, Goes, Calls
  <2>3. AnswersCommitted'
    BY <1>6, CommittingKeepsAnswers DEF CommitDeletion, Committed, WalletInv
  <2>4. NoncesCommitted({})' /\ call.account < committed'.nonce
    BY <1>6, <2>1, CommittingNonces DEF CommitDeletion, Committed, WalletInv, GoodMaps,
       Calls, Nonce
  <2>5. CallInv'
    BY <1>6, <2>1, <2>2, <2>4 DEF CommitDeletion, Committed, CallInv, Calls, Accounts
  <2>. QED
    BY <1>6, <2>3, <2>5 DEF CommitDeletion, Committed, WalletInv, DeletedIsGone, Accounts,
       GoodMaps
<1>7. ASSUME RemoveFromCache PROVE WalletInv'
  <2>1. /\ call.account \in Nonce /\ call.account < committed.nonce
        /\ NoncesCommitted({})
        /\ accountsCache \ {call.account} = Accounts(stored)
        /\ call.account \notin Accounts(stored) \cup Accounts(committed)
    BY <1>7 DEF RemoveFromCache, At, WalletInv, CallInv, Calls
  <2>. QED
    BY <1>7, <2>1 DEF RemoveFromCache, CacheWithout, WalletInv, AnswersCommitted, CallInv,
       DeletedIsGone, Accounts, NoncesCommitted
<1>8. ASSUME AutoCommit PROVE WalletInv'
  <2>1. AnswersCommitted'
    BY <1>8, CommittingKeepsAnswers DEF AutoCommit, WalletInv
  <2>2. NoncesCommitted({})' /\ NoncesCommitted({call.account})'
    <3>1. NoncesCommitted({})'
      BY <1>8, CommittingNonces DEF AutoCommit, WalletInv
    <3>. QED
      BY <1>8, <3>1 DEF AutoCommit, NoncesCommitted
  <2>3. CallInv'
    BY <1>8, <2>2 DEF AutoCommit, WalletInv, CallInv, Calls, Nonce, Accounts, GoodMaps
  <2>. QED
    BY <1>8, <2>1, <2>3 DEF AutoCommit, WalletInv, DeletedIsGone, Accounts, GoodMaps
<1>9. ASSUME CrashAndRestart PROVE WalletInv'
  BY <1>9 DEF CrashAndRestart, WalletInv, AnswersCommitted, CallInv, DeletedIsGone, Accounts,
     GoodMaps, NoncesCommitted, Range
<1>10. ASSUME CloseAndReopen PROVE WalletInv'
  <2>1. accountsCache = Accounts(stored) /\ NoncesCommitted({})
    BY <1>10, NoneIsNoCall DEF CloseAndReopen, WalletInv, CallInv
  <2>2. AnswersCommitted'
    BY <1>10, CommittingKeepsAnswers DEF CloseAndReopen, WalletInv
  <2>3. NoncesCommitted({})'
    BY <1>10, CommittingNonces DEF CloseAndReopen, WalletInv
  <2>. QED
    BY <1>10, <2>1, <2>2, <2>3 DEF CloseAndReopen, WalletInv, CallInv, DeletedIsGone, Accounts,
       GoodMaps
<1>11. ASSUME UNCHANGED vars PROVE WalletInv'
  BY <1>11 DEF vars, WalletInv, AnswersCommitted, CallInv, DeletedIsGone, Accounts,
     NoncesCommitted
<1>. QED
  BY <1>1, <1>2, <1>3, <1>4, <1>5, <1>6, <1>7, <1>8, <1>9, <1>10, <1>11 DEF Next
-----------------------------------------------------------------------------
\* No account is answered twice, also when a crash undoes the nonce
\* (Wallet.scala:70-86).
THEOREM NoAccountAnsweredTwice == Spec => []AnsweredOnce
<1>1. WalletInv => AnsweredOnce
  BY DEF WalletInv, AnswersCommitted, AnsweredOnce
<1>. QED
  BY InitInv, NextInv, <1>1, PTL DEF Spec

\* An account whose deletion was answered is gone for good (Wallet.scala:88-98).
THEOREM DeletedStaysGone == Spec => []DeletedIsGone
<1>1. WalletInv => DeletedIsGone
  BY DEF WalletInv
<1>. QED
  BY InitInv, NextInv, <1>1, PTL DEF Spec

\* Between two calls the readers of the cache see what is stored
\* (Wallet.scala:60-63, 76-77, 95-96).
THEOREM CacheAlwaysMatches == Spec => []CacheMatches
<1>1. WalletInv => CacheMatches
  BY NoneIsNoCall DEF WalletInv, CallInv, CacheMatches
<1>. QED
  BY InitInv, NextInv, <1>1, PTL DEF Spec

\* An account that was answered stays in the store until it is deleted, whatever
\* else is made, deleted or undone by a crash (Wallet.scala:76-78).
THEOREM AnsweredStays == Spec => AnsweredIsKept
<1>. DEFINE Kept ==
       \A n \in Nonce :
         /\ n \in Accounts(stored) /\ handed[n] > 0 /\ ~BeingDeleted(n)
         /\ ~BeingDeleted(n)'
         => n \in Accounts(stored)'
<1>1. ASSUME WalletInv, [Next]_vars PROVE [Kept]_vars
  <2>. SUFFICES ASSUME Next, NEW n \in Nonce, n \in Accounts(stored), handed[n] > 0,
                       ~BeingDeleted(n)'
                PROVE  n \in Accounts(stored)'
    BY <1>1
  <2>1. CASE PutAccount
    <3>1. /\ call.account \in Nonce /\ call.account < stored.nonce
          /\ call.account \notin Accounts(stored)
      BY <1>1, <2>1 DEF PutAccount, At, WalletInv, CallInv, Calls
    <3>. QED
      BY <1>1, <2>1, <3>1, PutKeepsOthers DEF PutAccount, WalletInv
  <2>2. ASSUME NEW m \in Nonce, DeleteAccount(m) PROVE n \in Accounts(stored)'
    <3>1. Accounts(stored)' = Accounts(stored) \ {m}
      BY <1>1, <2>2, DeletionKeepsOthers DEF DeleteAccount, WalletInv
    <3>2. n # m
      BY <2>2, NoneIsNoCall DEF DeleteAccount, BeingDeleted, Calls
    <3>. QED
      BY <3>1, <3>2
  <2>3. CASE CrashAndRestart
    BY <1>1, <2>3 DEF CrashAndRestart, WalletInv, AnswersCommitted, Accounts
  <2>4. CASE GenerateNewAccount
    BY <1>1, <2>4 DEF GenerateNewAccount, WalletInv, GoodMaps, Accounts
  <2>5. CASE \/ PutIntoCache \/ CommitNewAccount \/ CommitDeletion \/ RemoveFromCache
             \/ AutoCommit \/ CloseAndReopen
    BY <2>5 DEF PutIntoCache, CommitNewAccount, CommitDeletion, RemoveFromCache, AutoCommit,
       CloseAndReopen, Accounts
  <2>. QED
    BY <2>1, <2>2, <2>3, <2>4, <2>5 DEF Next
<1>2. AnsweredIsKept <=> [][Kept]_vars
  BY PTL DEF AnsweredIsKept
<1>. QED
  BY InitInv, NextInv, <1>1, <1>2, PTL DEF Spec
=============================================================================
