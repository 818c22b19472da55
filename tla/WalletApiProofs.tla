-------------------------- MODULE WalletApiProofs --------------------------
(***************************************************************************)
(* Proofs about WalletApi, for any number of calls and faults: its type    *)
(* invariant, that the channel of a waiter has room, that a transaction    *)
(* and its replacement are never both mined, and that the nonces of the    *)
(* sends are consecutive as long as the counter can follow them.           *)
(***************************************************************************)
EXTENDS WalletApi, FiniteSetTheorems, NaturalsInduction, TLAPS

-----------------------------------------------------------------------------
(* The inductive invariant.                                                *)

\* The nonce of such a call does not change any more.
Fixed(c) == pc[c] \notin {"none", "looked"}

\* The handler of a call, its row and its transaction.
CallOK(c) ==
  /\ kind[c] = "none" <=> pc[c] = "none"
  /\ pc[c] = "looked" => kind[c] = "send"
  /\ kind[c] = "create" => pc[c] \in {"waiting", "done"}
  /\ kind[c] = "send" /\ pc[c] \in {"built", "drafted", "waiting", "signed"} => c \in holds
  /\ status[c] # "none" \/ c \in holds \cup pool \cup mined => Fixed(c)
  /\ Replacement(c) =>
       Fixed(target[c]) /\ target[c] # c /\ nonce[c] = nonce[target[c]]

\* Only a call that waits, or has given up waiting, has an entry or a result.
WaiterOK(c) ==
  /\ c \in waiting \/ channel[c] # "none" => pc[c] \in {"waiting", "done"}
  /\ c \in waiting => channel[c] = "none"

\* The chain has executed one transaction for each nonce.
MinedOK ==
  /\ \A c \in mined : nonce[c] < ChainNonce
  /\ \A c, d \in mined : nonce[c] = nonce[d] => c = d

\* No nonce was ever taken: what there is of sends has only looked.
Untouched ==
  /\ holds = {} /\ pool = {} /\ mined = {}
  /\ \A c \in Call :
       /\ seed[c] \in {NoKey, 0} /\ status[c] \in {"none", "wallet"} /\ ~Replacement(c)
       /\ kind[c] = "send" => pc[c] \in {"looked", "done"}

Consecutive ==
  /\ counter \in Nat
  /\ {nonce[c] : c \in holds} = 0..(counter - 1)
  /\ \A c, d \in holds : nonce[c] = nonce[d] => c = d

NoncesOK == orderly => IF counter = NoKey THEN Untouched ELSE Consecutive

WalletInv ==
  /\ TypeOK
  /\ \A c \in Call : CallOK(c)
  /\ \A c \in Call : WaiterOK(c)
  /\ MinedOK
  /\ NoncesOK

-----------------------------------------------------------------------------
(* PendingNonceAt.                                                         *)

LEMMA LeastNat ==
  ASSUME NEW S, S \subseteq Nat, S # {}
  PROVE  \E x \in S : \A y \in S : x <= y
<1>1. PICK x \in S : \A y \in S : ~(<<y, x>> \in OpToRel(<, Nat))
  BY WFMin, NatLessThanWellFounded, Zenon
<1>2. \A y \in S : ~(y < x)
  BY <1>1 DEF OpToRel
<1> QED BY <1>2

\* The accepted transactions cannot use all of one nonce more than there are
\* of them, so the CHOOSE in PendingNonceAt has something to choose.
LEMMA PendingNonceType ==
  ASSUME TypeOK PROVE PendingNonceAt \in Nat /\ (pool = {} => PendingNonceAt = ChainNonce)
<1> DEFINE k == Cardinality(pool)
           From == ChainNonce..(ChainNonce + k)
           Free == {n \in From : \A u \in pool : nonce[u] # n}
<1>1. /\ IsFiniteSet(pool) /\ k \in Nat /\ ChainNonce \in Nat
  BY CallAssumption, FS_Subset, FS_CardinalityType DEF TypeOK, ChainNonce
<1>2. IsFiniteSet(From) /\ Cardinality(From) = k + 1
  <2>1. ChainNonce \in Int /\ ChainNonce + k \in Int /\ ~(ChainNonce > ChainNonce + k)
        /\ (ChainNonce + k) - ChainNonce + 1 = k + 1
    BY <1>1
  <2> HIDE DEF k
  <2> QED BY <2>1, FS_Interval
<1>3. Free # {}
  <2> SUFFICES ASSUME Free = {} PROVE FALSE
    OBVIOUS
  <2> DEFINE f == [n \in From |-> CHOOSE u \in pool : nonce[u] = n]
  <2>1. \A n \in From : \E u \in pool : nonce[u] = n
    OBVIOUS
  <2>2. \A n \in From : f[n] \in pool /\ nonce[f[n]] = n
    BY <2>1
  <2>3. f \in [From -> pool]
    BY <2>2
  <2>4. k < Cardinality(From)
    BY <1>1, <1>2
  <2> HIDE DEF f, From, Free
  <2>5. \E x, y \in From : x # y /\ f[x] = f[y]
    BY <1>1, <1>2, <2>3, <2>4, FS_PigeonHole
  <2> QED BY <2>2, <2>5
<1>4. Free \subseteq Nat
  BY <1>1
<1>5. PICK n \in Free : \A m \in Free : n <= m
  <2> HIDE DEF Free
  <2> QED BY <1>3, <1>4, LeastNat
<1>6. ASSUME NEW m \in ChainNonce..(n - 1) PROVE \E u \in pool : nonce[u] = m
  <2>1. m \in From /\ ~(n <= m)
    BY <1>1, <1>5
  <2> QED BY <1>5, <2>1
<1>7. \E w \in From : /\ \A u \in pool : nonce[u] # w
                      /\ \A m \in ChainNonce..(w - 1) : \E u \in pool : nonce[u] = m
  BY <1>5, <1>6
<1>8. PendingNonceAt \in From
  BY <1>7 DEF PendingNonceAt
<1>9. ASSUME pool = {} PROVE PendingNonceAt = ChainNonce
  <2>1. k = 0
    BY <1>9, FS_EmptySet
  <2> QED BY <1>1, <1>8, <2>1
<1> QED BY <1>1, <1>8, <1>9

-----------------------------------------------------------------------------
(* The parts of TypeOK, by the group of variables.                         *)

Kinds == {"none", "create", "send", "cancel", "speedup"}
Steps ==
  {"none", "looked", "built", "drafted", "waiting", "signed", "sent", "hashed", "done"}
Statuses ==
  {"none", "wallet", "draft", "signing", "signed", "broadcast", "confirmed", "failed"}

CallTypes ==
  /\ kind \in [Call -> Kinds] /\ target \in [Call -> Call] /\ pc \in [Call -> Steps]

NonceTypes ==
  /\ seed \in [Call -> Int] /\ nonce \in [Call -> Nat \cup {NoKey}] /\ counter \in Int
  /\ holds \subseteq Call /\ orderly \in BOOLEAN

RestTypes ==
  /\ status \in [Call -> Statuses]
  /\ hashed \subseteq Call /\ waiting \subseteq Call /\ asked \subseteq Call
  /\ channel \in [Call -> {"none", "success", "error"}]
  /\ pool \subseteq Call /\ mined \subseteq Call
  /\ faults \in 0..MaxFaults

LEMMA TypeParts ==
  /\ TypeOK <=> CallTypes /\ NonceTypes /\ RestTypes
  /\ TypeOK' <=> CallTypes' /\ NonceTypes' /\ RestTypes'
  BY DEF TypeOK, CallTypes, NonceTypes, RestTypes, Kinds, Steps, Statuses

LEMMA FaultType == ASSUME TypeOK, Fault PROVE faults' \in 0..MaxFaults
  BY BoundAssumption DEF TypeOK, Fault

LEMMA NoKeyType == NoKey \in Int /\ NoKey \notin Nat
  BY DEF NoKey

LEMMA SeededType ==
  ASSUME TypeOK, NEW c \in Call PROVE Seeded(c) \in Int
  BY DEF TypeOK, Seeded

LEMMA GiveUpType ==
  ASSUME TypeOK, NEW c \in Call, GiveUp(c) \/ Leave(c)
  PROVE  NonceTypes' /\ pc' \in [Call -> Steps] /\ pc'[c] = "done"
<1>1. NonceTypes /\ CallTypes
  BY TypeParts
<1>2. counter' \in Int /\ holds' \subseteq Call /\ orderly' \in BOOLEAN
  <2>1. counter' \in Int /\ holds' \subseteq Call
    BY <1>1, NoKeyType DEF GiveUp, Leave, ReleaseNonce, NonceTypes
  <2>2. orderly' \in BOOLEAN
    BY <1>1, Zenon DEF GiveUp, Leave, ReleaseNonce, NonceTypes
  <2> QED BY <2>1, <2>2
<1>3. UNCHANGED <<seed, nonce>>
  BY DEF GiveUp, Leave
<1> QED BY <1>1, <1>2, <1>3 DEF GiveUp, Leave, Goto, NonceTypes, CallTypes, Steps

LEMMA InitInv == Init => WalletInv
<1> SUFFICES ASSUME Init PROVE WalletInv
  OBVIOUS
<1>1. TypeOK
  <2>1. CallTypes /\ NonceTypes
    BY NoKeyType DEF Init, CallTypes, NonceTypes, Kinds, Steps
  <2>2. RestTypes
    BY BoundAssumption DEF Init, RestTypes, Statuses
  <2> QED BY <2>1, <2>2, TypeParts
<1>2. \A c \in Call : CallOK(c) /\ WaiterOK(c)
  BY DEF Init, CallOK, WaiterOK, Fixed, Replacement
<1>3. MinedOK /\ NoncesOK
  BY DEF Init, MinedOK, NoncesOK, Untouched, Replacement
<1> QED BY <1>1, <1>2, <1>3 DEF WalletInv

-----------------------------------------------------------------------------
(* How a step of one call leaves the others in order.                      *)

\* The others go on as before; a transaction of theirs may be replaced in the
\* pool or mined, and their row be marked as failed.
Elsewhere(c) ==
  \A d \in Call \ {c} :
    /\ kind'[d] = kind[d] /\ target'[d] = target[d]
    /\ pc'[d] = pc[d] /\ nonce'[d] = nonce[d]
    /\ d \in holds' <=> d \in holds
    /\ d \in pool' \cup mined' => d \in pool \cup mined
    /\ status'[d] = status[d] \/ Fixed(d)
    /\ d \in waiting' => d \in waiting
    /\ channel'[d] = channel[d]

\* A nonce does not change once its call has it.
KeepsNonce(c) == Fixed(c) => pc'[c] \notin {"none", "looked"} /\ nonce'[c] = nonce[c]

LEMMA NoncesFixed ==
  ASSUME NEW c \in Call, Elsewhere(c), KeepsNonce(c), NEW d \in Call, Fixed(d)
  PROVE  Fixed(d)' /\ nonce'[d] = nonce[d]
  BY DEF Elsewhere, KeepsNonce, Fixed

LEMMA OthersOK ==
  ASSUME WalletInv, NEW c \in Call, Elsewhere(c), KeepsNonce(c), NEW d \in Call, d # c
  PROVE  CallOK(d)' /\ WaiterOK(d)'
<1>0. CallOK(d) /\ WaiterOK(d) /\ target[d] \in Call
  BY DEF WalletInv, TypeOK
<1>1. /\ kind'[d] = kind[d] /\ target'[d] = target[d]
      /\ pc'[d] = pc[d] /\ nonce'[d] = nonce[d]
      /\ d \in holds' <=> d \in holds
      /\ d \in pool' \cup mined' => d \in pool \cup mined
      /\ status'[d] = status[d] \/ Fixed(d)
      /\ d \in waiting' => d \in waiting
      /\ channel'[d] = channel[d]
  BY DEF Elsewhere
<1>2. Replacement(d) => Fixed(target[d])' /\ nonce'[target[d]] = nonce[target[d]]
  <2>1. PICK t \in Call : t = target[d]
    BY <1>0
  <2>2. Replacement(d) => Fixed(t)' /\ nonce'[t] = nonce[t]
    BY <1>0, <2>1, NoncesFixed DEF CallOK
  <2> QED BY <1>1, <2>1, <2>2 DEF Fixed
<1>3. WaiterOK(d)'
  BY <1>0, <1>1 DEF WaiterOK
<1>4. Fixed(d)' <=> Fixed(d)
  BY <1>1 DEF Fixed
<1>5. Replacement(d)' <=> Replacement(d)
  BY <1>1 DEF Replacement
<1>6. status'[d] # "none" \/ d \in holds' \cup pool' \cup mined' => Fixed(d)
  BY <1>0, <1>1 DEF CallOK
<1>7. Replacement(d) =>
        Fixed(target[d])' /\ target'[d] # d /\ nonce'[d] = nonce'[target'[d]]
  BY <1>0, <1>1, <1>2 DEF CallOK
<1>8. Replacement(d)' =>
        Fixed(target[d])' /\ target'[d] # d /\ nonce'[d] = nonce'[target'[d]]
  BY <1>5, <1>7
<1> QED BY <1>0, <1>1, <1>3, <1>4, <1>6, <1>8 DEF CallOK

\* The call goes on with the nonce it has.
LEMMA OwnOK ==
  ASSUME WalletInv, NEW c \in Call, Elsewhere(c), kind'[c] = kind[c], target'[c] = target[c],
         nonce'[c] = nonce[c], Fixed(c), pc'[c] \notin {"none", "looked"},
         kind[c] = "create" => pc'[c] \in {"waiting", "done"},
         kind[c] = "send" /\ pc'[c] \in {"built", "drafted", "waiting", "signed"}
           => c \in holds'
  PROVE  CallOK(c)'
<1>0. CallOK(c) /\ target[c] \in Call
  BY DEF WalletInv, TypeOK
<1>1. KeepsNonce(c)
  BY DEF KeepsNonce
<1>2. Replacement(c) => Fixed(target[c])' /\ nonce'[target[c]] = nonce[target[c]]
  <2>1. PICK t \in Call : t = target[c]
    BY <1>0
  <2>2. Replacement(c) => Fixed(t)' /\ nonce'[t] = nonce[t]
    BY <1>0, <1>1, <2>1, NoncesFixed DEF CallOK
  <2> QED BY <2>1, <2>2 DEF Fixed
<1>3. Fixed(c)' /\ kind[c] # "none" /\ pc[c] # "none"
  BY <1>0 DEF CallOK, Fixed
<1>4. Replacement(c)' <=> Replacement(c)
  BY DEF Replacement
<1>5. Replacement(c)' =>
        Fixed(target[c])' /\ target'[c] # c /\ nonce'[c] = nonce'[target'[c]]
  BY <1>0, <1>2, <1>4 DEF CallOK
<1> QED BY <1>3, <1>5 DEF CallOK

LEMMA MinedSame ==
  ASSUME WalletInv, NEW c \in Call, Elsewhere(c), KeepsNonce(c), mined' = mined
  PROVE  MinedOK'
<1>1. \A d \in mined : d \in Call /\ Fixed(d)
  BY DEF WalletInv, TypeOK, CallOK
<1>2. \A d \in mined : nonce'[d] = nonce[d]
  BY <1>1, NoncesFixed
<1> QED BY <1>2 DEF WalletInv, MinedOK, ChainNonce

\* As long as no nonce was taken, nobody has come further than looking.
LEMMA UntouchedIdle ==
  ASSUME WalletInv, orderly, counter = NoKey, NEW c \in Call
  PROVE  /\ Untouched /\ kind[c] \in {"none", "create", "send"}
         /\ pc[c] \in {"none", "looked", "waiting", "done"}
         /\ pc[c] = "waiting" => kind[c] = "create"
<1>1. Untouched
  BY DEF WalletInv, NoncesOK
<1>2. CallOK(c) /\ kind[c] \in Kinds
  BY TypeParts DEF WalletInv, CallTypes
<1> QED BY <1>1, <1>2 DEF Untouched, CallOK, Replacement, Kinds

LEMMA NoncesKept ==
  ASSUME WalletInv, NEW c \in Call, Elsewhere(c), KeepsNonce(c),
         counter' = counter, holds' = holds, orderly' => orderly,
         orderly /\ counter = NoKey => Untouched'
  PROVE  NoncesOK'
<1>1. \A d \in holds : d \in Call /\ Fixed(d)
  BY DEF WalletInv, TypeOK, CallOK
<1>2. \A d \in holds : nonce'[d] = nonce[d]
  BY <1>1, NoncesFixed
<1>3. Consecutive => Consecutive'
  BY <1>2 DEF Consecutive
<1> QED BY <1>3 DEF WalletInv, NoncesOK

\* The nonce taken last is given back, or the counter is not followed any more.
LEMMA NoncesReleased ==
  ASSUME WalletInv, NEW c \in holds, ReleaseNonce(c), nonce' = nonce
  PROVE  NoncesOK'
<1> SUFFICES ASSUME orderly' PROVE counter' # NoKey /\ Consecutive'
  BY DEF NoncesOK
<1>1. orderly /\ counter # NoKey /\ counter - 1 = nonce[c]
  BY DEF ReleaseNonce
<1>2. Consecutive
  BY <1>1 DEF WalletInv, NoncesOK
<1>3. counter \in Nat /\ nonce[c] \in 0..(counter - 1)
  BY <1>2 DEF Consecutive
<1>4. counter' = counter - 1 /\ counter' \in Nat /\ counter' = nonce[c]
  BY <1>1, <1>3 DEF ReleaseNonce
<1>5. holds' = holds \ {c}
  BY DEF ReleaseNonce
<1>6. {nonce[d] : d \in holds'} = {nonce[d] : d \in holds} \ {nonce[c]}
  BY <1>2, <1>5 DEF Consecutive
<1>7. {nonce[d] : d \in holds} = 0..(counter - 1)
  BY <1>2 DEF Consecutive
<1>8. (0..(counter - 1)) \ {nonce[c]} = 0..(counter' - 1)
  BY <1>3, <1>4
<1>9. {nonce'[d] : d \in holds'} = 0..(counter' - 1)
  BY <1>6, <1>7, <1>8
<1>10. \A x, y \in holds' : nonce'[x] = nonce'[y] => x = y
  BY <1>2, <1>5 DEF Consecutive
<1> QED BY <1>4, <1>9, <1>10, NoKeyType DEF Consecutive

\* The parts of the invariant after a step of one call.
LEMMA InvParts ==
  ASSUME WalletInv, NEW c \in Call, TypeOK', Elsewhere(c), KeepsNonce(c),
         CallOK(c)', WaiterOK(c)', MinedOK', NoncesOK'
  PROVE  WalletInv'
<1>1. \A d \in Call : CallOK(d)' /\ WaiterOK(d)'
  BY OthersOK
<1> QED BY <1>1 DEF WalletInv

\* A step of a call that has its nonce, or needs none, and mines nothing.
LEMMA OwnStep ==
  ASSUME WalletInv, NEW c \in Call, TypeOK', Elsewhere(c),
         UNCHANGED <<kind, target, nonce, mined>>,
         Fixed(c), pc'[c] \notin {"none", "looked"},
         kind[c] = "create" => pc'[c] \in {"waiting", "done"},
         kind[c] = "send" /\ pc'[c] \in {"built", "drafted", "waiting", "signed"}
           => c \in holds',
         WaiterOK(c)', NoncesOK'
  PROVE  WalletInv'
<1>1. KeepsNonce(c)
  BY DEF KeepsNonce
<1> QED BY <1>1, OwnOK, MinedSame, InvParts

\* The nonces when a call gives up, or goes on.
LEMMA GiveUpNonces ==
  ASSUME WalletInv, NEW c \in Call, Elsewhere(c),
         pc[c] \in {"built", "drafted", "waiting", "signed"}, GiveUp(c) \/ Leave(c),
         orderly /\ counter = NoKey => Untouched'
  PROVE  NoncesOK'
<1>0. KeepsNonce(c)
  BY DEF KeepsNonce, GiveUp, Leave, Goto, WalletInv, TypeOK
<1>1. CASE GiveUp(c) /\ kind[c] = "send"
  <2>1. c \in holds
    BY <1>1 DEF WalletInv, CallOK
  <2> QED BY <1>1, <2>1, NoncesReleased DEF GiveUp
<1>2. CASE GiveUp(c) /\ kind[c] # "send"
  BY <1>0, <1>2, NoncesKept DEF GiveUp
<1>3. CASE Leave(c)
  BY <1>0, <1>3, NoncesKept DEF Leave
<1> QED BY <1>1, <1>2, <1>3

\* A step of a wallet being created leaves no trace in the nonces.
LEMMA UntouchedKept ==
  ASSUME WalletInv, orderly, counter = NoKey, NEW c \in Call, kind[c] = "create",
         Elsewhere(c), UNCHANGED <<kind, holds, pool, mined, seed>>,
         status'[c] \in {"none", "wallet"}, \A d \in Call : d # c => status'[d] = status[d]
  PROVE  Untouched'
<1>1. Untouched
  BY DEF WalletInv, NoncesOK
<1>2. \A d \in Call : Replacement(d)' <=> Replacement(d)
  BY DEF Replacement
<1>3. \A d \in Call : kind'[d] = "send" => pc'[d] = pc[d]
  BY DEF Elsewhere
<1> QED BY <1>1, <1>2, <1>3 DEF Untouched

-----------------------------------------------------------------------------
(* The calls begin.                                                        *)

LEMMA NextNonceStep ==
  ASSUME WalletInv, NEW c \in Call, nextNonce(c) PROVE WalletInv'
<1> USE DEF callVars, nonceVars, rowVars, mpcVars, chainVars, Goto
<1>0. TypeOK /\ CallTypes /\ NonceTypes /\ RestTypes /\ CallOK(c) /\ WaiterOK(c)
  BY TypeParts DEF WalletInv
<1>1. pc[c] = "none" /\ ~Fixed(c)
  BY <1>0 DEF nextNonce, CallOK, Fixed
<1>2. TypeOK'
  <2>1. CallTypes'
    BY <1>0 DEF CallTypes, nextNonce, Kinds, Steps
  <2>2. seed' \in [Call -> Int]
    BY <1>0, PendingNonceType, NoKeyType DEF NonceTypes, nextNonce
  <2>3. NonceTypes' /\ RestTypes'
    BY <1>0, <2>2 DEF NonceTypes, RestTypes, nextNonce
  <2> QED BY <2>1, <2>3, TypeParts
<1>3. Elsewhere(c) /\ KeepsNonce(c)
  BY <1>0, <1>1 DEF Elsewhere, KeepsNonce, nextNonce, CallTypes
<1>4. kind'[c] = "send" /\ pc'[c] = "looked"
  BY <1>0 DEF nextNonce, CallTypes
<1>5. CallOK(c)'
  <2>1. status'[c] = "none" /\ c \notin holds' \cup pool' \cup mined'
    BY <1>0, <1>1 DEF CallOK, nextNonce
  <2> QED BY <1>4, <2>1 DEF CallOK, Replacement
<1>6. WaiterOK(c)'
  BY <1>0, <1>1 DEF WaiterOK, nextNonce
<1>7. MinedOK'
  BY <1>3, MinedSame DEF nextNonce
<1>8. ASSUME orderly, counter = NoKey PROVE Untouched'
  <2>1. Untouched
    BY <1>8, UntouchedIdle
  <2>2. PendingNonceAt = 0
    BY <1>0, <2>1, PendingNonceType, FS_EmptySet DEF Untouched, ChainNonce
  <2>3. seed' = [seed EXCEPT ![c] = 0]
    BY <1>8, <2>2 DEF nextNonce
  <2>4. \A d \in Call : ~Replacement(d)'
    BY <1>3, <1>4, <2>1 DEF Untouched, Replacement, Elsewhere
  <2>5. \A d \in Call : kind'[d] = "send" => pc'[d] \in {"looked", "done"}
    BY <1>3, <1>4, <2>1 DEF Untouched, Elsewhere
  <2>6. \A d \in Call : seed'[d] \in {NoKey, 0}
    BY <1>0, <2>1, <2>3 DEF Untouched, NonceTypes
  <2> QED BY <2>1, <2>4, <2>5, <2>6 DEF Untouched, nextNonce
<1>9. NoncesOK'
  BY <1>3, <1>8, NoncesKept DEF nextNonce
<1> QED BY <1>2, <1>3, <1>5, <1>6, <1>7, <1>9, InvParts

LEMMA CreateWalletStep ==
  ASSUME WalletInv, NEW c \in Call, CreateWallet(c) PROVE WalletInv'
<1> USE DEF callVars, nonceVars, rowVars, mpcVars, chainVars, Goto
<1>0. TypeOK /\ CallTypes /\ NonceTypes /\ RestTypes /\ CallOK(c) /\ WaiterOK(c)
  BY TypeParts DEF WalletInv
<1>1. pc[c] = "none" /\ ~Fixed(c) /\ c \notin waiting /\ channel[c] = "none"
  BY <1>0 DEF CreateWallet, CallOK, WaiterOK, Fixed
<1>2. TypeOK'
  <2>1. CallTypes' /\ NonceTypes'
    BY <1>0 DEF CallTypes, NonceTypes, CreateWallet, Kinds, Steps
  <2>2. RestTypes'
    BY <1>0, FaultType DEF RestTypes, CreateWallet, Register, PublishFails
  <2> QED BY <2>1, <2>2, TypeParts
<1>3. Elsewhere(c) /\ KeepsNonce(c)
  BY <1>0, <1>1 DEF Elsewhere, KeepsNonce, CreateWallet, Register, PublishFails, CallTypes
<1>4. kind'[c] = "create" /\ pc'[c] \in {"waiting", "done"}
  BY <1>0 DEF CreateWallet, CallTypes
<1>5. CallOK(c)'
  <2>1. Fixed(c)' /\ ~Replacement(c)'
    BY <1>4 DEF Fixed, Replacement
  <2> QED BY <1>4, <2>1 DEF CallOK
<1>6. WaiterOK(c)'
  BY <1>1, <1>4 DEF WaiterOK, CreateWallet, Register, PublishFails
<1>7. MinedOK'
  BY <1>3, MinedSame DEF CreateWallet
<1>8. ASSUME orderly, counter = NoKey PROVE Untouched'
  <2>1. Untouched
    BY <1>8, UntouchedIdle
  <2>2. \A d \in Call : ~Replacement(d)'
    BY <1>3, <1>4, <2>1 DEF Untouched, Replacement, Elsewhere
  <2>3. \A d \in Call : kind'[d] = "send" => pc'[d] \in {"looked", "done"}
    BY <1>3, <1>4, <2>1 DEF Untouched, Elsewhere
  <2> QED BY <2>1, <2>2, <2>3 DEF Untouched, CreateWallet
<1>9. NoncesOK'
  BY <1>3, <1>8, NoncesKept DEF CreateWallet
<1> QED BY <1>2, <1>3, <1>5, <1>6, <1>7, <1>9, InvParts

\* SETNX and INCR: whoever looked before, the nonce is the next one.
LEMMA BuildStep ==
  ASSUME WalletInv, NEW c \in Call, BuildERC20Transfer(c) PROVE WalletInv'
<1> USE DEF callVars, nonceVars, rowVars, mpcVars, chainVars, Goto
<1>0. TypeOK /\ CallTypes /\ NonceTypes /\ RestTypes /\ CallOK(c) /\ WaiterOK(c)
  BY TypeParts DEF WalletInv
<1>1. /\ pc[c] = "looked" /\ ~Fixed(c) /\ kind[c] = "send" /\ status[c] = "none"
      /\ c \notin holds \cup pool \cup mined
  BY <1>0 DEF BuildERC20Transfer, CallOK, Fixed
<1>2. Seeded(c) \in Int
  BY <1>0, SeededType
<1>3. UNCHANGED <<kind, target, seed, status, hashed, waiting, channel, asked, pool, mined>>
  BY DEF BuildERC20Transfer
<1>4. TypeOK'
  <2>1. CallTypes' /\ RestTypes'
    BY <1>0, <1>3, FaultType DEF CallTypes, RestTypes, BuildERC20Transfer, Steps
  <2>2. counter' \in Int /\ nonce' \in [Call -> Nat \cup {NoKey}] /\ holds' \subseteq Call
    BY <1>0, <1>2, <1>3 DEF NonceTypes, BuildERC20Transfer
  <2>3. orderly' \in BOOLEAN
    BY <1>0, Zenon DEF NonceTypes, BuildERC20Transfer
  <2>4. NonceTypes'
    BY <1>0, <1>3, <2>2, <2>3 DEF NonceTypes
  <2> QED BY <2>1, <2>4, TypeParts
<1>5. Elsewhere(c) /\ KeepsNonce(c)
  BY <1>0, <1>1, <1>3 DEF Elsewhere, KeepsNonce, BuildERC20Transfer, CallTypes, NonceTypes
<1>6. pc'[c] \in {"built", "done"} /\ (pc'[c] = "built" => c \in holds')
  BY <1>0 DEF BuildERC20Transfer, CallTypes
<1>7. CallOK(c)'
  <2>1. Fixed(c)' /\ ~Replacement(c)' /\ kind'[c] = "send"
    BY <1>1, <1>3, <1>6 DEF Fixed, Replacement
  <2> QED BY <1>6, <2>1 DEF CallOK
<1>8. WaiterOK(c)'
  BY <1>0, <1>1, <1>3 DEF WaiterOK
<1>9. MinedOK'
  BY <1>3, <1>5, MinedSame
<1>10. NoncesOK'
  <2> SUFFICES ASSUME orderly' PROVE counter' # NoKey /\ Consecutive'
    BY DEF NoncesOK
  <2>1. /\ orderly /\ Seeded(c) >= 0 /\ counter' = Seeded(c) + 1
        /\ nonce' = [nonce EXCEPT ![c] = Seeded(c)] /\ holds' = holds \cup {c}
    BY DEF BuildERC20Transfer
  <2>2. /\ Seeded(c) \in Nat
        /\ {nonce[d] : d \in holds} = 0..(Seeded(c) - 1)
        /\ \A x, y \in holds : nonce[x] = nonce[y] => x = y
    <3>1. CASE counter = NoKey
      <4>1. Untouched
        BY <2>1, <3>1, UntouchedIdle
      <4>2. Seeded(c) = 0 /\ holds = {}
        BY <3>1, <4>1 DEF Untouched, Seeded
      <4> QED BY <4>2
    <3>2. CASE counter # NoKey
      <4>1. Consecutive /\ Seeded(c) = counter
        BY <2>1, <3>2 DEF WalletInv, NoncesOK, Seeded
      <4> QED BY <4>1 DEF Consecutive
    <3> QED BY <3>1, <3>2
  <2>3. /\ nonce'[c] = Seeded(c)
        /\ \A d \in holds : nonce'[d] = nonce[d] /\ nonce'[d] # Seeded(c)
    <3>1. \A d \in holds : d \in Call /\ d # c
      BY <1>0, <1>1 DEF NonceTypes
    <3>2. \A d \in holds : nonce[d] \in 0..(Seeded(c) - 1)
      BY <2>2
    <3> QED BY <1>0, <2>1, <2>2, <3>1, <3>2 DEF NonceTypes
  <2>4. {nonce'[d] : d \in holds'} = {nonce[d] : d \in holds} \cup {Seeded(c)}
    BY <2>1, <2>3
  <2>5. (0..(Seeded(c) - 1)) \cup {Seeded(c)} = 0..(counter' - 1)
    BY <2>1, <2>2
  <2>6. {nonce'[d] : d \in holds'} = 0..(counter' - 1)
    BY <2>2, <2>4, <2>5
  <2>7. \A x, y \in holds' : nonce'[x] = nonce'[y] => x = y
    BY <2>1, <2>2, <2>3
  <2>8. counter' \in Nat
    BY <2>1, <2>2
  <2> QED BY <2>6, <2>7, <2>8, NoKeyType DEF Consecutive
<1> QED BY <1>4, <1>5, <1>7, <1>8, <1>9, <1>10, InvParts

\* The nonce of a replacement is that of a call that cannot change it.
LEMMA ReplaceStep ==
  ASSUME WalletInv, NEW c \in Call, NEW o \in Call, NEW k \in {"cancel", "speedup"},
         Replace(c, o, k)
  PROVE  WalletInv'
<1> USE DEF callVars, nonceVars, rowVars, mpcVars, chainVars, Goto
<1>0. TypeOK /\ CallTypes /\ NonceTypes /\ RestTypes /\ CallOK(c) /\ CallOK(o) /\ WaiterOK(c)
  BY TypeParts DEF WalletInv
<1>1. /\ pc[c] = "none" /\ ~Fixed(c) /\ status[c] = "none" /\ c # o /\ Fixed(o)
      /\ c \notin holds \cup pool \cup mined /\ status[o] \in {"broadcast", "signed"}
  BY <1>0 DEF Replace, CallOK, Fixed
<1>2. UNCHANGED <<faults, seed, counter, holds, orderly, status, hashed, waiting, channel,
                  asked, pool, mined>>
  BY DEF Replace
<1>3. TypeOK'
  <2>1. CallTypes' /\ RestTypes'
    BY <1>0, <1>2 DEF CallTypes, RestTypes, Replace, Kinds, Steps
  <2>2. NonceTypes'
    BY <1>0, <1>2 DEF NonceTypes, Replace
  <2> QED BY <2>1, <2>2, TypeParts
<1>4. Elsewhere(c) /\ KeepsNonce(c)
  BY <1>0, <1>1, <1>2 DEF Elsewhere, KeepsNonce, Replace, CallTypes, NonceTypes
<1>5. /\ kind'[c] = k /\ target'[c] = o /\ pc'[c] = "built"
      /\ nonce'[c] = nonce[o]
  BY <1>0 DEF Replace, CallTypes, NonceTypes
<1>6. CallOK(c)'
  <2>1. Fixed(c)' /\ Fixed(o)' /\ nonce'[o] = nonce[o]
    BY <1>1, <1>4, <1>5, NoncesFixed DEF Fixed
  <2>2. Fixed(target[c])' /\ target'[c] # c /\ nonce'[c] = nonce'[target'[c]]
    BY <1>1, <1>5, <2>1 DEF Fixed
  <2> QED BY <1>5, <2>1, <2>2 DEF CallOK
<1>7. WaiterOK(c)'
  BY <1>0, <1>1, <1>2 DEF WaiterOK
<1>8. MinedOK'
  BY <1>2, <1>4, MinedSame
<1>9. ~(orderly /\ counter = NoKey)
  BY <1>1, UntouchedIdle DEF Untouched
<1>10. NoncesOK'
  BY <1>2, <1>4, <1>9, NoncesKept
<1> QED BY <1>3, <1>4, <1>6, <1>7, <1>8, <1>10, InvParts

-----------------------------------------------------------------------------
(* From the draft to the signature.                                        *)

\* What giving up or leaving does to the other calls: nothing.
LEMMA GiveUpElsewhere ==
  ASSUME WalletInv, NEW c \in Call, GiveUp(c) \/ Leave(c),
         UNCHANGED <<kind, target, mined>>, pool' \subseteq pool \cup {c},
         \A d \in Call : d # c => /\ status'[d] = status[d] /\ channel'[d] = channel[d]
                                  /\ (d \in waiting' => d \in waiting)
  PROVE  Elsewhere(c) /\ UNCHANGED nonce /\ pc'[c] = "done"
<1>1. pc \in [Call -> Steps]
  BY TypeParts DEF WalletInv, CallTypes
<1>2. \A d \in Call : d # c => pc'[d] = pc[d]
  BY <1>1 DEF GiveUp, Leave, Goto
<1>3. \A d \in Call : d # c => (d \in holds' <=> d \in holds)
  BY DEF GiveUp, Leave, ReleaseNonce
<1>4. UNCHANGED nonce /\ pc'[c] = "done"
  BY <1>1 DEF GiveUp, Leave, Goto
<1> QED BY <1>2, <1>3, <1>4 DEF Elsewhere

LEMMA insertDraftStep ==
  ASSUME WalletInv, NEW c \in Call, insertDraft(c) PROVE WalletInv'
<1> USE DEF callVars, nonceVars, rowVars, mpcVars, chainVars, updateStatus
<1>0. TypeOK /\ CallTypes /\ NonceTypes /\ RestTypes /\ CallOK(c) /\ WaiterOK(c)
  BY TypeParts DEF WalletInv
<1>1. /\ pc[c] = "built" /\ Fixed(c) /\ kind[c] # "create"
      /\ c \notin waiting /\ channel[c] = "none"
      /\ UNCHANGED <<kind, target, hashed, waiting, channel, asked, pool, mined>>
  BY <1>0 DEF insertDraft, Fixed, CallOK, WaiterOK
<1>2. ~(orderly /\ counter = NoKey)
  BY <1>1, UntouchedIdle
<1>3. RestTypes'
  BY <1>0, <1>1, FaultType DEF RestTypes, insertDraft, Statuses
<1>4. WaiterOK(c)'
  BY <1>1 DEF WaiterOK
<1>5. CASE Goto(c, "drafted") /\ UNCHANGED nonceVars
  <2>1. CallTypes' /\ NonceTypes'
    BY <1>0, <1>1, <1>5 DEF CallTypes, NonceTypes, Goto, Steps
  <2>2. Elsewhere(c) /\ pc'[c] = "drafted" /\ KeepsNonce(c)
    BY <1>0, <1>1, <1>5 DEF Elsewhere, KeepsNonce, insertDraft, Goto, CallTypes, RestTypes
  <2>3. kind[c] = "send" => c \in holds'
    BY <1>0, <1>1, <1>5 DEF CallOK
  <2>4. NoncesOK'
    BY <1>2, <1>5, <2>2, NoncesKept
  <2> QED BY <1>1, <1>3, <1>4, <1>5, <2>1, <2>2, <2>3, <2>4, TypeParts, OwnStep
<1>6. CASE GiveUp(c) \/ Leave(c)
  <2>1. CallTypes' /\ NonceTypes'
    BY <1>0, <1>1, <1>6, GiveUpType DEF CallTypes
  <2>2. Elsewhere(c) /\ UNCHANGED nonce /\ pc'[c] = "done"
    <3>1. \A d \in Call : d # c => status'[d] = status[d]
      BY <1>0 DEF insertDraft, RestTypes
    <3> QED BY <1>1, <1>6, <3>1, GiveUpElsewhere
  <2>3. NoncesOK'
    BY <1>1, <1>2, <1>6, <2>2, GiveUpNonces
  <2> QED BY <1>1, <1>3, <1>4, <2>1, <2>2, <2>3, TypeParts, OwnStep
<1> QED BY <1>5, <1>6 DEF insertDraft

LEMMA SignTransactionStep ==
  ASSUME WalletInv, NEW c \in Call, SignTransaction(c) PROVE WalletInv'
<1> USE DEF callVars, nonceVars, rowVars, mpcVars, chainVars, updateStatus
<1>0. TypeOK /\ CallTypes /\ NonceTypes /\ RestTypes /\ CallOK(c) /\ WaiterOK(c)
  BY TypeParts DEF WalletInv
<1>1. /\ pc[c] = "drafted" /\ Fixed(c) /\ kind[c] # "create"
      /\ c \notin waiting /\ channel[c] = "none"
      /\ UNCHANGED <<kind, target, hashed, channel, pool, mined>>
  BY <1>0 DEF SignTransaction, Fixed, CallOK, WaiterOK, Register, PublishFails
<1>2. ~(orderly /\ counter = NoKey)
  BY <1>1, UntouchedIdle
<1>3. RestTypes'
  BY <1>0, <1>1, FaultType
  DEF RestTypes, SignTransaction, Register, PublishFails, Statuses
<1>4. \A d \in Call : d # c => status'[d] = status[d] /\ (d \in waiting' => d \in waiting)
  BY <1>0 DEF SignTransaction, Register, PublishFails, RestTypes
<1>5. CASE Register(c) /\ Goto(c, "waiting") /\ UNCHANGED nonceVars
  <2>1. CallTypes' /\ NonceTypes'
    BY <1>0, <1>1, <1>5 DEF CallTypes, NonceTypes, Goto, Steps
  <2>2. Elsewhere(c) /\ pc'[c] = "waiting" /\ KeepsNonce(c)
    BY <1>0, <1>1, <1>4, <1>5 DEF Elsewhere, KeepsNonce, Goto, CallTypes
  <2>3. kind[c] = "send" => c \in holds'
    BY <1>0, <1>1, <1>5 DEF CallOK
  <2>4. NoncesOK'
    BY <1>2, <1>5, <2>2, NoncesKept
  <2>5. WaiterOK(c)'
    BY <1>1, <2>2 DEF WaiterOK
  <2> QED BY <1>1, <1>3, <1>5, <2>1, <2>2, <2>3, <2>4, <2>5, TypeParts, OwnStep
<1>6. CASE PublishFails(c) /\ GiveUp(c)
  <2>1. CallTypes' /\ NonceTypes'
    BY <1>0, <1>1, <1>6, GiveUpType DEF CallTypes
  <2>2. Elsewhere(c) /\ UNCHANGED nonce /\ pc'[c] = "done"
    BY <1>1, <1>4, <1>6, GiveUpElsewhere
  <2>3. NoncesOK'
    BY <1>1, <1>2, <1>6, <2>2, GiveUpNonces
  <2>4. WaiterOK(c)'
    BY <1>1, <1>6, <2>2 DEF WaiterOK, PublishFails
  <2> QED BY <1>1, <1>3, <2>1, <2>2, <2>3, <2>4, TypeParts, OwnStep
<1> QED BY <1>5, <1>6 DEF SignTransaction

LEMMA HandleResultStep ==
  ASSUME WalletInv, NEW c \in Call, handleSignResult(c) PROVE WalletInv'
<1> USE DEF callVars, nonceVars, rowVars, mpcVars, chainVars
<1>0. TypeOK /\ CallTypes /\ NonceTypes /\ RestTypes /\ WaiterOK(c) /\ CallOK(c)
  BY TypeParts DEF WalletInv
<1>1. UNCHANGED <<pc, faults, kind, target, seed, nonce, counter, holds, orderly, status,
                  hashed, asked, pool, mined>>
  BY DEF handleSignResult
<1>2. channel' \in [Call -> {"none", "success", "error"}] /\ waiting' = waiting \ {c}
  BY <1>0 DEF handleSignResult, RestTypes
<1>3. TypeOK'
  BY <1>0, <1>1, <1>2, TypeParts DEF CallTypes, NonceTypes, RestTypes
<1>4. Elsewhere(c) /\ KeepsNonce(c)
  BY <1>0, <1>1 DEF Elsewhere, KeepsNonce, handleSignResult, RestTypes, Fixed
<1>5. WaiterOK(c)'
  BY <1>0, <1>1, <1>2 DEF WaiterOK, handleSignResult
<1>6. CallOK(c)'
  BY <1>0, <1>1 DEF CallOK, Fixed, Replacement
<1>7. MinedOK' /\ NoncesOK'
  BY <1>1 DEF WalletInv, MinedOK, ChainNonce, NoncesOK, Untouched, Consecutive, Replacement
<1> QED BY <1>3, <1>4, <1>5, <1>6, <1>7, InvParts

LEMMA PersistWalletStep ==
  ASSUME WalletInv, NEW c \in Call, persistWallet(c) PROVE WalletInv'
<1> USE DEF callVars, nonceVars, rowVars, mpcVars, chainVars, Goto, updateStatus
<1>0. TypeOK /\ CallTypes /\ NonceTypes /\ RestTypes /\ WaiterOK(c)
  BY TypeParts DEF WalletInv
<1>1. /\ kind[c] = "create" /\ pc[c] = "waiting" /\ Fixed(c) /\ c \notin waiting
      /\ UNCHANGED <<kind, target, seed, nonce, counter, holds, orderly, hashed, waiting,
                     asked, pool, mined>>
  BY <1>0 DEF persistWallet, Fixed, WaiterOK
<1>2. TypeOK'
  <2>1. CallTypes' /\ NonceTypes'
    BY <1>0, <1>1 DEF CallTypes, NonceTypes, persistWallet, Steps
  <2>2. RestTypes'
    BY <1>0, <1>1, FaultType DEF RestTypes, persistWallet, Statuses
  <2> QED BY <2>1, <2>2, TypeParts
<1>3. /\ Elsewhere(c) /\ pc'[c] = "done"
      /\ \A d \in Call : d # c => status'[d] = status[d]
  BY <1>0, <1>1 DEF Elsewhere, persistWallet, CallTypes, RestTypes
<1>4. KeepsNonce(c)
  BY <1>1, <1>3 DEF KeepsNonce
<1>5. WaiterOK(c)'
  BY <1>1, <1>3 DEF WaiterOK
<1>6. ASSUME orderly, counter = NoKey PROVE Untouched'
  <2>1. status[c] \in {"none", "wallet"}
    BY <1>6, UntouchedIdle DEF Untouched
  <2>2. status'[c] \in {"none", "wallet"}
    BY <1>0, <2>1 DEF persistWallet, RestTypes
  <2> QED BY <1>1, <1>3, <1>6, <2>2, UntouchedKept
<1>7. NoncesOK'
  BY <1>1, <1>3, <1>4, <1>6, NoncesKept
<1> QED BY <1>1, <1>2, <1>3, <1>5, <1>7, OwnStep

LEMMA ReceiveResultStep ==
  ASSUME WalletInv, NEW c \in Call, ReceiveResult(c) PROVE WalletInv'
<1> USE DEF callVars, nonceVars, rowVars, mpcVars, chainVars, updateStatus
<1>0. TypeOK /\ CallTypes /\ NonceTypes /\ RestTypes /\ CallOK(c) /\ WaiterOK(c)
  BY TypeParts DEF WalletInv
<1>1. /\ pc[c] = "waiting" /\ Fixed(c) /\ kind[c] # "create" /\ c \notin waiting
      /\ UNCHANGED <<kind, target, hashed, waiting, asked, pool, mined>>
      /\ channel' = [channel EXCEPT ![c] = "none"]
  BY <1>0 DEF ReceiveResult, Fixed, WaiterOK
<1>2. ~(orderly /\ counter = NoKey)
  BY <1>1, UntouchedIdle
<1>3. /\ status' \in [Call -> Statuses] /\ faults' \in 0..MaxFaults
      /\ \A d \in Call : d # c => status'[d] = status[d]
  BY <1>0, FaultType DEF RestTypes, ReceiveResult, AssembleFails, Statuses
<1>4. /\ RestTypes' /\ channel'[c] = "none"
      /\ \A d \in Call : d # c => channel'[d] = channel[d]
  BY <1>0, <1>1, <1>3 DEF RestTypes
<1>5. WaiterOK(c)'
  BY <1>1, <1>4 DEF WaiterOK
<1>6. CASE Goto(c, "signed") /\ UNCHANGED nonceVars
  <2>1. CallTypes' /\ NonceTypes'
    BY <1>0, <1>1, <1>6 DEF CallTypes, NonceTypes, Goto, Steps
  <2>2. Elsewhere(c) /\ pc'[c] = "signed" /\ KeepsNonce(c)
    BY <1>0, <1>1, <1>3, <1>4, <1>6 DEF Elsewhere, KeepsNonce, Goto, CallTypes
  <2>3. kind[c] = "send" => c \in holds'
    BY <1>0, <1>1, <1>6 DEF CallOK
  <2>4. NoncesOK'
    BY <1>2, <1>6, <2>2, NoncesKept
  <2> QED BY <1>1, <1>4, <1>5, <1>6, <2>1, <2>2, <2>3, <2>4, TypeParts, OwnStep
<1>7. CASE GiveUp(c) \/ Leave(c)
  <2>1. CallTypes' /\ NonceTypes'
    BY <1>0, <1>1, <1>7, GiveUpType DEF CallTypes
  <2>2. Elsewhere(c) /\ UNCHANGED nonce /\ pc'[c] = "done"
    BY <1>1, <1>3, <1>4, <1>7, GiveUpElsewhere
  <2>3. NoncesOK'
    BY <1>1, <1>2, <1>7, <2>2, GiveUpNonces
  <2> QED BY <1>1, <1>4, <1>5, <2>1, <2>2, <2>3, TypeParts, OwnStep
<1> QED BY <1>6, <1>7 DEF ReceiveResult, AssembleFails

\* The waiter of a call that has timed out or lost its client stays behind; a
\* late result finds room in its channel.
LEMMA TimeoutStep ==
  ASSUME WalletInv, NEW c \in Call, Timeout(c) \/ Disconnect(c) PROVE WalletInv'
<1> USE DEF callVars, nonceVars, rowVars, mpcVars, chainVars, updateStatus
<1>0. TypeOK /\ CallTypes /\ NonceTypes /\ RestTypes /\ CallOK(c) /\ WaiterOK(c)
  BY TypeParts DEF WalletInv
<1>1. /\ pc[c] = "waiting" /\ Fixed(c)
      /\ UNCHANGED <<kind, target, hashed, waiting, asked, channel, pool, mined>>
  BY DEF Timeout, Disconnect, Fixed
<1>2. /\ RestTypes' /\ \A d \in Call : d # c => status'[d] = status[d]
      /\ kind[c] = "create" => status'[c] = status[c]
  BY <1>0, <1>1, FaultType DEF RestTypes, Timeout, Disconnect, Statuses
<1>3. ASSUME orderly, counter = NoKey, Elsewhere(c), UNCHANGED <<holds, seed>>
      PROVE  Untouched'
  <2>1. kind[c] = "create" /\ status[c] \in {"none", "wallet"}
    BY <1>1, <1>3, UntouchedIdle DEF Untouched
  <2> QED BY <1>1, <1>2, <1>3, <2>1, UntouchedKept
<1>4. CASE GiveUp(c) \/ Leave(c)
  <2>1. CallTypes' /\ NonceTypes'
    BY <1>0, <1>1, <1>4, GiveUpType DEF CallTypes
  <2>2. Elsewhere(c) /\ UNCHANGED nonce /\ pc'[c] = "done"
    BY <1>1, <1>2, <1>4, GiveUpElsewhere
  <2>3. ASSUME orderly, counter = NoKey PROVE Untouched'
    <3>1. kind[c] = "create"
      BY <1>1, <2>3, UntouchedIdle
    <3>2. UNCHANGED <<holds, seed>>
      BY <1>4, <3>1 DEF GiveUp, Leave
    <3> QED BY <1>3, <2>2, <2>3, <3>2
  <2>4. NoncesOK'
    BY <1>1, <1>4, <2>2, <2>3, GiveUpNonces
  <2>5. WaiterOK(c)'
    BY <1>0, <1>1, <2>2 DEF WaiterOK
  <2> QED BY <1>1, <1>2, <2>1, <2>2, <2>4, <2>5, TypeParts, OwnStep
<1>5. CASE kind[c] # "send" /\ Goto(c, "done") /\ UNCHANGED <<status, nonceVars>>
  <2>1. CallTypes' /\ NonceTypes'
    BY <1>0, <1>1, <1>5 DEF CallTypes, NonceTypes, Goto, Steps
  <2>2. Elsewhere(c) /\ pc'[c] = "done" /\ KeepsNonce(c)
    BY <1>0, <1>1, <1>5 DEF Elsewhere, KeepsNonce, Goto, CallTypes
  <2>3. NoncesOK'
    BY <1>3, <1>5, <2>2, NoncesKept
  <2>4. WaiterOK(c)'
    BY <1>0, <1>1, <2>2 DEF WaiterOK
  <2> QED BY <1>1, <1>2, <1>5, <2>1, <2>2, <2>3, <2>4, TypeParts, OwnStep
<1> QED BY <1>4, <1>5 DEF Timeout, Disconnect

-----------------------------------------------------------------------------
(* Broadcast, confirmation, expiry and crash.                              *)

LEMMA BroadcastStep ==
  ASSUME WalletInv, NEW c \in Call, BroadcastTx(c) \/ BroadcastFails(c) PROVE WalletInv'
<1> USE DEF callVars, nonceVars, rowVars, mpcVars, chainVars, updateStatus
<1>0. TypeOK /\ CallTypes /\ NonceTypes /\ RestTypes /\ CallOK(c) /\ WaiterOK(c)
  BY TypeParts DEF WalletInv
<1>1. /\ pc[c] = "signed" /\ Fixed(c) /\ kind[c] # "create"
      /\ c \notin waiting /\ channel[c] = "none"
      /\ UNCHANGED <<kind, target, hashed, waiting, asked, channel, mined>>
  BY <1>0 DEF BroadcastTx, BroadcastFails, Fixed, CallOK, WaiterOK
<1>2. pool' \subseteq pool \cup {c}
  BY DEF BroadcastTx, BroadcastFails
<1>3. ~(orderly /\ counter = NoKey)
  BY <1>1, UntouchedIdle
<1>4. RestTypes' /\ \A d \in Call : d # c => status'[d] = status[d]
  BY <1>0, <1>1, <1>2, FaultType DEF RestTypes, BroadcastTx, BroadcastFails, Statuses
<1>5. WaiterOK(c)'
  BY <1>1 DEF WaiterOK
<1>6. CASE BroadcastTx(c)
  <2>1. CallTypes' /\ NonceTypes'
    BY <1>0, <1>1, <1>6 DEF CallTypes, NonceTypes, BroadcastTx, Goto, Steps
  <2>2. Elsewhere(c) /\ pc'[c] = "sent" /\ KeepsNonce(c)
    BY <1>0, <1>1, <1>2, <1>6 DEF Elsewhere, KeepsNonce, BroadcastTx, Goto, CallTypes
  <2>3. NoncesOK'
    BY <1>3, <1>6, <2>2, NoncesKept DEF BroadcastTx
  <2> QED BY <1>1, <1>4, <1>5, <1>6, <2>1, <2>2, <2>3, TypeParts, OwnStep DEF BroadcastTx
<1>7. CASE BroadcastFails(c)
  <2>1. CallTypes' /\ NonceTypes'
    BY <1>0, <1>1, <1>7, GiveUpType DEF CallTypes, BroadcastFails
  <2>2. Elsewhere(c) /\ UNCHANGED nonce /\ pc'[c] = "done"
    BY <1>1, <1>2, <1>4, <1>7, GiveUpElsewhere DEF BroadcastFails
  <2>3. NoncesOK'
    BY <1>1, <1>3, <1>7, <2>2, GiveUpNonces DEF BroadcastFails
  <2> QED BY <1>1, <1>4, <1>5, <2>1, <2>2, <2>3, TypeParts, OwnStep
<1> QED BY <1>6, <1>7

LEMMA FinishSendStep ==
  ASSUME WalletInv, NEW c \in Call, saveTxHash(c) \/ FinishSend(c) PROVE WalletInv'
<1> USE DEF callVars, nonceVars, rowVars, mpcVars, chainVars, Goto
<1>0. TypeOK /\ CallTypes /\ NonceTypes /\ RestTypes /\ CallOK(c) /\ WaiterOK(c)
  BY TypeParts DEF WalletInv
<1>1. /\ pc[c] \in {"sent", "hashed"} /\ Fixed(c) /\ kind[c] # "create"
      /\ c \notin waiting /\ channel[c] = "none"
      /\ UNCHANGED <<faults, kind, target, seed, nonce, counter, holds, orderly, waiting,
                     asked, channel, pool, mined>>
  BY <1>0 DEF saveTxHash, FinishSend, Fixed, CallOK, WaiterOK
<1>2. CallTypes' /\ pc'[c] \in {"hashed", "done"} /\ \A d \in Call : d # c => pc'[d] = pc[d]
  BY <1>0, <1>1 DEF saveTxHash, FinishSend, CallTypes, Steps
<1>3. RestTypes' /\ \A d \in Call : d # c => status'[d] = status[d] \/ Fixed(d)
  <2>1. CASE saveTxHash(c)
    BY <1>0, <1>1, <2>1 DEF saveTxHash, RestTypes
  <2>2. CASE FinishSend(c)
    <3>1. status' \in [Call -> Statuses]
      BY <1>0, <2>2 DEF FinishSend, RestTypes, Statuses
    <3>2. \A d \in Call : d # c =>
            status'[d] = status[d] \/ (kind[c] = "cancel" /\ d = target[c])
      BY <2>2 DEF FinishSend
    <3>3. kind[c] = "cancel" => Fixed(target[c])
      BY <1>0 DEF CallOK, Replacement
    <3> QED BY <1>0, <1>1, <2>2, <3>1, <3>2, <3>3 DEF FinishSend, RestTypes
  <2> QED BY <2>1, <2>2
<1>4. NonceTypes'
  BY <1>0, <1>1 DEF NonceTypes
<1>5. Elsewhere(c) /\ KeepsNonce(c)
  BY <1>1, <1>2, <1>3 DEF Elsewhere, KeepsNonce
<1>6. ~(orderly /\ counter = NoKey)
  BY <1>1, UntouchedIdle
<1>7. NoncesOK' /\ WaiterOK(c)'
  BY <1>1, <1>5, <1>6, NoncesKept DEF WaiterOK
<1> QED BY <1>1, <1>2, <1>3, <1>4, <1>5, <1>7, TypeParts, OwnStep

\* The nonce of what is mined is one more than those before.
LEMMA MineStep ==
  ASSUME WalletInv, NEW c \in Call, Mine(c) PROVE WalletInv'
<1> USE DEF callVars, nonceVars, rowVars, mpcVars, chainVars
<1>0. TypeOK /\ CallTypes /\ NonceTypes /\ RestTypes /\ CallOK(c) /\ WaiterOK(c) /\ MinedOK
  BY TypeParts DEF WalletInv
<1>1. UNCHANGED <<pc, faults, kind, target, seed, nonce, counter, holds, orderly, status,
                  hashed, waiting, channel, asked>>
  BY DEF Mine
<1>2. /\ c \in pool /\ nonce[c] = ChainNonce /\ mined' = mined \cup {c} /\ pool' \subseteq pool
  BY DEF Mine
<1>3. TypeOK'
  BY <1>0, <1>1, <1>2, TypeParts DEF CallTypes, NonceTypes, RestTypes
<1>4. Elsewhere(c) /\ KeepsNonce(c)
  BY <1>1, <1>2 DEF Elsewhere, KeepsNonce, Fixed
<1>5. CallOK(c)' /\ WaiterOK(c)'
  <2>1. Fixed(c)
    BY <1>0, <1>2 DEF CallOK
  <2> QED BY <1>0, <1>1, <2>1 DEF CallOK, WaiterOK, Fixed, Replacement
<1>6. IsFiniteSet(mined) /\ ChainNonce \in Nat
  BY <1>0, CallAssumption, FS_Subset, FS_CardinalityType DEF RestTypes, ChainNonce
<1>7. c \notin mined
  BY <1>0, <1>2, <1>6 DEF MinedOK
<1>8. ChainNonce' = ChainNonce + 1
  BY <1>2, <1>6, <1>7, FS_AddElement DEF ChainNonce
<1>9. MinedOK'
  <2>1. \A d \in mined : nonce[d] \in Int /\ nonce[d] < ChainNonce
    BY <1>0, NoKeyType DEF MinedOK, NonceTypes, RestTypes
  <2>2. \A d \in mined' : nonce'[d] < ChainNonce'
    BY <1>1, <1>2, <1>6, <1>8, <2>1
  <2>3. \A x, y \in mined' : nonce'[x] = nonce'[y] => x = y
    BY <1>0, <1>1, <1>2, <1>6, <2>1 DEF MinedOK
  <2> QED BY <2>2, <2>3 DEF MinedOK
<1>10. ~(orderly /\ counter = NoKey)
  BY <1>2, UntouchedIdle DEF Untouched
<1>11. NoncesOK'
  BY <1>1, <1>4, <1>10, NoncesKept
<1> QED BY <1>3, <1>4, <1>5, <1>9, <1>11, InvParts

LEMMA ActivityStep ==
  ASSUME WalletInv, NEW c \in Call, processActivity(c) PROVE WalletInv'
<1> USE DEF callVars, nonceVars, rowVars, mpcVars, chainVars, updateStatus
<1>0. TypeOK /\ CallTypes /\ NonceTypes /\ RestTypes /\ CallOK(c) /\ WaiterOK(c)
  BY TypeParts DEF WalletInv
<1>1. /\ c \in mined /\ Fixed(c)
      /\ UNCHANGED <<pc, faults, kind, target, seed, nonce, counter, holds, orderly,
                     hashed, waiting, channel, asked, pool, mined>>
  BY <1>0 DEF processActivity, CallOK
<1>2. status' \in [Call -> Statuses] /\ \A d \in Call : d # c => status'[d] = status[d]
  BY <1>0 DEF processActivity, RestTypes, Statuses
<1>3. TypeOK'
  BY <1>0, <1>1, <1>2, TypeParts DEF CallTypes, NonceTypes, RestTypes
<1>4. Elsewhere(c) /\ KeepsNonce(c)
  BY <1>1, <1>2 DEF Elsewhere, KeepsNonce, Fixed
<1>5. CallOK(c)' /\ WaiterOK(c)'
  BY <1>0, <1>1 DEF CallOK, WaiterOK, Fixed, Replacement
<1>6. ~(orderly /\ counter = NoKey)
  BY <1>1, UntouchedIdle DEF Untouched
<1>7. MinedOK' /\ NoncesOK'
  BY <1>1, <1>4, <1>6, MinedSame, NoncesKept
<1> QED BY <1>3, <1>4, <1>5, <1>7, InvParts

LEMMA KeyExpiresStep == ASSUME WalletInv, KeyExpires PROVE WalletInv'
<1> USE DEF callVars, nonceVars, rowVars, mpcVars, chainVars
<1>0. TypeOK /\ CallTypes /\ NonceTypes /\ RestTypes
  BY TypeParts DEF WalletInv
<1>1. /\ counter' = NoKey /\ orderly' = FALSE /\ faults' \in 0..MaxFaults
      /\ UNCHANGED <<pc, kind, target, seed, nonce, holds, status, hashed, waiting, channel,
                     asked, pool, mined>>
  BY <1>0, FaultType DEF KeyExpires
<1>2. TypeOK'
  BY <1>0, <1>1, TypeParts, NoKeyType DEF CallTypes, NonceTypes, RestTypes
<1>3. \A c \in Call : CallOK(c)' /\ WaiterOK(c)'
  BY <1>1 DEF WalletInv, CallOK, WaiterOK, Fixed, Replacement
<1>4. MinedOK' /\ NoncesOK'
  BY <1>1 DEF WalletInv, MinedOK, ChainNonce, NoncesOK
<1> QED BY <1>2, <1>3, <1>4 DEF WalletInv

LEMMA CrashStep == ASSUME WalletInv, Crash PROVE WalletInv'
<1> USE DEF callVars, nonceVars, rowVars, mpcVars, chainVars
<1>0. TypeOK /\ CallTypes /\ NonceTypes /\ RestTypes
  BY TypeParts DEF WalletInv
<1>1. /\ pc' = [c \in Call |-> IF kind[c] = "none" THEN "none" ELSE "done"]
      /\ waiting' = {} /\ channel' = [c \in Call |-> "none"]
      /\ UNCHANGED <<kind, target, seed, nonce, counter, holds, status, hashed, asked, pool,
                     mined>>
  BY DEF Crash
<1>2. orderly' \in BOOLEAN /\ (orderly' => orderly) /\ faults' \in 0..MaxFaults
  <2>1. orderly' \in BOOLEAN /\ (orderly' => orderly)
    BY <1>0, Zenon DEF Crash, NonceTypes
  <2> QED BY <1>0, <2>1, FaultType DEF Crash
<1>3. TypeOK'
  <2>1. CallTypes'
    BY <1>0, <1>1 DEF CallTypes, Steps
  <2>2. NonceTypes' /\ RestTypes'
    BY <1>0, <1>1, <1>2 DEF NonceTypes, RestTypes
  <2> QED BY <2>1, <2>2, TypeParts
<1>4. \A c \in Call : Fixed(c) => pc'[c] = "done"
  BY <1>1 DEF WalletInv, CallOK, Fixed
<1>5. ASSUME NEW c \in Call PROVE CallOK(c)' /\ WaiterOK(c)'
  <2>0. CallOK(c) /\ target[c] \in Call
    BY <1>0 DEF WalletInv, CallTypes
  <2>1. pc'[c] = IF kind[c] = "none" THEN "none" ELSE "done"
    BY <1>1
  <2>2. Fixed(c) => Fixed(c)'
    BY <1>4 DEF Fixed
  <2>3. Replacement(c) => Fixed(target[c])'
    BY <1>1, <1>4, <2>0 DEF CallOK, Fixed
  <2>4. Replacement(c)' <=> Replacement(c)
    BY <1>1 DEF Replacement
  <2>5. WaiterOK(c)'
    BY <1>1 DEF WaiterOK
  <2> QED BY <1>1, <2>0, <2>1, <2>2, <2>3, <2>4, <2>5 DEF CallOK
<1>6. MinedOK'
  BY <1>1 DEF WalletInv, MinedOK, ChainNonce
<1>7. NoncesOK'
  <2>1. Consecutive => Consecutive'
    BY <1>1 DEF Consecutive
  <2>2. ASSUME Untouched PROVE Untouched'
    <3>1. \A c \in Call : kind[c] = "send" => pc'[c] = "done"
      BY <1>1
    <3> QED BY <1>1, <2>2, <3>1 DEF Untouched, Replacement
  <2> QED BY <1>1, <1>2, <2>1, <2>2 DEF WalletInv, NoncesOK
<1> QED BY <1>3, <1>5, <1>6, <1>7 DEF WalletInv

LEMMA NextInv == WalletInv /\ [Next]_vars => WalletInv'
<1> SUFFICES ASSUME WalletInv, [Next]_vars PROVE WalletInv'
  OBVIOUS
<1>1. CASE UNCHANGED vars
  <2> USE <1>1 DEF vars, callVars, nonceVars, rowVars, mpcVars, chainVars
  <2>1. TypeOK'
    BY DEF WalletInv, TypeOK
  <2>2. \A c \in Call : CallOK(c)' /\ WaiterOK(c)'
    BY DEF WalletInv, CallOK, WaiterOK, Fixed, Replacement
  <2>3. MinedOK' /\ NoncesOK'
    BY DEF WalletInv, MinedOK, ChainNonce, NoncesOK, Untouched, Consecutive, Replacement
  <2> QED BY <2>1, <2>2, <2>3 DEF WalletInv
<1>2. ASSUME NEW c \in Call, Handle(c) PROVE WalletInv'
  BY <1>2, BuildStep, insertDraftStep, SignTransactionStep, PersistWalletStep,
     ReceiveResultStep, TimeoutStep, BroadcastStep, FinishSendStep DEF Handle
<1> QED
  BY <1>1, <1>2, NextNonceStep, CreateWalletStep, TimeoutStep, HandleResultStep, MineStep,
     ActivityStep, ReplaceStep, KeyExpiresStep, CrashStep DEF Next

LEMMA WalletInvHolds == Spec => []WalletInv
  BY InitInv, NextInv, PTL DEF Spec

-----------------------------------------------------------------------------
\* Every variable of the wallet API keeps its type, with any number of calls
\* and faults.
THEOREM WalletTypeCorrect == Spec => []TypeOK
<1>1. WalletInv => TypeOK
  BY DEF WalletInv
<1> QED BY <1>1, WalletInvHolds, PTL

\* Whatever the calls and the callbacks of mpc.Client do side by side, and
\* however often a result is delivered, the channel of a registered waiter is
\* empty: handleSignResult and handleKeygenResult never block the listener.
THEOREM ChannelAlwaysHasRoom == Spec => []ChannelHasRoom
<1>1. WalletInv => ChannelHasRoom
  BY DEF WalletInv, TypeOK, WaiterOK, ChannelHasRoom
<1> QED BY <1>1, WalletInvHolds, PTL

\* A transaction and one made by CancelTx or SpeedUpTx to replace it are never
\* both executed, for any number of replacements, replacements of replacements
\* and crashes: they keep the nonce they share, and the chain executes one
\* transaction for each.
THEOREM ReplacementsAreExclusive == Spec => []ReplacementIsExclusive
<1>1. ASSUME WalletInv PROVE ReplacementIsExclusive
  <2> SUFFICES ASSUME NEW c \in mined, Replacement(c), target[c] \in mined PROVE FALSE
    BY DEF ReplacementIsExclusive
  <2>1. CallOK(c) /\ MinedOK
    BY <1>1 DEF WalletInv, TypeOK
  <2> QED BY <2>1 DEF CallOK, MinedOK
<1> QED BY <1>1, WalletInvHolds, PTL

\* With any number of concurrent sends, SETNX and INCR give out the nonces in a
\* row and each of them once, as long as the counter can follow (nextNonce,
\* BuildERC20Transfer and ReleaseNonce of transaction.Service).
THEOREM NoncesAreConsecutive == Spec => []NoncesConsecutive
<1>1. ASSUME WalletInv PROVE NoncesConsecutive
  BY <1>1 DEF WalletInv, NoncesOK, Untouched, Consecutive, NoncesConsecutive
<1> QED BY <1>1, WalletInvHolds, PTL
=============================================================================
