----------------------------- MODULE WalletApi -----------------------------
(***************************************************************************)
(* The calls of the wallet API (wallet-api/pkg) for ONE wallet address:    *)
(* transaction.Service with its nonce counter in Redis and its rows in     *)
(* Postgres, wallet.Service, the waiters of mpc.Client, and the webhook of *)
(* the indexer.  Every call runs in a goroutine of its own.                *)
(*                                                                         *)
(* Redis, Postgres, the MPC cluster and the chain are external.  Redis and *)
(* Postgres carry out one command at a time.  The cluster answers a        *)
(* request, and the result queue may deliver an answer more than once.     *)
(* The chain mines nonces in order, one transaction for each.              *)
(***************************************************************************)
EXTENDS Integers, FiniteSets

CONSTANTS
  Call,      \* calls: CreateWallet, Send, CancelTx and SpeedUpTx
  MaxFaults  \* bound: disconnects, crashes, expiries and failing calls

ASSUME CallAssumption == IsFiniteSet(Call)
ASSUME BoundAssumption == MaxFaults \in Nat

VARIABLES
  kind,     \* kind[c]: what c is, or none
  target,   \* target[c]: the call whose transaction c replaces, or c
  pc,       \* pc[c]: how far its handler has come
  seed,     \* seed[c]: PendingNonceAt as read by nextNonce, or NoKey
  nonce,    \* nonce[c]: the nonce of its transaction
  status,   \* status[c]: the status of its row
  hashed,   \* calls with a tx_hash in their row
  counter,  \* the key nonce:chain:address in Redis, or NoKey
  holds,    \* sends that have taken a nonce and not released it
  orderly,  \* nothing has happened so far that the counter cannot follow
  waiting,  \* calls with an entry in keygenWait or signingWait
  channel,  \* channel[c]: the result in the channel of c
  asked,    \* calls whose request has reached the cluster
  pool,     \* transactions the chain has accepted and not mined
  mined,    \* and the mined ones
  faults    \* bounded by MaxFaults

nonceVars == <<seed, nonce, counter, holds, orderly>>
rowVars == <<status, hashed>>
mpcVars == <<waiting, channel, asked>>
chainVars == <<pool, mined>>
callVars == <<kind, target>>
vars == <<pc, faults, callVars, nonceVars, rowVars, mpcVars, chainVars>>

\* Redis has no such key.
NoKey == -99

Fault == faults < MaxFaults /\ faults' = faults + 1

Replacement(c) == kind[c] \in {"cancel", "speedup"}

Init ==
  /\ kind = [c \in Call |-> "none"]
  /\ target = [c \in Call |-> c]
  /\ pc = [c \in Call |-> "none"]
  /\ seed = [c \in Call |-> NoKey]
  /\ nonce = [c \in Call |-> NoKey]
  /\ status = [c \in Call |-> "none"]
  /\ hashed = {}
  /\ counter = NoKey
  /\ holds = {}
  /\ orderly = TRUE
  /\ waiting = {}
  /\ channel = [c \in Call |-> "none"]
  /\ asked = {}
  /\ pool = {}
  /\ mined = {}
  /\ faults = 0

Goto(c, p) == pc' = [pc EXCEPT ![c] = p]

updateStatus(c, s) == status' = [status EXCEPT ![c] = s]

-----------------------------------------------------------------------------
(* Nonces.                                                                 *)

\* The chain (external): nonces are mined in order, and PendingNonceAt counts
\* the accepted transactions that follow without a gap.
ChainNonce == Cardinality(mined)

PendingNonceAt ==
  CHOOSE n \in ChainNonce..(ChainNonce + Cardinality(pool)) :
    /\ \A u \in pool : nonce[u] # n
    /\ \A m \in ChainNonce..(n - 1) : \E u \in pool : nonce[u] = m

\* Send begins: EXISTS, and without a key the nonce the chain expects.
nextNonce(c) ==
  /\ kind[c] = "none"
  /\ kind' = [kind EXCEPT ![c] = "send"]
  /\ seed' = [seed EXCEPT ![c] = IF counter = NoKey THEN PendingNonceAt ELSE NoKey]
  /\ Goto(c, "looked")
  /\ UNCHANGED <<target, faults, nonce, counter, holds, orderly, rowVars, mpcVars,
                 chainVars>>

MutSeeded(c) == IF seed[c] # NoKey THEN seed[c] ELSE counter

\* SETNX with what was read; INCR starts from 0 when there is no key.
Seeded(c) ==
  IF counter # NoKey THEN counter ELSE IF seed[c] # NoKey THEN seed[c] ELSE 0

MutBuildERC20Transfer(c) ==
  /\ pc[c] = "looked"
  /\ counter' = Seeded(c) + 1
  /\ nonce' = [nonce EXCEPT ![c] = Seeded(c)]
  /\ holds' = holds \cup {c}
  /\ Goto(c, "built")
  /\ UNCHANGED <<faults, orderly, callVars, seed, rowVars, mpcVars, chainVars>>

\* SETNX and INCR.  ParseUint refuses what is negative.
BuildERC20Transfer(c) ==
  /\ pc[c] = "looked"
  /\ counter' = Seeded(c) + 1
  /\ \/ /\ Seeded(c) >= 0
        /\ nonce' = [nonce EXCEPT ![c] = Seeded(c)]
        /\ holds' = holds \cup {c}
        /\ Goto(c, "built")
        /\ UNCHANGED <<orderly, faults>>
     \/ /\ (Seeded(c) < 0 /\ UNCHANGED faults) \/ Fault
        /\ Goto(c, "done")
        /\ orderly' = FALSE
        /\ UNCHANGED <<nonce, holds>>
  /\ UNCHANGED <<callVars, seed, rowVars, mpcVars, chainVars>>

MutReleaseNonce(c) ==
  /\ counter' = counter
  /\ holds' = holds \ {c}
  /\ orderly' = (orderly /\ counter # NoKey /\ counter - 1 = nonce[c])

\* DECR, which takes a missing key for 0.  Only the nonce that was taken last
\* can be given back that way.
ReleaseNonce(c) ==
  /\ counter' = (IF counter = NoKey THEN 0 ELSE counter) - 1
  /\ holds' = holds \ {c}
  /\ orderly' = (orderly /\ counter # NoKey /\ counter - 1 = nonce[c])

\* A send gives up and releases its nonce; a replacement has taken none.
GiveUp(c) ==
  /\ Goto(c, "done")
  /\ IF kind[c] = "send" THEN ReleaseNonce(c) ELSE UNCHANGED <<counter, holds, orderly>>
  /\ UNCHANGED <<seed, nonce>>

\* A send gives up and keeps its nonce.
Leave(c) ==
  /\ Goto(c, "done")
  /\ orderly' = (orderly /\ kind[c] # "send")
  /\ UNCHANGED <<seed, nonce, counter, holds>>

\* The key has a time to live of 24 hours from its first SETNX on.
KeyExpires ==
  /\ counter # NoKey /\ Fault
  /\ counter' = NoKey
  /\ orderly' = FALSE
  /\ UNCHANGED <<pc, callVars, seed, nonce, holds, rowVars, mpcVars, chainVars>>

-----------------------------------------------------------------------------
(* From the draft to the signature.                                        *)

\* insertDraft, and updateStatus to signing.
insertDraft(c) ==
  /\ pc[c] = "built"
  /\ \/ updateStatus(c, "signing") /\ Goto(c, "drafted") /\ UNCHANGED <<faults, nonceVars>>
     \/ Fault /\ GiveUp(c) /\ UNCHANGED status
     \/ Fault /\ kind[c] = "send" /\ Leave(c) /\ updateStatus(c, "draft")
  /\ UNCHANGED <<callVars, hashed, mpcVars, chainVars>>

\* Entry and request; when publishing fails the entry is taken back, but the
\* request may have reached the stream.
Register(c) ==
  /\ waiting' = waiting \cup {c}
  /\ asked' = asked \cup {c}
  /\ UNCHANGED channel

PublishFails(c) ==
  /\ Fault
  /\ waiting' = waiting \ {c}
  /\ asked' \in {asked, asked \cup {c}}
  /\ UNCHANGED channel

SignTransaction(c) ==
  /\ pc[c] = "drafted"
  /\ \/ Register(c) /\ Goto(c, "waiting") /\ UNCHANGED <<faults, status, nonceVars>>
     \/ PublishFails(c) /\ updateStatus(c, "failed") /\ GiveUp(c)
  /\ UNCHANGED <<callVars, hashed, chainVars>>

CreateWallet(c) ==
  /\ kind[c] = "none"
  /\ kind' = [kind EXCEPT ![c] = "create"]
  /\ \/ Register(c) /\ Goto(c, "waiting") /\ UNCHANGED faults
     \/ PublishFails(c) /\ Goto(c, "done")
  /\ UNCHANGED <<target, nonceVars, rowVars, chainVars>>

MutHandleSignResult(c) ==
  /\ c \in asked
  /\ \E r \in {"success", "error"} :
       IF c \in waiting THEN channel' = [channel EXCEPT ![c] = r] ELSE UNCHANGED channel
  /\ UNCHANGED <<pc, faults, callVars, nonceVars, rowVars, waiting, asked, chainVars>>

\* The cluster answers (external), and the answer reaches handleSignResult or
\* handleKeygenResult: a result without a waiter is only logged.
handleSignResult(c) ==
  /\ c \in asked
  /\ \E r \in {"success", "error"} :
       IF c \in waiting THEN channel' = [channel EXCEPT ![c] = r] ELSE UNCHANGED channel
  /\ waiting' = waiting \ {c}
  /\ UNCHANGED <<pc, faults, callVars, nonceVars, rowVars, asked, chainVars>>

\* persistWallet; a failing INSERT leaves keys without a wallet.
persistWallet(c) ==
  /\ kind[c] = "create" /\ pc[c] = "waiting" /\ channel[c] # "none"
  /\ Goto(c, "done")
  /\ \/ updateStatus(c, IF channel[c] = "success" THEN "wallet" ELSE "none")
        /\ UNCHANGED faults
     \/ Fault /\ UNCHANGED status
  /\ channel' = [channel EXCEPT ![c] = "none"]
  /\ UNCHANGED <<callVars, nonceVars, hashed, waiting, asked, chainVars>>

\* AssembleSignedTx fails: only Send records it.
AssembleFails(c) ==
  /\ channel[c] = "success" /\ Fault /\ Leave(c)
  /\ updateStatus(c, IF kind[c] = "send" THEN "failed" ELSE status[c])

\* A success goes on: only Send records it.  saveSignedRLP is part of it.
ReceiveResult(c) ==
  /\ kind[c] # "create" /\ pc[c] = "waiting" /\ channel[c] # "none"
  /\ \/ /\ channel[c] = "success"
        /\ updateStatus(c, IF kind[c] = "send" THEN "signed" ELSE status[c])
        /\ Goto(c, "signed") /\ UNCHANGED <<faults, nonceVars>>
     \/ channel[c] = "error" /\ updateStatus(c, "failed") /\ GiveUp(c) /\ UNCHANGED faults
     \/ AssembleFails(c)
  /\ channel' = [channel EXCEPT ![c] = "none"]
  /\ UNCHANGED <<callVars, hashed, waiting, asked, chainVars>>

MutTimeout(c) ==
  /\ pc[c] = "waiting"
  /\ Goto(c, "done")
  /\ UNCHANGED <<status, nonceVars, faults, callVars, hashed, mpcVars, chainVars>>

\* signingTimeout and keygenTimeout: the entry of the waiter stays.  The row of
\* a replacement stays in signing.
Timeout(c) ==
  /\ pc[c] = "waiting"
  /\ IF kind[c] = "send"
     THEN updateStatus(c, "failed") /\ GiveUp(c)
     ELSE Goto(c, "done") /\ UNCHANGED <<status, nonceVars>>
  /\ UNCHANGED <<faults, callVars, hashed, mpcVars, chainVars>>

\* ctx.Done: the client of the API has gone.
Disconnect(c) ==
  /\ pc[c] = "waiting" /\ Fault /\ Leave(c)
  /\ UNCHANGED <<callVars, rowVars, mpcVars, chainVars>>

-----------------------------------------------------------------------------
(* Broadcast, replacement, confirmation.                                   *)

SameNonce(c) == {u \in pool : nonce[u] = nonce[c]}

\* The chain takes the transaction, in the place of one with its nonce.
BroadcastTx(c) ==
  /\ pc[c] = "signed" /\ nonce[c] >= ChainNonce
  /\ pool' = (pool \ SameNonce(c)) \cup {c}
  /\ Goto(c, "sent")
  /\ UNCHANGED <<faults, callVars, nonceVars, rowVars, mpcVars, mined>>

\* The nonce is used, or it is in use and the fee is not high enough; the call
\* fails on the way there, or on the way back.
BroadcastFails(c) ==
  /\ pc[c] = "signed"
  /\ \/ /\ nonce[c] < ChainNonce \/ (SameNonce(c) # {} /\ ~Replacement(c))
        /\ UNCHANGED <<faults, pool>>
     \/ Fault /\ UNCHANGED pool
     \/ Fault /\ nonce[c] >= ChainNonce /\ pool' = (pool \ SameNonce(c)) \cup {c}
  /\ updateStatus(c, "failed")
  /\ Leave(c)
  /\ UNCHANGED <<callVars, hashed, mpcVars, mined>>

saveTxHash(c) ==
  /\ pc[c] = "sent"
  /\ hashed' = hashed \cup {c}
  /\ Goto(c, "hashed")
  /\ UNCHANGED <<faults, callVars, nonceVars, status, mpcVars, chainVars>>

\* updateStatus to broadcast; CancelTx then marks the original as failed.
FinishSend(c) ==
  /\ pc[c] = "hashed"
  /\ status' = [u \in Call |->
       IF u = c THEN "broadcast"
       ELSE IF kind[c] = "cancel" /\ u = target[c] THEN "failed" ELSE status[u]]
  /\ Goto(c, "done")
  /\ UNCHANGED <<faults, callVars, nonceVars, hashed, mpcVars, chainVars>>

MutReplace(c, o, k) ==
  /\ kind[c] = "none" /\ c # o
  /\ status[o] \in {"broadcast", "signed"}
  /\ kind' = [kind EXCEPT ![c] = k]
  /\ target' = [target EXCEPT ![c] = o]
  /\ nonce' = [nonce EXCEPT ![c] = counter]
  /\ Goto(c, "built")
  /\ UNCHANGED <<faults, seed, counter, holds, orderly, rowVars, mpcVars, chainVars>>

\* CancelTx and SpeedUpTx of the transaction of o: the same nonce, a fee 20 %
\* higher.
Replace(c, o, k) ==
  /\ kind[c] = "none" /\ c # o
  /\ status[o] \in {"broadcast", "signed"}
  /\ kind' = [kind EXCEPT ![c] = k]
  /\ target' = [target EXCEPT ![c] = o]
  /\ nonce' = [nonce EXCEPT ![c] = nonce[o]]
  /\ Goto(c, "built")
  /\ UNCHANGED <<faults, seed, counter, holds, orderly, rowVars, mpcVars, chainVars>>

\* The chain mines (external).
Mine(c) ==
  /\ c \in pool /\ nonce[c] = ChainNonce
  /\ mined' = mined \cup {c}
  /\ pool' = pool \ SameNonce(c)
  /\ UNCHANGED <<pc, faults, callVars, nonceVars, rowVars, mpcVars>>

\* The webhook of Alchemy, at any time and as often as it likes.
processActivity(c) ==
  /\ c \in mined /\ c \in hashed /\ status[c] \in {"broadcast", "signed"}
  /\ updateStatus(c, "confirmed")
  /\ UNCHANGED <<pc, faults, callVars, nonceVars, hashed, mpcVars, chainVars>>

\* The process of the API ends: the handlers and the waiters are gone.
Crash ==
  /\ Fault
  /\ pc' = [c \in Call |-> IF kind[c] = "none" THEN "none" ELSE "done"]
  /\ waiting' = {}
  /\ channel' = [c \in Call |-> "none"]
  /\ orderly' = (orderly /\ \A c \in Call :
                   kind[c] = "send" => pc[c] \in {"looked", "sent", "hashed", "done"})
  /\ UNCHANGED <<callVars, seed, nonce, counter, holds, rowVars, asked, chainVars>>

-----------------------------------------------------------------------------
Handle(c) ==
  \/ BuildERC20Transfer(c) \/ insertDraft(c) \/ SignTransaction(c)
  \/ persistWallet(c) \/ ReceiveResult(c) \/ Timeout(c)
  \/ BroadcastTx(c) \/ BroadcastFails(c) \/ saveTxHash(c) \/ FinishSend(c)

Next ==
  \/ \E c \in Call :
       \/ nextNonce(c) \/ CreateWallet(c) \/ Handle(c) \/ Disconnect(c)
       \/ handleSignResult(c) \/ Mine(c) \/ processActivity(c)
       \/ \E o \in Call : Replace(c, o, "cancel") \/ Replace(c, o, "speedup")
  \/ KeyExpires \/ Crash

Spec == Init /\ [][Next]_vars

(***************************************************************************)
(* A handler goes on: every wait of its has a timeout.                     *)
(***************************************************************************)
FairSpec == Spec /\ \A c \in Call : WF_vars(Handle(c))

-----------------------------------------------------------------------------
(* Properties.                                                             *)

\* Every variable has the type the Go declarations give it.
TypeOK ==
  /\ kind \in [Call -> {"none", "create", "send", "cancel", "speedup"}]
  /\ target \in [Call -> Call]
  /\ pc \in [Call -> {"none", "looked", "built", "drafted", "waiting", "signed", "sent",
                      "hashed", "done"}]
  /\ seed \in [Call -> Int] /\ nonce \in [Call -> Nat \cup {NoKey}] /\ counter \in Int
  /\ holds \subseteq Call /\ orderly \in BOOLEAN
  /\ status \in [Call -> {"none", "wallet", "draft", "signing", "signed", "broadcast",
                          "confirmed", "failed"}]
  /\ hashed \subseteq Call /\ waiting \subseteq Call /\ asked \subseteq Call
  /\ channel \in [Call -> {"none", "success", "error"}]
  /\ pool \subseteq Call /\ mined \subseteq Call
  /\ faults \in 0..MaxFaults

\* As long as only the nonce taken last is released, and no send is given up
\* without a release, the counter prevents gaps as ReleaseNonce promises: the
\* sends that hold a nonce have them in a row, up to the counter, no two the
\* same, however their calls to Redis interleave.
NoncesConsecutive ==
  orderly /\ holds # {} =>
    /\ {nonce[c] : c \in holds} = 0..(counter - 1)
    /\ \A c, d \in holds : nonce[c] = nonce[d] => c = d

\* A result the queue delivers twice does not block the listener of the
\* client: the channel of a waiter that is still registered has room.
ChannelHasRoom == \A c \in waiting : channel[c] = "none"

\* A transaction and the one that cancels or speeds it up are never both
\* executed, whichever of them reaches the chain first.
ReplacementIsExclusive ==
  \A c \in mined : Replacement(c) => target[c] \notin mined

\* A transfer ends as broadcast, confirmed or failed, unless its caller
\* disconnects or a fault occurs: its row is not left in signing.
SendSettles ==
  \A c \in Call :
    kind[c] = "send" ~> status[c] \in {"broadcast", "confirmed", "failed"} \/ faults > 0

\* The comment of ReleaseNonce says that it "prevents gaps": once every call
\* has returned, no accepted transaction waits for a nonce nobody uses.
\* The code does not keep this: see "Promises the code does not keep" in the README.
NoGaps ==
  (\A c \in Call : pc[c] \in {"none", "done"}) =>
    \A c \in pool : \A n \in 0..(nonce[c] - 1) :
      \E u \in pool \cup mined : nonce[u] = n
=============================================================================
