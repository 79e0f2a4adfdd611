---------------------------- MODULE UsernameMint ----------------------------
(***************************************************************************)
(* Buying a username: the UsernameRegistry, its official ATH wallet, one   *)
(* UsernameNFTItem per name, and the messages between them                 *)
(* (contracts18/contracts/UsernameRegistry.tact, UsernameNFTItem.tact,     *)
(* ATHWallet.tact), after SealGenesis.                                     *)
(*                                                                         *)
(* A payment reaches the official wallet, which keeps a notification of it *)
(* until the registry acknowledges it (the name was minted) or has it      *)
(* refunded.  The registry books the price of a minted name as due to the  *)
(* treasury and to be burned, and anybody flushes what is due.             *)
(*                                                                         *)
(* Abstractions.  A name stands for its hash and its item's address (both  *)
(* injective).  A handler may always be refused for lack of TON, so every  *)
(* bounceable message may bounce whatever the other guards say.  Transfers *)
(* of the official wallet are what ATHLedger promises of them: credited    *)
(* once or taken back.  Messages arrive in any order; those of the types   *)
(* in scene.lossy may be dropped.                                          *)
(***************************************************************************)
EXTENDS Naturals, FiniteSets, Functions

CONSTANTS
    Names,       \* valid usernames
    Users,       \* wallets that pay for names and own them
    QueryIds,    \* query ids of payments and of flushes
    Price,       \* priceForLength of each name
    Funds,       \* ATH each user starts with
    Scenes,      \* what happens in a behaviour, one of the set: messages
                 \* that may be dropped (lossy), whether users wait with a
                 \* query id for the refund on its way (fresh), the kinds of
                 \* due amounts that get flushed, and what users pay (amounts)
    MaxMints     \* bound of the model on mint_seq

Kinds == {"treasury", "burn"}
LossyTypes == {"deployed", "noteAck", "noteRefund", "done"}

ASSUME MintAssumption ==
    /\ Price \in [Names -> Nat \ {0}]
    /\ "treasury" \notin Users
    /\ Funds \in Nat
    /\ MaxMints \in Nat
    /\ \A s \in Scenes :
          /\ DOMAIN s = {"lossy", "fresh", "flushes", "amounts"}
          /\ s.lossy \subseteq LossyTypes
          /\ s.fresh \in BOOLEAN
          /\ s.flushes \subseteq Kinds
          /\ s.amounts \subseteq Nat

VARIABLES
    mint_seq, pending_mints,         \* UsernameRegistry
    due,                             \* treasury_due_ath and burn_due_ath
    pending_flushes,                 \* pending_treasury_flushes, _burn_flushes
    item,                            \* the UsernameNFTItem of each name
    balance, pending_notifications,  \* the official ATH wallet
    transfers,   \* its debits whose internal transfer is not acknowledged
    settled,     \* what the treasury's wallet received; what was burned
    purse,       \* ATH of each user
    net,         \* messages in flight
    scene        \* one of Scenes: never changes

registryVars == <<mint_seq, pending_mints>>
flushVars == <<due, pending_flushes>>
walletVars == <<balance, pending_notifications, transfers>>
vars == <<registryVars, flushVars, item, walletVars, settled, purse, net,
          scene>>

-----------------------------------------------------------------------------
NoOne == "registry"     \* owner_wallet of an item not yet initialized

Note(q, u) == {n \in pending_notifications : n.qid = q /\ n.payer = u}
PendingMint(n) == {p \in pending_mints : p.name = n}
PendingFlush(q) == {f \in pending_flushes : f.qid = q}
Refunds(q, u) == {t \in transfers : t.qid = q /\ t.to = u}
InFlight(type) == {m \in net : m.type = type}

Consume(m) == net' = net \ {m}
Answer(m, reply) == net' = (net \ {m}) \cup {reply}
Bounce(m, type) == Answer(m, [m EXCEPT !.type = type])

Init ==
    /\ mint_seq = 0
    /\ pending_mints = {}
    /\ due = [k \in Kinds |-> 0]
    /\ pending_flushes = {}
    /\ item = [n \in Names |->
                 [initialized |-> FALSE, owner |-> NoOne, init_owner |-> NoOne,
                  nonce |-> 0]]
    /\ balance = 0
    /\ pending_notifications = {}
    /\ transfers = {}
    /\ settled = [k \in Kinds |-> 0]
    /\ purse = [u \in Users |-> Funds]
    /\ net = {}
    /\ scene \in Scenes

-----------------------------------------------------------------------------
(* The payment.                                                            *)

(* the official wallet receives ATHInternalTransferRegistryMintUsername    *)
Pay(u, q, n, o, a) ==
    /\ purse[u] >= a
    /\ Note(q, u) = {}
    /\ scene.fresh => Refunds(q, u) = {}
    /\ purse' = [purse EXCEPT ![u] = @ - a]
    /\ balance' = balance + a
    /\ pending_notifications' = pending_notifications \cup
           {[qid |-> q, payer |-> u, amount |-> a]}
    /\ net' = net \cup {[type |-> "notify", qid |-> q, payer |-> u, name |-> n,
                         owner |-> o, amount |-> a]}
    /\ UNCHANGED <<scene, registryVars, flushVars, item, transfers, settled>>

(* mutant: the guards 19173 and 19123 are missing                          *)
AcceptUsernameMintTwice(m) ==
    /\ mint_seq < MaxMints
    /\ m.amount = Price[m.name]
    /\ mint_seq' = mint_seq + 1
    /\ pending_mints' = (pending_mints \ PendingMint(m.name)) \cup
           {[name |-> m.name, qid |-> m.qid, payer |-> m.payer,
             owner |-> m.owner, price |-> m.amount, nonce |-> mint_seq']}
    /\ Answer(m, [type |-> "init", name |-> m.name, owner |-> m.owner,
                  nonce |-> mint_seq'])
    /\ UNCHANGED <<scene, flushVars, item, walletVars, settled, purse>>

(* receive(AthTransferNotificationRegistryMintUsername): acceptUsernameMint *)
AcceptUsernameMint(m) ==
    /\ mint_seq < MaxMints
    /\ m.amount = Price[m.name]
    /\ PendingMint(m.name) = {}
    /\ mint_seq' = mint_seq + 1
    /\ pending_mints' = pending_mints \cup
           {[name |-> m.name, qid |-> m.qid, payer |-> m.payer,
             owner |-> m.owner, price |-> m.amount, nonce |-> mint_seq']}
    /\ Answer(m, [type |-> "init", name |-> m.name, owner |-> m.owner,
                  nonce |-> mint_seq'])
    /\ UNCHANGED <<scene, flushVars, item, walletVars, settled, purse>>

(* mutant: the notification is sent with bounce: false                     *)
RefuseUsernameMintSilently(m) ==
    /\ Consume(m)
    /\ UNCHANGED <<scene, registryVars, flushVars, item, walletVars, settled,
                   purse>>

(* it throws (19121..19126, 19170..19173): the notification bounces        *)
RefuseUsernameMint(m) ==
    /\ Bounce(m, "notifyBounce")
    /\ UNCHANGED <<scene, registryVars, flushVars, item, walletVars, settled,
                   purse>>

-----------------------------------------------------------------------------
(* The item.                                                               *)

DeployedAck(n, it) ==
    [type |-> "deployed", name |-> n, owner |-> it.init_owner,
     nonce |-> it.nonce]

(* UsernameNFTItem receive(InitializeUsernameItem)                         *)
InitializeUsernameItem(m) ==
    /\ ~item[m.name].initialized
    /\ item' = [item EXCEPT ![m.name] =
                  [initialized |-> TRUE, owner |-> m.owner,
                   init_owner |-> m.owner, nonce |-> m.nonce]]
    /\ Answer(m, DeployedAck(m.name, item'[m.name]))
    /\ UNCHANGED <<scene, registryVars, flushVars, walletVars, settled,
                   purse>>

(* it throws: already initialized (18011), or too little value (18015)     *)
RefuseInitialize(m) ==
    /\ Bounce(m, "initBounce")
    /\ UNCHANGED <<scene, registryVars, flushVars, item, walletVars, settled,
                   purse>>

(* mutant: the resent acknowledgement names the item's present owner       *)
ResendDeployedAckOfOwner(n) ==
    /\ item[n].initialized
    /\ net' = net \cup
           {DeployedAck(n, [item[n] EXCEPT !.init_owner = item[n].owner])}
    /\ UNCHANGED <<scene, registryVars, flushVars, item, walletVars, settled,
                   purse>>

(* UsernameNFTItem receive(ResendDeployedAck), which anybody may send      *)
ResendDeployedAck(n) ==
    /\ item[n].initialized
    /\ net' = net \cup {DeployedAck(n, item[n])}
    /\ UNCHANGED <<scene, registryVars, flushVars, item, walletVars, settled,
                   purse>>

(* UsernameNFTItem receive(NftTransfer), from its owner                    *)
NftTransfer(n, o) ==
    /\ item[n].initialized
    /\ item' = [item EXCEPT ![n].owner = o]
    /\ UNCHANGED <<scene, registryVars, flushVars, walletVars, settled,
                   purse, net>>

-----------------------------------------------------------------------------
(* The outcome, at the registry.                                           *)

(* USERNAME_TREASURY_SHARE_BPS of the price, rounded down                  *)
TreasuryShare(price) == (price * 5000) \div 10000

NoteAck(p) ==
    [type |-> "noteAck", qid |-> p.qid, payer |-> p.payer, amount |-> p.price]
NoteRefund(p) ==
    [type |-> "noteRefund", qid |-> p.qid, payer |-> p.payer,
     amount |-> p.price]

(* the guards of receive(UsernameItemDeployedAck) on the mint it finds     *)
Finalizes(p, m) == p.name = m.name /\ p.owner = m.owner /\ p.nonce = m.nonce

(* mutant: both shares are rounded down                                    *)
ItemDeployedAckRoundsBoth(m) ==
    \E p \in pending_mints :
        /\ Finalizes(p, m)
        /\ pending_mints' = pending_mints \ {p}
        /\ due' = [k \in Kinds |-> due[k] + TreasuryShare(p.price)]
        /\ Answer(m, NoteAck(p))
        /\ UNCHANGED <<scene, mint_seq, pending_flushes, item, walletVars,
                       settled, purse>>

(* receive(UsernameItemDeployedAck): clearPendingMint, book the price, ack *)
ItemDeployedAck(m) ==
    \E p \in pending_mints :
        /\ Finalizes(p, m)
        /\ pending_mints' = pending_mints \ {p}
        /\ due' = [treasury |-> due.treasury + TreasuryShare(p.price),
                   burn |-> due.burn + (p.price - TreasuryShare(p.price))]
        /\ Answer(m, NoteAck(p))
        /\ UNCHANGED <<scene, mint_seq, pending_flushes, item, walletVars,
                       settled, purse>>

(* it throws (19130..19137): the item has no handler for the bounce        *)
StaleDeployedAck(m) ==
    /\ ~ \E p \in pending_mints : Finalizes(p, m)
    /\ Consume(m)
    /\ UNCHANGED <<scene, registryVars, flushVars, item, walletVars, settled,
                   purse>>

(* mutant: the pending mint is not cleared                                 *)
BouncedInitializeKeepsMint(m) ==
    \E p \in PendingMint(m.name) :
        /\ Answer(m, NoteRefund(p))
        /\ UNCHANGED <<scene, registryVars, flushVars, item, walletVars,
                       settled, purse>>

(* bounced(InitializeUsernameItem): the registry clears what it finds      *)
(* pending for the item that answers, and has it refunded                  *)
BouncedInitialize(m) ==
    \E p \in PendingMint(m.name) :
        /\ pending_mints' = pending_mints \ {p}
        /\ Answer(m, NoteRefund(p))
        /\ UNCHANGED <<scene, mint_seq, flushVars, item, walletVars, settled,
                       purse>>

-----------------------------------------------------------------------------
(* The outcome, at the official wallet.                                    *)

(* receive(AthTransferNotificationAck); it returns if it finds nothing     *)
NotificationAck(m) ==
    /\ pending_notifications' =
           {n \in pending_notifications :
               ~(n.qid = m.qid /\ n.payer = m.payer /\ n.amount = m.amount)}
    /\ Consume(m)
    /\ UNCHANGED <<scene, registryVars, flushVars, item, balance, transfers,
                   settled, purse>>

Refundable(n, m) ==
    /\ n.qid = m.qid /\ n.payer = m.payer /\ n.amount = m.amount
    /\ balance >= n.amount
    /\ Refunds(n.qid, n.payer) = {}

(* refund_pending_notification, for a bounced notification and for         *)
(* receive(AthTransferNotificationRefund)                                  *)
RefundPendingNotification(m) ==
    \E n \in pending_notifications :
        /\ Refundable(n, m)
        /\ balance' = balance - n.amount
        /\ pending_notifications' = pending_notifications \ {n}
        /\ transfers' = transfers \cup
               {[qid |-> n.qid, to |-> n.payer, amount |-> n.amount,
                 credited |-> FALSE]}
        /\ Consume(m)
        /\ UNCHANGED <<scene, registryVars, flushVars, item, settled, purse>>

(* it throws (14330..14335, 14230, 14346): the registry has no handler for *)
(* the bounce, and the notification stays until it is pruned               *)
RefundFails(m) ==
    /\ ~ \E n \in pending_notifications : Refundable(n, m)
    /\ Consume(m)
    /\ UNCHANGED <<scene, registryVars, flushVars, item, walletVars, settled,
                   purse>>

(* mutant: pruning does not wait for the notification to be old            *)
PruneStaleNotificationEarly(n) ==
    /\ pending_notifications' = pending_notifications \ {n}
    /\ UNCHANGED <<scene, registryVars, flushVars, item, balance, transfers,
                   settled, purse, net>>

(* receive(PruneStaleNotification), ATH_REGISTRY_PENDING_TTL (7 days) after *)
(* the payment: by then nothing about it is on its way                     *)
PruneStaleNotification(n) ==
    /\ ~ \E m \in net : m.type \in {"notify", "notifyBounce", "noteAck",
                                    "noteRefund"}
                        /\ m.qid = n.qid /\ m.payer = n.payer
    /\ ~ \E m \in net, p \in pending_mints :
            /\ m.type \in {"init", "initBounce", "deployed"}
            /\ p.qid = n.qid /\ p.payer = n.payer /\ p.nonce = m.nonce
    /\ pending_notifications' = pending_notifications \ {n}
    /\ UNCHANGED <<scene, registryVars, flushVars, item, balance, transfers,
                   settled, purse, net>>

-----------------------------------------------------------------------------
(* Flushing what is due.                                                   *)

(* mutant: the guards 19201 and 19202 are missing                          *)
FlushDueReusesQuery(k, q) ==
    /\ due[k] > 0
    /\ due' = [due EXCEPT ![k] = 0]
    /\ pending_flushes' = {f \in pending_flushes : f.kind # k \/ f.qid # q}
           \cup {[kind |-> k, qid |-> q, amount |-> due[k]]}
    /\ net' = net \cup {[type |-> "request", kind |-> k, qid |-> q,
                         amount |-> due[k]]}
    /\ UNCHANGED <<scene, registryVars, item, walletVars, settled, purse>>

(* receive(FlushTreasuryAthDue) and receive(FlushBurnAthDue), anybody's    *)
FlushDue(k, q) ==
    /\ due[k] > 0
    /\ PendingFlush(q) = {}
    /\ due' = [due EXCEPT ![k] = 0]
    /\ pending_flushes' = pending_flushes \cup
           {[kind |-> k, qid |-> q, amount |-> due[k]]}
    /\ net' = net \cup {[type |-> "request", kind |-> k, qid |-> q,
                         amount |-> due[k]]}
    /\ UNCHANGED <<scene, registryVars, item, walletVars, settled, purse>>

(* ATHWallet receive(ATHTransferRequest) of a treasury flush               *)
FlushTransferRequest(m) ==
    /\ m.kind = "treasury"
    /\ balance >= m.amount
    /\ Refunds(m.qid, "treasury") = {}
    /\ balance' = balance - m.amount
    /\ transfers' = transfers \cup
           {[qid |-> m.qid, to |-> "treasury", amount |-> m.amount,
             credited |-> FALSE]}
    /\ Consume(m)
    /\ UNCHANGED <<scene, registryVars, flushVars, item,
                   pending_notifications, settled, purse>>

(* ATHWallet receive(ATHBurn), and the master's answer to its notification *)
FlushBurn(m) ==
    /\ m.kind = "burn"
    /\ balance >= m.amount
    /\ balance' = balance - m.amount
    /\ Bounce(m, "burning")
    /\ UNCHANGED <<scene, registryVars, flushVars, item,
                   pending_notifications, transfers, settled, purse>>

(* ATHMaster receive(ATHBurnNotification)                                  *)
BurnNotification(m) ==
    /\ settled' = [settled EXCEPT !.burn = @ + m.amount]
    /\ Bounce(m, "done")
    /\ UNCHANGED <<scene, registryVars, flushVars, item, walletVars, purse>>

(* ATHWallet bounced(ATHBurnNotification)                                  *)
BouncedBurnNotification(m) ==
    /\ balance' = balance + m.amount
    /\ Bounce(m, "failed")
    /\ UNCHANGED <<scene, registryVars, flushVars, item,
                   pending_notifications, transfers, settled, purse>>

(* the official wallet throws on the request, which bounces; the registry  *)
(* treats bounced(ATHTransferRequest) and bounced(ATHBurn) like a failure  *)
RefuseFlushRequest(m) ==
    /\ Bounce(m, "failed")
    /\ UNCHANGED <<scene, registryVars, flushVars, item, walletVars, settled,
                   purse>>

(* a transfer of the official wallet is credited at the recipient's        *)
CreditTransfer(t) ==
    /\ ~t.credited
    /\ transfers' = (transfers \ {t}) \cup {[t EXCEPT !.credited = TRUE]}
    /\ IF t.to = "treasury"
       THEN /\ settled' = [settled EXCEPT !.treasury = @ + t.amount]
            /\ net' = net \cup {[type |-> "done", kind |-> "treasury",
                                 qid |-> t.qid, amount |-> t.amount]}
            /\ UNCHANGED purse
       ELSE /\ purse' = [purse EXCEPT ![t.to] = @ + t.amount]
            /\ UNCHANGED <<settled, net>>
    /\ UNCHANGED <<scene, registryVars, flushVars, item, balance,
                   pending_notifications>>

(* the recipient wallet's acknowledgement arrives                          *)
SourceAck(t) ==
    /\ t.credited
    /\ transfers' = transfers \ {t}
    /\ UNCHANGED <<scene, registryVars, flushVars, item, balance,
                   pending_notifications, settled, purse, net>>

(* it bounces, or is recovered after the grace: restore_bounced_outgoing,  *)
(* receive(ATHRecoverStuckOutgoing); the registry is told of its own       *)
TakeBackTransfer(t) ==
    /\ ~t.credited
    /\ transfers' = transfers \ {t}
    /\ balance' = balance + t.amount
    /\ IF t.to = "treasury"
       THEN net' = net \cup {[type |-> "failed", kind |-> "treasury",
                              qid |-> t.qid, amount |-> t.amount]}
       ELSE UNCHANGED net
    /\ UNCHANGED <<scene, registryVars, flushVars, item,
                   pending_notifications, settled, purse>>

(* receive(ATHTransferAck) and receive(ATHBurnFinalized) of the registry   *)
FlushDone(m) ==
    \E f \in PendingFlush(m.qid) :
        /\ f.kind = m.kind /\ f.amount = m.amount
        /\ pending_flushes' = pending_flushes \ {f}
        /\ Consume(m)
        /\ UNCHANGED <<scene, registryVars, due, item, walletVars, settled,
                       purse>>

(* mutant: the amount is not due again                                     *)
FlushFailedForgetsDue(m) ==
    \E f \in PendingFlush(m.qid) :
        /\ f.kind = m.kind /\ f.amount = m.amount
        /\ pending_flushes' = pending_flushes \ {f}
        /\ Consume(m)
        /\ UNCHANGED <<scene, registryVars, due, item, walletVars, settled,
                       purse>>

(* receive(ATHTransferFailed), receive(ATHBurnFailed) and the two bounces  *)
FlushFailed(m) ==
    \E f \in PendingFlush(m.qid) :
        /\ f.kind = m.kind /\ f.amount = m.amount
        /\ pending_flushes' = pending_flushes \ {f}
        /\ due' = [due EXCEPT ![m.kind] = @ + f.amount]
        /\ Consume(m)
        /\ UNCHANGED <<scene, registryVars, item, walletVars, settled,
                       purse>>

(* a message that nobody answers for fails in its action phase             *)
Lose(m) ==
    /\ m.type \in scene.lossy
    /\ Consume(m)
    /\ UNCHANGED <<scene, registryVars, flushVars, item, walletVars, settled,
                   purse>>

-----------------------------------------------------------------------------
MintStep ==
    \/ \E m \in InFlight("notify") : AcceptUsernameMint(m) \/ RefuseUsernameMint(m)
    \/ \E m \in InFlight("init") : InitializeUsernameItem(m) \/ RefuseInitialize(m)
    \/ \E m \in InFlight("deployed") : ItemDeployedAck(m) \/ StaleDeployedAck(m)
    \/ \E m \in InFlight("initBounce") : BouncedInitialize(m)

NoteStep ==
    \/ \E m \in InFlight("noteAck") : NotificationAck(m)
    \/ \E m \in InFlight("notifyBounce") \cup InFlight("noteRefund") :
          RefundPendingNotification(m) \/ RefundFails(m)

FlushStep ==
    \/ \E m \in InFlight("request") :
          FlushTransferRequest(m) \/ FlushBurn(m) \/ RefuseFlushRequest(m)
    \/ \E m \in InFlight("burning") :
          BurnNotification(m) \/ BouncedBurnNotification(m)
    \/ \E m \in InFlight("done") : FlushDone(m)
    \/ \E m \in InFlight("failed") : FlushFailed(m)

Next ==
    \/ \E u, o \in Users, q \in QueryIds, n \in Names :
          \E a \in scene.amounts : Pay(u, q, n, o, a)
    \/ MintStep
    \/ NoteStep
    \/ FlushStep
    \/ \E n \in Names : ResendDeployedAck(n)
    \/ \E n \in Names, o \in Users : NftTransfer(n, o)
    \/ \E n \in pending_notifications : PruneStaleNotification(n)
    \/ \E k \in scene.flushes, q \in QueryIds : FlushDue(k, q)
    \/ \E t \in transfers : CreditTransfer(t) \/ SourceAck(t) \/ TakeBackTransfer(t)
    \/ \E m \in net : Lose(m)

Spec == Init /\ [][Next]_vars

-----------------------------------------------------------------------------
Ids == QueryIds \X Users

(* A pending mint has one answer to come: its InitializeUsernameItem (or   *)
(* the bounce) is on its way, or its item was initialized by it.  So the   *)
(* bounce always finds the mint it belongs to, never another one for the   *)
(* same name, and an acknowledgement is never that of a mint refunded.     *)
Initializing(p) ==
    {m \in InFlight("init") \cup InFlight("initBounce") :
        m.name = p.name /\ m.nonce = p.nonce /\ m.owner = p.owner}
InitializedBy(p) ==
    /\ item[p.name].initialized
    /\ item[p.name].nonce = p.nonce
    /\ item[p.name].init_owner = p.owner

OneAnswer ==
    /\ \A p, r \in pending_mints : p.name = r.name => p = r
    /\ \A p \in pending_mints : Initializing(p) = {} <=> InitializedBy(p)
    /\ \A m \in InFlight("init") \cup InFlight("initBounce") :
          \E p \in pending_mints : m \in Initializing(p)
    /\ \A p \in pending_mints :
          \A m1, m2 \in Initializing(p) : m1 = m2

AmountsOf(S) == SumFunction([m \in S |-> m.amount])
PricesOf(S) == SumFunction([p \in S |-> p.price])

(* What the official wallet owes: the amounts due and those whose flush has *)
(* not left it, the pending mints, and the payments still to be decided or *)
(* refunded.                                                               *)
Undecided == {m \in net : m.type \in {"notify", "notifyBounce", "noteRefund"}}
Unflushed == {m \in net : m.type \in {"request", "failed"}}
Owed ==
    due.treasury + due.burn + AmountsOf(Unflushed)
        + PricesOf(pending_mints) + AmountsOf(Undecided)

(* The official wallet holds all it owes: no payment is refunded after it  *)
(* was booked, none refunded twice, nothing flushed twice, and a refund or *)
(* a flush never finds the wallet short (14331, 14203, 14002).             *)
Solvent == balance >= Owed

(* Each name minted is paid for exactly once: what was booked for it,      *)
(* wherever it is on its way to the treasury or to be burned, is the price *)
(* of the names whose item is initialized and acknowledged, no more when a *)
(* stale acknowledgement is resent, no less when a flush fails.            *)
Minted ==
    {n \in Names : item[n].initialized /\ ~ \E p \in PendingMint(n) : InitializedBy(p)}
Booked ==
    due.treasury + due.burn + settled.treasury + settled.burn
        + AmountsOf({m \in net : m.type \in {"request", "burning", "failed"}})
        + AmountsOf({t \in transfers : t.to = "treasury" /\ ~t.credited})

MintsPaidOnce == Booked = SumFunctionOnSet(Price, Minted)

(* Each pending flush has one terminal to come, for its kind and amount,   *)
(* and each terminal its pending flush: none of the handlers of the        *)
(* registry throws 19230..19291 on it, and none settles another flush that *)
(* uses the same query id.                                                 *)
Terminals(f) ==
    {m \in net : m.type \in {"request", "burning", "done", "failed"}
                 /\ m.qid = f.qid /\ m.kind = f.kind}
    \cup {t \in transfers : t.to = "treasury" /\ ~t.credited
                            /\ t.qid = f.qid /\ f.kind = "treasury"}
FlushesTracked ==
    /\ \A f \in pending_flushes :
          /\ Cardinality(Terminals(f)) <= 1
          /\ \A m \in Terminals(f) : m.amount = f.amount
    /\ \A m \in net :
          m.type \in {"request", "burning", "done", "failed"} =>
              \E f \in pending_flushes : m \in Terminals(f)
    /\ \A t \in transfers :
          (t.to = "treasury" /\ ~t.credited) =>
              \E f \in pending_flushes : t \in Terminals(f)

(* A refund the registry asks for finds the notification of that payment   *)
(* in the official wallet, and room for its transfer: nobody's payment is  *)
(* stranded there, unless a user reuses the query id of a refund on its    *)
(* way or an acknowledgement is lost for as long as a notification lives.  *)
RefundsFindPayment ==
    scene.fresh /\ "deployed" \notin scene.lossy =>
    \A m \in InFlight("notifyBounce") \cup InFlight("noteRefund") :
        \E n \in pending_notifications : Refundable(n, m)

(* Whatever leaves the registry, a flush or a refund, finds what it needs  *)
(* in the official wallet and in the registry.                             *)
PaymentsTracked == FlushesTracked /\ RefundsFindPayment

(* What the names minted cost is booked once and finds its way: to the     *)
(* treasury, to be burned, or back.                                        *)
PaymentsAccounted == PaymentsTracked /\ MintsPaidOnce

(* The item of a name keeps the mint it was initialized by, and a mint is  *)
(* only ever settled with the item: when it leaves pending_mints, either   *)
(* the item is its own and the price is booked, or the refund is under way.*)
MintOutcome ==
    [][\A p \in pending_mints \ pending_mints' :
          IF InitializedBy(p)
          THEN /\ due'.treasury + due'.burn = due.treasury + due.burn + p.price
               /\ NoteAck(p) \in net'
          ELSE /\ NoteRefund(p) \in net'
               /\ UNCHANGED due]_vars

(* Decisions that the network makes, and somebody who asks again.          *)
DecideNotify(q, u) ==
    \E m \in InFlight("notify") :
        m.qid = q /\ m.payer = u
        /\ (AcceptUsernameMint(m) \/ RefuseUsernameMint(m))
DecideInit(n) ==
    \E m \in InFlight("init") :
        m.name = n /\ (InitializeUsernameItem(m) \/ RefuseInitialize(m))
Decide(n) ==
    \/ \E m \in InFlight("deployed") : m.name = n /\ ItemDeployedAck(m)
    \/ \E m \in InFlight("initBounce") : m.name = n /\ BouncedInitialize(m)
CloseNote(q, u) ==
    \E m \in net : /\ m.type \in {"notifyBounce", "noteRefund", "noteAck"}
                   /\ m.qid = q /\ m.payer = u
                   /\ \/ m.type = "noteAck" /\ NotificationAck(m)
                      \/ m.type # "noteAck" /\ RefundPendingNotification(m)

FairSpec ==
    /\ Spec
    /\ \A i \in Ids : WF_vars(DecideNotify(i[1], i[2]))
    /\ \A i \in Ids : WF_vars(CloseNote(i[1], i[2]))
    /\ \A n \in Names :
          /\ WF_vars(DecideInit(n))
          /\ WF_vars(ResendDeployedAck(n))
          /\ SF_vars(Decide(n))

(* Every pending mint is decided in the end, if messages are delivered and *)
(* somebody has a lost acknowledgement resent often enough: a name is      *)
(* never locked (PrunePendingUsernameMint, which always throws 19307, is   *)
(* not needed).  And every payment leaves the official wallet's pending    *)
(* notifications: it bought the name or it was sent back.  (A user who     *)
(* takes a query id again while its refund is on its way may wait for      *)
(* longer: see RefundsFindPayment.)                                        *)
EachDecided ==
    scene.fresh =>
        /\ \A n \in Names : []<>(PendingMint(n) = {})
        /\ \A i \in Ids : []<>(Note(i[1], i[2]) = {})

=============================================================================
