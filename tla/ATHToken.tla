------------------------------ MODULE ATHToken ------------------------------
(***************************************************************************)
(* The ATH token: every ATHWallet, the ATHMaster, and the messages between *)
(* them (contracts18/contracts/ATHWallet.tact, ATHMaster.tact).            *)
(*                                                                         *)
(* A wallet contract is named by its owner: wallet addresses are derived   *)
(* from the owner, so `sender() == derive_wallet_address(x)' is the field  *)
(* src = x of a message.  A debit is recorded in pending_outgoing_transfers*)
(* until the recipient wallet acknowledges it, its message bounces, or,    *)
(* after a grace period, anybody asks for it to be undone.                 *)
(*                                                                         *)
(* Abstractions.  Hashes are injective (a sender key is the pair query id, *)
(* sender).  TON value appears only as the possibility that a handler runs *)
(* out of it: a transfer, a burn or the genesis credit may bounce whatever *)
(* the other guards say, and the messages named in Lossy may vanish with   *)
(* no bounce (an action phase that fails undoes the handler silently).     *)
(* Messages arrive in any order, each within MaxTransit units of time.     *)
(***************************************************************************)
EXTENDS Naturals, FiniteSets, Functions

CONSTANTS
    Owners,           \* basechain addresses that own an ATH wallet
    Treasury,         \* treasury_owner of ATHMaster
    Supply,           \* ATH_TOTAL_SUPPLY_ATOMIC
    QueryIds,         \* query ids owners choose
    OutgoingGrace,    \* ATH_OUTGOING_STUCK_RECOVERY_GRACE_SECONDS
    NotificationTTL,  \* ATH_PENDING_NOTIFICATION_TTL
    RegistryTTL,      \* ATH_REGISTRY_PENDING_TTL
    MaxTransit,       \* bound on the time a message spends in flight
    Lanes,            \* the transfer requests owners use, among AllLanes
    Lossy,            \* the messages that may be lost, among LossyTypes
    MaxTime,          \* bound of the model on the clock
    MaxInFlight       \* bound of the model: owners start nothing new while
                      \* that many messages are on their way

(* ATHTransferRequest and JettonTransfer credit the recipient and no more; *)
(* ATHTransferRequestWithNotify and the two ATHTransferRequestRegistry...  *)
(* also keep a notification pending there until its owner answers          *)
AllLanes == {"plain", "notify", "registry"}

(* The source ACK is not among them: its value is measured to outlast any  *)
(* map it clears (tests/ath-wallet-pending-outgoing-ratchet.test.ts).      *)
LossyTypes == {"transfer", "transferBounce", "burn", "burnBounce"}

ASSUME TokenAssumption ==
    /\ IsFiniteSet(Owners)
    /\ Treasury \in Owners
    /\ Supply \in Nat \ {0}
    /\ {OutgoingGrace, NotificationTTL, RegistryTTL, MaxTransit, MaxTime,
         MaxInFlight} \subseteq Nat
    /\ Lanes \subseteq AllLanes
    /\ Lossy \subseteq LossyTypes

(* The network is far faster than a day: a message and its answer, or its  *)
(* bounce, both arrive before an entry can be recovered or pruned.         *)
ASSUME GraceAssumption ==
    /\ 2 * MaxTransit <= OutgoingGrace
    /\ 2 * MaxTransit < NotificationTTL
    /\ 2 * MaxTransit < RegistryTTL

VARIABLES
    total_supply, treasury_supply_deployed,      \* ATHMaster
    balance,                                     \* of each wallet
    pending_outgoing_transfers,                  \* of all wallets
    pending_notifications,                       \* of all wallets
    net,               \* messages in flight between wallets and their owners
    burning, unburning,   \* total of the burn notifications of each owner on
                          \* their way to the master, and of those bounced
    vanished,          \* history: the total of the burns lost on their way
    genesisCredit,     \* ATHGenesisSupplyCredit: none, sent or bounced
    now

burnVars == <<burning, unburning, vanished>>
masterVars ==
    <<total_supply, treasury_supply_deployed, burnVars, genesisCredit>>
walletVars == <<balance, pending_outgoing_transfers, pending_notifications>>
vars == <<masterVars, walletVars, net, now>>

-----------------------------------------------------------------------------
Amounts == 1..Supply

(* compute_notify_refund_query_id: a hash no owner-chosen id collides with *)
RefundQueryId(q, sender) == <<q, sender>>
AllQueryIds == QueryIds \cup (QueryIds \X Owners)

(* pending_outgoing_transfers of every wallet, each entry with its wallet  *)
OutgoingEntries ==
    [src : Owners, qid : AllQueryIds, dst : Owners, amount : Amounts,
     created_at : 0..MaxTime]

(* pending_notifications of every wallet, keyed by (query id, sender)      *)
NotificationEntries ==
    [wallet : Owners, qid : QueryIds, sender : Owners, amount : Amounts,
     registry : BOOLEAN, created_at : 0..MaxTime]

(* what travels: the five internal transfers (by lane) and their bounces,  *)
(* the source ACK, and the notification of the recipient's owner           *)
TransfersOf(lanes, ids) ==
    [type : {"transfer", "transferBounce"}, lane : lanes, src : Owners,
     dst : Owners, qid : ids, amount : Amounts, sent : 0..MaxTime]
Transfers ==
    TransfersOf({"plain"}, AllQueryIds) \cup TransfersOf(AllLanes, QueryIds)
Acks ==
    [type : {"ack"}, src : Owners, dst : Owners, qid : AllQueryIds,
     amount : Amounts, sent : 0..MaxTime]
Notifications ==
    [type : {"notification", "notificationBounce"}, wallet : Owners,
     qid : QueryIds, sender : Owners, sent : 0..MaxTime]
Messages == Transfers \cup Acks \cup Notifications

InFlight(type) == {m \in net : m.type = type}

Outgoing(w, q, r) ==
    {e \in pending_outgoing_transfers : e.src = w /\ e.qid = q /\ e.dst = r}
Notification(w, q, s) ==
    {n \in pending_notifications : n.wallet = w /\ n.qid = q /\ n.sender = s}

Transfer(lane, s, r, q, a) ==
    [type |-> "transfer", lane |-> lane, src |-> s, dst |-> r, qid |-> q,
     amount |-> a, sent |-> now]
OutgoingEntry(w, q, r, a) ==
    [src |-> w, qid |-> q, dst |-> r, amount |-> a, created_at |-> now]
SourceAck(m) ==
    [type |-> "ack", src |-> m.dst, dst |-> m.src, qid |-> m.qid,
     amount |-> m.amount, sent |-> now]

Init ==
    /\ total_supply = Supply
    /\ treasury_supply_deployed = FALSE
    /\ balance = [o \in Owners |-> 0]
    /\ pending_outgoing_transfers = {}
    /\ pending_notifications = {}
    /\ net = {}
    /\ burning = [o \in Owners |-> 0]
    /\ unburning = [o \in Owners |-> 0]
    /\ vanished = 0
    /\ genesisCredit = "none"
    /\ now = 0

-----------------------------------------------------------------------------
(* Genesis: the master credits the whole supply to the treasury's wallet.  *)

(* mutant: the guard 14121 is missing                                      *)
DeployTreasurySupplyTwice ==
    /\ genesisCredit = "none"
    /\ total_supply = Supply
    /\ treasury_supply_deployed' = TRUE
    /\ genesisCredit' = "sent"
    /\ UNCHANGED <<total_supply, burnVars, walletVars, net, now>>

(* ATHMaster receive(DeployTreasurySupply)                                 *)
DeployTreasurySupply ==
    /\ ~treasury_supply_deployed
    /\ total_supply = Supply
    /\ treasury_supply_deployed' = TRUE
    /\ genesisCredit' = "sent"
    /\ UNCHANGED <<total_supply, burnVars, walletVars, net, now>>

(* ATHWallet receive(ATHGenesisSupplyCredit)                               *)
GenesisSupplyCredit ==
    /\ genesisCredit = "sent"
    /\ balance[Treasury] = 0
    /\ balance' = [balance EXCEPT ![Treasury] = @ + total_supply]
    /\ genesisCredit' = "none"
    /\ UNCHANGED <<total_supply, treasury_supply_deployed, burnVars,
                   pending_outgoing_transfers, pending_notifications, net, now>>

(* the credit is refused (a balance already there, or out of gas): bounce  *)
RefuseGenesisSupplyCredit ==
    /\ genesisCredit = "sent"
    /\ genesisCredit' = "bounced"
    /\ UNCHANGED <<total_supply, treasury_supply_deployed, burnVars,
                   walletVars, net, now>>

(* ATHMaster bounced(ATHGenesisSupplyCredit)                               *)
BouncedGenesisSupplyCredit ==
    /\ genesisCredit = "bounced"
    /\ genesisCredit' = "none"
    /\ treasury_supply_deployed' = FALSE
    /\ UNCHANGED <<total_supply, burnVars, walletVars, net, now>>

-----------------------------------------------------------------------------
(* Transfers.                                                              *)

(* mutant: store_pending_outgoing keeps the entry it finds                 *)
TransferRequestKeepsEntry(s, r, q, a, lane) ==
    /\ Cardinality(net) < MaxInFlight
    /\ balance[s] >= a
    /\ IF Outgoing(s, q, r) = {}
       THEN pending_outgoing_transfers' =
                pending_outgoing_transfers \cup {OutgoingEntry(s, q, r, a)}
       ELSE UNCHANGED pending_outgoing_transfers
    /\ balance' = [balance EXCEPT ![s] = @ - a]
    /\ net' = net \cup {Transfer(lane, s, r, q, a)}
    /\ UNCHANGED <<masterVars, pending_notifications, now>>

(* The four ATHTransferRequest handlers and JettonTransfer, sent by the    *)
(* owner with enough value: store_pending_outgoing, debit, send.           *)
TransferRequest(s, r, q, a, lane) ==
    /\ Cardinality(net) < MaxInFlight
    /\ balance[s] >= a
    /\ Outgoing(s, q, r) = {}
    /\ pending_outgoing_transfers' =
           pending_outgoing_transfers \cup {OutgoingEntry(s, q, r, a)}
    /\ balance' = [balance EXCEPT ![s] = @ - a]
    /\ net' = net \cup {Transfer(lane, s, r, q, a)}
    /\ UNCHANGED <<masterVars, pending_notifications, now>>

(* receive(ATHInternalTransfer) and receive(JettonInternalTransfer)        *)
InternalTransfer(m) ==
    /\ m.lane = "plain"
    /\ balance' = [balance EXCEPT ![m.dst] = @ + m.amount]
    /\ net' = (net \ {m}) \cup {SourceAck(m)}
    /\ UNCHANGED <<masterVars, pending_outgoing_transfers,
                   pending_notifications, now>>

(* mutant: an entry already pending is kept instead of 14315, 14565, 14665 *)
InternalTransferKeepsNotification(m) ==
    /\ m.lane # "plain"
    /\ balance' = [balance EXCEPT ![m.dst] = @ + m.amount]
    /\ IF Notification(m.dst, m.qid, m.src) = {}
       THEN pending_notifications' = pending_notifications \cup
               {[wallet |-> m.dst, qid |-> m.qid, sender |-> m.src,
                 amount |-> m.amount, registry |-> m.lane = "registry",
                 created_at |-> now]}
       ELSE UNCHANGED pending_notifications
    /\ net' = (net \ {m}) \cup
           {SourceAck(m),
            [type |-> "notification", wallet |-> m.dst, qid |-> m.qid,
             sender |-> m.src, sent |-> now]}
    /\ UNCHANGED <<masterVars, pending_outgoing_transfers, now>>

(* receive(ATHInternalTransferWithNotify) and the two registry lanes: the  *)
(* credit, the pending notification, the owner's notification, the ACK     *)
InternalTransferWithNotify(m) ==
    /\ m.lane # "plain"
    /\ Notification(m.dst, m.qid, m.src) = {}
    /\ balance' = [balance EXCEPT ![m.dst] = @ + m.amount]
    /\ pending_notifications' = pending_notifications \cup
           {[wallet |-> m.dst, qid |-> m.qid, sender |-> m.src,
             amount |-> m.amount, registry |-> m.lane = "registry",
             created_at |-> now]}
    /\ net' = (net \ {m}) \cup
           {SourceAck(m),
            [type |-> "notification", wallet |-> m.dst, qid |-> m.qid,
             sender |-> m.src, sent |-> now]}
    /\ UNCHANGED <<masterVars, pending_outgoing_transfers, now>>

(* a guard of the recipient wallet fails, or it runs out of gas: TON sends *)
(* the message back                                                        *)
RefuseTransfer(m) ==
    /\ net' = (net \ {m}) \cup
           {[m EXCEPT !.type = "transferBounce", !.sent = now]}
    /\ UNCHANGED <<masterVars, walletVars, now>>

(* restore_bounced_outgoing, for the bounce of each internal transfer      *)
RestoreBouncedOutgoing(m) ==
    /\ \E e \in Outgoing(m.src, m.qid, m.dst) :
          /\ e.amount = m.amount
          /\ pending_outgoing_transfers' = pending_outgoing_transfers \ {e}
    /\ balance' = [balance EXCEPT ![m.src] = @ + m.amount]
    /\ net' = net \ {m}
    /\ UNCHANGED <<masterVars, pending_notifications, now>>

(* mutant: the entry is not deleted                                        *)
TransferAckKeepsEntry(m) ==
    /\ \E e \in Outgoing(m.dst, m.qid, m.src) : e.amount = m.amount
    /\ net' = net \ {m}
    /\ UNCHANGED <<masterVars, balance, pending_outgoing_transfers,
                   pending_notifications, now>>

(* receive(ATHTransferAck)                                                 *)
TransferAck(m) ==
    /\ \E e \in Outgoing(m.dst, m.qid, m.src) :
          /\ e.amount = m.amount
          /\ pending_outgoing_transfers' = pending_outgoing_transfers \ {e}
    /\ net' = net \ {m}
    /\ UNCHANGED <<masterVars, balance, pending_notifications, now>>

(* a transfer or its bounce vanishes: the pending entry stays              *)
LoseTransfer(m) ==
    /\ m.type \in Lossy
    /\ net' = net \ {m}
    /\ UNCHANGED <<masterVars, walletVars, now>>

(* mutant: recovery counts from the start of the grace, not from its end   *)
RecoverStuckOutgoingEarly(e) ==
    /\ now > e.created_at
    /\ pending_outgoing_transfers' = pending_outgoing_transfers \ {e}
    /\ balance' = [balance EXCEPT ![e.src] = @ + e.amount]
    /\ UNCHANGED <<masterVars, pending_notifications, net, now>>

(* receive(ATHRecoverStuckOutgoing), which anybody may send                *)
RecoverStuckOutgoing(e) ==
    /\ now > e.created_at + OutgoingGrace
    /\ pending_outgoing_transfers' = pending_outgoing_transfers \ {e}
    /\ balance' = [balance EXCEPT ![e.src] = @ + e.amount]
    /\ UNCHANGED <<masterVars, pending_notifications, net, now>>

-----------------------------------------------------------------------------
(* What the recipient's owner makes of a notification.                     *)

(* refund_pending_notification: the amount goes back as a new transfer; in *)
(* a registry lane under the same query id, otherwise under a fresh one    *)
RefundPendingNotification(n) ==
    LET q == IF n.registry THEN n.qid ELSE RefundQueryId(n.qid, n.sender)
    IN  /\ balance[n.wallet] >= n.amount
        /\ Outgoing(n.wallet, q, n.sender) = {}
        /\ balance' = [balance EXCEPT ![n.wallet] = @ - n.amount]
        /\ pending_notifications' = pending_notifications \ {n}
        /\ pending_outgoing_transfers' = pending_outgoing_transfers \cup
               {OutgoingEntry(n.wallet, q, n.sender, n.amount)}

RefundTransfer(n) ==
    Transfer("plain", n.wallet, n.sender,
             IF n.registry THEN n.qid ELSE RefundQueryId(n.qid, n.sender),
             n.amount)

(* the owner takes the notification without throwing                       *)
NotificationDelivered(m) ==
    /\ net' = net \ {m}
    /\ UNCHANGED <<masterVars, walletVars, now>>

(* the owner throws: TON bounces the notification to the wallet            *)
NotificationRefused(m) ==
    /\ net' = (net \ {m}) \cup
           {[m EXCEPT !.type = "notificationBounce", !.sent = now]}
    /\ UNCHANGED <<masterVars, walletVars, now>>

(* the three bounced(AthTransferNotification...) handlers                  *)
RefundBouncedNotification(m) ==
    /\ \E n \in Notification(m.wallet, m.qid, m.sender) :
          /\ RefundPendingNotification(n)
          /\ net' = (net \ {m}) \cup {RefundTransfer(n)}
    /\ UNCHANGED <<masterVars, now>>

(* the same handlers throwing (or out of gas): the refund never leaves     *)
BouncedNotificationFails(m) ==
    /\ net' = net \ {m}
    /\ UNCHANGED <<masterVars, walletVars, now>>

(* mutant: the refund is sent without taking it off the balance            *)
NotificationRefundUndebited(n) ==
    /\ Outgoing(n.wallet, RefundTransfer(n).qid, n.sender) = {}
    /\ pending_notifications' = pending_notifications \ {n}
    /\ pending_outgoing_transfers' = pending_outgoing_transfers \cup
           {OutgoingEntry(n.wallet, RefundTransfer(n).qid, n.sender, n.amount)}
    /\ net' = net \cup {RefundTransfer(n)}
    /\ UNCHANGED <<masterVars, balance, now>>

(* receive(AthTransferNotificationRefund) from the owner                   *)
NotificationRefund(n) ==
    /\ RefundPendingNotification(n)
    /\ net' = net \cup {RefundTransfer(n)}
    /\ UNCHANGED <<masterVars, now>>

(* receive(AthTransferNotificationAck) from the owner                      *)
NotificationAck(n) ==
    /\ pending_notifications' = pending_notifications \ {n}
    /\ UNCHANGED <<masterVars, balance, pending_outgoing_transfers, net, now>>

TTL(n) == IF n.registry THEN RegistryTTL ELSE NotificationTTL

(* receive(PruneStaleNotification), which anybody may send                 *)
PruneStaleNotification(n) ==
    /\ now >= n.created_at + TTL(n)
    /\ pending_notifications' = pending_notifications \ {n}
    /\ UNCHANGED <<masterVars, balance, pending_outgoing_transfers, net, now>>

-----------------------------------------------------------------------------
(* Burning.                                                                *)

(* mutant: the amount burned stays on the balance                          *)
BurnUndebited(o, a) ==
    /\ Cardinality(net) < MaxInFlight
    /\ balance[o] >= a
    /\ burning' = [burning EXCEPT ![o] = @ + a]
    /\ UNCHANGED <<total_supply, treasury_supply_deployed, unburning, vanished,
                   genesisCredit, walletVars, net, now>>

(* ATHWallet receive(ATHBurn)                                              *)
Burn(o, a) ==
    /\ Cardinality(net) < MaxInFlight
    /\ balance[o] >= a
    /\ balance' = [balance EXCEPT ![o] = @ - a]
    /\ burning' = [burning EXCEPT ![o] = @ + a]
    /\ UNCHANGED <<total_supply, treasury_supply_deployed, unburning, vanished,
                   genesisCredit, pending_outgoing_transfers,
                   pending_notifications, net, now>>

(* ATHMaster receive(ATHBurnNotification)                                  *)
BurnNotification(o, a) ==
    /\ burning[o] >= a
    /\ total_supply >= a
    /\ total_supply' = total_supply - a
    /\ burning' = [burning EXCEPT ![o] = @ - a]
    /\ UNCHANGED <<treasury_supply_deployed, unburning, vanished,
                   genesisCredit, walletVars, net, now>>

(* the master throws or runs out of gas: the burn bounces                  *)
RefuseBurn(o, a) ==
    /\ burning[o] >= a
    /\ burning' = [burning EXCEPT ![o] = @ - a]
    /\ unburning' = [unburning EXCEPT ![o] = @ + a]
    /\ UNCHANGED <<total_supply, treasury_supply_deployed, vanished,
                   genesisCredit, walletVars, net, now>>

(* mutant: the bounce restores the amount and stays                        *)
BouncedBurnTwice(o, a) ==
    /\ unburning[o] >= a
    /\ balance' = [balance EXCEPT ![o] = @ + a]
    /\ UNCHANGED <<total_supply, treasury_supply_deployed, burnVars,
                   genesisCredit, pending_outgoing_transfers,
                   pending_notifications, net, now>>

(* ATHWallet bounced(ATHBurnNotification)                                  *)
BouncedBurn(o, a) ==
    /\ unburning[o] >= a
    /\ balance' = [balance EXCEPT ![o] = @ + a]
    /\ unburning' = [unburning EXCEPT ![o] = @ - a]
    /\ UNCHANGED <<total_supply, treasury_supply_deployed, burning, vanished,
                   genesisCredit, pending_outgoing_transfers,
                   pending_notifications, net, now>>

(* a burn or its bounce vanishes: the amount is neither counted nor given  *)
(* back                                                                    *)
LoseBurn(o, a) ==
    /\ \/ /\ "burn" \in Lossy
          /\ burning[o] >= a
          /\ burning' = [burning EXCEPT ![o] = @ - a]
          /\ UNCHANGED unburning
       \/ /\ "burnBounce" \in Lossy
          /\ unburning[o] >= a
          /\ unburning' = [unburning EXCEPT ![o] = @ - a]
          /\ UNCHANGED burning
    /\ vanished' = vanished + a
    /\ UNCHANGED <<total_supply, treasury_supply_deployed, genesisCredit,
                   walletVars, net, now>>

-----------------------------------------------------------------------------
(* Time passes, but never beyond the transit bound of a message in flight. *)
Tick ==
    /\ now < MaxTime
    /\ \A m \in net : now < m.sent + MaxTransit
    /\ now' = now + 1
    /\ UNCHANGED <<masterVars, walletVars, net>>

Genesis ==
    \/ DeployTreasurySupply
    \/ GenesisSupplyCredit
    \/ RefuseGenesisSupplyCredit
    \/ BouncedGenesisSupplyCredit

Deliver ==
    \/ \E m \in InFlight("transfer") :
          InternalTransfer(m) \/ InternalTransferWithNotify(m)
    \/ \E m \in InFlight("transferBounce") : RestoreBouncedOutgoing(m)
    \/ \E m \in InFlight("ack") : TransferAck(m)

Fail ==
    \/ \E m \in InFlight("transfer") : RefuseTransfer(m)
    \/ \E m \in net : LoseTransfer(m)

Notify ==
    \/ \E m \in InFlight("notification") :
          NotificationDelivered(m) \/ NotificationRefused(m)
    \/ \E m \in InFlight("notificationBounce") :
          RefundBouncedNotification(m) \/ BouncedNotificationFails(m)
    \/ \E n \in pending_notifications :
          NotificationRefund(n) \/ NotificationAck(n) \/ PruneStaleNotification(n)

Burns ==
    \E o \in Owners, a \in Amounts :
        \/ Burn(o, a)
        \/ BurnNotification(o, a)
        \/ RefuseBurn(o, a)
        \/ BouncedBurn(o, a)
        \/ LoseBurn(o, a)

Next ==
    \/ Genesis
    \/ \E s, r \in Owners, q \in QueryIds, a \in Amounts, lane \in Lanes :
          TransferRequest(s, r, q, a, lane)
    \/ Deliver
    \/ Fail
    \/ \E e \in pending_outgoing_transfers : RecoverStuckOutgoing(e)
    \/ Notify
    \/ Burns
    \/ Tick

Spec == Init /\ [][Next]_vars

-----------------------------------------------------------------------------
(* Every variable holds what the contracts' declared types allow; messages *)
(* and pending entries are well formed (ATHWallet's and ATHMaster's state).*)
TypeOK ==
    /\ total_supply \in 0..Supply
    /\ treasury_supply_deployed \in BOOLEAN
    /\ balance \in [Owners -> Nat]
    /\ pending_outgoing_transfers \subseteq OutgoingEntries
    /\ pending_notifications \subseteq NotificationEntries
    /\ net \subseteq Messages
    /\ burning \in [Owners -> Nat]
    /\ unburning \in [Owners -> Nat]
    /\ vanished \in Nat
    /\ genesisCredit \in {"none", "sent", "bounced"}
    /\ now \in 0..MaxTime

(* the entry of pending_outgoing_transfers a message belongs to            *)
Tracks(e, m) ==
    /\ e.qid = m.qid
    /\ e.amount = m.amount
    /\ IF m.type = "ack" THEN e.src = m.dst /\ e.dst = m.src
                         ELSE e.src = m.src /\ e.dst = m.dst

Traffic == {m \in net : m.type \in {"transfer", "transferBounce", "ack"}}

TrackedIn(entries, traffic) ==
    /\ \A e, f \in entries :
          (e.src = f.src /\ e.qid = f.qid /\ e.dst = f.dst) => e = f
    /\ \A m \in traffic : \E e \in entries : Tracks(e, m)
    /\ \A m1, m2 \in traffic, e \in entries :
          (Tracks(e, m1) /\ Tracks(e, m2)) => m1 = m2

(* Each internal transfer, bounce and source ACK in flight answers to one  *)
(* pending entry of its source wallet, of the same amount, and no two of   *)
(* them to the same entry: restore_bounced_outgoing and ATHTransferAck     *)
(* never throw 14221..14223 or 14241..14243, however query ids are reused. *)
TransfersTracked == TrackedIn(pending_outgoing_transfers, Traffic)

(* A pending entry old enough for ATHRecoverStuckOutgoing has no transfer, *)
(* bounce or ACK left in flight: undoing it can neither overtake a credit  *)
(* still to come nor repeat a restoration.                                 *)
NothingInFlightPastGrace ==
    \A e \in pending_outgoing_transfers, m \in Traffic :
        Tracks(e, m) => now <= e.created_at + OutgoingGrace

Notices == InFlight("notification") \cup InFlight("notificationBounce")
Notifies(n, m) == n.wallet = m.wallet /\ n.qid = m.qid /\ n.sender = m.sender

(* A pending notification old enough for PruneStaleNotification has neither *)
(* its notification nor the bounce of it left in flight: pruning never     *)
(* strands a refund that is still to come.                                 *)
NothingInFlightPastTTL ==
    \A n \in pending_notifications, m \in Notices :
        Notifies(n, m) => now < n.created_at + TTL(n)

(* Neither timeout gives up what is still on its way.                      *)
TimeoutsAreLate == NothingInFlightPastGrace /\ NothingInFlightPastTTL

(* The inductive invariant: messages are never late, a transfer leaves     *)
(* with its entry, a notification with its own, and the answer to either   *)
(* leaves within the transit time.                                         *)
OnTime(entries, traffic) ==
    \A e \in entries, m \in traffic :
        Tracks(e, m) => /\ m.type = "transfer" => m.sent = e.created_at
                        /\ m.sent <= e.created_at + MaxTransit

NoticesOnTime(pending, notices) ==
    \A n \in pending, m \in notices :
        Notifies(n, m) => /\ m.type = "notification" => m.sent <= n.created_at
                          /\ m.sent <= n.created_at + MaxTransit

TokenInv ==
    /\ TypeOK
    /\ TransfersTracked
    /\ OnTime(pending_outgoing_transfers, Traffic)
    /\ NoticesOnTime(pending_notifications, Notices)
    /\ \A m \in net : m.sent <= now /\ now <= m.sent + MaxTransit
    /\ genesisCredit # "none" => treasury_supply_deployed

(* the debits not yet credited: their entry is pending and no ACK for it   *)
(* is on its way                                                           *)
Unsettled ==
    {e \in pending_outgoing_transfers :
        ~ \E m \in InFlight("ack") : Tracks(e, m)}
(* The wallets and the master implement the ledger: the payment of a debit *)
(* is in escrow until its internal transfer is credited, restored or       *)
(* recovered, whatever is delayed, refused, reordered or lost on the way.  *)
Payment(e) ==
    [src |-> e.src, dst |-> e.dst, qid |-> e.qid, amount |-> e.amount]
Escrow == {Payment(e) : e \in Unsettled}

Ledger == INSTANCE ATHLedger WITH
    Ids <- AllQueryIds,
    BurnsMayVanish <- Lossy \cap {"burn", "burnBounce"} # {},
    supply <- total_supply,
    issued <- treasury_supply_deployed /\ genesisCredit = "none",
    holding <- balance,
    escrow <- Escrow,
    burning <- [o \in Owners |-> burning[o] + unburning[o]]

ImplementsLedger == Ledger!Spec

(* ATH is neither created nor lost: balances, debits not yet credited and  *)
(* burns not yet counted, with what vanished of these, add up to           *)
(* total_supply once the genesis credit has arrived, and to nothing        *)
(* before; no transfer is credited twice, and ATHRecoverStuckOutgoing      *)
(* never undoes one that was credited.                                     *)
Burning == [o \in Owners |-> burning[o] + unburning[o]]
Accounted ==
    SumFunction(balance) + SumFunction([p \in Escrow |-> p.amount])
        + SumFunction(Burning) + vanished
IsIssued == treasury_supply_deployed /\ genesisCredit = "none"

SupplyKept == Accounted = IF IsIssued THEN total_supply ELSE 0

(* Every debit is settled in the end, if messages are delivered or bounced *)
(* and none is lost: no amount stays out of every balance.                 *)
SettleOf(s, q, r) ==
    \E m \in Traffic :
        /\ m.qid = q
        /\ IF m.type = "ack" THEN m.src = r /\ m.dst = s
                             ELSE m.src = s /\ m.dst = r
        /\ \/ m.type = "transfer" /\ (InternalTransfer(m)
                                         \/ InternalTransferWithNotify(m)
                                         \/ RefuseTransfer(m))
           \/ m.type = "transferBounce" /\ RestoreBouncedOutgoing(m)
           \/ m.type = "ack" /\ TransferAck(m)

DebitsSettle ==
    \A s, r \in Owners, q \in AllQueryIds : []<>(Outgoing(s, q, r) = {})

=============================================================================
