--------------------------- MODULE ATHTokenProofs ---------------------------
(***************************************************************************)
(* Proofs about the ATH token, for every set of owners, supply, set of     *)
(* query ids, clock bound and choice of the messages that may be lost.     *)
(***************************************************************************)
EXTENDS ATHToken, Sums, TLAPS

USE TokenAssumption DEF burnVars

LEMMA BoundsAreNat ==
    /\ OutgoingGrace \in Nat /\ NotificationTTL \in Nat
    /\ RegistryTTL \in Nat /\ MaxTransit \in Nat /\ MaxTime \in Nat
OBVIOUS

LEMMA AmountsAreNat == Amounts \subseteq Nat \ {0}
BY DEF Amounts

(* A transfer just sent is a message, and its entry an entry.              *)
LEMMA TransferIsMessage ==
    ASSUME NEW lane \in AllLanes, NEW s \in Owners, NEW r \in Owners,
           NEW q \in AllQueryIds, NEW a \in Amounts, now \in 0..MaxTime,
           lane = "plain" \/ q \in QueryIds
    PROVE  /\ Transfer(lane, s, r, q, a) \in Messages
           /\ OutgoingEntry(s, q, r, a) \in OutgoingEntries
<1>1. Transfer(lane, s, r, q, a) \in Messages
  <2>1. CASE lane = "plain"
    BY <2>1 DEF Transfer, Messages, Transfers, TransfersOf
  <2>2. CASE q \in QueryIds
    BY <2>2 DEF Transfer, Messages, Transfers, TransfersOf
  <2> QED BY <2>1, <2>2
<1>2. OutgoingEntry(s, q, r, a) \in OutgoingEntries
  BY DEF OutgoingEntry, OutgoingEntries
<1> QED BY <1>1, <1>2

(* What a message of each type is made of.                                 *)
LEMMA MessageFields ==
    ASSUME NEW m \in Messages
    PROVE  /\ m.sent \in 0..MaxTime
           /\ m.type \in {"transfer", "transferBounce"} =>
                /\ m \in Transfers
                /\ m.lane \in AllLanes /\ m.src \in Owners /\ m.dst \in Owners
                /\ m.qid \in AllQueryIds /\ m.amount \in Amounts
                /\ m.lane # "plain" => m.qid \in QueryIds
           /\ m.type = "ack" =>
                /\ m \in Acks
                /\ m.src \in Owners /\ m.dst \in Owners
                /\ m.qid \in AllQueryIds /\ m.amount \in Amounts
           /\ m.type \in {"notification", "notificationBounce"} =>
                /\ m \in Notifications
                /\ m.wallet \in Owners /\ m.sender \in Owners
                /\ m.qid \in QueryIds
<1>1. CASE m \in TransfersOf({"plain"}, AllQueryIds)
  BY <1>1 DEF TransfersOf, Transfers, AllLanes
<1>2. CASE m \in TransfersOf(AllLanes, QueryIds)
  BY <1>2 DEF TransfersOf, Transfers, AllQueryIds
<1>3. CASE m \in Acks
  BY <1>3 DEF Acks
<1>4. CASE m \in Notifications
  BY <1>4 DEF Notifications
<1> QED BY <1>1, <1>2, <1>3, <1>4 DEF Messages, Transfers

-----------------------------------------------------------------------------
(* Type correctness.                                                       *)

LEMMA InitTypeOK == Init => TypeOK
<1> SUFFICES ASSUME Init PROVE TypeOK
  OBVIOUS
<1>1. total_supply \in 0..Supply /\ now \in 0..MaxTime
  BY BoundsAreNat DEF Init
<1>2. /\ balance \in [Owners -> Nat]
      /\ burning \in [Owners -> Nat] /\ unburning \in [Owners -> Nat]
  BY DEF Init
<1>3. /\ pending_outgoing_transfers \subseteq OutgoingEntries
      /\ pending_notifications \subseteq NotificationEntries
      /\ net \subseteq Messages
  BY DEF Init
<1> QED BY <1>1, <1>2, <1>3 DEF Init, TypeOK

LEMMA GenesisTypeOK == TypeOK /\ Genesis => TypeOK'
<1> SUFFICES ASSUME TypeOK, Genesis PROVE TypeOK'
  OBVIOUS
<1>1. CASE DeployTreasurySupply
  BY <1>1 DEF TypeOK, DeployTreasurySupply, walletVars
<1>2. CASE GenesisSupplyCredit
  BY <1>2 DEF TypeOK, GenesisSupplyCredit
<1>3. CASE RefuseGenesisSupplyCredit
  BY <1>3 DEF TypeOK, RefuseGenesisSupplyCredit, walletVars
<1>4. CASE BouncedGenesisSupplyCredit
  BY <1>4 DEF TypeOK, BouncedGenesisSupplyCredit, walletVars
<1> QED BY <1>1, <1>2, <1>3, <1>4 DEF Genesis

LEMMA TransferRequestTypeOK ==
    ASSUME TypeOK, NEW s \in Owners, NEW r \in Owners, NEW q \in QueryIds,
           NEW a \in Amounts, NEW lane \in Lanes,
           TransferRequest(s, r, q, a, lane)
    PROVE  TypeOK'
<1>1. Transfer(lane, s, r, q, a) \in Messages
      /\ OutgoingEntry(s, q, r, a) \in OutgoingEntries
  BY TransferIsMessage DEF TypeOK, AllQueryIds
<1>2. balance' \in [Owners -> Nat]
  BY AmountsAreNat DEF TypeOK, TransferRequest
<1> QED BY <1>1, <1>2 DEF TypeOK, TransferRequest, masterVars

LEMMA DeliverTypeOK == TypeOK /\ Deliver => TypeOK'
<1> SUFFICES ASSUME TypeOK, Deliver PROVE TypeOK'
  OBVIOUS
<1>1. ASSUME NEW m \in InFlight("transfer"), InternalTransfer(m)
      PROVE  TypeOK'
  <2>1. SourceAck(m) \in Messages
    BY MessageFields DEF InFlight, TypeOK, SourceAck, Messages, Acks
  <2>2. m.dst \in Owners /\ m.amount \in Nat
    BY MessageFields, AmountsAreNat DEF InFlight, TypeOK
  <2> QED BY <1>1, <2>1, <2>2 DEF TypeOK, InternalTransfer, masterVars
<1>2. ASSUME NEW m \in InFlight("transfer"), InternalTransferWithNotify(m)
      PROVE  TypeOK'
  <2> DEFINE n == [wallet |-> m.dst, qid |-> m.qid, sender |-> m.src,
                   amount |-> m.amount, registry |-> m.lane = "registry",
                   created_at |-> now]
             x == [type |-> "notification", wallet |-> m.dst, qid |-> m.qid,
                   sender |-> m.src, sent |-> now]
  <2>1. /\ m \in Messages /\ m.type = "transfer" /\ m.lane # "plain"
        /\ now \in 0..MaxTime
    BY <1>2 DEF InFlight, TypeOK, InternalTransferWithNotify
  <2>2. /\ m.dst \in Owners /\ m.src \in Owners /\ m.qid \in QueryIds
        /\ m.qid \in AllQueryIds /\ m.amount \in Amounts
    BY <2>1, MessageFields
  <2>3. SourceAck(m) \in Messages /\ x \in Messages
    BY <2>1, <2>2 DEF SourceAck, Messages, Acks, Notifications
  <2>4. n \in NotificationEntries
    BY <2>1, <2>2 DEF NotificationEntries
  <2>5. m.amount \in Nat
    BY <2>2, AmountsAreNat
  <2> HIDE DEF n, x
  <2>6. /\ balance' = [balance EXCEPT ![m.dst] = @ + m.amount]
        /\ pending_notifications' = pending_notifications \cup {n}
        /\ net' = (net \ {m}) \cup {SourceAck(m), x}
        /\ UNCHANGED <<masterVars, pending_outgoing_transfers, now>>
    BY <1>2 DEF InternalTransferWithNotify, n, x
  <2> QED BY <2>2, <2>3, <2>4, <2>5, <2>6 DEF TypeOK, masterVars
<1>3. ASSUME NEW m \in InFlight("transferBounce"), RestoreBouncedOutgoing(m)
      PROVE  TypeOK'
  <2>1. m.src \in Owners /\ m.amount \in Nat
    BY MessageFields, AmountsAreNat DEF InFlight, TypeOK
  <2> QED BY <1>3, <2>1 DEF TypeOK, RestoreBouncedOutgoing, masterVars
<1>4. ASSUME NEW m \in InFlight("ack"), TransferAck(m)
      PROVE  TypeOK'
  BY <1>4 DEF TypeOK, TransferAck, masterVars
<1> QED BY <1>1, <1>2, <1>3, <1>4 DEF Deliver

LEMMA FailTypeOK == TypeOK /\ Fail => TypeOK'
<1> SUFFICES ASSUME TypeOK, Fail PROVE TypeOK'
  OBVIOUS
<1>1. ASSUME NEW m \in InFlight("transfer"), RefuseTransfer(m)
      PROVE  TypeOK'
  <2> DEFINE b == [m EXCEPT !.type = "transferBounce", !.sent = now]
  <2>1. b \in Messages
    <3>1. m \in Transfers /\ now \in 0..MaxTime
      BY MessageFields DEF InFlight, TypeOK
    <3>2. CASE m \in TransfersOf({"plain"}, AllQueryIds)
      BY <3>1, <3>2 DEF TransfersOf, Transfers, Messages
    <3>3. CASE m \in TransfersOf(AllLanes, QueryIds)
      BY <3>1, <3>3 DEF TransfersOf, Transfers, Messages
    <3> QED BY <3>1, <3>2, <3>3 DEF Transfers
  <2> QED BY <1>1, <2>1 DEF TypeOK, RefuseTransfer, masterVars, walletVars
<1>2. ASSUME NEW m \in net, LoseTransfer(m)
      PROVE  TypeOK'
  BY <1>2 DEF TypeOK, LoseTransfer, masterVars, walletVars
<1> QED BY <1>1, <1>2 DEF Fail

LEMMA RecoverTypeOK ==
    ASSUME TypeOK, NEW e \in pending_outgoing_transfers, RecoverStuckOutgoing(e)
    PROVE  TypeOK'
<1>1. e.src \in Owners /\ e.amount \in Nat
  BY AmountsAreNat DEF TypeOK, OutgoingEntries
<1> QED BY <1>1 DEF TypeOK, RecoverStuckOutgoing, masterVars

(* A refund debits the notified wallet and sends a well-formed transfer.   *)
LEMMA RefundTyped ==
    ASSUME TypeOK, NEW n \in pending_notifications, RefundPendingNotification(n)
    PROVE  /\ balance' \in [Owners -> Nat]
           /\ pending_notifications' \subseteq NotificationEntries
           /\ pending_outgoing_transfers' \subseteq OutgoingEntries
           /\ RefundTransfer(n) \in Messages
<1> DEFINE q == IF n.registry THEN n.qid ELSE RefundQueryId(n.qid, n.sender)
<1>1. /\ n.wallet \in Owners /\ n.sender \in Owners /\ n.qid \in QueryIds
      /\ n.amount \in Amounts /\ n.amount \in Nat
  BY AmountsAreNat DEF TypeOK, NotificationEntries
<1>2. q \in AllQueryIds
  BY <1>1 DEF AllQueryIds, RefundQueryId
<1>3. /\ Transfer("plain", n.wallet, n.sender, q, n.amount) \in Messages
      /\ OutgoingEntry(n.wallet, q, n.sender, n.amount) \in OutgoingEntries
  BY <1>1, <1>2, TransferIsMessage DEF TypeOK, AllLanes
<1>4. RefundTransfer(n) \in Messages
  BY <1>3 DEF RefundTransfer
<1>5. balance' \in [Owners -> Nat]
  BY <1>1 DEF TypeOK, RefundPendingNotification
<1> QED BY <1>3, <1>4, <1>5 DEF TypeOK, RefundPendingNotification

LEMMA NotifyTypeOK == TypeOK /\ Notify => TypeOK'
<1> SUFFICES ASSUME TypeOK, Notify PROVE TypeOK'
  OBVIOUS
<1>1. ASSUME NEW m \in InFlight("notification"), NotificationDelivered(m)
      PROVE  TypeOK'
  BY <1>1 DEF TypeOK, NotificationDelivered, masterVars, walletVars
<1>2. ASSUME NEW m \in InFlight("notification"), NotificationRefused(m)
      PROVE  TypeOK'
  <2>1. [m EXCEPT !.type = "notificationBounce", !.sent = now] \in Messages
    BY MessageFields DEF InFlight, TypeOK, Notifications, Messages
  <2> QED BY <1>2, <2>1 DEF TypeOK, NotificationRefused, masterVars, walletVars
<1>3. ASSUME NEW m \in InFlight("notificationBounce"),
             RefundBouncedNotification(m)
      PROVE  TypeOK'
  <2>1. PICK n \in Notification(m.wallet, m.qid, m.sender) :
            /\ RefundPendingNotification(n)
            /\ net' = (net \ {m}) \cup {RefundTransfer(n)}
    BY <1>3 DEF RefundBouncedNotification
  <2>2. n \in pending_notifications
    BY DEF Notification
  <2>3. UNCHANGED <<masterVars, now>>
    BY <1>3 DEF RefundBouncedNotification
  <2> QED BY <2>1, <2>2, <2>3, RefundTyped DEF TypeOK, masterVars
<1>4. ASSUME NEW m \in InFlight("notificationBounce"),
             BouncedNotificationFails(m)
      PROVE  TypeOK'
  BY <1>4 DEF TypeOK, BouncedNotificationFails, masterVars, walletVars
<1>5. ASSUME NEW n \in pending_notifications, NotificationRefund(n)
      PROVE  TypeOK'
  <2>1. /\ RefundPendingNotification(n)
        /\ net' = net \cup {RefundTransfer(n)}
        /\ UNCHANGED <<masterVars, now>>
    BY <1>5 DEF NotificationRefund
  <2> QED BY <2>1, RefundTyped DEF TypeOK, masterVars
<1>6. ASSUME NEW n \in pending_notifications,
             NotificationAck(n) \/ PruneStaleNotification(n)
      PROVE  TypeOK'
  BY <1>6 DEF TypeOK, NotificationAck, PruneStaleNotification, masterVars
<1> QED BY <1>1, <1>2, <1>3, <1>4, <1>5, <1>6 DEF Notify

LEMMA BurnsTypeOK == TypeOK /\ Burns => TypeOK'
<1> SUFFICES ASSUME TypeOK, NEW o \in Owners, NEW a \in Amounts,
                    \/ Burn(o, a)
                    \/ BurnNotification(o, a)
                    \/ RefuseBurn(o, a)
                    \/ BouncedBurn(o, a)
                    \/ LoseBurn(o, a)
             PROVE  TypeOK'
  BY DEF Burns
<1>1. a \in Nat
  BY AmountsAreNat
<1>2. CASE Burn(o, a)
  BY <1>1, <1>2 DEF TypeOK, Burn
<1>3. CASE BurnNotification(o, a)
  BY <1>1, <1>3 DEF TypeOK, BurnNotification, walletVars
<1>4. CASE RefuseBurn(o, a)
  BY <1>1, <1>4 DEF TypeOK, RefuseBurn, walletVars
<1>5. CASE BouncedBurn(o, a)
  BY <1>1, <1>5 DEF TypeOK, BouncedBurn
<1>6. CASE LoseBurn(o, a)
  <2>1. /\ burning' \in [Owners -> Nat] /\ unburning' \in [Owners -> Nat]
        /\ vanished' \in Nat
    BY <1>1, <1>6 DEF TypeOK, LoseBurn
  <2> QED BY <1>6, <2>1 DEF TypeOK, LoseBurn, walletVars
<1> QED BY <1>2, <1>3, <1>4, <1>5, <1>6

LEMMA TickTypeOK == TypeOK /\ Tick => TypeOK'
<1> SUFFICES ASSUME TypeOK, Tick PROVE TypeOK'
  OBVIOUS
<1>1. now' \in 0..MaxTime
  BY BoundsAreNat DEF TypeOK, Tick
<1> QED BY <1>1 DEF TypeOK, Tick, masterVars, walletVars

LEMMA NextTypeOK == TypeOK /\ [Next]_vars => TypeOK'
<1> SUFFICES ASSUME TypeOK, [Next]_vars PROVE TypeOK'
  OBVIOUS
<1>1. CASE UNCHANGED vars
  BY <1>1 DEF TypeOK, vars, masterVars, walletVars
<1>2. CASE Next
  BY <1>2, GenesisTypeOK, TransferRequestTypeOK, DeliverTypeOK, FailTypeOK,
     RecoverTypeOK, NotifyTypeOK, BurnsTypeOK, TickTypeOK DEF Next
<1> QED BY <1>1, <1>2

(* Every reachable state is well typed: ATHWallet's and ATHMaster's        *)
(* balances and supply never leave their range (no subtraction underflows).*)
THEOREM TypeCorrect == Spec => []TypeOK
<1> QED BY InitTypeOK, NextTypeOK, PTL DEF Spec

-----------------------------------------------------------------------------
(* How pending entries and the traffic they track evolve together.  Each   *)
(* lemma is one way a handler changes the two.                             *)

MayFollow(e, m) ==
    /\ m.type = "transfer" => m.sent = e.created_at
    /\ m.sent <= e.created_at + MaxTransit

Ordered(entries, traffic) ==
    TrackedIn(entries, traffic) /\ OnTime(entries, traffic)

(* A debit adds an entry under a free key, and its transfer.               *)
LEMMA DebitOrdered ==
    ASSUME NEW P, NEW T, Ordered(P, T),
           NEW e, NEW m,
           Tracks(e, m), MayFollow(e, m), m.type # "ack",
           \A f \in P : ~(f.src = e.src /\ f.qid = e.qid /\ f.dst = e.dst)
    PROVE  Ordered(P \cup {e}, T \cup {m})
<1>1. \A x \in T : ~Tracks(e, x)
  BY DEF Ordered, TrackedIn, Tracks
<1>2. \A f \in P : ~Tracks(f, m)
  BY DEF Tracks
<1>3. TrackedIn(P \cup {e}, T \cup {m})
  <2>1. \A x, y \in P \cup {e} :
            (x.src = y.src /\ x.qid = y.qid /\ x.dst = y.dst) => x = y
    BY DEF Ordered, TrackedIn
  <2>2. \A x \in T \cup {m} : \E f \in P \cup {e} : Tracks(f, x)
    BY DEF Ordered, TrackedIn
  <2>3. \A x, y \in T \cup {m}, f \in P \cup {e} :
            (Tracks(f, x) /\ Tracks(f, y)) => x = y
    BY <1>1, <1>2 DEF Ordered, TrackedIn
  <2> QED BY <2>1, <2>2, <2>3 DEF TrackedIn
<1>4. OnTime(P \cup {e}, T \cup {m})
  BY <1>1, <1>2 DEF Ordered, OnTime, MayFollow
<1> QED BY <1>3, <1>4 DEF Ordered

(* An answer (the ACK or the bounce) takes the place of a transfer.        *)
LEMMA AnswerOrdered ==
    ASSUME NEW P, NEW T, Ordered(P, T),
           NEW m \in T, NEW b,
           \A e \in P : Tracks(e, b) <=> Tracks(e, m),
           \A e \in P : Tracks(e, m) => MayFollow(e, b)
    PROVE  Ordered(P, (T \ {m}) \cup {b})
<1>1. \A e \in P, x \in T \ {m} : ~(Tracks(e, x) /\ Tracks(e, b))
  BY DEF Ordered, TrackedIn
<1>2. TrackedIn(P, (T \ {m}) \cup {b})
  <2>1. \A x \in (T \ {m}) \cup {b} : \E f \in P : Tracks(f, x)
    BY DEF Ordered, TrackedIn
  <2>2. \A x, y \in (T \ {m}) \cup {b}, f \in P :
            (Tracks(f, x) /\ Tracks(f, y)) => x = y
    BY <1>1 DEF Ordered, TrackedIn
  <2> QED BY <2>1, <2>2 DEF TrackedIn, Ordered
<1>3. OnTime(P, (T \ {m}) \cup {b})
  BY DEF Ordered, OnTime, MayFollow
<1> QED BY <1>2, <1>3 DEF Ordered

(* The entry of an answer is deleted with it.                              *)
LEMMA SettledOrdered ==
    ASSUME NEW P, NEW T, Ordered(P, T), NEW m \in T, NEW e \in P, Tracks(e, m)
    PROVE  Ordered(P \ {e}, T \ {m})
<1>1. \A x \in T \ {m} : \E f \in P \ {e} : Tracks(f, x)
  BY DEF Ordered, TrackedIn
<1> QED BY <1>1 DEF Ordered, TrackedIn, OnTime

(* An entry that nothing in flight belongs to is deleted.                  *)
LEMMA RecoveredOrdered ==
    ASSUME NEW P, NEW T, Ordered(P, T), NEW e \in P,
           \A m \in T : ~Tracks(e, m)
    PROVE  Ordered(P \ {e}, T)
BY DEF Ordered, TrackedIn, OnTime

(* Messages vanish.                                                        *)
LEMMA LostOrdered ==
    ASSUME NEW P, NEW T, NEW U, Ordered(P, T), U \subseteq T
    PROVE  Ordered(P, U)
BY DEF Ordered, TrackedIn, OnTime

-----------------------------------------------------------------------------
(* The inductive invariant.                                                *)

OrderedNow == Ordered(pending_outgoing_transfers, Traffic)
NoticesNow == NoticesOnTime(pending_notifications, Notices)
Punctual == \A m \in net : m.sent <= now /\ now <= m.sent + MaxTransit
Deployed == genesisCredit # "none" => treasury_supply_deployed

LEMMA TokenInvParts ==
    TokenInv <=> TypeOK /\ OrderedNow /\ NoticesNow /\ Punctual /\ Deployed
BY DEF TokenInv, OrderedNow, NoticesNow, Punctual, Deployed, Ordered,
       TransfersTracked

(* Every message is old or just sent.                                      *)
LEMMA PunctualKept ==
    ASSUME TypeOK, Punctual, now' = now,
           \A m \in net' : m \in net \/ m.sent = now
    PROVE  Punctual'
<1>1. now \in Nat /\ MaxTransit \in Nat
  BY BoundsAreNat DEF TypeOK
<1> QED BY <1>1 DEF Punctual

(* Nothing new is notified.                                                *)
LEMMA NoticesKept ==
    ASSUME NoticesNow, pending_notifications' \subseteq pending_notifications,
           Notices' \subseteq Notices
    PROVE  NoticesNow'
BY DEF NoticesNow, NoticesOnTime, Notifies

LEMMA InitTokenInv == Init => TokenInv
<1> SUFFICES ASSUME Init PROVE TokenInv
  OBVIOUS
<1>1. TypeOK
  BY InitTypeOK
<1>2. Traffic = {} /\ Notices = {}
  BY DEF Init, Traffic, Notices, InFlight
<1>3. OrderedNow
  BY <1>2 DEF Init, OrderedNow, Ordered, TrackedIn, OnTime
<1>4. NoticesNow /\ Punctual /\ Deployed
  BY <1>2 DEF Init, NoticesNow, NoticesOnTime, Punctual, Deployed
<1> QED BY <1>1, <1>3, <1>4, TokenInvParts

(* The genesis, burns and the passage of time leave entries and messages.  *)
LEMMA QuietTokenInv ==
    ASSUME TokenInv,
           UNCHANGED <<pending_outgoing_transfers, pending_notifications, net>>
    PROVE  OrderedNow' /\ NoticesNow'
<1>1. Traffic' = Traffic /\ Notices' = Notices
  BY DEF Traffic, Notices, InFlight
<1> QED BY <1>1, TokenInvParts DEF OrderedNow, NoticesNow

LEMMA TickPunctual ==
    ASSUME TokenInv, Tick
    PROVE  Punctual'
<1>1. now \in Nat /\ MaxTransit \in Nat
  BY BoundsAreNat DEF TokenInv, TypeOK
<1>2. \A m \in net : m.sent \in Nat
  BY MessageFields, BoundsAreNat DEF TokenInv, TypeOK
<1> QED BY <1>1, <1>2 DEF TokenInv, Tick, Punctual

(* A debit: the new entry and its transfer.                                *)
LEMMA DebitOrderedNow ==
    ASSUME TokenInv,
           NEW lane \in AllLanes, NEW s \in Owners, NEW r \in Owners,
           NEW q \in AllQueryIds, NEW a \in Amounts,
           Outgoing(s, q, r) = {},
           pending_outgoing_transfers' =
               pending_outgoing_transfers \cup {OutgoingEntry(s, q, r, a)},
           Traffic' = Traffic \cup {Transfer(lane, s, r, q, a)}
    PROVE  OrderedNow'
<1> DEFINE e == OutgoingEntry(s, q, r, a)
           m == Transfer(lane, s, r, q, a)
<1>1. now \in Nat /\ MaxTransit \in Nat
  BY BoundsAreNat DEF TokenInv, TypeOK
<1>2. Tracks(e, m) /\ m.type # "ack"
  BY DEF Tracks, OutgoingEntry, Transfer
<1>3. MayFollow(e, m)
  BY <1>1 DEF MayFollow, OutgoingEntry, Transfer
<1>4. \A f \in pending_outgoing_transfers :
          ~(f.src = e.src /\ f.qid = e.qid /\ f.dst = e.dst)
  BY DEF Outgoing, OutgoingEntry
<1>5. Ordered(pending_outgoing_transfers, Traffic)
  BY TokenInvParts DEF OrderedNow
<1> HIDE DEF e, m
<1>6. Ordered(pending_outgoing_transfers \cup {e}, Traffic \cup {m})
  BY <1>2, <1>3, <1>4, <1>5, DebitOrdered
<1> QED BY <1>6 DEF OrderedNow, e, m

LEMMA TransferRequestTokenInv ==
    ASSUME TokenInv, NEW s \in Owners, NEW r \in Owners, NEW q \in QueryIds,
           NEW a \in Amounts, NEW lane \in Lanes,
           TransferRequest(s, r, q, a, lane)
    PROVE  OrderedNow' /\ NoticesNow' /\ Punctual'
<1>1. /\ net' = net \cup {Transfer(lane, s, r, q, a)}
      /\ UNCHANGED <<pending_notifications, now>>
      /\ Outgoing(s, q, r) = {}
      /\ pending_outgoing_transfers' =
             pending_outgoing_transfers \cup {OutgoingEntry(s, q, r, a)}
  BY DEF TransferRequest
<1>2. /\ Transfer(lane, s, r, q, a).type = "transfer"
      /\ Transfer(lane, s, r, q, a).sent = now
  BY DEF Transfer
<1>3. /\ Traffic' = Traffic \cup {Transfer(lane, s, r, q, a)}
      /\ Notices' = Notices
  BY <1>1, <1>2 DEF Traffic, Notices, InFlight
<1>4. OrderedNow'
  BY <1>1, <1>3, DebitOrderedNow DEF AllQueryIds
<1>5. NoticesNow'
  BY <1>1, <1>3, TokenInvParts, NoticesKept
<1>6. Punctual'
  BY <1>1, <1>2, TokenInvParts, PunctualKept
<1> QED BY <1>4, <1>5, <1>6

(* A message answered by another of the three that carry an amount.        *)
LEMMA AnswerOrderedNow ==
    ASSUME TokenInv, NEW m \in InFlight("transfer"), NEW b,
           b.sent = now, b.type \in {"ack", "transferBounce"},
           \A e \in pending_outgoing_transfers : Tracks(e, b) <=> Tracks(e, m),
           UNCHANGED pending_outgoing_transfers,
           Traffic' = (Traffic \ {m}) \cup {b}
    PROVE  OrderedNow'
<1>1. now \in Nat /\ MaxTransit \in Nat
  BY BoundsAreNat DEF TokenInv, TypeOK
<1>2. m \in Traffic /\ m \in net /\ m.type = "transfer"
  BY DEF Traffic, InFlight
<1>3. now <= m.sent + MaxTransit
  BY <1>2 DEF TokenInv
<1>4. ASSUME NEW e \in pending_outgoing_transfers, Tracks(e, m)
      PROVE  MayFollow(e, b)
  <2>1. m.sent = e.created_at
    BY <1>2, <1>4 DEF TokenInv, OnTime
  <2> QED BY <1>3, <2>1 DEF MayFollow
<1>5. Ordered(pending_outgoing_transfers, Traffic)
  BY TokenInvParts DEF OrderedNow
<1>6. Ordered(pending_outgoing_transfers, (Traffic \ {m}) \cup {b})
  BY <1>2, <1>4, <1>5, AnswerOrdered
<1> QED BY <1>6 DEF OrderedNow

LEMMA InternalTransferTokenInv ==
    ASSUME TokenInv, NEW m \in InFlight("transfer"), InternalTransfer(m)
    PROVE  OrderedNow' /\ NoticesNow' /\ Punctual'
<1>1. /\ net' = (net \ {m}) \cup {SourceAck(m)}
      /\ UNCHANGED <<pending_outgoing_transfers, pending_notifications, now>>
  BY DEF InternalTransfer
<1>2. SourceAck(m).type = "ack" /\ SourceAck(m).sent = now
  BY DEF SourceAck
<1>3. m \in net /\ m.type = "transfer"
  BY DEF InFlight
<1>4. /\ Traffic' = (Traffic \ {m}) \cup {SourceAck(m)}
      /\ Notices' = Notices
  BY <1>1, <1>2, <1>3 DEF Traffic, Notices, InFlight
<1>5. \A e \in pending_outgoing_transfers :
          Tracks(e, SourceAck(m)) <=> Tracks(e, m)
  BY <1>3 DEF Tracks, SourceAck
<1>6. OrderedNow'
  BY <1>1, <1>2, <1>4, <1>5, AnswerOrderedNow
<1>7. NoticesNow'
  BY <1>1, <1>4, TokenInvParts, NoticesKept
<1>8. Punctual'
  BY <1>1, <1>2, TokenInvParts, PunctualKept
<1> QED BY <1>6, <1>7, <1>8

LEMMA InternalTransferWithNotifyTokenInv ==
    ASSUME TokenInv, NEW m \in InFlight("transfer"),
           InternalTransferWithNotify(m)
    PROVE  OrderedNow' /\ NoticesNow' /\ Punctual'
<1> DEFINE n == [wallet |-> m.dst, qid |-> m.qid, sender |-> m.src,
                 amount |-> m.amount, registry |-> m.lane = "registry",
                 created_at |-> now]
           x == [type |-> "notification", wallet |-> m.dst, qid |-> m.qid,
                 sender |-> m.src, sent |-> now]
<1>1. /\ net' = (net \ {m}) \cup {SourceAck(m), x}
      /\ pending_notifications' = pending_notifications \cup {n}
      /\ UNCHANGED <<pending_outgoing_transfers, now>>
      /\ Notification(m.dst, m.qid, m.src) = {}
  BY DEF InternalTransferWithNotify
<1>2. /\ SourceAck(m).type = "ack" /\ SourceAck(m).sent = now
      /\ x.type = "notification" /\ x.sent = now
  BY DEF SourceAck
<1>3. m \in net /\ m.type = "transfer"
  BY DEF InFlight
<1>4. now \in Nat /\ MaxTransit \in Nat
  BY BoundsAreNat DEF TokenInv, TypeOK
<1>5. n.created_at = now /\ \A k \in pending_notifications : ~Notifies(k, x)
  BY <1>1 DEF Notification, Notifies
<1> HIDE DEF n, x
<1>6. /\ Traffic' = (Traffic \ {m}) \cup {SourceAck(m)}
      /\ Notices' = Notices \cup {x}
  BY <1>1, <1>2, <1>3 DEF Traffic, Notices, InFlight
<1>7. \A e \in pending_outgoing_transfers :
          Tracks(e, SourceAck(m)) <=> Tracks(e, m)
  BY <1>3 DEF Tracks, SourceAck
<1>8. OrderedNow'
  BY <1>1, <1>2, <1>6, <1>7, AnswerOrderedNow
<1>9. NoticesNow'
  <2>1. \A y \in Notices : y.sent \in Nat /\ y.sent <= now
    BY MessageFields, BoundsAreNat
       DEF Notices, InFlight, TokenInv, TypeOK
  <2>2. ASSUME NEW k \in pending_notifications \cup {n},
               NEW y \in Notices \cup {x}, Notifies(k, y)
        PROVE  /\ y.type = "notification" => y.sent <= k.created_at
               /\ y.sent <= k.created_at + MaxTransit
    <3>1. CASE k = n
      BY <1>2, <1>4, <1>5, <2>1, <3>1
    <3>2. CASE k \in pending_notifications /\ y \in Notices
      BY <2>2, <3>2 DEF TokenInv, NoticesOnTime
    <3> QED BY <1>5, <2>2, <3>1, <3>2
  <2> QED BY <1>1, <1>6, <2>2 DEF NoticesNow, NoticesOnTime
<1>10. Punctual'
  BY <1>1, <1>2, TokenInvParts, PunctualKept
<1> QED BY <1>8, <1>9, <1>10

LEMMA RefuseTransferTokenInv ==
    ASSUME TokenInv, NEW m \in InFlight("transfer"), RefuseTransfer(m)
    PROVE  OrderedNow' /\ NoticesNow' /\ Punctual'
<1> DEFINE b == [m EXCEPT !.type = "transferBounce", !.sent = now]
<1>1. /\ net' = (net \ {m}) \cup {b}
      /\ UNCHANGED <<pending_outgoing_transfers, pending_notifications, now>>
  BY DEF RefuseTransfer, walletVars
<1>2. m \in net /\ m.type = "transfer" /\ m \in Transfers
  BY MessageFields DEF InFlight, TokenInv, TypeOK
<1>3. /\ b.type = "transferBounce" /\ b.sent = now
      /\ b.src = m.src /\ b.dst = m.dst /\ b.qid = m.qid /\ b.amount = m.amount
  <2>1. CASE m \in TransfersOf({"plain"}, AllQueryIds)
    BY <2>1 DEF TransfersOf
  <2>2. CASE m \in TransfersOf(AllLanes, QueryIds)
    BY <2>2 DEF TransfersOf
  <2> QED BY <1>2, <2>1, <2>2 DEF Transfers
<1> HIDE DEF b
<1>4. /\ Traffic' = (Traffic \ {m}) \cup {b}
      /\ Notices' = Notices
  BY <1>1, <1>2, <1>3 DEF Traffic, Notices, InFlight
<1>5. \A e \in pending_outgoing_transfers : Tracks(e, b) <=> Tracks(e, m)
  BY <1>2, <1>3 DEF Tracks
<1>6. OrderedNow'
  BY <1>1, <1>3, <1>4, <1>5, AnswerOrderedNow
<1>7. NoticesNow'
  BY <1>1, <1>4, TokenInvParts, NoticesKept
<1>8. Punctual'
  BY <1>1, <1>3, TokenInvParts, PunctualKept
<1> QED BY <1>6, <1>7, <1>8

(* restore_bounced_outgoing and ATHTransferAck: entry and answer go.       *)
LEMMA SettleTokenInv ==
    ASSUME TokenInv, NEW m \in net,
           \/ m.type = "transferBounce" /\ RestoreBouncedOutgoing(m)
           \/ m.type = "ack" /\ TransferAck(m)
    PROVE  OrderedNow' /\ NoticesNow' /\ Punctual'
<1>1. PICK e \in pending_outgoing_transfers :
          /\ Tracks(e, m)
          /\ pending_outgoing_transfers' = pending_outgoing_transfers \ {e}
  BY DEF RestoreBouncedOutgoing, TransferAck, Outgoing, Tracks
<1>2. /\ net' = net \ {m}
      /\ UNCHANGED <<pending_notifications, now>>
  BY DEF RestoreBouncedOutgoing, TransferAck
<1>3. m \in Traffic /\ Traffic' = Traffic \ {m} /\ Notices' = Notices
  BY <1>2 DEF Traffic, Notices, InFlight
<1>4. OrderedNow'
  BY <1>1, <1>3, TokenInvParts, SettledOrdered DEF OrderedNow
<1>5. NoticesNow'
  BY <1>2, <1>3, TokenInvParts, NoticesKept
<1>6. Punctual'
  BY <1>2, TokenInvParts, PunctualKept
<1> QED BY <1>4, <1>5, <1>6

LEMMA LoseTransferTokenInv ==
    ASSUME TokenInv, NEW m \in net, LoseTransfer(m)
    PROVE  OrderedNow' /\ NoticesNow' /\ Punctual'
<1>1. /\ net' = net \ {m}
      /\ UNCHANGED <<pending_outgoing_transfers, pending_notifications, now>>
  BY DEF LoseTransfer, walletVars
<1>2. Traffic' \subseteq Traffic /\ Notices' \subseteq Notices
  BY <1>1 DEF Traffic, Notices, InFlight
<1>3. OrderedNow'
  BY <1>1, <1>2, TokenInvParts, LostOrdered DEF OrderedNow
<1>4. NoticesNow' /\ Punctual'
  BY <1>1, <1>2, TokenInvParts, NoticesKept, PunctualKept
<1> QED BY <1>3, <1>4

(* What the grace is for: nothing in flight belongs to an entry that may   *)
(* be recovered, nor to a notification that may be pruned.                 *)
LEMMA TokenInvGrace ==
    ASSUME TokenInv
    PROVE  NothingInFlightPastGrace /\ NothingInFlightPastTTL
<1>1. /\ now \in Nat /\ MaxTransit \in Nat /\ OutgoingGrace \in Nat
      /\ NotificationTTL \in Nat /\ RegistryTTL \in Nat
  BY BoundsAreNat DEF TokenInv, TypeOK
<1>2. ASSUME NEW e \in pending_outgoing_transfers, NEW m \in Traffic,
             Tracks(e, m)
      PROVE  now <= e.created_at + OutgoingGrace
  <2>1. m \in net /\ m.sent \in Nat /\ e.created_at \in Nat
    BY MessageFields, BoundsAreNat
       DEF Traffic, TokenInv, TypeOK, OutgoingEntries
  <2>2. m.sent <= e.created_at + MaxTransit /\ now <= m.sent + MaxTransit
    BY <1>2, <2>1 DEF TokenInv, OnTime
  <2> QED BY <1>1, <2>1, <2>2, GraceAssumption
<1>3. ASSUME NEW n \in pending_notifications, NEW m \in Notices,
             Notifies(n, m)
      PROVE  now < n.created_at + TTL(n)
  <2>1. m \in net /\ m.sent \in Nat /\ n.created_at \in Nat
    BY MessageFields, BoundsAreNat
       DEF Notices, InFlight, TokenInv, TypeOK, NotificationEntries
  <2>2. m.sent <= n.created_at + MaxTransit /\ now <= m.sent + MaxTransit
    BY <1>3, <2>1 DEF TokenInv, NoticesOnTime
  <2> QED BY <1>1, <2>1, <2>2, GraceAssumption DEF TTL
<1> QED BY <1>2, <1>3 DEF NothingInFlightPastGrace, NothingInFlightPastTTL

LEMMA RecoverTokenInv ==
    ASSUME TokenInv, NEW e \in pending_outgoing_transfers,
           RecoverStuckOutgoing(e)
    PROVE  OrderedNow' /\ NoticesNow' /\ Punctual'
<1>1. /\ pending_outgoing_transfers' = pending_outgoing_transfers \ {e}
      /\ UNCHANGED <<pending_notifications, net, now>>
      /\ now > e.created_at + OutgoingGrace
  BY DEF RecoverStuckOutgoing
<1>2. Traffic' = Traffic /\ Notices' = Notices
  BY <1>1 DEF Traffic, Notices, InFlight
<1>3. now \in Nat /\ e.created_at \in Nat /\ OutgoingGrace \in Nat
  BY BoundsAreNat DEF TokenInv, TypeOK, OutgoingEntries
<1>4. \A m \in Traffic : ~Tracks(e, m)
  BY <1>1, <1>3, TokenInvGrace DEF NothingInFlightPastGrace
<1>5. OrderedNow'
  BY <1>1, <1>2, <1>4, TokenInvParts, RecoveredOrdered DEF OrderedNow
<1>6. NoticesNow' /\ Punctual'
  BY <1>1, <1>2, TokenInvParts, NoticesKept, PunctualKept
<1> QED BY <1>5, <1>6

(* A refund is a debit of the notified wallet.                             *)
LEMMA RefundTokenInv ==
    ASSUME TokenInv, NEW n \in pending_notifications,
           RefundPendingNotification(n), UNCHANGED now,
           NEW M, M \cap Traffic = {},
           net' = (net \ M) \cup {RefundTransfer(n)}
    PROVE  OrderedNow' /\ NoticesNow' /\ Punctual'
<1> DEFINE q == IF n.registry THEN n.qid ELSE RefundQueryId(n.qid, n.sender)
<1>1. /\ n.wallet \in Owners /\ n.sender \in Owners
      /\ n.qid \in QueryIds /\ n.amount \in Amounts
  BY DEF TokenInv, TypeOK, NotificationEntries
<1>2. q \in AllQueryIds
  BY <1>1 DEF AllQueryIds, RefundQueryId
<1>3. RefundTransfer(n) = Transfer("plain", n.wallet, n.sender, q, n.amount)
  BY DEF RefundTransfer
<1>4. /\ Outgoing(n.wallet, q, n.sender) = {}
      /\ pending_notifications' = pending_notifications \ {n}
      /\ pending_outgoing_transfers' = pending_outgoing_transfers \cup
             {OutgoingEntry(n.wallet, q, n.sender, n.amount)}
  BY DEF RefundPendingNotification
<1>5. RefundTransfer(n).type = "transfer" /\ RefundTransfer(n).sent = now
  BY DEF RefundTransfer, Transfer
<1>6. Traffic' = Traffic \cup {RefundTransfer(n)} /\ Notices' \subseteq Notices
  BY <1>5 DEF Traffic, Notices, InFlight
<1>7. OrderedNow'
  BY <1>1, <1>2, <1>3, <1>4, <1>6, DebitOrderedNow DEF AllLanes
<1>8. NoticesNow' /\ Punctual'
  BY <1>4, <1>5, <1>6, TokenInvParts, NoticesKept, PunctualKept
<1> QED BY <1>7, <1>8

LEMMA NotifyTokenInv ==
    ASSUME TokenInv, Notify
    PROVE  OrderedNow' /\ NoticesNow' /\ Punctual'
<1>1. ASSUME NEW m \in InFlight("notification")
                       \cup InFlight("notificationBounce"),
             NotificationDelivered(m) \/ BouncedNotificationFails(m)
      PROVE  OrderedNow' /\ NoticesNow' /\ Punctual'
  <2>1. /\ net' = net \ {m}
        /\ UNCHANGED <<pending_outgoing_transfers, pending_notifications, now>>
    BY <1>1 DEF NotificationDelivered, BouncedNotificationFails, walletVars
  <2>2. Traffic' \subseteq Traffic /\ Notices' \subseteq Notices
    BY <2>1 DEF Traffic, Notices, InFlight
  <2>3. OrderedNow'
    BY <2>1, <2>2, TokenInvParts, LostOrdered DEF OrderedNow
  <2>4. NoticesNow' /\ Punctual'
    BY <2>1, <2>2, TokenInvParts, NoticesKept, PunctualKept
  <2> QED BY <2>3, <2>4
<1>2. ASSUME NEW m \in InFlight("notification"), NotificationRefused(m)
      PROVE  OrderedNow' /\ NoticesNow' /\ Punctual'
  <2> DEFINE b == [m EXCEPT !.type = "notificationBounce", !.sent = now]
  <2>1. /\ net' = (net \ {m}) \cup {b}
        /\ UNCHANGED <<pending_outgoing_transfers, pending_notifications, now>>
    BY <1>2 DEF NotificationRefused, walletVars
  <2>2. m \in net /\ m.type = "notification" /\ m \in Notifications
    BY MessageFields DEF InFlight, TokenInv, TypeOK
  <2>3. /\ b.type = "notificationBounce" /\ b.sent = now
        /\ b.wallet = m.wallet /\ b.qid = m.qid /\ b.sender = m.sender
    BY <2>2 DEF Notifications
  <2> HIDE DEF b
  <2>4. /\ Traffic' = Traffic
        /\ Notices' = (Notices \ {m}) \cup {b}
    BY <2>1, <2>2, <2>3 DEF Traffic, Notices, InFlight
  <2>5. OrderedNow'
    BY <2>1, <2>4, TokenInvParts DEF OrderedNow
  <2>6. now \in Nat /\ MaxTransit \in Nat /\ m.sent \in Nat
        /\ \A n \in pending_notifications : n.created_at \in Nat
    BY <2>2, MessageFields, BoundsAreNat
       DEF TokenInv, TypeOK, NotificationEntries
  <2>7. m \in Notices /\ now <= m.sent + MaxTransit
    BY <2>2 DEF Notices, InFlight, TokenInv
  <2>8. ASSUME NEW n \in pending_notifications, Notifies(n, b)
        PROVE  b.sent <= n.created_at + MaxTransit
    <3>1. Notifies(n, m)
      BY <2>3, <2>8 DEF Notifies
    <3>2. m.sent <= n.created_at
      BY <2>2, <2>7, <3>1 DEF TokenInv, NoticesOnTime
    <3> QED BY <2>3, <2>6, <2>7, <3>2
  <2>9. NoticesNow'
    BY <2>1, <2>3, <2>4, <2>8 DEF TokenInv, NoticesNow, NoticesOnTime
  <2>10. Punctual'
    BY <2>1, <2>3, TokenInvParts, PunctualKept
  <2> QED BY <2>5, <2>9, <2>10
<1>3. ASSUME NEW m \in InFlight("notificationBounce"),
             RefundBouncedNotification(m)
      PROVE  OrderedNow' /\ NoticesNow' /\ Punctual'
  <2>1. PICK n \in pending_notifications :
            /\ RefundPendingNotification(n)
            /\ net' = (net \ {m}) \cup {RefundTransfer(n)}
    BY <1>3 DEF RefundBouncedNotification, Notification
  <2>2. UNCHANGED now /\ {m} \cap Traffic = {}
    BY <1>3 DEF RefundBouncedNotification, InFlight, Traffic
  <2> QED BY <2>1, <2>2, RefundTokenInv
<1>4. ASSUME NEW n \in pending_notifications, NotificationRefund(n)
      PROVE  OrderedNow' /\ NoticesNow' /\ Punctual'
  <2>1. /\ RefundPendingNotification(n) /\ UNCHANGED now
        /\ net' = (net \ {}) \cup {RefundTransfer(n)}
    BY <1>4 DEF NotificationRefund
  <2>2. {} \cap Traffic = {}
    OBVIOUS
  <2> QED BY <2>1, <2>2, RefundTokenInv
<1>5. ASSUME NEW n \in pending_notifications,
             NotificationAck(n) \/ PruneStaleNotification(n)
      PROVE  OrderedNow' /\ NoticesNow' /\ Punctual'
  <2>1. /\ pending_notifications' \subseteq pending_notifications
        /\ UNCHANGED <<pending_outgoing_transfers, net, now>>
    BY <1>5 DEF NotificationAck, PruneStaleNotification
  <2>2. Traffic' = Traffic /\ Notices' = Notices
    BY <2>1 DEF Traffic, Notices, InFlight
  <2> QED BY <2>1, <2>2, TokenInvParts, NoticesKept, PunctualKept DEF OrderedNow
<1> QED BY <1>1, <1>2, <1>3, <1>4, <1>5 DEF Notify

LEMMA DeployedKept == TokenInv /\ [Next]_vars => Deployed'
<1> SUFFICES ASSUME Deployed, [Next]_vars PROVE Deployed'
  BY TokenInvParts
<1>1. CASE Genesis
  BY <1>1 DEF Genesis, DeployTreasurySupply, GenesisSupplyCredit,
     RefuseGenesisSupplyCredit, BouncedGenesisSupplyCredit, Deployed
<1>2. CASE Next /\ ~Genesis
  <2>1. UNCHANGED <<genesisCredit, treasury_supply_deployed>>
    BY <1>2 DEF Next, TransferRequest, Deliver, InternalTransfer,
       InternalTransferWithNotify, RestoreBouncedOutgoing, TransferAck, Fail,
       RefuseTransfer, LoseTransfer, RecoverStuckOutgoing, Notify,
       NotificationDelivered, NotificationRefused, RefundBouncedNotification,
       BouncedNotificationFails, NotificationRefund, NotificationAck,
       PruneStaleNotification, Burns, Burn, BurnNotification, RefuseBurn,
       BouncedBurn, LoseBurn, Tick, masterVars
  <2> QED BY <2>1 DEF Deployed
<1>3. CASE UNCHANGED vars
  BY <1>3 DEF vars, masterVars, Deployed
<1> QED BY <1>1, <1>2, <1>3

LEMMA NextTokenInv == TokenInv /\ [Next]_vars => TokenInv'
<1> SUFFICES ASSUME TokenInv, [Next]_vars
             PROVE  OrderedNow' /\ NoticesNow' /\ Punctual'
  <2>1. TokenInv' <=> /\ TypeOK' /\ OrderedNow' /\ NoticesNow' /\ Punctual'
                      /\ Deployed'
    BY DEF TokenInv, OrderedNow, NoticesNow, Punctual, Deployed, Ordered,
           TransfersTracked
  <2> QED BY <2>1, NextTypeOK, DeployedKept DEF TokenInv
<1>1. CASE UNCHANGED vars
  <2>1. UNCHANGED <<pending_outgoing_transfers, pending_notifications, net, now>>
    BY <1>1 DEF vars, walletVars
  <2> QED BY <2>1, QuietTokenInv, PunctualKept, TokenInvParts
<1>2. CASE Genesis \/ Burns
  <2>1. UNCHANGED <<pending_outgoing_transfers, pending_notifications, net, now>>
    BY <1>2 DEF Genesis, DeployTreasurySupply, GenesisSupplyCredit,
         RefuseGenesisSupplyCredit, BouncedGenesisSupplyCredit, Burns, Burn,
         BurnNotification, RefuseBurn, BouncedBurn, LoseBurn, walletVars
  <2> QED BY <2>1, QuietTokenInv, PunctualKept, TokenInvParts
<1>3. CASE Tick
  <2>1. UNCHANGED <<pending_outgoing_transfers, pending_notifications, net>>
    BY <1>3 DEF Tick, walletVars
  <2> QED BY <1>3, <2>1, QuietTokenInv, TickPunctual
<1>4. CASE \E s, r \in Owners, q \in QueryIds, a \in Amounts, lane \in Lanes :
              TransferRequest(s, r, q, a, lane)
  BY <1>4, TransferRequestTokenInv
<1>5. CASE Deliver
  <2>1. ASSUME NEW m \in InFlight("transferBounce"), RestoreBouncedOutgoing(m)
        PROVE  OrderedNow' /\ NoticesNow' /\ Punctual'
    BY <2>1, SettleTokenInv DEF InFlight
  <2>2. ASSUME NEW m \in InFlight("ack"), TransferAck(m)
        PROVE  OrderedNow' /\ NoticesNow' /\ Punctual'
    BY <2>2, SettleTokenInv DEF InFlight
  <2> QED BY <1>5, <2>1, <2>2, InternalTransferTokenInv,
             InternalTransferWithNotifyTokenInv DEF Deliver
<1>6. CASE Fail
  BY <1>6, RefuseTransferTokenInv, LoseTransferTokenInv DEF Fail
<1>7. CASE \E e \in pending_outgoing_transfers : RecoverStuckOutgoing(e)
  BY <1>7, RecoverTokenInv
<1>8. CASE Notify
  BY <1>8, NotifyTokenInv
<1> QED BY <1>1, <1>2, <1>3, <1>4, <1>5, <1>6, <1>7, <1>8 DEF Next

(* The inductive invariant holds in every reachable state.                 *)
THEOREM TokenInvariant == Spec => []TokenInv
<1> QED BY InitTokenInv, NextTokenInv, PTL DEF Spec

(* restore_bounced_outgoing and ATHTransferAck always find the one entry   *)
(* they answer to, whatever query ids owners reuse.                        *)
THEOREM TransfersAreTracked == Spec => []TransfersTracked
<1>1. TokenInv => TransfersTracked
  BY DEF TokenInv
<1> QED BY <1>1, TokenInvariant, PTL

(* ATHRecoverStuckOutgoing never undoes what is still on its way, and      *)
(* PruneStaleNotification never strands a refund, if the network is fast.  *)
THEOREM RecoveryIsLate == Spec => []TimeoutsAreLate
<1>1. TokenInv => TimeoutsAreLate
  BY TokenInvGrace DEF TimeoutsAreLate
<1> QED BY <1>1, TokenInvariant, PTL

-----------------------------------------------------------------------------
(* The wallets and their master implement the ledger of ATHLedger: with    *)
(* escrow the debits whose ACK is not yet on its way, every step of        *)
(* ATHToken is a step of the ledger or changes nothing there.              *)

AcksInFlight == InFlight("ack")
IsAcked(e) == \E m \in AcksInFlight : Tracks(e, m)

LEMMA EscrowDef ==
    /\ Unsettled = {e \in pending_outgoing_transfers : ~IsAcked(e)}
    /\ Escrow = {Payment(e) : e \in Unsettled}
BY DEF Unsettled, IsAcked, AcksInFlight, Escrow

(* Payments are told apart by the key of their entry.                      *)
LEMMA PaymentKey ==
    ASSUME NEW e, NEW f, Payment(e) = Payment(f)
    PROVE  e.src = f.src /\ e.dst = f.dst /\ e.qid = f.qid
<1>1. /\ Payment(e).src = e.src /\ Payment(e).dst = e.dst /\ Payment(e).qid = e.qid
      /\ Payment(f).src = f.src /\ Payment(f).dst = f.dst /\ Payment(f).qid = f.qid
  BY DEF Payment
<1> QED BY <1>1

LEMMA PaymentTyped ==
    ASSUME NEW e \in OutgoingEntries
    PROVE  /\ Payment(e) \in Ledger!Payments
           /\ Payment(e).src = e.src /\ Payment(e).dst = e.dst
           /\ Payment(e).qid = e.qid /\ Payment(e).amount = e.amount
BY DEF Payment, OutgoingEntries, Ledger!Payments, Ledger!Amounts, Amounts

LEMMA UnsettledTyped ==
    ASSUME TypeOK
    PROVE  Unsettled \subseteq OutgoingEntries
BY DEF TypeOK, Unsettled

(* Entries and ACKs of the same key.                                       *)
LEMMA OneEntryEach ==
    ASSUME TokenInv, NEW e \in pending_outgoing_transfers,
           NEW f \in pending_outgoing_transfers, NEW m \in Traffic,
           Tracks(e, m), Tracks(f, m)
    PROVE  e = f
BY DEF TokenInv, TransfersTracked, TrackedIn, Tracks

(* One payment leaves escrow.                                              *)
LEMMA EscrowSettles ==
    ASSUME TokenInv, NEW e \in Unsettled, Unsettled' = Unsettled \ {e}
    PROVE  /\ Payment(e) \in Escrow
           /\ Escrow' = Escrow \ {Payment(e)}
<1>1. \A f \in Unsettled : Payment(f) = Payment(e) => f = e
  <2>1. Unsettled \subseteq pending_outgoing_transfers
    BY DEF Unsettled
  <2> QED BY <2>1, PaymentKey DEF TokenInv, TransfersTracked, TrackedIn
<1>2. Escrow' = {Payment(f) : f \in Unsettled'}
  BY DEF Escrow, Payment
<1> QED BY <1>1, <1>2 DEF Escrow

(* One payment enters escrow.                                              *)
LEMMA EscrowDebits ==
    ASSUME TokenInv, NEW e, Unsettled' = Unsettled \cup {e},
           Outgoing(e.src, e.qid, e.dst) = {}
    PROVE  /\ Escrow' = Escrow \cup {Payment(e)}
           /\ \A x \in Escrow :
                 <<x.src, x.dst, x.qid>> # <<e.src, e.dst, e.qid>>
<1>1. Escrow' = {Payment(f) : f \in Unsettled'}
  BY DEF Escrow, Payment
<1>2. ASSUME NEW f \in Unsettled
      PROVE  <<Payment(f).src, Payment(f).dst, Payment(f).qid>>
                # <<e.src, e.dst, e.qid>>
  <2>1. f \in pending_outgoing_transfers
    BY DEF Unsettled
  <2>2. ~(f.src = e.src /\ f.qid = e.qid /\ f.dst = e.dst)
    BY <2>1 DEF Outgoing
  <2> QED BY <2>2 DEF Payment
<1> QED BY <1>1, <1>2 DEF Escrow

(* Debits: what TransferRequest and the refunds of notifications share.    *)
LEMMA DebitUnsettled ==
    ASSUME TokenInv, NEW s, NEW q, NEW r, NEW a,
           Outgoing(s, q, r) = {},
           pending_outgoing_transfers' =
               pending_outgoing_transfers \cup {OutgoingEntry(s, q, r, a)},
           AcksInFlight' = AcksInFlight
    PROVE  Unsettled' = Unsettled \cup {OutgoingEntry(s, q, r, a)}
<1> DEFINE e == OutgoingEntry(s, q, r, a)
<1>1. \A f \in pending_outgoing_transfers :
          ~(f.src = e.src /\ f.qid = e.qid /\ f.dst = e.dst)
  BY DEF Outgoing, OutgoingEntry
<1>2. AcksInFlight \subseteq Traffic
  BY DEF AcksInFlight, InFlight, Traffic
<1> HIDE DEF e
<1>3. ~IsAcked(e)
  <2>1. ASSUME NEW m \in AcksInFlight, Tracks(e, m)
        PROVE  FALSE
    <3>1. PICK f \in pending_outgoing_transfers : Tracks(f, m)
      BY <1>2 DEF TokenInv, TransfersTracked, TrackedIn
    <3> QED BY <1>1, <2>1, <3>1 DEF Tracks
  <2> QED BY <2>1 DEF IsAcked
<1>4. pending_outgoing_transfers' = pending_outgoing_transfers \cup {e}
  BY DEF e
<1>5. Unsettled' = {f \in pending_outgoing_transfers \cup {e} : ~IsAcked(f)}
  BY <1>4 DEF Unsettled, IsAcked, AcksInFlight
<1>6. Unsettled' = Unsettled \cup {e}
  BY <1>3, <1>5, EscrowDef
<1> QED BY <1>6 DEF e

LEMMA DebitStep ==
    ASSUME TokenInv, NEW s \in Owners, NEW r \in Owners, NEW q \in AllQueryIds,
           NEW a \in Amounts,
           Outgoing(s, q, r) = {}, balance[s] >= a,
           balance' = [balance EXCEPT ![s] = @ - a],
           pending_outgoing_transfers' =
               pending_outgoing_transfers \cup {OutgoingEntry(s, q, r, a)},
           AcksInFlight' = AcksInFlight,
           UNCHANGED masterVars
    PROVE  Ledger!Next
<1> DEFINE e == OutgoingEntry(s, q, r, a)
<1>1. /\ e.src = s /\ e.dst = r /\ e.qid = q /\ e.amount = a
      /\ e \in OutgoingEntries
  BY TransferIsMessage DEF TokenInv, TypeOK, OutgoingEntry, OutgoingEntries
<1>2. Unsettled' = Unsettled \cup {e}
  BY DebitUnsettled
<1> HIDE DEF e
<1>3. /\ Escrow' = Escrow \cup {Payment(e)}
      /\ \A x \in Escrow : <<x.src, x.dst, x.qid>> # <<e.src, e.dst, e.qid>>
  BY <1>1, <1>2, EscrowDebits
<1>4. /\ Payment(e) \in Ledger!Payments
      /\ Payment(e).src = s /\ Payment(e).dst = r
      /\ Payment(e).qid = q /\ Payment(e).amount = a
  BY <1>1, PaymentTyped
<1>5. Ledger!Debit(Payment(e))
  BY <1>1, <1>3, <1>4 DEF Ledger!Debit, masterVars
<1> QED BY <1>4, <1>5 DEF Ledger!Next

-----------------------------------------------------------------------------
(* A debit settled, to the payee or back to the payer.                     *)
LEMMA SettleStep ==
    ASSUME TokenInv, NEW e \in Unsettled, NEW o \in {e.src, e.dst},
           Unsettled' = Unsettled \ {e},
           balance' = [balance EXCEPT ![o] = @ + e.amount],
           UNCHANGED masterVars
    PROVE  Ledger!Next
<1>1. e \in OutgoingEntries
  BY UnsettledTyped DEF TokenInv
<1>2. /\ Payment(e).src = e.src /\ Payment(e).dst = e.dst
      /\ Payment(e).amount = e.amount /\ o \in Owners
  BY <1>1, PaymentTyped DEF OutgoingEntries
<1>3. Payment(e) \in Escrow /\ Escrow' = Escrow \ {Payment(e)}
  BY EscrowSettles
<1>4. Ledger!Settle(Payment(e), o)
  BY <1>2, <1>3 DEF Ledger!Settle, masterVars
<1> QED BY <1>2, <1>3, <1>4 DEF Ledger!Next

(* Nothing the ledger sees changes.                                        *)
LEMMA StutterStep ==
    ASSUME Unsettled' = Unsettled, UNCHANGED <<masterVars, balance>>
    PROVE  UNCHANGED Ledger!vars
<1>1. Escrow' = Escrow
  BY DEF Escrow, Payment
<1> QED BY <1>1 DEF Ledger!vars, masterVars

LEMMA SameUnsettled ==
    ASSUME UNCHANGED pending_outgoing_transfers, AcksInFlight' = AcksInFlight
    PROVE  Unsettled' = Unsettled
BY DEF Unsettled, AcksInFlight

LEMMA CreditRefines ==
    ASSUME TokenInv, NEW m \in InFlight("transfer"),
           InternalTransfer(m) \/ InternalTransferWithNotify(m)
    PROVE  Ledger!Next
<1>1. m \in Traffic /\ m.type = "transfer"
  BY DEF InFlight, Traffic
<1>2. PICK e \in pending_outgoing_transfers : Tracks(e, m)
  BY <1>1 DEF TokenInv, TransfersTracked, TrackedIn
<1>3. e.dst = m.dst /\ e.amount = m.amount
  BY <1>1, <1>2 DEF Tracks
<1>4. /\ AcksInFlight' = AcksInFlight \cup {SourceAck(m)}
      /\ UNCHANGED <<pending_outgoing_transfers, masterVars>>
      /\ balance' = [balance EXCEPT ![m.dst] = @ + m.amount]
  <2>1. SourceAck(m).type = "ack"
    BY DEF SourceAck
  <2> QED BY <1>1, <2>1 DEF InternalTransfer, InternalTransferWithNotify,
               AcksInFlight, InFlight
<1>5. \A f \in pending_outgoing_transfers : Tracks(f, SourceAck(m)) <=> f = e
  <2>1. \A f \in pending_outgoing_transfers :
            Tracks(f, SourceAck(m)) <=> Tracks(f, m)
    BY <1>1 DEF Tracks, SourceAck
  <2> QED BY <1>1, <1>2, <2>1, OneEntryEach
<1>6. ~IsAcked(e)
  <2>1. AcksInFlight \subseteq Traffic /\ m \notin AcksInFlight
    BY <1>1 DEF AcksInFlight, InFlight, Traffic
  <2> QED BY <1>1, <1>2, <2>1 DEF IsAcked, TokenInv, TransfersTracked, TrackedIn
<1>7. Unsettled' = Unsettled \ {e}
  <2>1. Unsettled' = {f \in pending_outgoing_transfers :
                        ~ \E x \in AcksInFlight \cup {SourceAck(m)} : Tracks(f, x)}
    BY <1>4 DEF Unsettled, AcksInFlight
  <2> QED BY <1>5, <2>1, EscrowDef DEF IsAcked
<1>8. e \in Unsettled
  BY <1>6, EscrowDef
<1> QED BY <1>3, <1>4, <1>7, <1>8, SettleStep

LEMMA RestoreRefines ==
    ASSUME TokenInv, NEW m \in InFlight("transferBounce"),
           RestoreBouncedOutgoing(m)
    PROVE  Ledger!Next
<1>1. m \in Traffic /\ m.type = "transferBounce"
  BY DEF InFlight, Traffic
<1>2. PICK e \in pending_outgoing_transfers :
          /\ Tracks(e, m)
          /\ pending_outgoing_transfers' = pending_outgoing_transfers \ {e}
  BY <1>1 DEF RestoreBouncedOutgoing, Outgoing, Tracks
<1>3. e.src = m.src /\ e.amount = m.amount
  BY <1>1, <1>2 DEF Tracks
<1>4. /\ AcksInFlight' = AcksInFlight
      /\ UNCHANGED masterVars
      /\ balance' = [balance EXCEPT ![m.src] = @ + m.amount]
  BY <1>1 DEF RestoreBouncedOutgoing, AcksInFlight, InFlight
<1>5. AcksInFlight \subseteq Traffic /\ m \notin AcksInFlight
  BY <1>1 DEF AcksInFlight, InFlight, Traffic
<1>6. e \in Unsettled
  BY <1>1, <1>2, <1>5, EscrowDef
     DEF IsAcked, TokenInv, TransfersTracked, TrackedIn
<1>7. Unsettled' = Unsettled \ {e}
  BY <1>2, <1>4 DEF Unsettled, AcksInFlight
<1> QED BY <1>3, <1>4, <1>6, <1>7, SettleStep

LEMMA RecoverRefines ==
    ASSUME TokenInv, NEW e \in pending_outgoing_transfers,
           RecoverStuckOutgoing(e)
    PROVE  Ledger!Next
<1>1. /\ pending_outgoing_transfers' = pending_outgoing_transfers \ {e}
      /\ balance' = [balance EXCEPT ![e.src] = @ + e.amount]
      /\ AcksInFlight' = AcksInFlight
      /\ UNCHANGED masterVars
      /\ now > e.created_at + OutgoingGrace
  BY DEF RecoverStuckOutgoing, AcksInFlight, InFlight
<1>2. now \in Nat /\ e.created_at \in Nat /\ OutgoingGrace \in Nat
  BY BoundsAreNat DEF TokenInv, TypeOK, OutgoingEntries
<1>3. \A m \in Traffic : ~Tracks(e, m)
  BY <1>1, <1>2, TokenInvGrace DEF NothingInFlightPastGrace
<1>4. AcksInFlight \subseteq Traffic
  BY DEF AcksInFlight, InFlight, Traffic
<1>5. e \in Unsettled
  BY <1>3, <1>4, EscrowDef DEF IsAcked
<1>6. Unsettled' = Unsettled \ {e}
  BY <1>1 DEF Unsettled, AcksInFlight
<1> QED BY <1>1, <1>5, <1>6, SettleStep

LEMMA AckStutters ==
    ASSUME TokenInv, NEW m \in InFlight("ack"), TransferAck(m)
    PROVE  UNCHANGED Ledger!vars
<1>1. m \in Traffic /\ m.type = "ack" /\ m \in AcksInFlight
  BY DEF InFlight, Traffic, AcksInFlight
<1>2. PICK e \in pending_outgoing_transfers :
          /\ Tracks(e, m)
          /\ pending_outgoing_transfers' = pending_outgoing_transfers \ {e}
  BY <1>1 DEF TransferAck, Outgoing, Tracks
<1>3. /\ AcksInFlight' = AcksInFlight \ {m}
      /\ UNCHANGED <<masterVars, balance>>
  BY DEF TransferAck, AcksInFlight, InFlight
<1>4. IsAcked(e)
  BY <1>1, <1>2 DEF IsAcked
<1>5. \A f \in pending_outgoing_transfers : f # e => ~Tracks(f, m)
  BY <1>1, <1>2, OneEntryEach
<1>6. Unsettled' = {f \in pending_outgoing_transfers \ {e} :
                      ~ \E x \in AcksInFlight \ {m} : Tracks(f, x)}
  BY <1>2, <1>3 DEF Unsettled, AcksInFlight
<1>7. Unsettled' = Unsettled
  BY <1>4, <1>5, <1>6, EscrowDef DEF IsAcked
<1> QED BY <1>3, <1>7, StutterStep

LEMMA RefundRefines ==
    ASSUME TokenInv, NEW n \in pending_notifications,
           RefundPendingNotification(n), UNCHANGED masterVars,
           AcksInFlight' = AcksInFlight
    PROVE  Ledger!Next
<1> DEFINE q == IF n.registry THEN n.qid ELSE RefundQueryId(n.qid, n.sender)
<1>1. /\ n.wallet \in Owners /\ n.sender \in Owners
      /\ n.qid \in QueryIds /\ n.amount \in Amounts
  BY DEF TokenInv, TypeOK, NotificationEntries
<1>2. q \in AllQueryIds
  BY <1>1 DEF AllQueryIds, RefundQueryId
<1>3. /\ Outgoing(n.wallet, q, n.sender) = {}
      /\ balance[n.wallet] >= n.amount
      /\ balance' = [balance EXCEPT ![n.wallet] = @ - n.amount]
      /\ pending_outgoing_transfers' = pending_outgoing_transfers \cup
             {OutgoingEntry(n.wallet, q, n.sender, n.amount)}
  BY DEF RefundPendingNotification
<1> QED BY <1>1, <1>2, <1>3, DebitStep

LEMMA NotifyRefines ==
    ASSUME TokenInv, Notify
    PROVE  Ledger!Next \/ UNCHANGED Ledger!vars
<1>1. ASSUME NEW m \in net, m.type # "ack",
             \/ NotificationDelivered(m)
             \/ NotificationRefused(m) /\ m.type = "notification"
             \/ BouncedNotificationFails(m)
      PROVE  UNCHANGED Ledger!vars
  <2>1. CASE NotificationRefused(m) /\ m.type = "notification"
    <3>1. m \in Notifications
      BY <2>1, MessageFields DEF TokenInv, TypeOK
    <3>2. [m EXCEPT !.type = "notificationBounce", !.sent = now].type # "ack"
      BY <3>1 DEF Notifications
    <3>3. AcksInFlight' = AcksInFlight
      BY <1>1, <2>1, <3>2 DEF NotificationRefused, AcksInFlight, InFlight
    <3> QED BY <2>1, <3>3, SameUnsettled, StutterStep
            DEF NotificationRefused, walletVars
  <2>2. CASE NotificationDelivered(m) \/ BouncedNotificationFails(m)
    <3>1. AcksInFlight' = AcksInFlight
      BY <1>1, <2>2 DEF NotificationDelivered, BouncedNotificationFails,
         AcksInFlight, InFlight
    <3> QED BY <2>2, <3>1, SameUnsettled, StutterStep
            DEF NotificationDelivered, BouncedNotificationFails, walletVars
  <2> QED BY <1>1, <2>1, <2>2
<1>2. ASSUME NEW m \in InFlight("notificationBounce"),
             RefundBouncedNotification(m)
      PROVE  Ledger!Next
  <2>1. PICK n \in pending_notifications :
            /\ RefundPendingNotification(n)
            /\ net' = (net \ {m}) \cup {RefundTransfer(n)}
    BY <1>2 DEF RefundBouncedNotification, Notification
  <2>2. RefundTransfer(n).type # "ack" /\ m.type # "ack"
    BY DEF RefundTransfer, Transfer, InFlight
  <2>3. AcksInFlight' = AcksInFlight
    BY <2>1, <2>2 DEF AcksInFlight, InFlight
  <2> QED BY <1>2, <2>1, <2>3, RefundRefines DEF RefundBouncedNotification
<1>3. ASSUME NEW n \in pending_notifications, NotificationRefund(n)
      PROVE  Ledger!Next
  <2>1. RefundTransfer(n).type # "ack"
    BY DEF RefundTransfer, Transfer
  <2>2. AcksInFlight' = AcksInFlight
    BY <1>3, <2>1 DEF NotificationRefund, AcksInFlight, InFlight
  <2> QED BY <1>3, <2>2, RefundRefines DEF NotificationRefund
<1>4. ASSUME NEW n \in pending_notifications,
             NotificationAck(n) \/ PruneStaleNotification(n)
      PROVE  UNCHANGED Ledger!vars
  BY <1>4, SameUnsettled, StutterStep
     DEF NotificationAck, PruneStaleNotification, AcksInFlight, InFlight
<1> QED BY <1>1, <1>2, <1>3, <1>4 DEF Notify, InFlight

LEMMA AcksAreNotLost == "ack" \notin Lossy
<1>1. Lossy \subseteq LossyTypes
  BY TokenAssumption
<1> QED BY <1>1 DEF LossyTypes

LEMMA FailRefines ==
    ASSUME TokenInv, Fail
    PROVE  UNCHANGED Ledger!vars
<1>1. ASSUME NEW m \in InFlight("transfer"), RefuseTransfer(m)
      PROVE  UNCHANGED Ledger!vars
  <2>1. m.type = "transfer" /\ m \in Transfers
    BY MessageFields DEF InFlight, TokenInv, TypeOK
  <2>2. [m EXCEPT !.type = "transferBounce", !.sent = now].type # "ack"
    BY <2>1 DEF Transfers, TransfersOf
  <2>3. AcksInFlight' = AcksInFlight
    BY <1>1, <2>1, <2>2 DEF RefuseTransfer, AcksInFlight, InFlight
  <2> QED BY <1>1, <2>3, SameUnsettled, StutterStep
          DEF RefuseTransfer, walletVars
<1>2. ASSUME NEW m \in net, LoseTransfer(m)
      PROVE  UNCHANGED Ledger!vars
  <2>1. m.type # "ack"
    BY <1>2, AcksAreNotLost DEF LoseTransfer
  <2>2. AcksInFlight' = AcksInFlight
    BY <1>2, <2>1 DEF LoseTransfer, AcksInFlight, InFlight
  <2> QED BY <1>2, <2>2, SameUnsettled, StutterStep DEF LoseTransfer, walletVars
<1> QED BY <1>1, <1>2 DEF Fail

LEMMA GenesisRefines ==
    ASSUME TokenInv, Genesis
    PROVE  Ledger!Next \/ UNCHANGED Ledger!vars
<1>1. /\ UNCHANGED <<total_supply, burnVars>>
      /\ Unsettled' = Unsettled
  BY SameUnsettled DEF Genesis, DeployTreasurySupply, GenesisSupplyCredit,
     RefuseGenesisSupplyCredit, BouncedGenesisSupplyCredit, walletVars,
     AcksInFlight, InFlight
<1>2. Escrow' = Escrow
  BY <1>1 DEF Escrow, Payment
<1>3. CASE GenesisSupplyCredit
  <2>1. treasury_supply_deployed
    BY <1>3 DEF GenesisSupplyCredit, TokenInv
  <2>2. Ledger!Issue
    BY <1>1, <1>2, <1>3, <2>1 DEF GenesisSupplyCredit, Ledger!Issue
  <2> QED BY <2>2 DEF Ledger!Next
<1>4. CASE DeployTreasurySupply \/ RefuseGenesisSupplyCredit
              \/ BouncedGenesisSupplyCredit
  <2>1. UNCHANGED balance
    BY <1>4 DEF DeployTreasurySupply, RefuseGenesisSupplyCredit,
       BouncedGenesisSupplyCredit, walletVars
  <2>2. ~IsIssued /\ ~IsIssued'
    BY <1>4 DEF DeployTreasurySupply, RefuseGenesisSupplyCredit,
       BouncedGenesisSupplyCredit, IsIssued
  <2> QED BY <1>1, <1>2, <2>1, <2>2 DEF IsIssued, Ledger!vars
<1> QED BY <1>3, <1>4 DEF Genesis

LEMMA BurnsRefine ==
    ASSUME TokenInv, Burns
    PROVE  Ledger!Next \/ UNCHANGED Ledger!vars
<1>1. PICK o \in Owners, a \in Amounts :
          \/ Burn(o, a)
          \/ BurnNotification(o, a)
          \/ RefuseBurn(o, a)
          \/ BouncedBurn(o, a)
          \/ LoseBurn(o, a)
  BY DEF Burns
<1>2. /\ a \in Nat /\ a \in Ledger!Amounts
      /\ burning \in [Owners -> Nat] /\ unburning \in [Owners -> Nat]
  BY AmountsAreNat DEF TokenInv, TypeOK, Ledger!Amounts, Amounts
<1>3. /\ UNCHANGED <<treasury_supply_deployed, genesisCredit>>
      /\ Unsettled' = Unsettled
  BY <1>1, SameUnsettled DEF Burn, BurnNotification, RefuseBurn, BouncedBurn,
     LoseBurn, walletVars, AcksInFlight, InFlight
<1>4. Escrow' = Escrow
  BY <1>3 DEF Escrow, Payment
<1>5. CASE Burn(o, a)
  <2>1. Burning' = [Burning EXCEPT ![o] = @ + a]
    <3>1. \A x \in Owners : burning'[x] + unburning'[x] =
              IF x = o THEN burning[x] + unburning[x] + a
                       ELSE burning[x] + unburning[x]
      BY <1>2, <1>5 DEF Burn
    <3>2. burning[o] \in Nat /\ unburning[o] \in Nat
      BY <1>2
    <3> QED BY <1>2, <3>1 DEF Burning
  <2>2. Ledger!GiveUp(o, a)
    BY <1>3, <1>4, <1>5, <2>1 DEF Burn, Burning, Ledger!GiveUp
  <2> QED BY <1>2, <2>2 DEF Ledger!Next
<1>6. CASE BurnNotification(o, a)
  <2>1. Burning' = [Burning EXCEPT ![o] = @ - a] /\ Burning[o] >= a
    <3>1. \A x \in Owners : burning'[x] + unburning'[x] =
              IF x = o THEN (burning[x] + unburning[x]) - a
                       ELSE burning[x] + unburning[x]
      BY <1>2, <1>6 DEF BurnNotification
    <3>2. burning[o] \in Nat /\ unburning[o] \in Nat
      BY <1>2
    <3>3. burning[o] + unburning[o] >= a
      BY <1>2, <1>6, <3>2 DEF BurnNotification
    <3>4. Burning' = [Burning EXCEPT ![o] = @ - a]
      BY <3>1 DEF Burning
    <3> QED BY <3>3, <3>4 DEF Burning
  <2>2. Ledger!Destroy(o, a)
    BY <1>3, <1>4, <1>6, <2>1
       DEF BurnNotification, walletVars, Burning, Ledger!Destroy
  <2> QED BY <1>2, <2>2 DEF Ledger!Next
<1>7. CASE RefuseBurn(o, a)
  <2>1. Burning' = Burning
    BY <1>2, <1>7 DEF RefuseBurn, Burning
  <2> QED BY <1>3, <1>4, <1>7, <2>1
          DEF RefuseBurn, walletVars, Burning, Ledger!vars
<1>8. CASE BouncedBurn(o, a)
  <2>1. Burning' = [Burning EXCEPT ![o] = @ - a] /\ Burning[o] >= a
    <3>1. \A x \in Owners : burning'[x] + unburning'[x] =
              IF x = o THEN (burning[x] + unburning[x]) - a
                       ELSE burning[x] + unburning[x]
      BY <1>2, <1>8 DEF BouncedBurn
    <3>2. burning[o] \in Nat /\ unburning[o] \in Nat
      BY <1>2
    <3>3. burning[o] + unburning[o] >= a
      BY <1>2, <1>8, <3>2 DEF BouncedBurn
    <3>4. Burning' = [Burning EXCEPT ![o] = @ - a]
      BY <3>1 DEF Burning
    <3> QED BY <3>3, <3>4 DEF Burning
  <2>2. Ledger!TakeBack(o, a)
    BY <1>3, <1>4, <1>8, <2>1 DEF BouncedBurn, Burning, Ledger!TakeBack
  <2> QED BY <1>2, <2>2 DEF Ledger!Next
<1>9. CASE LoseBurn(o, a)
  <2>1. Burning' = [Burning EXCEPT ![o] = @ - a] /\ Burning[o] >= a
    <3>1. \A x \in Owners : burning'[x] + unburning'[x] =
              IF x = o THEN (burning[x] + unburning[x]) - a
                       ELSE burning[x] + unburning[x]
      BY <1>2, <1>9 DEF LoseBurn
    <3>2. burning[o] \in Nat /\ unburning[o] \in Nat
      BY <1>2
    <3>3. burning[o] + unburning[o] >= a
      BY <1>2, <1>9, <3>2 DEF LoseBurn
    <3>4. Burning' = [Burning EXCEPT ![o] = @ - a]
      BY <3>1 DEF Burning
    <3> QED BY <3>3, <3>4 DEF Burning
  <2>2. Lossy \cap {"burn", "burnBounce"} # {}
    BY <1>9 DEF LoseBurn
  <2>3. Ledger!Destroy(o, a)
    BY <1>3, <1>4, <1>9, <2>1, <2>2
       DEF LoseBurn, walletVars, Burning, Ledger!Destroy
  <2> QED BY <1>2, <2>3 DEF Ledger!Next
<1> QED BY <1>1, <1>5, <1>6, <1>7, <1>8, <1>9

LEMMA TransferRequestRefines ==
    ASSUME TokenInv, NEW s \in Owners, NEW r \in Owners, NEW q \in QueryIds,
           NEW a \in Amounts, NEW lane \in Lanes,
           TransferRequest(s, r, q, a, lane)
    PROVE  Ledger!Next
<1>1. Transfer(lane, s, r, q, a).type # "ack"
  BY DEF Transfer
<1>2. AcksInFlight' = AcksInFlight
  BY <1>1 DEF TransferRequest, AcksInFlight, InFlight
<1>3. q \in AllQueryIds
  BY DEF AllQueryIds
<1> QED BY <1>2, <1>3, DebitStep DEF TransferRequest

LEMMA NextRefines ==
    ASSUME TokenInv, [Next]_vars
    PROVE  Ledger!Next \/ UNCHANGED Ledger!vars
<1>1. CASE UNCHANGED vars \/ Tick
  BY <1>1, SameUnsettled, StutterStep
     DEF vars, walletVars, Tick, AcksInFlight, InFlight
<1>2. CASE Deliver
  BY <1>2, CreditRefines, RestoreRefines, AckStutters DEF Deliver
<1> QED BY <1>1, <1>2, GenesisRefines, TransferRequestRefines, FailRefines,
           RecoverRefines, NotifyRefines, BurnsRefine DEF Next

LEMMA InitRefines == Init => Ledger!Init
<1> SUFFICES ASSUME Init PROVE Ledger!Init
  OBVIOUS
<1>1. Unsettled = {}
  BY DEF Init, Unsettled
<1>2. Escrow = {}
  BY <1>1 DEF Escrow
<1>3. Burning = [o \in Owners |-> 0]
  BY DEF Init, Burning
<1> QED BY <1>2, <1>3 DEF Init, Ledger!Init, Burning

(* The wallets and the master together implement the ledger: however       *)
(* messages are delayed, reordered, refused or lost, each payment leaves   *)
(* escrow once, to the payee or back to the payer, and the supply is       *)
(* issued once and shrinks only by what was burned.                        *)
THEOREM ImplementsTheLedger == Spec => ImplementsLedger
<1>1. TokenInv /\ [Next]_vars => [Ledger!Next]_(Ledger!vars)
  BY NextRefines
<1> QED BY <1>1, InitRefines, TokenInvariant, PTL
        DEF Spec, ImplementsLedger, Ledger!Spec

-----------------------------------------------------------------------------
(* Conservation.  Each step of the ledger moves amounts between what is    *)
(* held, escrowed, given up and destroyed.                                 *)

SupplyInv == IsFiniteSet(Escrow) /\ SupplyKept

LEMMA LedgerTyped ==
    ASSUME TokenInv
    PROVE  /\ balance \in [Owners -> Nat] /\ Burning \in [Owners -> Nat]
           /\ Escrow \subseteq Ledger!Payments
           /\ \A p \in Ledger!Payments :
                 /\ p.src \in Owners /\ p.dst \in Owners
                 /\ p.amount \in Nat \ {0}
           /\ total_supply \in Nat /\ vanished \in Nat
<1>1. /\ balance \in [Owners -> Nat]
      /\ burning \in [Owners -> Nat] /\ unburning \in [Owners -> Nat]
      /\ total_supply \in Nat /\ vanished \in Nat
  BY DEF TokenInv, TypeOK
<1>2. Burning \in [Owners -> Nat]
  BY <1>1 DEF Burning
<1>3. Escrow \subseteq Ledger!Payments
  BY UnsettledTyped, PaymentTyped DEF TokenInv, Escrow
<1>4. \A p \in Ledger!Payments :
         p.src \in Owners /\ p.dst \in Owners /\ p.amount \in Nat \ {0}
  BY DEF Ledger!Payments, Ledger!Amounts
<1> QED BY <1>1, <1>2, <1>3, <1>4

LEMMA OwnersFinite == IsFiniteSet(Owners)
BY DEF TokenAssumption

(* The sums are those of natural numbers.                                  *)
LEMMA SumsTypedNow ==
    ASSUME TokenInv, SupplyInv
    PROVE  /\ SumFunction(balance) \in Nat
           /\ SumFunction(Burning) \in Nat
           /\ \A o \in Owners : Burning[o] <= SumFunction(Burning)
           /\ TotalAmount(Escrow) \in Nat
<1>1. /\ SumFunction(balance) \in Nat /\ SumFunction(Burning) \in Nat
      /\ \A o \in Owners : Burning[o] <= SumFunction(Burning)
  BY OwnersFinite, LedgerTyped, SumOfNaturals
<1>2. \A p \in Escrow : p.amount \in Nat
  BY LedgerTyped
<1>3. TotalAmount(Escrow) \in Nat
  BY <1>2, AmountsNatural DEF SupplyInv, SupplyKept
<1> QED BY <1>1, <1>3

(* A change of one holding, or of one burn, is a change of their sum.      *)
LEMMA HoldingChanges ==
    /\ \A f \in [Owners -> Nat], o \in Owners, a \in Nat :
          SumFunction([f EXCEPT ![o] = f[o] + a]) = SumFunction(f) + a
    /\ \A f \in [Owners -> Nat], o \in Owners, a \in Nat :
          SumFunction([f EXCEPT ![o] = f[o] - a]) = SumFunction(f) - a
<1>1. \A f \in [Owners -> Int], o \in Owners, v \in Int :
         SumFunction([f EXCEPT ![o] = v]) = SumFunction(f) + v - f[o]
  BY OwnersFinite, SumOfUpdate
<1>2. SUFFICES ASSUME NEW f \in [Owners -> Nat], NEW o \in Owners,
                      NEW a \in Nat
               PROVE  /\ SumFunction([f EXCEPT ![o] = f[o] + a])
                            = SumFunction(f) + a
                      /\ SumFunction([f EXCEPT ![o] = f[o] - a])
                            = SumFunction(f) - a
  OBVIOUS
<1>3. f \in [Owners -> Int] /\ f[o] \in Nat /\ SumFunction(f) \in Nat
  BY OwnersFinite, SumOfNaturals
<1>4. f[o] + a \in Int /\ f[o] - a \in Int
  BY <1>3
<1>5. /\ SumFunction([f EXCEPT ![o] = f[o] + a])
            = SumFunction(f) + (f[o] + a) - f[o]
      /\ SumFunction([f EXCEPT ![o] = f[o] - a])
            = SumFunction(f) + (f[o] - a) - f[o]
  BY <1>1, <1>3, <1>4
<1> QED BY <1>3, <1>5

LEMMA IssueKeeps ==
    ASSUME TokenInv, SupplyInv, Ledger!Issue
    PROVE  SupplyInv'
<1>1. /\ ~IsIssued /\ IsIssued'
      /\ balance' = [balance EXCEPT ![Treasury] = balance[Treasury] + total_supply]
      /\ UNCHANGED <<total_supply, Escrow, Burning, vanished>>
  BY DEF Ledger!Issue, IsIssued, Burning
<1>2. SumFunction(balance') = SumFunction(balance) + total_supply
  <2>1. balance[Treasury] \in Nat /\ total_supply \in Nat
    BY LedgerTyped
  <2> QED BY <1>1, <2>1, LedgerTyped, HoldingChanges
<1>3. Accounted' = Accounted + total_supply
  BY <1>1, <1>2, LedgerTyped, SumsTypedNow DEF Accounted, TotalAmount
<1> QED BY <1>1, <1>3, LedgerTyped DEF SupplyInv, SupplyKept

LEMMA DebitKeeps ==
    ASSUME TokenInv, SupplyInv, NEW p \in Ledger!Payments, Ledger!Debit(p)
    PROVE  SupplyInv'
<1>1. /\ balance' = [balance EXCEPT ![p.src] = balance[p.src] - p.amount]
      /\ Escrow' = Escrow \cup {p} /\ p \notin Escrow
      /\ UNCHANGED <<total_supply, IsIssued, Burning, vanished>>
  BY DEF Ledger!Debit, IsIssued, Burning
<1>2. p.src \in Owners /\ p.amount \in Nat /\ balance[p.src] \in Nat
  BY LedgerTyped
<1>3. SumFunction(balance') = SumFunction(balance) - p.amount
  BY <1>1, <1>2, LedgerTyped, HoldingChanges
<1>4. /\ IsFiniteSet(Escrow')
      /\ TotalAmount(Escrow') = TotalAmount(Escrow) + p.amount
  BY <1>1, <1>2, LedgerTyped, AmountsWith, FS_AddElement DEF SupplyInv, SupplyKept
<1>5. Accounted' = Accounted
  BY <1>1, <1>2, <1>3, <1>4, LedgerTyped, SumsTypedNow DEF Accounted, TotalAmount
<1> QED BY <1>1, <1>4, <1>5 DEF SupplyInv, SupplyKept

LEMMA SettleKeeps ==
    ASSUME TokenInv, SupplyInv, NEW p \in Escrow, NEW o \in Owners,
           Ledger!Settle(p, o)
    PROVE  SupplyInv'
<1>1. /\ balance' = [balance EXCEPT ![o] = balance[o] + p.amount]
      /\ Escrow' = Escrow \ {p}
      /\ UNCHANGED <<total_supply, IsIssued, Burning, vanished>>
  BY DEF Ledger!Settle, IsIssued, Burning
<1>2. p.amount \in Nat /\ balance[o] \in Nat
  BY LedgerTyped
<1>3. SumFunction(balance') = SumFunction(balance) + p.amount
  BY <1>1, <1>2, LedgerTyped, HoldingChanges
<1>4. \A q \in Escrow : q.amount \in Nat
  BY LedgerTyped
<1>5. /\ IsFiniteSet(Escrow')
      /\ TotalAmount(Escrow) = TotalAmount(Escrow') + p.amount
  BY <1>1, <1>4, AmountsWithout DEF SupplyInv, SupplyKept
<1>6. TotalAmount(Escrow') \in Nat
  BY <1>1, <1>4, <1>5, AmountsNatural
<1>7. Accounted' = Accounted
  BY <1>1, <1>2, <1>3, <1>5, <1>6, LedgerTyped, SumsTypedNow DEF Accounted, TotalAmount
<1> QED BY <1>1, <1>5, <1>7 DEF SupplyInv, SupplyKept

LEMMA BurnStepKeeps ==
    ASSUME TokenInv, SupplyInv, NEW o \in Owners, NEW a \in Ledger!Amounts,
           Ledger!GiveUp(o, a) \/ Ledger!TakeBack(o, a) \/ Ledger!Destroy(o, a)
    PROVE  SupplyInv'
<1>1. /\ a \in Nat \ {0} /\ balance[o] \in Nat /\ Burning[o] \in Nat
      /\ Burning[o] <= SumFunction(Burning)
  BY LedgerTyped, SumsTypedNow DEF Ledger!Amounts
<1>2. UNCHANGED <<Escrow, IsIssued>>
  BY DEF Ledger!GiveUp, Ledger!TakeBack, Ledger!Destroy, IsIssued
<1>3. CASE Ledger!GiveUp(o, a)
  <2>1. /\ balance' = [balance EXCEPT ![o] = balance[o] - a]
        /\ Burning' = [Burning EXCEPT ![o] = Burning[o] + a]
        /\ UNCHANGED <<total_supply, vanished>>
    BY <1>3 DEF Ledger!GiveUp, Burning
  <2>2. /\ SumFunction(balance') = SumFunction(balance) - a
        /\ SumFunction(Burning') = SumFunction(Burning) + a
    <3>1. SumFunction(balance') = SumFunction(balance) - a
      BY <1>1, <2>1, LedgerTyped, HoldingChanges
    <3>2. SumFunction(Burning') = SumFunction(Burning) + a
      BY <1>1, <2>1, LedgerTyped, HoldingChanges
    <3> QED BY <3>1, <3>2
  <2>3. Accounted' = Accounted
    BY <1>1, <1>2, <2>1, <2>2, LedgerTyped, SumsTypedNow DEF Accounted, TotalAmount
  <2> QED BY <1>2, <2>1, <2>3 DEF SupplyInv, SupplyKept
<1>4. CASE Ledger!TakeBack(o, a)
  <2>1. /\ balance' = [balance EXCEPT ![o] = balance[o] + a]
        /\ Burning' = [Burning EXCEPT ![o] = Burning[o] - a]
        /\ UNCHANGED <<total_supply, vanished>>
    BY <1>4 DEF Ledger!TakeBack, Burning
  <2>2. /\ SumFunction(balance') = SumFunction(balance) + a
        /\ SumFunction(Burning') = SumFunction(Burning) - a
    <3>1. SumFunction(balance') = SumFunction(balance) + a
      BY <1>1, <2>1, LedgerTyped, HoldingChanges
    <3>2. SumFunction(Burning') = SumFunction(Burning) - a
      BY <1>1, <2>1, LedgerTyped, HoldingChanges
    <3> QED BY <3>1, <3>2
  <2>3. Accounted' = Accounted
    BY <1>1, <1>2, <2>1, <2>2, LedgerTyped, SumsTypedNow DEF Accounted, TotalAmount
  <2> QED BY <1>2, <2>1, <2>3 DEF SupplyInv, SupplyKept
<1>5. CASE Ledger!Destroy(o, a)
  <2>1. /\ Burning[o] >= a
        /\ Burning' = [Burning EXCEPT ![o] = Burning[o] - a]
        /\ UNCHANGED balance
        /\ \/ total_supply' = total_supply - a /\ UNCHANGED vanished
           \/ vanished' = vanished + a /\ UNCHANGED total_supply
    BY <1>5 DEF Ledger!Destroy, Burning
  <2>2. SumFunction(Burning') = SumFunction(Burning) - a
    BY <1>1, <2>1, LedgerTyped, HoldingChanges
  <2>3. Accounted > 0 /\ IsIssued
    BY <1>1, <2>1, LedgerTyped, SumsTypedNow DEF Accounted, SupplyInv, SupplyKept, TotalAmount
  <2>4. CASE total_supply' = total_supply - a /\ UNCHANGED vanished
    <3>1. Accounted' = Accounted - a
      BY <1>1, <1>2, <2>1, <2>2, <2>4, LedgerTyped, SumsTypedNow DEF Accounted, TotalAmount
    <3> QED BY <1>2, <2>3, <2>4, <3>1 DEF SupplyInv, SupplyKept
  <2>5. CASE vanished' = vanished + a /\ UNCHANGED total_supply
    <3>1. Accounted' = Accounted
      BY <1>1, <1>2, <2>1, <2>2, <2>5, LedgerTyped, SumsTypedNow DEF Accounted, TotalAmount
    <3> QED BY <1>2, <2>3, <2>5, <3>1 DEF SupplyInv, SupplyKept
  <2> QED BY <2>1, <2>4, <2>5
<1> QED BY <1>3, <1>4, <1>5

LEMMA LedgerKeepsSupply ==
    ASSUME TokenInv, SupplyInv, Ledger!Next \/ UNCHANGED Ledger!vars
    PROVE  SupplyInv'
<1>1. CASE UNCHANGED Ledger!vars
  <2>1. UNCHANGED <<Escrow, IsIssued, balance, Burning, vanished, total_supply>>
    BY <1>1 DEF Ledger!vars, IsIssued, Burning
  <2>2. Accounted' = Accounted
    BY <2>1 DEF Accounted, TotalAmount
  <2> QED BY <2>1, <2>2 DEF SupplyInv, SupplyKept
<1>2. CASE Ledger!Next
  BY <1>2, IssueKeeps, DebitKeeps, SettleKeeps, BurnStepKeeps DEF Ledger!Next
<1> QED BY <1>1, <1>2

LEMMA InitSupplyInv == Init => SupplyInv
<1> SUFFICES ASSUME Init PROVE SupplyInv
  OBVIOUS
<1>1. /\ Escrow = {} /\ vanished = 0 /\ ~IsIssued
      /\ balance = [o \in Owners |-> 0] /\ Burning = [o \in Owners |-> 0]
  BY InitRefines DEF Ledger!Init, IsIssued, Burning
<1>2. SumFunction(balance) = 0 /\ SumFunction(Burning) = 0
  <2>1. DOMAIN balance = Owners /\ \A o \in Owners : balance[o] = 0
    BY <1>1
  <2>2. Burning = balance
    BY <1>1
  <2> QED BY <2>1, <2>2, OwnersFinite, SumOfZeros DEF SumFunction
<1>3. Accounted = 0
  BY <1>1, <1>2, NoAmounts DEF Accounted, TotalAmount
<1> QED BY <1>1, <1>3, FS_EmptySet DEF SupplyInv, SupplyKept

(* ATH is neither created nor lost, however messages are delayed, refused, *)
(* reordered or lost: what is held, owed, given up or vanished is what     *)
(* total_supply says, once the genesis credit has arrived.                 *)
THEOREM SupplyIsKept == Spec => []SupplyKept
<1>1. TokenInv /\ SupplyInv /\ [Next]_vars => SupplyInv'
  BY NextRefines, LedgerKeepsSupply
<1>2. SupplyInv => SupplyKept
  BY DEF SupplyInv, SupplyKept
<1> QED BY <1>1, <1>2, InitSupplyInv, TokenInvariant, PTL DEF Spec

=============================================================================
