------------------------- MODULE UsernameMintProofs -------------------------
(***************************************************************************)
(* Proofs about UsernameMint: its type invariant, that the official wallet *)
(* is solvent, that a pending mint has one answer to come and is settled   *)
(* by it, and that what names cost is booked once and finds its way.       *)
(***************************************************************************)
EXTENDS UsernameMint, Sums, TLAPS

(* Messages, by what they carry.                                           *)
PaymentTypes == {"notify", "notifyBounce"}
InitTypes == {"init", "initBounce", "deployed"}
NoteTypes == {"noteAck", "noteRefund"}
FlushTypes == {"request", "burning", "done", "failed"}

Payments == [type : PaymentTypes, qid : QueryIds, payer : Users,
             name : Names, owner : Users, amount : Nat]
Inits == [type : InitTypes, name : Names, owner : Users \cup {NoOne},
          nonce : Nat]
Notes == [type : NoteTypes, qid : QueryIds, payer : Users, amount : Nat]
Flushes == [type : FlushTypes, kind : Kinds, qid : QueryIds, amount : Nat]
Messages == Payments \cup Inits \cup Notes \cup Flushes

PendingMints == [name : Names, qid : QueryIds, payer : Users, owner : Users,
                 price : Nat, nonce : Nat]
Items == [initialized : BOOLEAN, owner : Users \cup {NoOne},
          init_owner : Users \cup {NoOne}, nonce : Nat]
Notifications == [qid : QueryIds, payer : Users, amount : Nat]
Transfers == [qid : QueryIds, to : Users \cup {"treasury"}, amount : Nat,
              credited : BOOLEAN]
PendingFlushes == [kind : Kinds, qid : QueryIds, amount : Nat]

NetOK(N) == IsFiniteSet(N) /\ N \subseteq Messages
MintsOK(P) ==
    /\ IsFiniteSet(P) /\ P \subseteq PendingMints
    /\ \A p \in P : p.price = Price[p.name]
TransfersOK(T) == IsFiniteSet(T) /\ T \subseteq Transfers

MintTypeOK ==
    /\ mint_seq \in Nat
    /\ MintsOK(pending_mints)
    /\ due \in [Kinds -> Nat] /\ settled \in [Kinds -> Nat]
    /\ pending_flushes \subseteq PendingFlushes
    /\ item \in [Names -> Items]
    /\ balance \in Nat
    /\ pending_notifications \subseteq Notifications
    /\ TransfersOK(transfers)
    /\ purse \in [Users -> Nat]
    /\ NetOK(net)
    /\ scene \in Scenes

-----------------------------------------------------------------------------
(* Messages and records.                                                   *)

LEMMA MessageKinds ==
    ASSUME NEW m \in Messages
    PROVE  /\ m.type \in PaymentTypes => m \in Payments
           /\ m.type \in InitTypes => m \in Inits
           /\ m.type \in NoteTypes => m \in Notes
           /\ m.type \in FlushTypes => m \in Flushes
           /\ m.type \notin InitTypes => m.amount \in Nat
BY DEF Messages, Payments, Inits, Notes, Flushes, PaymentTypes, InitTypes,
       NoteTypes, FlushTypes

LEMMA BouncedPayment ==
    ASSUME NEW m \in Payments
    PROVE  LET b == [m EXCEPT !.type = "notifyBounce"]
           IN  /\ b \in Payments /\ b.type = "notifyBounce"
               /\ b.qid = m.qid /\ b.payer = m.payer /\ b.amount = m.amount
BY DEF Payments, PaymentTypes

LEMMA BouncedInit ==
    ASSUME NEW m \in Inits
    PROVE  LET b == [m EXCEPT !.type = "initBounce"]
           IN  /\ b \in Inits /\ b.type = "initBounce"
               /\ b.name = m.name /\ b.owner = m.owner /\ b.nonce = m.nonce
BY DEF Inits, InitTypes

LEMMA NextFlush ==
    ASSUME NEW m \in Flushes, NEW t \in FlushTypes
    PROVE  LET b == [m EXCEPT !.type = t]
           IN  /\ b \in Flushes /\ b.type = t
               /\ b.kind = m.kind /\ b.qid = m.qid /\ b.amount = m.amount
BY DEF Flushes, FlushTypes

LEMMA CreditedTransfer ==
    ASSUME NEW t \in Transfers
    PROVE  LET b == [t EXCEPT !.credited = TRUE]
           IN  /\ b \in Transfers /\ b.credited
               /\ b.qid = t.qid /\ b.to = t.to /\ b.amount = t.amount
BY DEF Transfers

(* An answer that replaces a message, and one that is sent besides.        *)
LEMMA NetLoses == ASSUME NEW N, NetOK(N), NEW m PROVE NetOK(N \ {m})
<1>1. IsFiniteSet(N \ {m})
  BY FS_RemoveElement DEF NetOK
<1> QED BY <1>1 DEF NetOK

LEMMA NetGains ==
    ASSUME NEW N, NetOK(N), NEW r \in Messages PROVE NetOK(N \cup {r})
<1>1. IsFiniteSet(N \cup {r})
  BY FS_AddElement DEF NetOK
<1> QED BY <1>1 DEF NetOK

LEMMA NetMoves ==
    ASSUME NetOK(net), NEW r \in Messages,
           net' = net \cup {r} \/ \E m : Answer(m, r)
    PROVE  NetOK(net')
<1>1. CASE net' = net \cup {r}
  BY <1>1, NetGains
<1>2. ASSUME NEW m, Answer(m, r) PROVE NetOK(net')
  <2>1. NetOK(net \ {m})
    BY NetLoses
  <2> DEFINE N == net \ {m}
  <2>2. NetOK(N) /\ net' = N \cup {r}
    BY <1>2, <2>1 DEF Answer
  <2> HIDE DEF N
  <2> QED BY <2>2, NetGains
<1> QED BY <1>1, <1>2

LEMMA AmountsOfKinds ==
    ASSUME NEW x \in Nat, NEW y \in Nat
    PROVE  [treasury |-> x, burn |-> y] \in [Kinds -> Nat]
BY DEF Kinds

LEMMA MintsStay ==
    ASSUME NEW P, MintsOK(P)
    PROVE  /\ \A p : MintsOK(P \ {p})
           /\ \A p \in PendingMints :
                 p.price = Price[p.name] => MintsOK(P \cup {p})
<1>1. \A p : IsFiniteSet(P \ {p}) /\ IsFiniteSet(P \cup {p})
  BY FS_AddElement, FS_RemoveElement DEF MintsOK
<1> QED BY <1>1 DEF MintsOK

LEMMA TransferLeaves ==
    ASSUME NEW T, TransfersOK(T), NEW t PROVE TransfersOK(T \ {t})
<1>1. IsFiniteSet(T \ {t})
  BY FS_RemoveElement DEF TransfersOK
<1> QED BY <1>1 DEF TransfersOK

LEMMA TransferEnters ==
    ASSUME NEW T, TransfersOK(T), NEW t \in Transfers
    PROVE  TransfersOK(T \cup {t})
<1>1. IsFiniteSet(T \cup {t})
  BY FS_AddElement DEF TransfersOK
<1> QED BY <1>1 DEF TransfersOK

-----------------------------------------------------------------------------
(* Every handler keeps the types.                                          *)

LEMMA MintInitTypes == Init => MintTypeOK
<1> SUFFICES ASSUME Init PROVE MintTypeOK
  OBVIOUS
<1>1. IsFiniteSet({})
  BY FS_EmptySet
<1>2. item \in [Names -> Items]
  BY DEF Init, Items
<1> QED BY <1>1, <1>2, MintAssumption
        DEF Init, MintTypeOK, MintsOK, TransfersOK, NetOK, Kinds

LEMMA PayTypes ==
    ASSUME MintTypeOK, NEW u \in Users, NEW q \in QueryIds, NEW n \in Names,
           NEW o \in Users, NEW a \in scene.amounts, Pay(u, q, n, o, a)
    PROVE  MintTypeOK'
<1> DEFINE m == [type |-> "notify", qid |-> q, payer |-> u, name |-> n,
                 owner |-> o, amount |-> a]
           note == [qid |-> q, payer |-> u, amount |-> a]
<1>1. a \in Nat
  BY MintAssumption DEF MintTypeOK
<1>2. m \in Messages
  BY <1>1 DEF Messages, Payments, PaymentTypes
<1>3. note \in Notifications
  BY <1>1 DEF Notifications
<1> HIDE DEF m, note
<1>4. NetOK(net')
  BY <1>2, NetMoves DEF Pay, MintTypeOK, m
<1>5. purse' \in [Users -> Nat] /\ balance' \in Nat
  BY <1>1 DEF Pay, MintTypeOK
<1> QED BY <1>3, <1>4, <1>5
        DEF Pay, MintTypeOK, registryVars, flushVars, note

LEMMA AcceptTypes ==
    ASSUME MintTypeOK, NEW m \in InFlight("notify"), AcceptUsernameMint(m)
    PROVE  MintTypeOK'
<1> DEFINE p == [name |-> m.name, qid |-> m.qid, payer |-> m.payer,
                 owner |-> m.owner, price |-> m.amount, nonce |-> mint_seq']
           r == [type |-> "init", name |-> m.name, owner |-> m.owner,
                 nonce |-> mint_seq']
<1>1. m \in Payments
  BY MessageKinds DEF MintTypeOK, NetOK, InFlight, PaymentTypes
<1>2. mint_seq' \in Nat
  BY DEF AcceptUsernameMint, MintTypeOK
<1>3. p \in PendingMints /\ p.price = Price[p.name]
  BY <1>1, <1>2 DEF PendingMints, Payments, AcceptUsernameMint
<1>4. r \in Messages
  BY <1>1, <1>2 DEF Messages, Payments, Inits, InitTypes
<1> HIDE DEF p, r
<1>5. NetOK(net')
  BY <1>4, NetMoves DEF AcceptUsernameMint, MintTypeOK, r
<1>6. MintsOK(pending_mints')
  BY <1>3, MintsStay DEF AcceptUsernameMint, MintTypeOK, p
<1> QED BY <1>2, <1>5, <1>6
        DEF AcceptUsernameMint, MintTypeOK, flushVars, walletVars

(* The handlers that only change what is on its way.                       *)
LEMMA BouncesTyped ==
    ASSUME MintTypeOK
    PROVE  /\ \A m \in InFlight("notify") :
                 [m EXCEPT !.type = "notifyBounce"] \in Messages
           /\ \A m \in InFlight("init") :
                 [m EXCEPT !.type = "initBounce"] \in Messages
           /\ \A m \in net, t \in FlushTypes :
                 m.type \in FlushTypes => [m EXCEPT !.type = t] \in Messages
           /\ \A n \in Names : DeployedAck(n, item[n]) \in Messages
           /\ \A p \in pending_mints :
                 NoteAck(p) \in Messages /\ NoteRefund(p) \in Messages
<1>1. \A m \in InFlight("notify") : m \in Payments
  BY MessageKinds DEF MintTypeOK, NetOK, InFlight, PaymentTypes
<1>2. \A m \in InFlight("init") : m \in Inits
  BY MessageKinds DEF MintTypeOK, NetOK, InFlight, InitTypes
<1>3. \A m \in net : m.type \in FlushTypes => m \in Flushes
  BY MessageKinds DEF MintTypeOK, NetOK
<1>4. \A n \in Names : DeployedAck(n, item[n]) \in Messages
  BY DEF DeployedAck, MintTypeOK, Items, Messages, Inits, InitTypes
<1>5. \A p \in pending_mints :
         NoteAck(p) \in Messages /\ NoteRefund(p) \in Messages
  BY DEF NoteAck, NoteRefund, MintTypeOK, MintsOK, PendingMints, Messages,
         Notes, NoteTypes
<1>6. Payments \subseteq Messages /\ Inits \subseteq Messages
      /\ Flushes \subseteq Messages
  BY DEF Messages
<1> QED BY <1>1, <1>2, <1>3, <1>4, <1>5, <1>6, BouncedPayment, BouncedInit,
           NextFlush

LEMMA NetOnlyTypes ==
    ASSUME MintTypeOK,
           UNCHANGED <<scene, registryVars, flushVars, item, walletVars,
                       settled, purse>>,
           \/ \E m : Consume(m)
           \/ \E m \in InFlight("notify") : Bounce(m, "notifyBounce")
           \/ \E m \in InFlight("init") : Bounce(m, "initBounce")
           \/ \E m \in net : m.type \in FlushTypes /\ Bounce(m, "failed")
           \/ \E n \in Names : net' = net \cup {DeployedAck(n, item[n])}
    PROVE  MintTypeOK'
<1>1. NetOK(net')
  <2>1. ASSUME NEW m, Consume(m) PROVE NetOK(net')
    <3>1. NetOK(net \ {m})
      BY NetLoses DEF MintTypeOK
    <3> QED BY <2>1, <3>1 DEF Consume
  <2>2. ASSUME NEW m \in InFlight("notify"), Bounce(m, "notifyBounce")
        PROVE  NetOK(net')
    BY <2>2, NetMoves, BouncesTyped DEF Bounce, MintTypeOK
  <2>3. ASSUME NEW m \in InFlight("init"), Bounce(m, "initBounce")
        PROVE  NetOK(net')
    BY <2>3, NetMoves, BouncesTyped DEF Bounce, MintTypeOK
  <2>4. ASSUME NEW m \in net, m.type \in FlushTypes, Bounce(m, "failed")
        PROVE  NetOK(net')
    <3>1. [m EXCEPT !.type = "failed"] \in Messages
      BY <2>4, BouncesTyped DEF FlushTypes
    <3> QED BY <2>4, <3>1, NetMoves DEF Bounce, MintTypeOK
  <2>5. ASSUME NEW n \in Names, net' = net \cup {DeployedAck(n, item[n])}
        PROVE  NetOK(net')
    <3>1. DeployedAck(n, item[n]) \in Messages
      BY BouncesTyped
    <3> QED BY <2>5, <3>1, NetMoves DEF MintTypeOK
  <2> QED BY <2>1, <2>2, <2>3, <2>4, <2>5
<1> QED BY <1>1 DEF MintTypeOK, registryVars, flushVars, walletVars

LEMMA InitializeTypes ==
    ASSUME MintTypeOK, NEW m \in InFlight("init"), InitializeUsernameItem(m)
    PROVE  MintTypeOK'
<1> DEFINE it == [initialized |-> TRUE, owner |-> m.owner,
                  init_owner |-> m.owner, nonce |-> m.nonce]
<1>1. m \in Inits
  BY MessageKinds DEF MintTypeOK, NetOK, InFlight, InitTypes
<1>2. it \in Items
  BY <1>1 DEF Items, Inits
<1>3. item' \in [Names -> Items] /\ item'[m.name] = it
  <2>1. item' = [item EXCEPT ![m.name] = it]
    BY DEF InitializeUsernameItem
  <2> HIDE DEF it
  <2> QED BY <1>1, <1>2, <2>1 DEF MintTypeOK, Inits
<1>4. DeployedAck(m.name, item'[m.name]) \in Messages
  BY <1>1, <1>2, <1>3
     DEF DeployedAck, Items, Messages, Inits, InitTypes
<1>5. NetOK(net')
  BY <1>4, NetMoves DEF InitializeUsernameItem, MintTypeOK
<1> QED BY <1>3, <1>5
        DEF InitializeUsernameItem, MintTypeOK, registryVars, flushVars,
            walletVars

LEMMA NftTransferTypes ==
    ASSUME MintTypeOK, NEW n \in Names, NEW o \in Users, NftTransfer(n, o)
    PROVE  MintTypeOK'
<1> DEFINE it == [item[n] EXCEPT !.owner = o]
<1>1. it \in Items
  BY DEF MintTypeOK, Items
<1>2. item' = [item EXCEPT ![n] = it]
  BY DEF NftTransfer
<1> HIDE DEF it
<1>3. item' \in [Names -> Items]
  BY <1>1, <1>2 DEF MintTypeOK
<1> QED BY <1>3 DEF NftTransfer, MintTypeOK, registryVars, flushVars,
                    walletVars

LEMMA ShareIsPart ==
    ASSUME NEW price \in Nat
    PROVE  /\ TreasuryShare(price) \in Nat
           /\ price - TreasuryShare(price) \in Nat
BY DEF TreasuryShare

LEMMA OutcomeTypes ==
    ASSUME MintTypeOK, NEW m,
           \/ m \in InFlight("deployed") /\ ItemDeployedAck(m)
           \/ m \in InFlight("initBounce") /\ BouncedInitialize(m)
    PROVE  MintTypeOK'
<1>1. /\ UNCHANGED <<mint_seq, pending_flushes, item, walletVars, settled,
                     purse, scene>>
      /\ \E p \in pending_mints :
            /\ pending_mints' = pending_mints \ {p}
            /\ \/ Answer(m, NoteAck(p))
               \/ Answer(m, NoteRefund(p))
            /\ \/ UNCHANGED due
               \/ due' = [treasury |-> due.treasury + TreasuryShare(p.price),
                          burn |-> due.burn
                                     + (p.price - TreasuryShare(p.price))]
  BY DEF ItemDeployedAck, BouncedInitialize, PendingMint, flushVars
<1>2. PICK p \in pending_mints :
         /\ pending_mints' = pending_mints \ {p}
         /\ \/ Answer(m, NoteAck(p))
            \/ Answer(m, NoteRefund(p))
         /\ \/ UNCHANGED due
            \/ due' = [treasury |-> due.treasury + TreasuryShare(p.price),
                       burn |-> due.burn
                                  + (p.price - TreasuryShare(p.price))]
  BY <1>1
<1>3. p.price \in Nat
  BY DEF MintTypeOK, MintsOK, PendingMints
<1>4. due' \in [Kinds -> Nat]
  <2>1. due.treasury \in Nat /\ due.burn \in Nat /\ due \in [Kinds -> Nat]
    BY DEF MintTypeOK, Kinds
  <2>2. /\ TreasuryShare(p.price) \in Nat
        /\ p.price - TreasuryShare(p.price) \in Nat
    BY <1>3, ShareIsPart
  <2>3. /\ due.treasury + TreasuryShare(p.price) \in Nat
        /\ due.burn + (p.price - TreasuryShare(p.price)) \in Nat
    BY <2>1, <2>2
  <2> QED BY <1>2, <2>1, <2>3, AmountsOfKinds
<1>5. NetOK(net')
  <2>1. NoteAck(p) \in Messages /\ NoteRefund(p) \in Messages
    BY BouncesTyped
  <2> QED BY <1>2, <2>1, NetMoves DEF MintTypeOK
<1>6. MintsOK(pending_mints')
  BY <1>2, MintsStay DEF MintTypeOK
<1> QED BY <1>1, <1>4, <1>5, <1>6 DEF MintTypeOK, walletVars

LEMMA NotesTypes ==
    ASSUME MintTypeOK, NEW m,
           \/ NotificationAck(m)
           \/ RefundPendingNotification(m)
           \/ \E n \in pending_notifications : PruneStaleNotification(n)
    PROVE  MintTypeOK'
<1>1. NetOK(net')
  <2>1. NetOK(net) /\ NetOK(net \ {m})
    BY NetLoses DEF MintTypeOK
  <2>2. net' = net \/ net' = net \ {m}
    BY DEF NotificationAck, RefundPendingNotification,
           PruneStaleNotification, Consume
  <2> QED BY <2>1, <2>2
<1>2. pending_notifications' \subseteq Notifications
  BY DEF NotificationAck, RefundPendingNotification, PruneStaleNotification,
         MintTypeOK
<1>3. balance' \in Nat /\ TransfersOK(transfers')
  <2>1. CASE UNCHANGED <<balance, transfers>>
    BY <2>1 DEF MintTypeOK
  <2>2. CASE RefundPendingNotification(m)
    <3>1. PICK n \in pending_notifications :
             /\ Refundable(n, m)
             /\ balance' = balance - n.amount
             /\ transfers' = transfers \cup
                   {[qid |-> n.qid, to |-> n.payer, amount |-> n.amount,
                     credited |-> FALSE]}
      BY <2>2 DEF RefundPendingNotification
    <3>2. n \in Notifications /\ balance >= n.amount
      BY <3>1 DEF MintTypeOK, Refundable
    <3>3. [qid |-> n.qid, to |-> n.payer, amount |-> n.amount,
           credited |-> FALSE] \in Transfers
      BY <3>2 DEF Notifications, Transfers
    <3>4. TransfersOK(transfers')
      BY <3>1, <3>3, TransferEnters DEF MintTypeOK
    <3> QED BY <3>1, <3>2, <3>4 DEF MintTypeOK, Notifications
  <2> QED BY <2>1, <2>2 DEF NotificationAck, PruneStaleNotification
<1> QED BY <1>1, <1>2, <1>3
        DEF NotificationAck, RefundPendingNotification,
            PruneStaleNotification, MintTypeOK, registryVars, flushVars

LEMMA FlushDueTypes ==
    ASSUME MintTypeOK, NEW k \in scene.flushes, NEW q \in QueryIds,
           FlushDue(k, q)
    PROVE  MintTypeOK'
<1> DEFINE f == [kind |-> k, qid |-> q, amount |-> due[k]]
           r == [type |-> "request", kind |-> k, qid |-> q,
                 amount |-> due[k]]
<1>1. k \in Kinds /\ due[k] \in Nat
  BY MintAssumption DEF MintTypeOK
<1>2. f \in PendingFlushes /\ r \in Messages
  BY <1>1 DEF PendingFlushes, Messages, Flushes, FlushTypes
<1> HIDE DEF f, r
<1>3. due' \in [Kinds -> Nat]
  BY <1>1 DEF FlushDue, MintTypeOK
<1>4. NetOK(net')
  BY <1>2, NetMoves DEF FlushDue, MintTypeOK, r
<1>5. pending_flushes' \subseteq PendingFlushes
  BY <1>2 DEF FlushDue, MintTypeOK, f
<1> QED BY <1>3, <1>4, <1>5
        DEF FlushDue, MintTypeOK, registryVars, walletVars

(* Of the flushes' messages and transfers, what their handlers need.       *)
LEMMA FlushMessage ==
    ASSUME MintTypeOK, NEW m \in net, m.type \in FlushTypes
    PROVE  /\ m \in Flushes /\ m.kind \in Kinds /\ m.qid \in QueryIds
           /\ m.amount \in Nat
           /\ \A t \in FlushTypes : [m EXCEPT !.type = t] \in Messages
<1>1. m \in Flushes
  BY MessageKinds DEF MintTypeOK, NetOK
<1> QED BY <1>1, BouncesTyped DEF Flushes

LEMMA FlushTransferTypes ==
    ASSUME MintTypeOK, NEW m \in InFlight("request"), FlushTransferRequest(m)
    PROVE  MintTypeOK'
<1> DEFINE t == [qid |-> m.qid, to |-> "treasury", amount |-> m.amount,
                 credited |-> FALSE]
<1>1. m \in net /\ m.amount \in Nat /\ m.qid \in QueryIds
  BY FlushMessage DEF InFlight, FlushTypes
<1>2. t \in Transfers
  BY <1>1 DEF Transfers
<1> HIDE DEF t
<1>3. TransfersOK(transfers')
  BY <1>2, TransferEnters DEF FlushTransferRequest, MintTypeOK, t
<1>4. NetOK(net')
  BY NetLoses DEF FlushTransferRequest, Consume, MintTypeOK
<1>5. balance' \in Nat
  BY <1>1 DEF FlushTransferRequest, MintTypeOK
<1> QED BY <1>3, <1>4, <1>5
        DEF FlushTransferRequest, MintTypeOK, registryVars, flushVars

LEMMA FlushBurnTypes ==
    ASSUME MintTypeOK, NEW m \in net,
           \/ m.type = "request" /\ FlushBurn(m)
           \/ m.type = "burning" /\ BurnNotification(m)
           \/ m.type = "burning" /\ BouncedBurnNotification(m)
    PROVE  MintTypeOK'
<1>1. m.amount \in Nat /\ m.type \in FlushTypes
  BY FlushMessage DEF FlushTypes
<1>2. /\ [m EXCEPT !.type = "burning"] \in Messages
      /\ [m EXCEPT !.type = "done"] \in Messages
      /\ [m EXCEPT !.type = "failed"] \in Messages
  BY <1>1, FlushMessage DEF FlushTypes
<1>3. NetOK(net')
  BY <1>2, NetMoves DEF FlushBurn, BurnNotification,
        BouncedBurnNotification, Bounce, MintTypeOK
<1>4. balance' \in Nat
  BY <1>1 DEF FlushBurn, BurnNotification, BouncedBurnNotification,
              MintTypeOK, walletVars
<1>5. settled' \in [Kinds -> Nat]
  BY <1>1 DEF FlushBurn, BurnNotification, BouncedBurnNotification,
              MintTypeOK, Kinds
<1> QED BY <1>3, <1>4, <1>5
        DEF FlushBurn, BurnNotification, BouncedBurnNotification, MintTypeOK,
            registryVars, flushVars, walletVars

LEMMA TransferTypes ==
    ASSUME MintTypeOK, NEW t \in transfers,
           CreditTransfer(t) \/ SourceAck(t) \/ TakeBackTransfer(t)
    PROVE  MintTypeOK'
<1> DEFINE c == [t EXCEPT !.credited = TRUE]
           done == [type |-> "done", kind |-> "treasury", qid |-> t.qid,
                    amount |-> t.amount]
           failed == [type |-> "failed", kind |-> "treasury", qid |-> t.qid,
                      amount |-> t.amount]
<1>1. t \in Transfers /\ t.amount \in Nat /\ t.qid \in QueryIds
      /\ t.to \in Users \cup {"treasury"}
  BY DEF MintTypeOK, TransfersOK, Transfers
<1>2. c \in Transfers
  BY <1>1, CreditedTransfer
<1>3. done \in Messages /\ failed \in Messages
  BY <1>1 DEF Messages, Flushes, FlushTypes, Kinds
<1>4. TransfersOK(transfers \ {t}) /\ TransfersOK((transfers \ {t}) \cup {c})
  <2>1. TransfersOK(transfers \ {t})
    BY TransferLeaves DEF MintTypeOK
  <2> HIDE DEF c
  <2> QED BY <1>2, <2>1, TransferEnters
<1>5. TransfersOK(transfers')
  BY <1>4 DEF CreditTransfer, SourceAck, TakeBackTransfer
<1>6. NetOK(net')
  <2>1. \/ net' = net
        \/ net' = net \cup {done}
        \/ net' = net \cup {failed}
    BY DEF CreditTransfer, SourceAck, TakeBackTransfer
  <2> HIDE DEF done, failed
  <2> QED BY <1>3, <2>1, NetMoves DEF MintTypeOK
<1>7. balance' \in Nat
  BY <1>1 DEF CreditTransfer, SourceAck, TakeBackTransfer, MintTypeOK
<1>8. settled' \in [Kinds -> Nat] /\ purse' \in [Users -> Nat]
  BY <1>1 DEF CreditTransfer, SourceAck, TakeBackTransfer, MintTypeOK, Kinds
<1> QED BY <1>5, <1>6, <1>7, <1>8
        DEF CreditTransfer, SourceAck, TakeBackTransfer, MintTypeOK,
            registryVars, flushVars

LEMMA FlushEndTypes ==
    ASSUME MintTypeOK, NEW m, FlushDone(m) \/ FlushFailed(m)
    PROVE  MintTypeOK'
<1>1. PICK f \in pending_flushes :
         /\ f.kind = m.kind /\ f.amount = m.amount
         /\ pending_flushes' = pending_flushes \ {f}
         /\ due' = due \/ due' = [due EXCEPT ![m.kind] = @ + f.amount]
  BY DEF FlushDone, FlushFailed, PendingFlush
<1>2. f.kind \in Kinds /\ f.amount \in Nat
  BY DEF MintTypeOK, PendingFlushes
<1>3. due' \in [Kinds -> Nat]
  BY <1>1, <1>2 DEF MintTypeOK
<1>4. NetOK(net')
  <2>1. net' = net \ {m}
    BY DEF FlushDone, FlushFailed, Consume
  <2> QED BY <2>1, NetLoses DEF MintTypeOK
<1> QED BY <1>1, <1>3, <1>4
        DEF FlushDone, FlushFailed, MintTypeOK, registryVars, walletVars

LEMMA MintTypesKept ==
    ASSUME MintTypeOK, [Next]_vars
    PROVE  MintTypeOK'
<1>1. CASE UNCHANGED vars
  BY <1>1 DEF vars, registryVars, flushVars, walletVars, MintTypeOK
<1>2. CASE \E u, o \in Users, q \in QueryIds, n \in Names :
              \E a \in scene.amounts : Pay(u, q, n, o, a)
  BY <1>2, PayTypes
<1>3. CASE MintStep
  <2>1. ASSUME NEW m \in InFlight("notify"),
               AcceptUsernameMint(m) \/ RefuseUsernameMint(m)
        PROVE  MintTypeOK'
    BY <2>1, AcceptTypes, NetOnlyTypes DEF RefuseUsernameMint
  <2>2. ASSUME NEW m \in InFlight("init"),
               InitializeUsernameItem(m) \/ RefuseInitialize(m)
        PROVE  MintTypeOK'
    BY <2>2, InitializeTypes, NetOnlyTypes DEF RefuseInitialize
  <2>3. ASSUME NEW m \in InFlight("deployed"),
               ItemDeployedAck(m) \/ StaleDeployedAck(m)
        PROVE  MintTypeOK'
    BY <2>3, OutcomeTypes, NetOnlyTypes DEF StaleDeployedAck
  <2>4. ASSUME NEW m \in InFlight("initBounce"), BouncedInitialize(m)
        PROVE  MintTypeOK'
    BY <2>4, OutcomeTypes
  <2> QED BY <1>3, <2>1, <2>2, <2>3, <2>4 DEF MintStep
<1>4. CASE NoteStep
  <2>1. ASSUME NEW m, RefundFails(m) PROVE MintTypeOK'
    BY <2>1, NetOnlyTypes DEF RefundFails
  <2> QED BY <1>4, <2>1, NotesTypes DEF NoteStep
<1>5. CASE FlushStep
  <2>1. ASSUME NEW m \in InFlight("request"),
               \/ FlushTransferRequest(m)
               \/ FlushBurn(m) \/ RefuseFlushRequest(m)
        PROVE  MintTypeOK'
    <3>1. m \in net /\ m.type = "request" /\ m.type \in FlushTypes
      BY DEF InFlight, FlushTypes
    <3>2. CASE RefuseFlushRequest(m)
      BY <3>1, <3>2, NetOnlyTypes DEF RefuseFlushRequest
    <3> QED BY <2>1, <3>1, <3>2, FlushTransferTypes, FlushBurnTypes
  <2>2. ASSUME NEW m \in InFlight("burning"),
               BurnNotification(m) \/ BouncedBurnNotification(m)
        PROVE  MintTypeOK'
    BY <2>2, FlushBurnTypes DEF InFlight
  <2> QED BY <1>5, <2>1, <2>2, FlushEndTypes DEF FlushStep
<1>6. CASE \E n \in Names : ResendDeployedAck(n)
  BY <1>6, NetOnlyTypes DEF ResendDeployedAck
<1>7. CASE \E n \in Names, o \in Users : NftTransfer(n, o)
  BY <1>7, NftTransferTypes
<1>8. CASE \E n \in pending_notifications : PruneStaleNotification(n)
  BY <1>8, NotesTypes
<1>9. CASE \E k \in scene.flushes, q \in QueryIds : FlushDue(k, q)
  BY <1>9, FlushDueTypes
<1>10. CASE \E t \in transfers :
               CreditTransfer(t) \/ SourceAck(t) \/ TakeBackTransfer(t)
  BY <1>10, TransferTypes
<1>11. CASE \E m \in net : Lose(m)
  <2>1. ASSUME NEW m, Lose(m) PROVE MintTypeOK'
    BY <2>1, NetOnlyTypes DEF Lose
  <2> QED BY <1>11, <2>1
<1> QED BY <1>1, <1>2, <1>3, <1>4, <1>5, <1>6, <1>7, <1>8, <1>9, <1>10, <1>11
        DEF Next

(* Every variable of the registry, its items, its wallet and the network   *)
(* keeps its type; in particular no debit is larger than what it is of.    *)
THEOREM MintTypes == Spec => []MintTypeOK
<1>1. MintTypeOK /\ [Next]_vars => MintTypeOK'
  BY MintTypesKept
<1> QED BY <1>1, MintInitTypes, PTL DEF Spec

-----------------------------------------------------------------------------
(* OneAnswer, message by message: an InitializeUsernameItem or its bounce  *)
(* belongs to the pending mint of its name and is the only one, and a mint *)
(* without either has initialized its item.                                *)
Initial == {"init", "initBounce"}
Belongs(m, p) == m.name = p.name /\ m.nonce = p.nonce /\ m.owner = p.owner

NamesOnce == \A p, r \in pending_mints : p.name = r.name => p = r
InitialsBelong ==
    \A m \in net : m.type \in Initial => \E p \in pending_mints : Belongs(m, p)
InitialsOnce ==
    \A m, k \in net :
        m.type \in Initial /\ k.type \in Initial /\ m.name = k.name => m = k
Awaited ==
    \A p \in pending_mints :
        InitializedBy(p) <=>
            ~ \E m \in net : m.type \in Initial /\ m.name = p.name
DeployedIsTrue ==
    \A m \in net :
        m.type = "deployed" =>
            /\ item[m.name].initialized
            /\ m.owner = item[m.name].init_owner
            /\ m.nonce = item[m.name].nonce
NoncesBounded ==
    /\ \A p \in pending_mints : p.nonce <= mint_seq
    /\ \A n \in Names : item[n].nonce <= mint_seq

AnswerInv ==
    /\ NamesOnce /\ InitialsBelong /\ InitialsOnce /\ Awaited
    /\ DeployedIsTrue /\ NoncesBounded

LEMMA AnswerInvHolds ==
    ASSUME MintTypeOK, AnswerInv PROVE OneAnswer
<1>1. \A p, r \in pending_mints : p.name = r.name => p = r
  BY DEF AnswerInv, NamesOnce
<1>2. \A p \in pending_mints, m \in net :
         m.type \in Initial /\ m.name = p.name => m \in Initializing(p)
  BY <1>1 DEF AnswerInv, InitialsBelong, Belongs, Initializing, InFlight,
              Initial
<1>3. \A p \in pending_mints :
         Initializing(p) \subseteq
             {m \in net : m.type \in Initial /\ m.name = p.name}
  BY DEF Initializing, InFlight, Initial
<1>4. \A p \in pending_mints : Initializing(p) = {} <=> InitializedBy(p)
  BY <1>2, <1>3 DEF AnswerInv, Awaited
<1>5. \A m \in InFlight("init") \cup InFlight("initBounce") :
         \E p \in pending_mints : m \in Initializing(p)
  BY DEF AnswerInv, InitialsBelong, Belongs, Initializing, InFlight, Initial
<1>6. \A p \in pending_mints :
         \A m1, m2 \in Initializing(p) : m1 = m2
  BY <1>3 DEF AnswerInv, InitialsOnce
<1> QED BY <1>1, <1>4, <1>5, <1>6 DEF OneAnswer

LEMMA AnswerInit == Init => AnswerInv
BY DEF Init, AnswerInv, NamesOnce, InitialsBelong, InitialsOnce, Awaited,
       DeployedIsTrue, NoncesBounded

(* What leaves the pending mints, their InitializeUsernameItems and what   *)
(* the items were initialized with alone.                                  *)
LEMMA AnswerFrame ==
    ASSUME MintTypeOK, AnswerInv,
           mint_seq' = mint_seq, pending_mints' = pending_mints,
           \A n \in Names : /\ item'[n].initialized = item[n].initialized
                            /\ item'[n].init_owner = item[n].init_owner
                            /\ item'[n].nonce = item[n].nonce,
           \A m \in Messages :
               m.type \in Initial => (m \in net' <=> m \in net),
           NetOK(net'),
           \A m \in net' : m.type = "deployed" =>
               \/ m \in net
               \/ /\ item[m.name].initialized
                  /\ m = DeployedAck(m.name, item[m.name])
    PROVE  AnswerInv'
<1>1. \A m \in net' : m.type \in InitTypes => m.name \in Names
  BY MessageKinds DEF NetOK, Inits
<1>2. \A p \in pending_mints : p.name \in Names
  BY DEF MintTypeOK, MintsOK, PendingMints
<1>3. \A m : m.type \in Initial => (m \in net' <=> m \in net)
  BY DEF NetOK, MintTypeOK
<1>4. NamesOnce' /\ InitialsBelong' /\ InitialsOnce'
  BY <1>3 DEF AnswerInv, NamesOnce, InitialsBelong, InitialsOnce
<1>5. \A p \in pending_mints : InitializedBy(p)' <=> InitializedBy(p)
  BY <1>2 DEF InitializedBy
<1>6. Awaited'
  BY <1>3, <1>5 DEF AnswerInv, Awaited
<1>7. DeployedIsTrue'
  <2> SUFFICES ASSUME NEW m \in net', m.type = "deployed"
               PROVE  /\ item'[m.name].initialized
                      /\ m.owner = item'[m.name].init_owner
                      /\ m.nonce = item'[m.name].nonce
    BY DEF DeployedIsTrue
  <2>1. m.name \in Names
    BY <1>1 DEF InitTypes
  <2>2. CASE m \in net
    BY <2>1, <2>2 DEF AnswerInv, DeployedIsTrue
  <2>3. CASE /\ item[m.name].initialized
             /\ m = DeployedAck(m.name, item[m.name])
    <3>1. /\ m.owner = item[m.name].init_owner
          /\ m.nonce = item[m.name].nonce
      BY <2>3 DEF DeployedAck
    <3> QED BY <2>1, <2>3, <3>1
  <2> QED BY <2>2, <2>3
<1>8. NoncesBounded'
  BY DEF AnswerInv, NoncesBounded
<1> QED BY <1>4, <1>6, <1>7, <1>8 DEF AnswerInv

LEMMA AcceptAnswer ==
    ASSUME MintTypeOK, AnswerInv, NEW m \in InFlight("notify"),
           AcceptUsernameMint(m)
    PROVE  AnswerInv'
<1>1. PICK p :
         p = [name |-> m.name, qid |-> m.qid, payer |-> m.payer,
              owner |-> m.owner, price |-> m.amount, nonce |-> mint_seq']
  OBVIOUS
<1>2. PICK r : r = [type |-> "init", name |-> m.name, owner |-> m.owner,
                    nonce |-> mint_seq']
  OBVIOUS
<1>3. /\ mint_seq' = mint_seq + 1 /\ item' = item
      /\ \A o \in pending_mints : o.name # m.name
      /\ pending_mints' = pending_mints \cup {p}
      /\ net' = (net \ {m}) \cup {r}
  BY <1>1, <1>2 DEF AcceptUsernameMint, Answer, PendingMint
<1>4. /\ p.name = m.name /\ p.nonce = mint_seq + 1 /\ Belongs(r, p)
      /\ r.type = "init" /\ r.name = m.name /\ m.type = "notify"
      /\ mint_seq \in Nat /\ m.name \in Names
  <2>1. m \in Payments /\ m.type = "notify"
    BY MessageKinds DEF MintTypeOK, NetOK, InFlight, PaymentTypes
  <2> QED BY <1>1, <1>2, <1>3, <2>1 DEF Belongs, MintTypeOK, Payments
<1>5. NamesOnce' /\ InitialsBelong'
  BY <1>3, <1>4 DEF AnswerInv, NamesOnce, InitialsBelong, Initial
<1>6. \A k \in net : k.type \in Initial => k.name # m.name
  BY <1>3 DEF AnswerInv, InitialsBelong, Belongs
<1>7. InitialsOnce'
  BY <1>3, <1>4, <1>6 DEF AnswerInv, InitialsOnce, Initial
<1>8. Awaited'
  <2>1. ~InitializedBy(p)'
    <3>1. item[m.name].nonce <= mint_seq /\ item[m.name].nonce \in Nat
      BY <1>4 DEF AnswerInv, NoncesBounded, MintTypeOK, Items
    <3> QED BY <1>3, <1>4, <3>1 DEF InitializedBy
  <2>2. r \in net' /\ r.type \in Initial /\ r.name = p.name
    BY <1>3, <1>4 DEF Initial
  <2>3. \A o \in pending_mints : InitializedBy(o)' <=> InitializedBy(o)
    BY <1>3 DEF InitializedBy
  <2>4. \A o \in pending_mints : \A k :
           k.type \in Initial /\ k.name = o.name =>
               (k \in net' <=> k \in net)
    BY <1>3, <1>4 DEF Initial
  <2> QED BY <1>3, <2>1, <2>2, <2>3, <2>4 DEF AnswerInv, Awaited
<1>9. DeployedIsTrue'
  BY <1>3, <1>4 DEF AnswerInv, DeployedIsTrue
<1>10. NoncesBounded'
  BY <1>3, <1>4
     DEF AnswerInv, NoncesBounded, MintTypeOK, MintsOK, PendingMints, Items
<1> QED BY <1>5, <1>7, <1>8, <1>9, <1>10 DEF AnswerInv

LEMMA InitializeAnswer ==
    ASSUME MintTypeOK, AnswerInv, NEW m \in InFlight("init"),
           InitializeUsernameItem(m)
    PROVE  AnswerInv'
<1> DEFINE it == [initialized |-> TRUE, owner |-> m.owner,
                  init_owner |-> m.owner, nonce |-> m.nonce]
           r == DeployedAck(m.name, item'[m.name])
<1>1. /\ m \in net /\ m.type = "init" /\ m.type \in Initial
      /\ m.name \in Names /\ m.nonce \in Nat
  BY MessageKinds DEF MintTypeOK, NetOK, InFlight, InitTypes, Inits, Initial
<1>2. /\ mint_seq' = mint_seq /\ pending_mints' = pending_mints
      /\ ~item[m.name].initialized
      /\ item' = [item EXCEPT ![m.name] = it]
      /\ net' = (net \ {m}) \cup {r}
  BY DEF InitializeUsernameItem, Answer, registryVars
<1>3. /\ item'[m.name] = it
      /\ \A n \in Names : n # m.name => item'[n] = item[n]
  <2> HIDE DEF it
  <2> QED BY <1>1, <1>2 DEF MintTypeOK
<1>4. /\ it.initialized /\ it.nonce = m.nonce /\ it.init_owner = m.owner
      /\ r.type = "deployed" /\ r.name = m.name /\ r.owner = m.owner
      /\ r.nonce = m.nonce
  BY <1>3 DEF DeployedAck
<1> HIDE DEF it, r
<1>5. PICK p \in pending_mints : Belongs(m, p)
  BY <1>1 DEF AnswerInv, InitialsBelong
<1>6. /\ \A o \in pending_mints : o.name \in Names
      /\ \A o \in pending_mints : o.name = m.name => o = p
  BY <1>5 DEF AnswerInv, NamesOnce, Belongs, MintTypeOK, MintsOK, PendingMints
<1>7. NamesOnce' /\ InitialsBelong' /\ InitialsOnce'
  BY <1>2, <1>4
     DEF AnswerInv, NamesOnce, InitialsBelong, InitialsOnce, Initial
<1>8. Awaited'
  <2> SUFFICES ASSUME NEW o \in pending_mints
               PROVE  InitializedBy(o)' <=>
                         ~ \E k \in net' : k.type \in Initial
                                           /\ k.name = o.name
    BY <1>2 DEF Awaited
  <2>1. CASE o.name = m.name
    <3>1. InitializedBy(o)'
      BY <1>3, <1>4, <1>5, <1>6, <2>1 DEF InitializedBy, Belongs
    <3>2. ~ \E k \in net' : k.type \in Initial /\ k.name = o.name
      BY <1>1, <1>2, <1>4, <2>1 DEF AnswerInv, InitialsOnce, Initial
    <3> QED BY <3>1, <3>2
  <2>2. CASE o.name # m.name
    <3>1. InitializedBy(o)' <=> InitializedBy(o)
      BY <1>3, <1>6, <2>2 DEF InitializedBy
    <3>2. \A k : k.type \in Initial /\ k.name = o.name =>
                    (k \in net' <=> k \in net)
      BY <1>2, <1>4, <2>2 DEF Initial
    <3> QED BY <3>1, <3>2 DEF AnswerInv, Awaited
  <2> QED BY <2>1, <2>2
<1>9. DeployedIsTrue'
  <2> SUFFICES ASSUME NEW k \in net', k.type = "deployed"
               PROVE  /\ item'[k.name].initialized
                      /\ k.owner = item'[k.name].init_owner
                      /\ k.nonce = item'[k.name].nonce
    BY DEF DeployedIsTrue
  <2>1. CASE k = r
    BY <1>3, <1>4, <2>1
  <2>2. CASE k # r
    <3>1. k \in net /\ k.name \in Names
      BY <1>2, <2>2, MessageKinds DEF MintTypeOK, NetOK, InitTypes, Inits
    <3>2. item[k.name].initialized
      BY <3>1 DEF AnswerInv, DeployedIsTrue
    <3> QED BY <1>2, <1>3, <3>1, <3>2 DEF AnswerInv, DeployedIsTrue
  <2> QED BY <2>1, <2>2
<1>10. NoncesBounded'
  BY <1>2, <1>3, <1>4, <1>5 DEF AnswerInv, NoncesBounded, Belongs
<1> QED BY <1>7, <1>8, <1>9, <1>10 DEF AnswerInv

LEMMA RefuseInitAnswer ==
    ASSUME MintTypeOK, AnswerInv, NEW m \in InFlight("init"),
           RefuseInitialize(m)
    PROVE  AnswerInv'
<1> DEFINE r == [m EXCEPT !.type = "initBounce"]
<1>1. m \in net /\ m.type \in Initial /\ m \in Inits
  BY MessageKinds DEF MintTypeOK, NetOK, InFlight, InitTypes, Initial
<1>2. /\ UNCHANGED <<mint_seq, pending_mints, item>>
      /\ net' = (net \ {m}) \cup {r}
  BY DEF RefuseInitialize, Bounce, Answer, registryVars
<1>3. /\ r.type = "initBounce" /\ r.name = m.name /\ r.owner = m.owner
      /\ r.nonce = m.nonce
  BY <1>1, BouncedInit
<1> HIDE DEF r
<1>4. NamesOnce' /\ InitialsBelong' /\ InitialsOnce'
  BY <1>1, <1>2, <1>3
     DEF AnswerInv, NamesOnce, InitialsBelong, InitialsOnce, Initial, Belongs
<1>5. Awaited'
  <2>1. \A o \in pending_mints : InitializedBy(o)' <=> InitializedBy(o)
    BY <1>2 DEF InitializedBy
  <2>2. \A o \in pending_mints :
           (\E k \in net' : k.type \in Initial /\ k.name = o.name) <=>
           (\E k \in net : k.type \in Initial /\ k.name = o.name)
    BY <1>1, <1>2, <1>3 DEF Initial
  <2> QED BY <1>2, <2>1, <2>2 DEF AnswerInv, Awaited
<1>6. DeployedIsTrue' /\ NoncesBounded'
  BY <1>2, <1>3 DEF AnswerInv, DeployedIsTrue, NoncesBounded
<1> QED BY <1>4, <1>5, <1>6 DEF AnswerInv

(* The pending mint that ends takes its messages with it.                  *)
LEMMA EndsAnswer ==
    ASSUME MintTypeOK, AnswerInv, NEW p \in pending_mints, NEW m \in net,
           NEW r, r.type \in NoteTypes,
           \/ m.type = "deployed" /\ InitializedBy(p)
           \/ m.type \in Initial /\ m.name = p.name,
           UNCHANGED <<mint_seq, item>>,
           pending_mints' = pending_mints \ {p}, Answer(m, r)
    PROVE  AnswerInv'
<1>1. r.type \notin Initial /\ r.type # "deployed"
  BY DEF NoteTypes, Initial
<1>2. net' = (net \ {m}) \cup {r}
  BY DEF Answer
<1>3. \A o \in pending_mints : o.name = p.name => o = p
  BY DEF AnswerInv, NamesOnce
<1>4. \A k \in net' : k.type \in Initial => k \in net /\ k.name # p.name
  BY <1>1, <1>2 DEF AnswerInv, InitialsOnce, Awaited
<1>5. \A o \in pending_mints', k \in net :
         k.type \in Initial /\ k.name = o.name => k \in net'
  <2> SUFFICES ASSUME NEW o \in pending_mints', NEW k \in net,
                      k.type \in Initial, k.name = o.name, k = m
               PROVE  FALSE
    BY <1>2
  <2>1. o.name # p.name
    BY <1>3
  <2> QED BY <2>1 DEF AnswerInv, InitialsOnce, Awaited, Initial
<1>6. NamesOnce' /\ InitialsBelong' /\ InitialsOnce'
  <2>1. NamesOnce' /\ InitialsOnce'
    BY <1>1, <1>2 DEF AnswerInv, NamesOnce, InitialsOnce
  <2>2. InitialsBelong'
    BY <1>4 DEF AnswerInv, InitialsBelong, Belongs
  <2> QED BY <2>1, <2>2
<1>7. Awaited'
  <2>1. \A o \in pending_mints : InitializedBy(o)' <=> InitializedBy(o)
    BY DEF InitializedBy
  <2> QED BY <1>4, <1>5, <2>1 DEF AnswerInv, Awaited
<1>8. DeployedIsTrue' /\ NoncesBounded'
  BY <1>1, <1>2 DEF AnswerInv, DeployedIsTrue, NoncesBounded
<1> QED BY <1>6, <1>7, <1>8 DEF AnswerInv

LEMMA OutcomeAnswer ==
    ASSUME MintTypeOK, AnswerInv, NEW m,
           \/ m \in InFlight("deployed") /\ ItemDeployedAck(m)
           \/ m \in InFlight("initBounce") /\ BouncedInitialize(m)
    PROVE  AnswerInv'
<1>1. CASE m \in InFlight("deployed") /\ ItemDeployedAck(m)
  <2>1. PICK p \in pending_mints :
           /\ Finalizes(p, m)
           /\ pending_mints' = pending_mints \ {p}
           /\ Answer(m, NoteAck(p))
           /\ UNCHANGED <<mint_seq, item>>
    BY <1>1 DEF ItemDeployedAck
  <2>2. m \in net /\ m.type = "deployed" /\ InitializedBy(p)
    BY <1>1, <2>1
       DEF InFlight, AnswerInv, DeployedIsTrue, Finalizes, InitializedBy
  <2>3. NoteAck(p).type \in NoteTypes
    BY DEF NoteAck, NoteTypes
  <2> QED BY <2>1, <2>2, <2>3, EndsAnswer
<1>2. CASE m \in InFlight("initBounce") /\ BouncedInitialize(m)
  <2>1. PICK p \in pending_mints :
           /\ p.name = m.name
           /\ pending_mints' = pending_mints \ {p}
           /\ Answer(m, NoteRefund(p))
           /\ UNCHANGED <<mint_seq, item>>
    BY <1>2 DEF BouncedInitialize, PendingMint
  <2>2. m \in net /\ m.type \in Initial /\ m.name = p.name
    BY <1>2, <2>1 DEF InFlight, Initial
  <2>3. NoteRefund(p).type \in NoteTypes
    BY DEF NoteRefund, NoteTypes
  <2> QED BY <2>1, <2>2, <2>3, EndsAnswer
<1> QED BY <1>1, <1>2

(* The messages of payments and of flushes are nobody's answer.            *)
LEMMA OtherAnswer ==
    ASSUME MintTypeOK, MintTypeOK', AnswerInv,
           UNCHANGED <<mint_seq, pending_mints, item>>,
           \A m \in net : m.type \in Initial => m \in net',
           \A m \in net' : m.type \in InitTypes => m \in net
    PROVE  AnswerInv'
<1>1. \A m \in Messages : m.type \in Initial => (m \in net' <=> m \in net)
  BY DEF Initial, InitTypes
<1>2. \A m \in net' : m.type = "deployed" => m \in net
  BY DEF InitTypes
<1>3. NetOK(net')
  BY DEF MintTypeOK
<1> QED BY <1>1, <1>2, <1>3, AnswerFrame

LEMMA PaymentAnswer ==
    ASSUME MintTypeOK, MintTypeOK', AnswerInv,
           \/ \E u, o \in Users, q \in QueryIds, n \in Names :
                 \E a \in scene.amounts : Pay(u, q, n, o, a)
           \/ \E m \in InFlight("notify") : RefuseUsernameMint(m)
           \/ \E m \in InFlight("deployed") : StaleDeployedAck(m)
           \/ NoteStep
           \/ \E n \in pending_notifications : PruneStaleNotification(n)
           \/ \E m \in net : Lose(m)
    PROVE  AnswerInv'
<1>1. CASE \E u, o \in Users, q \in QueryIds, n \in Names :
              \E a \in scene.amounts : Pay(u, q, n, o, a)
  <2>1. PICK r : r.type = "notify" /\ net' = net \cup {r}
    BY <1>1 DEF Pay
  <2>2. UNCHANGED <<mint_seq, pending_mints, item>>
    BY <1>1 DEF Pay, registryVars
  <2> QED BY <2>1, <2>2, OtherAnswer DEF InitTypes
<1>2. ASSUME NEW m \in InFlight("notify"), RefuseUsernameMint(m)
      PROVE  AnswerInv'
  <2>1. /\ net' = (net \ {m}) \cup {[m EXCEPT !.type = "notifyBounce"]}
        /\ UNCHANGED <<mint_seq, pending_mints, item>>
    BY <1>2 DEF RefuseUsernameMint, Bounce, Answer, registryVars
  <2>2. m \in Payments /\ m.type = "notify"
    BY MessageKinds DEF MintTypeOK, NetOK, InFlight, PaymentTypes
  <2>3. [m EXCEPT !.type = "notifyBounce"].type = "notifyBounce"
    BY <2>2, BouncedPayment
  <2> QED BY <2>1, <2>2, <2>3, OtherAnswer DEF InitTypes, Initial
<1>3. ASSUME NEW m, m.type \notin Initial, net' = net \ {m},
             UNCHANGED <<mint_seq, pending_mints, item>>
      PROVE  AnswerInv'
  BY <1>3, OtherAnswer
<1>4. CASE \E m \in InFlight("deployed") : StaleDeployedAck(m)
  BY <1>3, <1>4 DEF StaleDeployedAck, InFlight, Consume, registryVars, Initial
<1>5. CASE NoteStep
  BY <1>3, <1>5
     DEF NoteStep, NotificationAck, RefundPendingNotification, RefundFails,
         InFlight, Consume, registryVars, Initial
<1>6. CASE \E n \in pending_notifications : PruneStaleNotification(n)
  BY <1>6, OtherAnswer DEF PruneStaleNotification, registryVars
<1>7. CASE \E m \in net : Lose(m)
  <2>1. scene.lossy \subseteq LossyTypes
    BY MintAssumption DEF MintTypeOK
  <2> QED BY <1>3, <1>7, <2>1 DEF Lose, Consume, registryVars, Initial,
                                  LossyTypes
<1> QED BY <1>1, <1>2, <1>4, <1>5, <1>6, <1>7

LEMMA FlushAnswer ==
    ASSUME MintTypeOK, MintTypeOK', AnswerInv,
           \/ FlushStep
           \/ \E k \in scene.flushes, q \in QueryIds : FlushDue(k, q)
           \/ \E t \in transfers :
                 CreditTransfer(t) \/ SourceAck(t) \/ TakeBackTransfer(t)
    PROVE  AnswerInv'
<1>1. UNCHANGED <<mint_seq, pending_mints, item>>
  BY DEF FlushStep, FlushTransferRequest, FlushBurn, RefuseFlushRequest,
         BurnNotification, BouncedBurnNotification, FlushDone, FlushFailed,
         FlushDue, CreditTransfer, SourceAck, TakeBackTransfer, registryVars
<1>2. ASSUME NEW m \in net, m.type \in FlushTypes, NEW t \in FlushTypes,
             Bounce(m, t)
      PROVE  AnswerInv'
  <2>1. [m EXCEPT !.type = t].type = t
    BY <1>2, MessageKinds, NextFlush DEF MintTypeOK, NetOK
  <2>2. net' = (net \ {m}) \cup {[m EXCEPT !.type = t]}
    BY <1>2 DEF Bounce, Answer
  <2> QED BY <1>1, <1>2, <2>1, <2>2, OtherAnswer
          DEF InitTypes, Initial, FlushTypes
<1>3. ASSUME NEW m \in net, m.type \in FlushTypes, net' = net \ {m}
      PROVE  AnswerInv'
  BY <1>1, <1>3, OtherAnswer DEF InitTypes, Initial, FlushTypes
<1>4. ASSUME NEW r, r.type \in FlushTypes, net' = net \/ net' = net \cup {r}
      PROVE  AnswerInv'
  BY <1>1, <1>4, OtherAnswer DEF InitTypes, FlushTypes
<1>5. CASE FlushStep
  BY <1>2, <1>3, <1>5
     DEF FlushStep, FlushTransferRequest, FlushBurn, RefuseFlushRequest,
         BurnNotification, BouncedBurnNotification, FlushDone, FlushFailed,
         InFlight, Consume, FlushTypes
<1>6. CASE \E k \in scene.flushes, q \in QueryIds : FlushDue(k, q)
  <2>1. PICK r : r.type = "request" /\ net' = net \cup {r}
    BY <1>6 DEF FlushDue
  <2> QED BY <1>4, <2>1 DEF FlushTypes
<1>7. CASE \E t \in transfers :
              CreditTransfer(t) \/ SourceAck(t) \/ TakeBackTransfer(t)
  <2>1. PICK t \in transfers :
           \/ net' = net
           \/ net' = net \cup {[type |-> "done", kind |-> "treasury",
                                qid |-> t.qid, amount |-> t.amount]}
           \/ net' = net \cup {[type |-> "failed", kind |-> "treasury",
                                qid |-> t.qid, amount |-> t.amount]}
    BY <1>7 DEF CreditTransfer, SourceAck, TakeBackTransfer
  <2>2. CASE net' = net
    BY <1>1, <2>2, OtherAnswer
  <2> QED BY <1>4, <2>1, <2>2 DEF FlushTypes
<1> QED BY <1>5, <1>6, <1>7

LEMMA ItemAnswer ==
    ASSUME MintTypeOK, MintTypeOK', AnswerInv,
           \/ \E n \in Names : ResendDeployedAck(n)
           \/ \E n \in Names, o \in Users : NftTransfer(n, o)
    PROVE  AnswerInv'
<1>1. NetOK(net')
  BY DEF MintTypeOK
<1>2. ASSUME NEW n \in Names, ResendDeployedAck(n) PROVE AnswerInv'
  <2>1. /\ net' = net \cup {DeployedAck(n, item[n])}
        /\ item[n].initialized
        /\ UNCHANGED <<mint_seq, pending_mints, item>>
    BY <1>2 DEF ResendDeployedAck, registryVars
  <2>2. /\ DeployedAck(n, item[n]).type = "deployed"
        /\ DeployedAck(n, item[n]).name = n
    BY DEF DeployedAck
  <2>3. \A m \in Messages : m.type \in Initial => (m \in net' <=> m \in net)
    BY <2>1, <2>2 DEF Initial
  <2>4. \A m \in net' : m.type = "deployed" =>
               \/ m \in net
               \/ /\ item[m.name].initialized
                  /\ m = DeployedAck(m.name, item[m.name])
    BY <2>1, <2>2
  <2> QED BY <1>1, <2>1, <2>3, <2>4, AnswerFrame
<1>3. ASSUME NEW n \in Names, NEW o \in Users, NftTransfer(n, o)
      PROVE  AnswerInv'
  <2>1. /\ item' = [item EXCEPT ![n].owner = o]
        /\ UNCHANGED <<mint_seq, pending_mints, net>>
    BY <1>3 DEF NftTransfer, registryVars
  <2>2. \A k \in Names : /\ item'[k].initialized = item[k].initialized
                         /\ item'[k].init_owner = item[k].init_owner
                         /\ item'[k].nonce = item[k].nonce
    BY <2>1 DEF MintTypeOK, Items
  <2> QED BY <1>1, <2>1, <2>2, AnswerFrame
<1> QED BY <1>2, <1>3

LEMMA AnswersKept ==
    ASSUME MintTypeOK, MintTypeOK', AnswerInv, [Next]_vars
    PROVE  AnswerInv'
<1>1. CASE UNCHANGED vars
  BY <1>1, OtherAnswer DEF vars, registryVars
<1>2. CASE MintStep
  BY <1>2, AcceptAnswer, InitializeAnswer, RefuseInitAnswer, OutcomeAnswer,
     PaymentAnswer DEF MintStep
<1> QED BY <1>1, <1>2, PaymentAnswer, FlushAnswer, ItemAnswer DEF Next

LEMMA AnswerInvariant == Spec => [](MintTypeOK /\ AnswerInv)
<1>1. MintTypeOK /\ AnswerInv /\ [Next]_vars => (MintTypeOK /\ AnswerInv)'
  BY MintTypesKept, AnswersKept
<1> QED BY <1>1, MintInitTypes, AnswerInit, PTL DEF Spec

(* A pending mint has one answer to come, and each answer is that of the   *)
(* mint pending for its name.                                              *)
THEOREM AnswersAreOne == Spec => []OneAnswer
<1>1. MintTypeOK /\ AnswerInv => OneAnswer
  BY AnswerInvHolds
<1> QED BY <1>1, AnswerInvariant, PTL

-----------------------------------------------------------------------------
(* How a mint ends.                                                        *)

Settles(p) ==
    IF InitializedBy(p)
    THEN /\ due'.treasury + due'.burn = due.treasury + due.burn + p.price
         /\ NoteAck(p) \in net'
    ELSE /\ NoteRefund(p) \in net'
         /\ UNCHANGED due

LEMMA OutcomeSettles ==
    ASSUME MintTypeOK, AnswerInv, [Next]_vars,
           NEW p \in pending_mints \ pending_mints'
    PROVE  Settles(p)
<1>1. \/ \E m \in InFlight("deployed") : ItemDeployedAck(m)
      \/ \E m \in InFlight("initBounce") : BouncedInitialize(m)
  <2>1. pending_mints' # pending_mints
    OBVIOUS
  <2>2. \A m : AcceptUsernameMint(m) => p \in pending_mints'
    BY DEF AcceptUsernameMint
  <2> QED BY <2>1, <2>2
    DEF Next, MintStep, NoteStep, FlushStep, vars, registryVars, Pay,
        RefuseUsernameMint, InitializeUsernameItem, RefuseInitialize,
        StaleDeployedAck, NotificationAck, RefundPendingNotification,
        RefundFails, FlushTransferRequest, FlushBurn, RefuseFlushRequest,
        BurnNotification, BouncedBurnNotification, FlushDone, FlushFailed,
        ResendDeployedAck, NftTransfer, PruneStaleNotification, FlushDue,
        CreditTransfer, SourceAck, TakeBackTransfer, Lose
<1>2. ASSUME NEW m \in InFlight("deployed"), ItemDeployedAck(m)
      PROVE  Settles(p)
  <2>1. /\ Finalizes(p, m)
        /\ due' = [treasury |-> due.treasury + TreasuryShare(p.price),
                   burn |-> due.burn + (p.price - TreasuryShare(p.price))]
        /\ Answer(m, NoteAck(p))
    BY <1>2 DEF ItemDeployedAck
  <2>2. InitializedBy(p)
    BY <1>2, <2>1
       DEF InFlight, AnswerInv, DeployedIsTrue, Finalizes, InitializedBy
  <2>3. p.price \in Nat /\ due.treasury \in Nat /\ due.burn \in Nat
    BY DEF MintTypeOK, MintsOK, PendingMints, Kinds
  <2>4. /\ TreasuryShare(p.price) \in Nat
        /\ p.price - TreasuryShare(p.price) \in Nat
    BY <2>3, ShareIsPart
  <2>5. due'.treasury + due'.burn = due.treasury + due.burn + p.price
    BY <2>1, <2>3, <2>4
  <2> QED BY <2>1, <2>2, <2>5 DEF Settles, Answer
<1>3. ASSUME NEW m \in InFlight("initBounce"), BouncedInitialize(m)
      PROVE  Settles(p)
  <2>1. /\ p.name = m.name /\ Answer(m, NoteRefund(p)) /\ UNCHANGED due
    BY <1>3 DEF BouncedInitialize, PendingMint, flushVars
  <2>2. ~InitializedBy(p)
    BY <2>1 DEF InFlight, AnswerInv, Awaited, Initial
  <2> QED BY <2>1, <2>2 DEF Settles, Answer
<1> QED BY <1>1, <1>2, <1>3

(* A mint leaves pending_mints either with its item, its price booked and  *)
(* its payment acknowledged, or without, and its payment is sent back.     *)
THEOREM MintsAreSettled == Spec => MintOutcome
<1>1. MintTypeOK /\ AnswerInv /\ [Next]_vars
        => [\A p \in pending_mints \ pending_mints' : Settles(p)]_vars
  BY OutcomeSettles
<1>2. Spec => [][\A p \in pending_mints \ pending_mints' : Settles(p)]_vars
  BY <1>1, AnswerInvariant, PTL DEF Spec
<1> QED BY <1>2 DEF MintOutcome, Settles

-----------------------------------------------------------------------------
(* What messages, pending mints and transfers are worth.                   *)

Part(m, S) == IF m.type \in S THEN m.amount ELSE 0
Worth(N, S) == AmountsOf({m \in N : m.type \in S})

LEMMA AmountsAreTotal == \A S : AmountsOf(S) = TotalAmount(S)
BY DEF AmountsOf, TotalAmount

LEMMA WorthLoses ==
    ASSUME NEW N, NetOK(N), NEW S, S \cap InitTypes = {}, NEW m \in N
    PROVE  /\ Worth(N, S) \in Nat /\ Worth(N \ {m}, S) \in Nat
           /\ Part(m, S) \in Nat
           /\ Worth(N, S) = Worth(N \ {m}, S) + Part(m, S)
<1> DEFINE A == {k \in N : k.type \in S}
           B == {k \in N \ {m} : k.type \in S}
<1>1. IsFiniteSet(A) /\ IsFiniteSet(B)
  BY FS_Subset, FS_RemoveElement DEF NetOK
<1>2. (\A k \in A : k.amount \in Nat) /\ \A k \in B : k.amount \in Nat
  BY MessageKinds DEF NetOK
<1>3. TotalAmount(A) \in Nat /\ TotalAmount(B) \in Nat
  <2> HIDE DEF A, B
  <2> QED BY <1>1, <1>2, AmountsNatural
<1>4. /\ m.type \in S => B = A \ {m} /\ m \in A
      /\ m.type \notin S => B = A
  OBVIOUS
<1>5. Worth(N, S) = TotalAmount(A) /\ Worth(N \ {m}, S) = TotalAmount(B)
  BY AmountsAreTotal DEF Worth
<1> HIDE DEF A, B
<1>6. CASE m.type \in S
  <2>1. TotalAmount(A) = TotalAmount(B) + m.amount /\ m.amount \in Nat
    BY <1>1, <1>2, <1>4, <1>6, AmountsWithout
  <2>2. Part(m, S) = m.amount
    BY <1>6 DEF Part
  <2> QED BY <1>3, <1>5, <2>1, <2>2
<1>7. CASE m.type \notin S
  <2>1. Part(m, S) = 0
    BY <1>7 DEF Part
  <2> QED BY <1>3, <1>4, <1>5, <1>7, <2>1
<1> QED BY <1>6, <1>7

LEMMA WorthGains ==
    ASSUME NEW N, NetOK(N), NEW S, S \cap InitTypes = {}, NEW r \in Messages
    PROVE  /\ Worth(N, S) \in Nat /\ Worth(N \cup {r}, S) \in Nat
           /\ Part(r, S) \in Nat
           /\ Worth(N \cup {r}, S) <= Worth(N, S) + Part(r, S)
           /\ r \notin N \/ r.type \notin S =>
                 Worth(N \cup {r}, S) = Worth(N, S) + Part(r, S)
<1> DEFINE M == N \cup {r}
<1>1. NetOK(M) /\ r \in M
  BY NetGains
<1>2. /\ Worth(M, S) \in Nat /\ Worth(M \ {r}, S) \in Nat
      /\ Part(r, S) \in Nat
      /\ Worth(M, S) = Worth(M \ {r}, S) + Part(r, S)
  <2> HIDE DEF M
  <2> QED BY <1>1, WorthLoses
<1>3. CASE r \notin N
  <2>1. M \ {r} = N
    BY <1>3
  <2> QED BY <1>2, <2>1
<1>4. CASE r \in N
  <2>1. M = N
    BY <1>4
  <2>2. r.type \notin S => Part(r, S) = 0
    BY DEF Part
  <2>3. Worth(M, S) = Worth(N, S)
    BY <2>1
  <2> HIDE DEF M
  <2>4. /\ Worth(N, S) \in Nat /\ Worth(M, S) <= Worth(N, S) + Part(r, S)
        /\ r.type \notin S => Worth(M, S) = Worth(N, S) + Part(r, S)
    BY <1>2, <2>2, <2>3
  <2> QED BY <1>2, <1>4, <2>4 DEF M
<1> QED BY <1>3, <1>4

LEMMA WorthMoves ==
    ASSUME NEW N, NetOK(N), NEW S, S \cap InitTypes = {}, NEW m \in N,
           NEW r \in Messages
    PROVE  /\ Worth(N, S) \in Nat /\ Worth((N \ {m}) \cup {r}, S) \in Nat
           /\ Part(m, S) \in Nat /\ Part(r, S) \in Nat
           /\ Worth((N \ {m}) \cup {r}, S) + Part(m, S)
                 <= Worth(N, S) + Part(r, S)
           /\ r \notin N \/ r.type \notin S =>
                 Worth((N \ {m}) \cup {r}, S) + Part(m, S)
                    = Worth(N, S) + Part(r, S)
<1> DEFINE M == N \ {m}
<1>1. NetOK(M)
  BY NetLoses
<1>2. /\ Worth(N, S) \in Nat /\ Worth(M, S) \in Nat /\ Part(m, S) \in Nat
      /\ Worth(N, S) = Worth(M, S) + Part(m, S)
  BY WorthLoses
<1>3. r \notin N => r \notin M
  OBVIOUS
<1> HIDE DEF M
<1>4. /\ Worth(M \cup {r}, S) \in Nat /\ Part(r, S) \in Nat
      /\ Worth(M \cup {r}, S) <= Worth(M, S) + Part(r, S)
      /\ r \notin M \/ r.type \notin S =>
            Worth(M \cup {r}, S) = Worth(M, S) + Part(r, S)
  BY <1>1, WorthGains
<1> QED BY <1>2, <1>3, <1>4 DEF M

LEMMA PricesWith ==
    ASSUME NEW P, MintsOK(P), NEW p, p \notin P, p.price \in Nat
    PROVE  /\ PricesOf(P) \in Nat
           /\ PricesOf(P \cup {p}) = PricesOf(P) + p.price
<1> DEFINE f == [o \in P |-> o.price]
           e == [o \in P \cup {p} |-> o.price]
<1>1. /\ IsFiniteSet(P) /\ f \in [P -> Nat] /\ e \in [P \cup {p} -> Nat]
      /\ \A o \in P : e[o] = f[o]
      /\ e[p] = p.price
  BY DEF MintsOK, PendingMints
<1>2. PricesOf(P) = SumFunction(f) /\ PricesOf(P \cup {p}) = SumFunction(e)
  BY DEF PricesOf
<1> HIDE DEF f, e
<1>3. SumFunction(f) \in Nat
  BY <1>1, SumOfNaturals
<1>4. f \in [P -> Int] /\ e \in [P \cup {p} -> Int]
  BY <1>1
<1>5. SumFunction(e) = SumFunction(f) + e[p]
  <2>1. \A h \in [P \cup {p} -> Int] :
           (\A o \in P : h[o] = f[o]) =>
               SumFunction(h) = SumFunction(f) + h[p]
    BY <1>1, <1>4, SumOfMore
  <2> QED BY <1>1, <1>4, <2>1
<1> QED BY <1>1, <1>2, <1>3, <1>5

LEMMA PricesWithout ==
    ASSUME NEW P, MintsOK(P), NEW p \in P
    PROVE  /\ PricesOf(P \ {p}) \in Nat /\ p.price \in Nat
           /\ PricesOf(P) = PricesOf(P \ {p}) + p.price
<1> DEFINE Q == P \ {p}
<1>1. MintsOK(Q) /\ p \notin Q /\ Q \cup {p} = P
  BY MintsStay
<1>2. p.price \in Nat
  BY DEF MintsOK, PendingMints
<1> HIDE DEF Q
<1>3. /\ PricesOf(Q) \in Nat
      /\ PricesOf(Q \cup {p}) = PricesOf(Q) + p.price
  BY <1>1, <1>2, PricesWith
<1> QED BY <1>1, <1>2, <1>3 DEF Q

-----------------------------------------------------------------------------
(* The official wallet holds what it owes.                                 *)

Und == {"notify", "notifyBounce", "noteRefund"}
Unf == {"request", "failed"}
Due(d) == d.treasury + d.burn
OwedOf(d, P, N) ==
    d.treasury + d.burn + Worth(N, Unf) + PricesOf(P) + Worth(N, Und)

LEMMA OwedTyped ==
    ASSUME NEW d \in [Kinds -> Nat], NEW P, MintsOK(P), NEW N, NetOK(N)
    PROVE  /\ d.treasury \in Nat /\ d.burn \in Nat
           /\ PricesOf(P) \in Nat
           /\ \A S : S \cap InitTypes = {} => Worth(N, S) \in Nat
           /\ Worth(N, Unf) \in Nat /\ Worth(N, Und) \in Nat
           /\ OwedOf(d, P, N) \in Nat
<1>1. d.treasury \in Nat /\ d.burn \in Nat
  BY DEF Kinds
<1>2. PricesOf(P) \in Nat
  <2> DEFINE f == [p \in P |-> p.price]
  <2>1. IsFiniteSet(P) /\ f \in [P -> Nat]
    BY DEF MintsOK, PendingMints
  <2> HIDE DEF f
  <2>2. SumFunction(f) \in Nat
    BY <2>1, SumOfNaturals
  <2> QED BY <2>2 DEF PricesOf, f
<1>3. \A S : S \cap InitTypes = {} => Worth(N, S) \in Nat
  <2> SUFFICES ASSUME NEW S, S \cap InitTypes = {} PROVE Worth(N, S) \in Nat
    OBVIOUS
  <2> DEFINE A == {k \in N : k.type \in S}
  <2>1. IsFiniteSet(A) /\ \A k \in A : k.amount \in Nat
    <3>1. IsFiniteSet(A)
      BY FS_Subset DEF NetOK
    <3> QED BY <3>1, MessageKinds DEF NetOK
  <2> HIDE DEF A
  <2>2. TotalAmount(A) \in Nat
    BY <2>1, AmountsNatural
  <2> QED BY <2>2, AmountsAreTotal DEF Worth, A
<1>4. Worth(N, Unf) \in Nat /\ Worth(N, Und) \in Nat
  BY <1>3 DEF Unf, Und, InitTypes
<1> QED BY <1>1, <1>2, <1>3, <1>4 DEF OwedOf

LEMMA OwedIs ==
    /\ Solvent <=> balance >= OwedOf(due, pending_mints, net)
    /\ Solvent' <=> balance' >= OwedOf(due', pending_mints', net')
BY DEF Solvent, Owed, OwedOf, Unflushed, Undecided, Worth, Unf, Und

(* What a message is worth in both of the sums.                            *)
LEMMA OwedParts ==
    ASSUME NEW m
    PROVE  /\ m.type \in Und => Part(m, Und) = m.amount /\ Part(m, Unf) = 0
           /\ m.type \in Unf => Part(m, Unf) = m.amount /\ Part(m, Und) = 0
           /\ m.type \notin Und \cup Unf =>
                 Part(m, Und) = 0 /\ Part(m, Unf) = 0
BY DEF Part, Und, Unf

LEMMA OwedAreMoney == Und \cap InitTypes = {} /\ Unf \cap InitTypes = {}
BY DEF Und, Unf, InitTypes

(* A step of messages alone: one goes, one comes, or both.                 *)
LEMMA OwedGoes ==
    ASSUME MintTypeOK, NEW m \in net, net' = net \ {m}
    PROVE  /\ Worth(net', Und) + Part(m, Und) = Worth(net, Und)
           /\ Worth(net', Unf) + Part(m, Unf) = Worth(net, Unf)
<1>1. NetOK(net)
  BY DEF MintTypeOK
<1>2. \A S : S \cap InitTypes = {} =>
         Worth(net, S) = Worth(net \ {m}, S) + Part(m, S)
  BY <1>1, WorthLoses
<1> QED BY <1>2, OwedAreMoney

LEMMA OwedComes ==
    ASSUME MintTypeOK, NEW r \in Messages, net' = net \cup {r}
    PROVE  /\ Worth(net', Und) <= Worth(net, Und) + Part(r, Und)
           /\ Worth(net', Unf) <= Worth(net, Unf) + Part(r, Unf)
<1>1. NetOK(net)
  BY DEF MintTypeOK
<1>2. \A S : S \cap InitTypes = {} =>
         Worth(net \cup {r}, S) <= Worth(net, S) + Part(r, S)
  BY <1>1, WorthGains
<1> QED BY <1>2, OwedAreMoney

LEMMA OwedMoves ==
    ASSUME MintTypeOK, NEW m \in net, NEW r \in Messages, Answer(m, r)
    PROVE  /\ Worth(net', Und) + Part(m, Und) <= Worth(net, Und) + Part(r, Und)
           /\ Worth(net', Unf) + Part(m, Unf) <= Worth(net, Unf) + Part(r, Unf)
<1>1. NetOK(net) /\ net' = (net \ {m}) \cup {r}
  BY DEF MintTypeOK, Answer
<1>2. \A S : S \cap InitTypes = {} =>
         Worth((net \ {m}) \cup {r}, S) + Part(m, S)
             <= Worth(net, S) + Part(r, S)
  BY <1>1, WorthMoves
<1> QED BY <1>1, <1>2, OwedAreMoney

(* A step that owes no more keeps the wallet solvent.                      *)
LEMMA OwesNoMore ==
    ASSUME MintTypeOK, MintTypeOK', Solvent,
           balance + OwedOf(due', pending_mints', net')
               <= balance' + OwedOf(due, pending_mints, net)
    PROVE  Solvent'
<1>1. OwedOf(due, pending_mints, net) \in Nat
  BY OwedTyped DEF MintTypeOK
<1>2. OwedOf(due', pending_mints', net') \in Nat
  BY OwedTyped DEF MintTypeOK
<1>3. balance \in Nat /\ balance' \in Nat
  BY DEF MintTypeOK
<1> QED BY <1>1, <1>2, <1>3, OwedIs

(* The ways a step may change what is owed.                                *)
LEMMA OwedSteps ==
    ASSUME MintTypeOK, MintTypeOK', Solvent,
           NEW goes \in Nat, NEW comes \in Nat,
           Worth(net', Und) + Worth(net', Unf) + goes
               <= Worth(net, Und) + Worth(net, Unf) + comes,
           balance + Due(due') + PricesOf(pending_mints') + comes
               <= balance' + Due(due) + PricesOf(pending_mints) + goes
    PROVE  Solvent'
<1>1. /\ Due(due) \in Nat /\ PricesOf(pending_mints) \in Nat
      /\ Worth(net, Unf) \in Nat /\ Worth(net, Und) \in Nat
  BY OwedTyped DEF MintTypeOK, Due
<1>2. /\ Due(due') \in Nat /\ PricesOf(pending_mints') \in Nat
      /\ Worth(net', Unf) \in Nat /\ Worth(net', Und) \in Nat
  BY OwedTyped DEF MintTypeOK, Due
<1>3. /\ OwedOf(due, pending_mints, net)
            = Due(due) + PricesOf(pending_mints)
                + Worth(net, Unf) + Worth(net, Und)
      /\ OwedOf(due', pending_mints', net')
            = Due(due') + PricesOf(pending_mints')
                + Worth(net', Unf) + Worth(net', Und)
  <2>1. /\ due.treasury \in Nat /\ due.burn \in Nat
        /\ due'.treasury \in Nat /\ due'.burn \in Nat
    BY DEF MintTypeOK, Kinds
  <2> QED BY <1>1, <1>2, <2>1 DEF OwedOf, Due
<1>4. balance \in Nat /\ balance' \in Nat
  BY DEF MintTypeOK
<1>5. balance + OwedOf(due', pending_mints', net')
          <= balance' + OwedOf(due, pending_mints, net)
  BY <1>1, <1>2, <1>3, <1>4
<1> QED BY <1>5, OwesNoMore

(* A message that goes, one that comes, and one that replaces another, in  *)
(* the form that OwedSteps wants.                                          *)
Value(m) == Part(m, Und) + Part(m, Unf)

LEMMA ValueIs ==
    ASSUME NEW m, m.type \in Und \cup Unf => m.amount \in Nat
    PROVE  /\ Value(m) \in Nat
           /\ m.type \in Und \cup Unf => Value(m) = m.amount
           /\ m.type \notin Und \cup Unf => Value(m) = 0
<1>1. CASE m.type \in Und
  BY <1>1, OwedParts DEF Value
<1>2. CASE m.type \in Unf
  BY <1>2, OwedParts DEF Value
<1>3. CASE m.type \notin Und \cup Unf
  BY <1>3, OwedParts DEF Value
<1> QED BY <1>1, <1>2, <1>3

LEMMA ValueOfMessage ==
    ASSUME NEW m \in Messages
    PROVE  /\ Value(m) \in Nat
           /\ m.type \in Und \cup Unf => Value(m) = m.amount
           /\ m.type \notin Und \cup Unf => Value(m) = 0
<1>1. m.type \in Und \cup Unf => m.amount \in Nat
  BY MessageKinds DEF Und, Unf, InitTypes
<1> QED BY <1>1, ValueIs

(* The books of the registry and of its wallet, as numbers.                *)
LEMMA BooksTyped ==
    ASSUME MintTypeOK
    PROVE  /\ balance \in Nat /\ Due(due) \in Nat
           /\ PricesOf(pending_mints) \in Nat
BY OwedTyped DEF MintTypeOK, Due

LEMMA BooksAreNumbers ==
    ASSUME MintTypeOK, MintTypeOK'
    PROVE  /\ balance \in Nat /\ Due(due) \in Nat
           /\ PricesOf(pending_mints) \in Nat
           /\ balance' \in Nat /\ Due(due') \in Nat
           /\ PricesOf(pending_mints') \in Nat
BY OwedTyped DEF MintTypeOK, Due

LEMMA SolventGoes ==
    ASSUME MintTypeOK, MintTypeOK', Solvent, NEW m \in net, net' = net \ {m},
           balance + Due(due') + PricesOf(pending_mints')
               <= balance' + Due(due) + PricesOf(pending_mints) + Value(m)
    PROVE  Solvent'
<1>1. /\ Worth(net, Unf) \in Nat /\ Worth(net, Und) \in Nat
      /\ Worth(net', Unf) \in Nat /\ Worth(net', Und) \in Nat
  BY OwedTyped DEF MintTypeOK
<1>2. Value(m) \in Nat
  BY ValueOfMessage DEF MintTypeOK, NetOK
<1>3. Part(m, Und) \in Nat /\ Part(m, Unf) \in Nat
  BY MessageKinds DEF Part, Und, Unf, InitTypes, MintTypeOK, NetOK
<1>4. Worth(net', Und) + Worth(net', Unf) + Value(m)
          <= Worth(net, Und) + Worth(net, Unf) + 0
  <2>1. /\ Worth(net', Und) + Part(m, Und) = Worth(net, Und)
        /\ Worth(net', Unf) + Part(m, Unf) = Worth(net, Unf)
    BY OwedGoes
  <2> QED BY <1>1, <1>3, <2>1 DEF Value
<1>5. balance + Due(due') + PricesOf(pending_mints') + 0
          <= balance' + Due(due) + PricesOf(pending_mints) + Value(m)
  BY BooksAreNumbers
<1> QED BY <1>2, <1>4, <1>5, OwedSteps

LEMMA SolventComes ==
    ASSUME MintTypeOK, MintTypeOK', Solvent, NEW r \in Messages,
           net' = net \cup {r},
           balance + Due(due') + PricesOf(pending_mints') + Value(r)
               <= balance' + Due(due) + PricesOf(pending_mints)
    PROVE  Solvent'
<1>1. /\ Worth(net, Unf) \in Nat /\ Worth(net, Und) \in Nat
      /\ Worth(net', Unf) \in Nat /\ Worth(net', Und) \in Nat
  BY OwedTyped DEF MintTypeOK
<1>2. Value(r) \in Nat
  BY ValueOfMessage
<1>3. Part(r, Und) \in Nat /\ Part(r, Unf) \in Nat
  BY MessageKinds DEF Part, Und, Unf, InitTypes
<1>4. Worth(net', Und) + Worth(net', Unf) + 0
          <= Worth(net, Und) + Worth(net, Unf) + Value(r)
  <2>1. /\ Worth(net', Und) <= Worth(net, Und) + Part(r, Und)
        /\ Worth(net', Unf) <= Worth(net, Unf) + Part(r, Unf)
    BY OwedComes
  <2> QED BY <1>1, <1>3, <2>1 DEF Value
<1>5. balance + Due(due') + PricesOf(pending_mints') + Value(r)
          <= balance' + Due(due) + PricesOf(pending_mints) + 0
  BY BooksAreNumbers
<1> QED BY <1>2, <1>4, <1>5, OwedSteps

LEMMA SolventMoves ==
    ASSUME MintTypeOK, MintTypeOK', Solvent, NEW m \in net,
           NEW r \in Messages, Answer(m, r),
           balance + Due(due') + PricesOf(pending_mints') + Value(r)
               <= balance' + Due(due) + PricesOf(pending_mints) + Value(m)
    PROVE  Solvent'
<1>1. /\ Worth(net, Unf) \in Nat /\ Worth(net, Und) \in Nat
      /\ Worth(net', Unf) \in Nat /\ Worth(net', Und) \in Nat
  BY OwedTyped DEF MintTypeOK
<1>2. Value(m) \in Nat /\ Value(r) \in Nat
  BY ValueOfMessage DEF MintTypeOK, NetOK
<1>3. /\ Part(m, Und) \in Nat /\ Part(m, Unf) \in Nat
      /\ Part(r, Und) \in Nat /\ Part(r, Unf) \in Nat
  BY MessageKinds DEF Part, Und, Unf, InitTypes, MintTypeOK, NetOK
<1>4. Worth(net', Und) + Worth(net', Unf) + Value(m)
          <= Worth(net, Und) + Worth(net, Unf) + Value(r)
  BY <1>1, <1>3, OwedMoves DEF Value
<1> QED BY <1>1, <1>2, <1>4, OwedSteps, OwedTyped DEF MintTypeOK, Due

LEMMA MintSolvent ==
    ASSUME MintTypeOK, MintTypeOK', Solvent,
           \/ \E u, o \in Users, q \in QueryIds, n \in Names :
                 \E a \in scene.amounts : Pay(u, q, n, o, a)
           \/ MintStep
    PROVE  Solvent'
<1>1. ASSUME NEW u \in Users, NEW o \in Users, NEW q \in QueryIds,
             NEW n \in Names, NEW a \in scene.amounts, Pay(u, q, n, o, a)
      PROVE  Solvent'
  <2>1. a \in Nat
    BY MintAssumption DEF MintTypeOK
  <2>2. PICK r \in Messages :
           /\ net' = net \cup {r} /\ r.type = "notify" /\ r.amount = a
           /\ balance' = balance + a /\ UNCHANGED <<due, pending_mints>>
    <3>1. [type |-> "notify", qid |-> q, payer |-> u, name |-> n,
           owner |-> o, amount |-> a] \in Messages
      BY <2>1 DEF Messages, Payments, PaymentTypes
    <3> QED BY <1>1, <3>1 DEF Pay, registryVars, flushVars
  <2>3. Value(r) = a
    BY <2>2, ValueOfMessage DEF Und
  <2> QED BY <2>1, <2>2, <2>3, BooksTyped, SolventComes
<1>2. ASSUME NEW m \in InFlight("notify"), AcceptUsernameMint(m)
      PROVE  Solvent'
  <2>1. m \in net /\ m.type = "notify" /\ m \in Payments
    BY MessageKinds DEF MintTypeOK, NetOK, InFlight, PaymentTypes
  <2>2. Value(m) = m.amount /\ m.amount \in Nat
    BY <2>1, ValueOfMessage DEF Und, MintTypeOK, NetOK, Payments
  <2>3. PICK r \in Messages : Answer(m, r) /\ r.type = "init"
    <3>1. mint_seq' \in Nat
      BY DEF MintTypeOK
    <3>2. [type |-> "init", name |-> m.name, owner |-> m.owner,
           nonce |-> mint_seq'] \in Messages
      BY <2>1, <3>1 DEF Messages, Payments, Inits, InitTypes
    <3> QED BY <1>2, <3>2 DEF AcceptUsernameMint
  <2>4. Value(r) = 0
    BY <2>3, ValueOfMessage DEF Und, Unf
  <2>5. PICK p : /\ p \notin pending_mints /\ p.price = m.amount
                 /\ pending_mints' = pending_mints \cup {p}
    <3>1. [name |-> m.name, qid |-> m.qid, payer |-> m.payer,
           owner |-> m.owner, price |-> m.amount, nonce |-> mint_seq']
              \notin pending_mints
      BY <1>2 DEF AcceptUsernameMint, PendingMint
    <3> QED BY <1>2, <3>1 DEF AcceptUsernameMint
  <2>6. PricesOf(pending_mints') = PricesOf(pending_mints) + m.amount
    BY <2>2, <2>5, PricesWith DEF MintTypeOK
  <2>7. UNCHANGED <<due, balance>>
    BY <1>2 DEF AcceptUsernameMint, flushVars, walletVars
  <2> QED BY <2>1, <2>2, <2>3, <2>4, <2>6, <2>7, BooksTyped, SolventMoves
<1>3. ASSUME NEW m \in InFlight("notify"), RefuseUsernameMint(m)
      PROVE  Solvent'
  <2>1. m \in net /\ m.type = "notify" /\ m \in Payments
    BY MessageKinds DEF MintTypeOK, NetOK, InFlight, PaymentTypes
  <2>2. PICK r \in Messages : /\ Answer(m, r) /\ r.type = "notifyBounce"
                              /\ r.amount = m.amount
    BY <1>3, <2>1, BouncedPayment DEF RefuseUsernameMint, Bounce, Messages
  <2>3. Value(m) = m.amount /\ Value(r) = m.amount /\ m.amount \in Nat
    BY <2>1, <2>2, ValueOfMessage DEF Und, MintTypeOK, NetOK, Payments
  <2>4. UNCHANGED <<due, balance, pending_mints>>
    BY <1>3 DEF RefuseUsernameMint, flushVars, walletVars, registryVars
  <2> QED BY <2>1, <2>2, <2>3, <2>4, BooksTyped, SolventMoves
<1>4. ASSUME NEW m \in InFlight("init"),
             InitializeUsernameItem(m) \/ RefuseInitialize(m)
      PROVE  Solvent'
  <2>1. m \in net /\ m.type = "init" /\ m \in Inits
    BY MessageKinds DEF MintTypeOK, NetOK, InFlight, InitTypes
  <2>2. PICK r \in Messages : Answer(m, r) /\ r.type \in InitTypes
    <3>1. CASE RefuseInitialize(m)
      BY <2>1, <3>1, BouncedInit
         DEF RefuseInitialize, Bounce, Messages, InitTypes
    <3>2. CASE InitializeUsernameItem(m)
      <4>1. /\ Answer(m, DeployedAck(m.name, item'[m.name]))
            /\ m.name \in Names /\ item' \in [Names -> Items]
        BY <2>1, <3>2 DEF InitializeUsernameItem, Inits, MintTypeOK
      <4>2. /\ DeployedAck(m.name, item'[m.name]) \in Messages
            /\ DeployedAck(m.name, item'[m.name]).type \in InitTypes
        BY <4>1 DEF DeployedAck, Items, Messages, Inits, InitTypes
      <4> QED BY <4>1, <4>2
    <3> QED BY <1>4, <3>1, <3>2
  <2>3. Value(m) = 0 /\ Value(r) = 0
    BY <2>1, <2>2, ValueOfMessage DEF Und, Unf, InitTypes, Messages
  <2>4. UNCHANGED <<due, balance, pending_mints>>
    BY <1>4 DEF InitializeUsernameItem, RefuseInitialize, flushVars,
                walletVars, registryVars
  <2> QED BY <2>1, <2>2, <2>3, <2>4, BooksTyped, SolventMoves
<1>5. ASSUME NEW m \in InFlight("deployed"), StaleDeployedAck(m)
      PROVE  Solvent'
  <2>1. m \in net /\ m.type = "deployed" /\ net' = net \ {m}
    BY <1>5 DEF InFlight, StaleDeployedAck, Consume
  <2>2. Value(m) = 0
    BY <2>1, ValueOfMessage DEF Und, Unf, MintTypeOK, NetOK
  <2>3. UNCHANGED <<due, balance, pending_mints>>
    BY <1>5 DEF StaleDeployedAck, flushVars, walletVars, registryVars
  <2> QED BY <2>1, <2>2, <2>3, BooksTyped, SolventGoes
<1>6. ASSUME NEW m \in InFlight("deployed"), ItemDeployedAck(m)
      PROVE  Solvent'
  <2>1. PICK p \in pending_mints :
           /\ pending_mints' = pending_mints \ {p}
           /\ due' = [treasury |-> due.treasury + TreasuryShare(p.price),
                      burn |-> due.burn + (p.price - TreasuryShare(p.price))]
           /\ Answer(m, NoteAck(p)) /\ UNCHANGED balance
    BY <1>6 DEF ItemDeployedAck, walletVars
  <2>2. m \in net /\ m.type = "deployed" /\ Value(m) = 0
    BY ValueOfMessage DEF InFlight, Und, Unf, MintTypeOK, NetOK
  <2>3. NoteAck(p) \in Messages /\ NoteAck(p).type = "noteAck"
    BY BouncesTyped DEF NoteAck
  <2>4. Value(NoteAck(p)) = 0
    BY <2>3, ValueOfMessage DEF Und, Unf
  <2>5. /\ PricesOf(pending_mints') \in Nat /\ p.price \in Nat
        /\ PricesOf(pending_mints) = PricesOf(pending_mints') + p.price
    BY <2>1, PricesWithout DEF MintTypeOK
  <2>6. Due(due') = Due(due) + p.price
    <3>1. due.treasury \in Nat /\ due.burn \in Nat
      BY DEF MintTypeOK, Kinds
    <3>2. /\ TreasuryShare(p.price) \in Nat
          /\ p.price - TreasuryShare(p.price) \in Nat
      BY <2>5, ShareIsPart
    <3> QED BY <2>1, <2>5, <3>1, <3>2 DEF Due
  <2>7. balance + Due(due') + PricesOf(pending_mints') + 0
            <= balance' + Due(due) + PricesOf(pending_mints) + 0
    BY <2>1, <2>5, <2>6, BooksTyped
  <2> QED BY <2>1, <2>2, <2>3, <2>4, <2>7, SolventMoves
<1>7. ASSUME NEW m \in InFlight("initBounce"), BouncedInitialize(m)
      PROVE  Solvent'
  <2>1. PICK p \in pending_mints :
           /\ pending_mints' = pending_mints \ {p}
           /\ Answer(m, NoteRefund(p)) /\ UNCHANGED <<balance, due>>
    BY <1>7 DEF BouncedInitialize, PendingMint, walletVars, flushVars
  <2>2. m \in net /\ m.type = "initBounce" /\ Value(m) = 0
    BY ValueOfMessage DEF InFlight, Und, Unf, MintTypeOK, NetOK
  <2>3. /\ NoteRefund(p) \in Messages /\ NoteRefund(p).type = "noteRefund"
        /\ NoteRefund(p).amount = p.price
    BY BouncesTyped DEF NoteRefund
  <2>4. Value(NoteRefund(p)) = p.price
    BY <2>3, ValueOfMessage DEF Und, Unf
  <2>5. /\ PricesOf(pending_mints') \in Nat /\ p.price \in Nat
        /\ PricesOf(pending_mints) = PricesOf(pending_mints') + p.price
    BY <2>1, PricesWithout DEF MintTypeOK
  <2>6. balance + Due(due') + PricesOf(pending_mints') + p.price
            <= balance' + Due(due) + PricesOf(pending_mints) + 0
    BY <2>1, <2>5, BooksTyped
  <2> QED BY <2>1, <2>2, <2>3, <2>4, <2>6, SolventMoves
<1> QED BY <1>1, <1>2, <1>3, <1>4, <1>5, <1>6, <1>7 DEF MintStep

(* What leaves the books alone and owes no more than the message it takes. *)
LEMMA QuietSolvent ==
    ASSUME MintTypeOK, MintTypeOK', Solvent,
           UNCHANGED <<due, balance, pending_mints>>,
           \/ net' = net
           \/ \E m \in net : net' = net \ {m}
           \/ \E r \in Messages : Value(r) = 0 /\ net' = net \cup {r}
           \/ \E m \in net, r \in Messages :
                 Answer(m, r) /\ Value(r) = Value(m)
    PROVE  Solvent'
<1>1. \A m \in Messages : Value(m) \in Nat
  BY ValueOfMessage
<1>2. net \subseteq Messages
  BY DEF MintTypeOK, NetOK
<1>3. CASE net' = net
  BY <1>3 DEF Solvent, Owed, Unflushed, Undecided
<1>4. ASSUME NEW m \in net, net' = net \ {m} PROVE Solvent'
  BY <1>1, <1>2, <1>4, BooksAreNumbers, SolventGoes
<1>5. ASSUME NEW r \in Messages, Value(r) = 0, net' = net \cup {r}
      PROVE  Solvent'
  BY <1>5, BooksAreNumbers, SolventComes
<1>6. ASSUME NEW m \in net, NEW r \in Messages, Answer(m, r),
             Value(r) = Value(m)
      PROVE  Solvent'
  BY <1>1, <1>2, <1>6, BooksAreNumbers, SolventMoves
<1> QED BY <1>3, <1>4, <1>5, <1>6

LEMMA NotesSolvent ==
    ASSUME MintTypeOK, MintTypeOK', Solvent,
           \/ NoteStep
           \/ \E n \in pending_notifications : PruneStaleNotification(n)
           \/ \E n \in Names : ResendDeployedAck(n)
           \/ \E n \in Names, o \in Users : NftTransfer(n, o)
           \/ \E m \in net : Lose(m)
    PROVE  Solvent'
<1>1. ASSUME NEW m \in InFlight("notifyBounce") \cup InFlight("noteRefund"),
             RefundPendingNotification(m)
      PROVE  Solvent'
  <2>1. /\ m \in net /\ m.type \in Und /\ m \in Messages
    BY DEF InFlight, Und, MintTypeOK, NetOK
  <2>2. /\ balance >= m.amount /\ balance' = balance - m.amount
        /\ net' = net \ {m} /\ UNCHANGED <<due, pending_mints>>
    BY <1>1 DEF RefundPendingNotification, Refundable, Consume, registryVars,
                flushVars
  <2>3. Value(m) = m.amount /\ Value(m) \in Nat
    BY <2>1, ValueOfMessage
  <2>4. balance + Due(due') + PricesOf(pending_mints')
            <= balance' + Due(due) + PricesOf(pending_mints) + Value(m)
    BY <2>2, <2>3, BooksTyped
  <2> QED BY <2>1, <2>2, <2>4, SolventGoes
<1>2. ASSUME NEW m \in net, net' = net \ {m},
             UNCHANGED <<due, balance, pending_mints>>
      PROVE  Solvent'
  BY <1>2, QuietSolvent
<1>3. CASE NoteStep
  BY <1>1, <1>2, <1>3
     DEF NoteStep, NotificationAck, RefundFails, InFlight, Consume,
         registryVars, flushVars, walletVars
<1>4. CASE \E n \in pending_notifications : PruneStaleNotification(n)
  BY <1>4, QuietSolvent DEF PruneStaleNotification, registryVars, flushVars
<1>5. CASE \E n \in Names : ResendDeployedAck(n)
  <2>1. PICK n \in Names : ResendDeployedAck(n)
    BY <1>5
  <2>2. /\ DeployedAck(n, item[n]) \in Messages
        /\ DeployedAck(n, item[n]).type = "deployed"
    BY BouncesTyped DEF DeployedAck
  <2>3. Value(DeployedAck(n, item[n])) = 0
    BY <2>2, ValueOfMessage DEF Und, Unf
  <2> QED BY <2>1, <2>2, <2>3, QuietSolvent
          DEF ResendDeployedAck, registryVars, flushVars, walletVars
<1>6. CASE \E n \in Names, o \in Users : NftTransfer(n, o)
  BY <1>6, QuietSolvent DEF NftTransfer, registryVars, flushVars, walletVars
<1>7. CASE \E m \in net : Lose(m)
  BY <1>2, <1>7 DEF Lose, Consume, registryVars, flushVars, walletVars
<1> QED BY <1>3, <1>4, <1>5, <1>6, <1>7

LEMMA FlushSolvent ==
    ASSUME MintTypeOK, MintTypeOK', Solvent,
           \/ FlushStep
           \/ \E k \in scene.flushes, q \in QueryIds : FlushDue(k, q)
           \/ \E t \in transfers :
                 CreditTransfer(t) \/ SourceAck(t) \/ TakeBackTransfer(t)
    PROVE  Solvent'
<1>1. ASSUME NEW k \in scene.flushes, NEW q \in QueryIds, FlushDue(k, q)
      PROVE  Solvent'
  <2>1. k \in Kinds /\ due[k] \in Nat
    BY MintAssumption DEF MintTypeOK
  <2>2. PICK r \in Messages : /\ net' = net \cup {r} /\ r.type = "request"
                              /\ r.amount = due[k]
    <3>1. [type |-> "request", kind |-> k, qid |-> q,
           amount |-> due[k]] \in Messages
      BY <2>1 DEF Messages, Flushes, FlushTypes
    <3> QED BY <1>1, <3>1 DEF FlushDue
  <2>3. Value(r) = due[k]
    BY <2>2, ValueOfMessage DEF Unf
  <2>4. Due(due') + due[k] = Due(due)
    BY <1>1, <2>1 DEF FlushDue, Due, Kinds, MintTypeOK
  <2>5. UNCHANGED <<balance, pending_mints>>
    BY <1>1 DEF FlushDue, registryVars, walletVars
  <2>6. balance + Due(due') + PricesOf(pending_mints') + Value(r)
            <= balance' + Due(due) + PricesOf(pending_mints)
    BY <2>1, <2>3, <2>4, <2>5, BooksAreNumbers
  <2> QED BY <2>2, <2>6, SolventComes
<1>2. ASSUME NEW m \in InFlight("request"),
             FlushTransferRequest(m) \/ FlushBurn(m)
      PROVE  Solvent'
  <2>1. /\ m \in net /\ m.type \in Unf /\ m \in Messages /\ m.amount \in Nat
        /\ m.type \in FlushTypes
    BY MessageKinds DEF InFlight, Unf, FlushTypes, InitTypes, MintTypeOK, NetOK
  <2>2. Value(m) = m.amount
    BY <2>1, ValueOfMessage
  <2>3. balance' + m.amount = balance /\ UNCHANGED <<due, pending_mints>>
    BY <1>2, <2>1, BooksTyped
       DEF FlushTransferRequest, FlushBurn, registryVars, flushVars
  <2>4. CASE FlushTransferRequest(m)
    <3>1. balance + Due(due') + PricesOf(pending_mints')
              <= balance' + Due(due) + PricesOf(pending_mints) + Value(m)
      BY <2>1, <2>2, <2>3, BooksAreNumbers
    <3> QED BY <2>1, <2>4, <3>1, SolventGoes
            DEF FlushTransferRequest, Consume
  <2>5. CASE FlushBurn(m)
    <3>1. PICK r \in Messages : Answer(m, r) /\ r.type = "burning"
      BY <2>1, <2>5, FlushMessage, NextFlush DEF FlushBurn, Bounce, FlushTypes
    <3>2. Value(r) = 0
      BY <3>1, ValueOfMessage DEF Und, Unf
    <3>3. balance + Due(due') + PricesOf(pending_mints') + Value(r)
              <= balance' + Due(due) + PricesOf(pending_mints) + Value(m)
      BY <2>1, <2>2, <2>3, <3>2, BooksAreNumbers
    <3> QED BY <2>1, <3>1, <3>3, SolventMoves
  <2> QED BY <1>2, <2>4, <2>5
<1>3. ASSUME NEW m \in InFlight("request"), RefuseFlushRequest(m)
      PROVE  Solvent'
  <2>1. /\ m \in net /\ m.type \in Unf /\ m \in Messages /\ m \in Flushes
        /\ m.type \in FlushTypes
    BY MessageKinds DEF InFlight, Unf, FlushTypes, MintTypeOK, NetOK
  <2>2. PICK r \in Messages : /\ Answer(m, r) /\ r.type = "failed"
                              /\ r.amount = m.amount
    BY <1>3, <2>1, FlushMessage, NextFlush
       DEF RefuseFlushRequest, Bounce, FlushTypes
  <2>3. Value(m) = Value(r)
    BY <2>1, <2>2, ValueOfMessage DEF Unf
  <2> QED BY <1>3, <2>1, <2>2, <2>3, QuietSolvent
          DEF RefuseFlushRequest, registryVars, flushVars, walletVars
<1>4. ASSUME NEW m \in InFlight("burning"), BurnNotification(m)
      PROVE  Solvent'
  <2>1. /\ m \in net /\ m.type = "burning" /\ m \in Messages
        /\ m \in Flushes /\ m.type \in FlushTypes
    BY MessageKinds DEF InFlight, FlushTypes, MintTypeOK, NetOK
  <2>2. PICK r \in Messages : Answer(m, r) /\ r.type = "done"
    BY <1>4, <2>1, FlushMessage, NextFlush
       DEF BurnNotification, Bounce, FlushTypes
  <2>3. Value(m) = Value(r)
    BY <2>1, <2>2, ValueOfMessage DEF Und, Unf
  <2> QED BY <1>4, <2>1, <2>2, <2>3, QuietSolvent
          DEF BurnNotification, registryVars, flushVars, walletVars
<1>5. ASSUME NEW m \in InFlight("burning"), BouncedBurnNotification(m)
      PROVE  Solvent'
  <2>1. /\ m \in net /\ m.type = "burning" /\ m \in Messages
        /\ m \in Flushes /\ m.type \in FlushTypes
    BY MessageKinds DEF InFlight, FlushTypes, MintTypeOK, NetOK
  <2>2. PICK r \in Messages : /\ Answer(m, r) /\ r.type = "failed"
                              /\ r.amount = m.amount
    BY <1>5, <2>1, FlushMessage, NextFlush
       DEF BouncedBurnNotification, Bounce, FlushTypes
  <2>3. Value(m) = 0 /\ Value(r) = m.amount /\ m.amount \in Nat
    BY <2>1, <2>2, ValueOfMessage, FlushMessage DEF Und, Unf
  <2>4. balance' = balance + m.amount /\ UNCHANGED <<due, pending_mints>>
    BY <1>5 DEF BouncedBurnNotification, registryVars, flushVars
  <2>5. balance + Due(due') + PricesOf(pending_mints') + Value(r)
            <= balance' + Due(due) + PricesOf(pending_mints) + Value(m)
    BY <2>3, <2>4, BooksAreNumbers
  <2> QED BY <2>1, <2>2, <2>5, SolventMoves
<1>6. ASSUME NEW m \in InFlight("done"), FlushDone(m) PROVE Solvent'
  BY <1>6, QuietSolvent
     DEF FlushDone, InFlight, Consume, registryVars, walletVars
<1>7. ASSUME NEW m \in InFlight("failed"), FlushFailed(m) PROVE Solvent'
  <2>1. /\ m \in net /\ m.type \in Unf /\ m.type \in FlushTypes
        /\ m \in Messages
    BY DEF InFlight, Unf, FlushTypes, MintTypeOK, NetOK
  <2>2. m.kind \in Kinds /\ m.amount \in Nat /\ Value(m) = m.amount
    BY <2>1, FlushMessage, ValueOfMessage
  <2>3. /\ due' = [due EXCEPT ![m.kind] = due[m.kind] + m.amount]
        /\ net' = net \ {m} /\ UNCHANGED <<balance, pending_mints>>
    BY <1>7 DEF FlushFailed, Consume, registryVars, walletVars
  <2>4. Due(due') = Due(due) + m.amount
    BY <2>2, <2>3 DEF Due, Kinds, MintTypeOK
  <2>5. balance + Due(due') + PricesOf(pending_mints')
            <= balance' + Due(due) + PricesOf(pending_mints) + Value(m)
    BY <2>2, <2>3, <2>4, BooksAreNumbers
  <2> QED BY <2>1, <2>3, <2>5, SolventGoes
<1>8. ASSUME NEW t \in transfers,
             CreditTransfer(t) \/ SourceAck(t) \/ TakeBackTransfer(t)
      PROVE  Solvent'
  <2>1. t.amount \in Nat /\ t.qid \in QueryIds
    BY DEF MintTypeOK, TransfersOK, Transfers
  <2>2. PICK done : done = [type |-> "done", kind |-> "treasury",
                            qid |-> t.qid, amount |-> t.amount]
    OBVIOUS
  <2>3. PICK failed : failed = [type |-> "failed", kind |-> "treasury",
                                qid |-> t.qid, amount |-> t.amount]
    OBVIOUS
  <2>4. /\ done \in Messages /\ failed \in Messages
        /\ Value(done) = 0 /\ Value(failed) = t.amount
    <3>1. done \in Messages /\ failed \in Messages
      BY <2>1, <2>2, <2>3 DEF Messages, Flushes, FlushTypes, Kinds
    <3> QED BY <2>2, <2>3, <3>1, ValueOfMessage DEF Und, Unf
  <2>5. UNCHANGED <<due, pending_mints>>
    BY <1>8 DEF CreditTransfer, SourceAck, TakeBackTransfer, registryVars,
                flushVars
  <2>6. CASE CreditTransfer(t) \/ SourceAck(t)
    BY <2>2, <2>4, <2>5, <2>6, QuietSolvent DEF CreditTransfer, SourceAck
  <2>7. CASE TakeBackTransfer(t)
    <3>1. balance' = balance + t.amount
      BY <2>7 DEF TakeBackTransfer
    <3>2. CASE t.to = "treasury"
      <4>1. net' = net \cup {failed}
        BY <2>3, <2>7, <3>2 DEF TakeBackTransfer
      <4>2. balance + Due(due') + PricesOf(pending_mints') + Value(failed)
                <= balance' + Due(due) + PricesOf(pending_mints)
        BY <2>1, <2>4, <2>5, <3>1, BooksAreNumbers
      <4> QED BY <2>4, <4>1, <4>2, SolventComes
    <3>3. CASE t.to # "treasury"
      <4>1. net' = net
        BY <2>7, <3>3 DEF TakeBackTransfer
      <4>2. /\ balance \in Nat /\ t.amount \in Nat
            /\ OwedOf(due, pending_mints, net) \in Nat
        BY <2>1, OwedTyped DEF MintTypeOK
      <4>3. balance + OwedOf(due', pending_mints', net')
                <= balance' + OwedOf(due, pending_mints, net)
        BY <2>5, <3>1, <4>1, <4>2
      <4> QED BY <4>3, OwesNoMore
    <3> QED BY <3>2, <3>3
  <2> QED BY <1>8, <2>6, <2>7
<1> QED BY <1>1, <1>2, <1>3, <1>4, <1>5, <1>6, <1>7, <1>8 DEF FlushStep

LEMMA SolventKept ==
    ASSUME MintTypeOK, MintTypeOK', Solvent, [Next]_vars
    PROVE  Solvent'
<1>1. CASE UNCHANGED vars
  BY <1>1, QuietSolvent DEF vars, registryVars, flushVars, walletVars
<1> QED BY <1>1, MintSolvent, NotesSolvent, FlushSolvent DEF Next

LEMMA SolventAtFirst == Init => Solvent
<1> SUFFICES ASSUME Init PROVE Solvent
  OBVIOUS
<1>1. Unflushed = {} /\ Undecided = {} /\ pending_mints = {}
      /\ due.treasury = 0 /\ due.burn = 0 /\ balance = 0
  BY DEF Init, Unflushed, Undecided, Kinds
<1>2. AmountsOf({}) = 0
  BY NoAmounts, AmountsAreTotal
<1>3. PricesOf({}) = 0
  <2>1. DOMAIN [p \in {} |-> p.price] = {}
    OBVIOUS
  <2> QED BY <2>1, SumOfNothing DEF PricesOf, SumFunction
<1> QED BY <1>1, <1>2, <1>3 DEF Solvent, Owed

(* The official wallet holds all it owes, whatever is lost, refused or     *)
(* taken back: no refund and no flush finds it short.                      *)
THEOREM WalletIsSolvent == Spec => []Solvent
<1>1. MintTypeOK /\ Solvent /\ [Next]_vars => (MintTypeOK /\ Solvent)'
  BY MintTypesKept, SolventKept
<1>2. Init => MintTypeOK /\ Solvent
  BY MintInitTypes, SolventAtFirst
<1> QED BY <1>1, <1>2, PTL DEF Spec

-----------------------------------------------------------------------------
(* Flushes.  A pending flush has at most one token: a message of its own,  *)
(* or the debit of its transfer.                                           *)

IsFlush(m) == m.type \in FlushTypes
ToTreasury(t) == t.to = "treasury" /\ ~t.credited
Tracks(f, x, kind) == f.qid = x.qid /\ f.kind = kind /\ f.amount = x.amount

FlushIdsOnce == \A f, g \in pending_flushes : f.qid = g.qid => f = g
MessagesTracked ==
    \A m \in net :
        IsFlush(m) => \E f \in pending_flushes : Tracks(f, m, m.kind)
DebitsTracked ==
    \A t \in transfers :
        ToTreasury(t) => \E f \in pending_flushes : Tracks(f, t, "treasury")
MessagesOnce ==
    \A m, k \in net : IsFlush(m) /\ IsFlush(k) /\ m.qid = k.qid => m = k
DebitsOnce ==
    \A t, s \in transfers :
        ToTreasury(t) /\ ToTreasury(s) /\ t.qid = s.qid => t = s
MessageOrDebit ==
    \A m \in net, t \in transfers :
        IsFlush(m) /\ ToTreasury(t) => m.qid # t.qid

FlushInv ==
    /\ FlushIdsOnce /\ MessagesTracked /\ DebitsTracked
    /\ MessagesOnce /\ DebitsOnce /\ MessageOrDebit

LEMMA FlushInvHolds == ASSUME MintTypeOK, FlushInv PROVE FlushesTracked
<1>1. \A f \in pending_flushes : \A x, y \in Terminals(f) : x = y
  <2> SUFFICES ASSUME NEW f \in pending_flushes,
                      NEW x \in Terminals(f), NEW y \in Terminals(f)
               PROVE  x = y
    OBVIOUS
  <2>1. \A z \in Terminals(f) :
           \/ z \in net /\ IsFlush(z) /\ z.qid = f.qid
           \/ z \in transfers /\ ToTreasury(z) /\ z.qid = f.qid
    BY DEF Terminals, IsFlush, FlushTypes, ToTreasury
  <2> QED BY <2>1 DEF FlushInv, MessagesOnce, DebitsOnce, MessageOrDebit
<1>2. \A f \in pending_flushes : Cardinality(Terminals(f)) <= 1
  <2> SUFFICES ASSUME NEW f \in pending_flushes
               PROVE  Cardinality(Terminals(f)) <= 1
    OBVIOUS
  <2>1. CASE Terminals(f) = {}
    BY <2>1, FS_EmptySet
  <2>2. ASSUME NEW x \in Terminals(f) PROVE Cardinality(Terminals(f)) <= 1
    <3>1. Terminals(f) = {x}
      BY <1>1
    <3>2. Cardinality({x}) = 1
      BY FS_Singleton
    <3> QED BY <3>1, <3>2
  <2> QED BY <2>1, <2>2
<1>3. \A f \in pending_flushes : \A m \in Terminals(f) : m.amount = f.amount
  <2> SUFFICES ASSUME NEW f \in pending_flushes, NEW m \in Terminals(f)
               PROVE  m.amount = f.amount
    OBVIOUS
  <2>1. \/ m \in net /\ IsFlush(m) /\ m.qid = f.qid
        \/ m \in transfers /\ ToTreasury(m) /\ m.qid = f.qid
    BY DEF Terminals, IsFlush, FlushTypes, ToTreasury
  <2>2. \E g \in pending_flushes : g.qid = m.qid /\ g.amount = m.amount
    BY <2>1 DEF FlushInv, MessagesTracked, DebitsTracked, Tracks
  <2> QED BY <2>1, <2>2 DEF FlushInv, FlushIdsOnce
<1>4. \A m \in net :
         m.type \in {"request", "burning", "done", "failed"} =>
             \E f \in pending_flushes : m \in Terminals(f)
  BY DEF FlushInv, MessagesTracked, Tracks, IsFlush, FlushTypes, Terminals
<1>5. \A t \in transfers :
         (t.to = "treasury" /\ ~t.credited) =>
             \E f \in pending_flushes : t \in Terminals(f)
  BY DEF FlushInv, DebitsTracked, Tracks, ToTreasury, Terminals
<1> QED BY <1>2, <1>3, <1>4, <1>5 DEF FlushesTracked

LEMMA FlushInvAtFirst == Init => FlushInv
BY DEF Init, FlushInv, FlushIdsOnce, MessagesTracked, DebitsTracked,
       MessagesOnce, DebitsOnce, MessageOrDebit

(* A step that is about the flush q alone.                                 *)
LEMMA FlushAt ==
    ASSUME FlushInv, NEW q,
           \A f : f.qid # q =>
               (f \in pending_flushes' <=> f \in pending_flushes),
           \A m \in net' : IsFlush(m) /\ m.qid # q => m \in net,
           \A t \in transfers' : ToTreasury(t) /\ t.qid # q => t \in transfers,
           \A f, g \in pending_flushes' : f.qid = q /\ g.qid = q => f = g,
           \A m, k \in net' :
               IsFlush(m) /\ IsFlush(k) /\ m.qid = q /\ k.qid = q => m = k,
           \A t, s \in transfers' :
               ToTreasury(t) /\ ToTreasury(s) /\ t.qid = q /\ s.qid = q
                  => t = s,
           \A m \in net', t \in transfers' :
               ~(IsFlush(m) /\ ToTreasury(t) /\ m.qid = q /\ t.qid = q),
           \A m \in net' : IsFlush(m) /\ m.qid = q =>
               \E f \in pending_flushes' : Tracks(f, m, m.kind),
           \A t \in transfers' : ToTreasury(t) /\ t.qid = q =>
               \E f \in pending_flushes' : Tracks(f, t, "treasury")
    PROVE  FlushInv'
<1>1. FlushIdsOnce'
  BY DEF FlushInv, FlushIdsOnce
<1>2. MessagesTracked'
  <2> SUFFICES ASSUME NEW m \in net', IsFlush(m)
               PROVE  \E f \in pending_flushes' : Tracks(f, m, m.kind)
    BY DEF MessagesTracked
  <2> QED BY DEF FlushInv, MessagesTracked, Tracks
<1>3. DebitsTracked'
  <2> SUFFICES ASSUME NEW t \in transfers', ToTreasury(t)
               PROVE  \E f \in pending_flushes' : Tracks(f, t, "treasury")
    BY DEF DebitsTracked
  <2> QED BY DEF FlushInv, DebitsTracked, Tracks
<1>4. MessagesOnce' /\ DebitsOnce' /\ MessageOrDebit'
  BY DEF FlushInv, MessagesOnce, DebitsOnce, MessageOrDebit
<1> QED BY <1>1, <1>2, <1>3, <1>4 DEF FlushInv

(* A step that is about no flush, but for losing a message of one.         *)
LEMMA FlushFrame ==
    ASSUME FlushInv, pending_flushes' = pending_flushes,
           \A m \in net' : IsFlush(m) => m \in net,
           \A t \in transfers' : ToTreasury(t) => t \in transfers
    PROVE  FlushInv'
BY DEF FlushInv, FlushIdsOnce, MessagesTracked, DebitsTracked, MessagesOnce,
       DebitsOnce, MessageOrDebit

(* A flush moves on: from a message to the next.                           *)
LEMMA FlushBounces ==
    ASSUME MintTypeOK, FlushInv, NEW m \in net, IsFlush(m),
           NEW t \in FlushTypes, Bounce(m, t),
           UNCHANGED <<pending_flushes, transfers>>
    PROVE  FlushInv'
<1> DEFINE r == [m EXCEPT !.type = t]
<1>1. /\ r.qid = m.qid /\ r.kind = m.kind /\ r.amount = m.amount
  BY MessageKinds, NextFlush DEF IsFlush, MintTypeOK, NetOK
<1>2. net' = (net \ {m}) \cup {r}
  BY DEF Bounce, Answer
<1> HIDE DEF r
<1>3. \A k \in net' : IsFlush(k) /\ k.qid = m.qid => k = r
  BY <1>2 DEF FlushInv, MessagesOnce
<1>4. \A k \in net' : IsFlush(k) /\ k.qid # m.qid => k \in net
  BY <1>1, <1>2
<1>5. \A s \in transfers' : ToTreasury(s) => s.qid # m.qid
  BY DEF FlushInv, MessageOrDebit
<1>6. \E f \in pending_flushes' : Tracks(f, r, r.kind)
  BY <1>1 DEF FlushInv, MessagesTracked, Tracks
<1>7. \A f, g \in pending_flushes' : f.qid = m.qid /\ g.qid = m.qid => f = g
  BY DEF FlushInv, FlushIdsOnce
<1> DEFINE q == m.qid
<1> HIDE DEF q
<1> QED BY <1>3, <1>4, <1>5, <1>6, <1>7, FlushAt DEF q

(* The outcome of a transfer: the debit becomes a message.                 *)
LEMMA DebitEnds ==
    ASSUME MintTypeOK, FlushInv, NEW t \in transfers,
           CreditTransfer(t) \/ SourceAck(t) \/ TakeBackTransfer(t)
    PROVE  FlushInv'
<1>1. pending_flushes' = pending_flushes
  BY DEF CreditTransfer, SourceAck, TakeBackTransfer, flushVars
<1>2. \A s \in transfers' :
         ToTreasury(s) => (s \in transfers /\ s # t) \/ SourceAck(t)
  <2>1. [t EXCEPT !.credited = TRUE].credited
    BY CreditedTransfer DEF MintTypeOK, TransfersOK
  <2> QED BY <2>1 DEF CreditTransfer, SourceAck, TakeBackTransfer, ToTreasury
<1>3. CASE net' = net
  <2>1. \A s \in transfers' : ToTreasury(s) => s \in transfers
    BY <1>2 DEF SourceAck
  <2> QED BY <1>1, <1>3, <2>1, FlushFrame
<1>4. CASE net' # net
  <2>1. ToTreasury(t) /\ ~SourceAck(t)
    BY <1>4 DEF CreditTransfer, SourceAck, TakeBackTransfer, ToTreasury
  <2>2. PICK r : /\ net' = net \cup {r} /\ IsFlush(r) /\ r.kind = "treasury"
                 /\ r.qid = t.qid /\ r.amount = t.amount
    <3>1. PICK d : d = [type |-> "done", kind |-> "treasury", qid |-> t.qid,
                        amount |-> t.amount]
      OBVIOUS
    <3>2. PICK b : b = [type |-> "failed", kind |-> "treasury",
                        qid |-> t.qid, amount |-> t.amount]
      OBVIOUS
    <3>3. net' = net \cup {d} \/ net' = net \cup {b}
      BY <2>1, <3>1, <3>2 DEF CreditTransfer, TakeBackTransfer, ToTreasury
    <3>4. /\ IsFlush(d) /\ d.kind = "treasury"
          /\ d.qid = t.qid /\ d.amount = t.amount
      BY <3>1 DEF IsFlush, FlushTypes
    <3>5. /\ IsFlush(b) /\ b.kind = "treasury"
          /\ b.qid = t.qid /\ b.amount = t.amount
      BY <3>2 DEF IsFlush, FlushTypes
    <3> QED BY <3>3, <3>4, <3>5
  <2>3. \A s \in transfers' : ToTreasury(s) => s \in transfers /\ s.qid # t.qid
    BY <1>2, <2>1 DEF FlushInv, DebitsOnce
  <2>4. \A k \in net' : IsFlush(k) /\ k.qid = t.qid => k = r
    BY <2>1, <2>2 DEF FlushInv, MessageOrDebit
  <2>5. \A k \in net' : IsFlush(k) /\ k.qid # t.qid => k \in net
    BY <2>2
  <2>6. \E f \in pending_flushes' : Tracks(f, r, r.kind)
    BY <1>1, <2>1, <2>2 DEF FlushInv, DebitsTracked, Tracks
  <2>7. \A f, g \in pending_flushes' : f.qid = t.qid /\ g.qid = t.qid => f = g
    BY <1>1 DEF FlushInv, FlushIdsOnce
  <2> DEFINE q == t.qid
  <2> HIDE DEF q
  <2> QED BY <1>1, <2>3, <2>4, <2>5, <2>6, <2>7, FlushAt DEF q
<1> QED BY <1>3, <1>4

LEMMA TransferBegins ==
    ASSUME MintTypeOK, FlushInv, NEW m \in InFlight("request"),
           FlushTransferRequest(m)
    PROVE  FlushInv'
<1>1. PICK t : t = [qid |-> m.qid, to |-> "treasury", amount |-> m.amount,
                    credited |-> FALSE]
  OBVIOUS
<1>2. /\ m \in net /\ IsFlush(m) /\ m.kind = "treasury"
      /\ net' = net \ {m} /\ pending_flushes' = pending_flushes
      /\ transfers' = transfers \cup {t}
  BY <1>1 DEF FlushTransferRequest, Consume, flushVars, InFlight, IsFlush,
              FlushTypes
<1>3. \A k \in net' : IsFlush(k) => k \in net /\ k.qid # m.qid
  BY <1>2 DEF FlushInv, MessagesOnce
<1>4. \A s \in transfers' : ToTreasury(s) /\ s.qid = m.qid => s = t
  BY <1>2 DEF FlushInv, MessageOrDebit
<1>5. \A s \in transfers' : ToTreasury(s) /\ s.qid # m.qid => s \in transfers
  BY <1>1, <1>2
<1>6. \E f \in pending_flushes' : Tracks(f, t, "treasury")
  BY <1>1, <1>2 DEF FlushInv, MessagesTracked, Tracks
<1>7. \A f, g \in pending_flushes' : f.qid = m.qid /\ g.qid = m.qid => f = g
  BY <1>2 DEF FlushInv, FlushIdsOnce
<1> DEFINE q == m.qid
<1>8. \A k \in net' : IsFlush(k) => k \in net /\ k.qid # q
  BY <1>3
<1>9. \A s \in transfers' : ToTreasury(s) /\ s.qid = q => s = t
  BY <1>4
<1>10. \A s \in transfers' : ToTreasury(s) /\ s.qid # q => s \in transfers
  BY <1>5
<1>11. \A f, g \in pending_flushes' : f.qid = q /\ g.qid = q => f = g
  BY <1>7
<1>12. \A s \in transfers' : ToTreasury(s) /\ s.qid = q =>
          \E f \in pending_flushes' : Tracks(f, s, "treasury")
  BY <1>6, <1>9
<1>13. \A f : f \in pending_flushes' <=> f \in pending_flushes
  BY <1>2
<1> HIDE DEF q
<1> QED BY <1>8, <1>9, <1>10, <1>11, <1>12, <1>13, FlushAt

LEMMA FlushBegins ==
    ASSUME MintTypeOK, FlushInv, NEW k \in scene.flushes, NEW q \in QueryIds,
           FlushDue(k, q)
    PROVE  FlushInv'
<1>1. PICK r : r = [type |-> "request", kind |-> k, qid |-> q,
                    amount |-> due[k]]
  OBVIOUS
<1>2. PICK f : f = [kind |-> k, qid |-> q, amount |-> due[k]]
  OBVIOUS
<1>3. /\ \A g \in pending_flushes : g.qid # q
      /\ pending_flushes' = pending_flushes \cup {f}
      /\ net' = net \cup {r} /\ transfers' = transfers
  BY <1>1, <1>2 DEF FlushDue, PendingFlush, walletVars
<1>4. /\ \A m \in net : IsFlush(m) => m.qid # q
      /\ \A t \in transfers : ToTreasury(t) => t.qid # q
  BY <1>3 DEF FlushInv, MessagesTracked, DebitsTracked, Tracks
<1>5. f.qid = q /\ r.qid = q /\ Tracks(f, r, r.kind)
  BY <1>1, <1>2 DEF Tracks
<1> QED BY <1>3, <1>4, <1>5, FlushAt

LEMMA FlushEnds ==
    ASSUME MintTypeOK, FlushInv, NEW m \in net, IsFlush(m),
           FlushDone(m) \/ FlushFailed(m)
    PROVE  FlushInv'
<1>1. PICK f \in pending_flushes :
         /\ f.qid = m.qid
         /\ pending_flushes' = pending_flushes \ {f}
         /\ net' = net \ {m} /\ transfers' = transfers
  BY DEF FlushDone, FlushFailed, PendingFlush, Consume, walletVars
<1>2. \A k \in net' : IsFlush(k) => k \in net /\ k.qid # m.qid
  BY <1>1 DEF FlushInv, MessagesOnce
<1>3. \A t \in transfers' : ToTreasury(t) => t \in transfers /\ t.qid # m.qid
  BY <1>1 DEF FlushInv, MessageOrDebit
<1>4. \A g \in pending_flushes' : g.qid # m.qid
  BY <1>1 DEF FlushInv, FlushIdsOnce
<1> DEFINE q == m.qid
<1> HIDE DEF q
<1> QED BY <1>1, <1>2, <1>3, <1>4, FlushAt DEF q

LEMMA FlushesKept ==
    ASSUME MintTypeOK, MintTypeOK', FlushInv, [Next]_vars
    PROVE  FlushInv'
<1>1. CASE UNCHANGED vars
  BY <1>1, FlushFrame DEF vars, flushVars, walletVars
<1>2. ASSUME UNCHANGED <<pending_flushes, transfers>>,
             \/ net' = net
             \/ \E m : Consume(m)
             \/ \E r : net' = net \cup {r} /\ ~IsFlush(r)
             \/ \E m, r : Answer(m, r) /\ ~IsFlush(r)
      PROVE  FlushInv'
  BY <1>2, FlushFrame DEF Consume, Answer
<1>3. CASE \E u, o \in Users, q \in QueryIds, n \in Names :
              \E a \in scene.amounts : Pay(u, q, n, o, a)
  <2>1. PICK r : r.type = "notify" /\ net' = net \cup {r}
    BY <1>3 DEF Pay
  <2> QED BY <1>2, <1>3, <2>1 DEF Pay, flushVars, IsFlush, FlushTypes
<1>4. CASE MintStep
  <2>1. ASSUME NEW m \in InFlight("notify"), AcceptUsernameMint(m)
        PROVE  FlushInv'
    <3>1. PICK r : r.type = "init" /\ Answer(m, r)
      BY <2>1 DEF AcceptUsernameMint
    <3> QED BY <1>2, <2>1, <3>1 DEF AcceptUsernameMint, flushVars, walletVars,
                                    IsFlush, FlushTypes
  <2>2. ASSUME NEW m \in InFlight("notify"), RefuseUsernameMint(m)
        PROVE  FlushInv'
    <3>1. PICK r : r.type = "notifyBounce" /\ Answer(m, r)
      BY <2>2, MessageKinds, BouncedPayment
         DEF RefuseUsernameMint, Bounce, InFlight, MintTypeOK, NetOK,
             PaymentTypes
    <3> QED BY <1>2, <2>2, <3>1 DEF RefuseUsernameMint, flushVars, walletVars,
                                    IsFlush, FlushTypes
  <2>3. ASSUME NEW m \in InFlight("init"),
               InitializeUsernameItem(m) \/ RefuseInitialize(m)
        PROVE  FlushInv'
    <3>1. PICK r : r.type \in InitTypes /\ Answer(m, r)
      <4>1. CASE RefuseInitialize(m)
        <5>1. m \in Messages /\ m.type \in InitTypes
          BY DEF InFlight, MintTypeOK, NetOK, InitTypes
        <5>2. m \in Inits
          BY <5>1, MessageKinds
        <5>3. PICK r : r = [m EXCEPT !.type = "initBounce"]
          OBVIOUS
        <5>4. r.type = "initBounce"
          BY <5>2, <5>3, BouncedInit
        <5>5. Answer(m, r)
          BY <4>1, <5>3 DEF RefuseInitialize, Bounce
        <5> QED BY <5>4, <5>5 DEF InitTypes
      <4>2. CASE InitializeUsernameItem(m)
        <5>1. PICK r : r = DeployedAck(m.name, item'[m.name])
          OBVIOUS
        <5>2. Answer(m, r)
          BY <4>2, <5>1 DEF InitializeUsernameItem
        <5> QED BY <5>1, <5>2 DEF DeployedAck, InitTypes
      <4> QED BY <2>3, <4>1, <4>2
    <3> QED BY <1>2, <2>3, <3>1
            DEF RefuseInitialize, InitializeUsernameItem, flushVars,
                walletVars, IsFlush, FlushTypes, InitTypes
  <2>4. ASSUME NEW m, ItemDeployedAck(m) \/ BouncedInitialize(m)
        PROVE  FlushInv'
    <3>1. PICK p : Answer(m, NoteAck(p)) \/ Answer(m, NoteRefund(p))
      BY <2>4 DEF ItemDeployedAck, BouncedInitialize
    <3>2. NoteAck(p).type \in NoteTypes /\ NoteRefund(p).type \in NoteTypes
      BY DEF NoteAck, NoteRefund, NoteTypes
    <3>3. PICK r : r.type \in NoteTypes /\ Answer(m, r)
      BY <3>1, <3>2
    <3> QED BY <1>2, <2>4, <3>3
            DEF ItemDeployedAck, BouncedInitialize, flushVars, walletVars,
                IsFlush, FlushTypes, NoteTypes
  <2>5. ASSUME NEW m, StaleDeployedAck(m) PROVE FlushInv'
    BY <1>2, <2>5 DEF StaleDeployedAck, flushVars, walletVars
  <2> QED BY <1>4, <2>1, <2>2, <2>3, <2>4, <2>5 DEF MintStep
<1>5. CASE NoteStep
  <2>1. ASSUME NEW m, NotificationAck(m) \/ RefundFails(m) PROVE FlushInv'
    BY <1>2, <2>1 DEF NotificationAck, RefundFails, flushVars, walletVars
  <2>2. ASSUME NEW m, RefundPendingNotification(m) PROVE FlushInv'
    <3>1. PICK n \in pending_notifications :
             /\ Refundable(n, m)
             /\ transfers' = transfers \cup
                   {[qid |-> n.qid, to |-> n.payer, amount |-> n.amount,
                     credited |-> FALSE]}
      BY <2>2 DEF RefundPendingNotification
    <3>2. n.payer # "treasury"
      BY MintAssumption DEF MintTypeOK, Notifications
    <3>3. \A t \in transfers' : ToTreasury(t) => t \in transfers
      BY <3>1, <3>2 DEF ToTreasury
    <3> QED BY <2>2, <3>3, FlushFrame
            DEF RefundPendingNotification, Consume, flushVars
  <2> QED BY <1>5, <2>1, <2>2 DEF NoteStep
<1>6. CASE FlushStep
  <2>1. \A t \in FlushTypes : \A m \in InFlight(t) : m \in net /\ IsFlush(m)
    BY DEF InFlight, IsFlush
  <2>2. ASSUME NEW m \in InFlight("request"),
               FlushBurn(m) \/ RefuseFlushRequest(m)
        PROVE  FlushInv'
    BY <2>1, <2>2, FlushBounces
       DEF FlushBurn, RefuseFlushRequest, flushVars, walletVars, FlushTypes
  <2>3. ASSUME NEW m \in InFlight("burning"),
               BurnNotification(m) \/ BouncedBurnNotification(m)
        PROVE  FlushInv'
    BY <2>1, <2>3, FlushBounces
       DEF BurnNotification, BouncedBurnNotification, flushVars, walletVars,
           FlushTypes
  <2> QED BY <1>6, <2>1, <2>2, <2>3, TransferBegins, FlushEnds
          DEF FlushStep, FlushTypes
<1>7. CASE \E n \in Names : ResendDeployedAck(n)
  <2>1. PICK r : r.type = "deployed" /\ net' = net \cup {r}
    BY <1>7 DEF ResendDeployedAck, DeployedAck
  <2> QED BY <1>2, <1>7, <2>1 DEF ResendDeployedAck, flushVars, walletVars,
                                  IsFlush, FlushTypes
<1>8. CASE \/ \E n \in Names, o \in Users : NftTransfer(n, o)
           \/ \E n \in pending_notifications : PruneStaleNotification(n)
  BY <1>2, <1>8 DEF NftTransfer, PruneStaleNotification, flushVars, walletVars
<1>9. CASE \E m \in net : Lose(m)
  BY <1>2, <1>9 DEF Lose, flushVars, walletVars
<1> QED BY <1>1, <1>3, <1>4, <1>5, <1>6, <1>7, <1>8, <1>9, FlushBegins,
           DebitEnds DEF Next

LEMMA FlushInvariant == Spec => [](MintTypeOK /\ FlushInv)
<1>1. MintTypeOK /\ FlushInv /\ [Next]_vars => (MintTypeOK /\ FlushInv)'
  BY MintTypesKept, FlushesKept
<1> QED BY <1>1, MintInitTypes, FlushInvAtFirst, PTL DEF Spec

(* Each pending flush has one terminal to come, for its kind and amount,   *)
(* and each terminal its pending flush.                                    *)
THEOREM FlushesAreTracked == Spec => []FlushesTracked
<1>1. MintTypeOK /\ FlushInv => FlushesTracked
  BY FlushInvHolds
<1> QED BY <1>1, FlushInvariant, PTL

-----------------------------------------------------------------------------
(* What is booked: due, on its way to the treasury or to be burned, or     *)
(* settled.                                                                *)

Boo == {"request", "burning", "failed"}
DebitsOf(T) == {t \in T : ToTreasury(t)}
Debits(T) == AmountsOf(DebitsOf(T))

LEMMA BookedIs ==
    /\ Booked = due.treasury + due.burn + settled.treasury + settled.burn
                    + Worth(net, Boo) + Debits(transfers)
    /\ Booked' = due'.treasury + due'.burn + settled'.treasury + settled'.burn
                    + Worth(net', Boo) + Debits(transfers')
BY DEF Booked, Worth, Boo, Debits, DebitsOf, ToTreasury

LEMMA DebitsTyped ==
    ASSUME NEW T, TransfersOK(T)
    PROVE  /\ IsFiniteSet(DebitsOf(T))
           /\ \A t \in DebitsOf(T) : t.amount \in Nat
           /\ Debits(T) \in Nat
<1>1. IsFiniteSet(DebitsOf(T))
  BY FS_Subset DEF TransfersOK, DebitsOf
<1>2. \A t \in DebitsOf(T) : t.amount \in Nat
  BY DEF TransfersOK, DebitsOf, Transfers
<1>3. TotalAmount(DebitsOf(T)) \in Nat
  BY <1>1, <1>2, AmountsNatural
<1> QED BY <1>1, <1>2, <1>3, AmountsAreTotal DEF Debits

LEMMA DebitsLess ==
    ASSUME NEW T, TransfersOK(T), NEW U, TransfersOK(U),
           NEW t \in DebitsOf(T), DebitsOf(U) = DebitsOf(T) \ {t}
    PROVE  /\ Debits(T) \in Nat /\ Debits(U) \in Nat /\ t.amount \in Nat
           /\ Debits(T) = Debits(U) + t.amount
<1> DEFINE D == DebitsOf(T)
<1>1. IsFiniteSet(D) /\ \A s \in D : s.amount \in Nat
  BY DebitsTyped
<1> HIDE DEF D
<1>2. t \in D => TotalAmount(D) = TotalAmount(D \ {t}) + t.amount
  BY <1>1, AmountsWithout
<1>3. TotalAmount(D) = TotalAmount(D \ {t}) + t.amount
  BY <1>2 DEF D
<1>4. Debits(T) = TotalAmount(D) /\ Debits(U) = TotalAmount(D \ {t})
  BY AmountsAreTotal DEF Debits, D
<1>5. t.amount \in Nat /\ Debits(T) \in Nat /\ Debits(U) \in Nat
  BY DebitsTyped
<1> QED BY <1>3, <1>4, <1>5

LEMMA BooksAreMoney == Boo \cap InitTypes = {}
BY DEF Boo, InitTypes

LEMMA PartOfBooks ==
    ASSUME NEW m
    PROVE  /\ m.type \in Boo => Part(m, Boo) = m.amount
           /\ m.type \notin Boo => Part(m, Boo) = 0
BY DEF Part

(* The amounts booked that messages carry, when one goes, comes or moves.  *)
LEMMA BooGoes ==
    ASSUME MintTypeOK, NEW m \in net, net' = net \ {m}
    PROVE  Worth(net', Boo) + Part(m, Boo) = Worth(net, Boo)
<1>1. NetOK(net)
  BY DEF MintTypeOK
<1>2. \A S : S \cap InitTypes = {} =>
         Worth(net, S) = Worth(net \ {m}, S) + Part(m, S)
  BY <1>1, WorthLoses
<1> QED BY <1>2, BooksAreMoney

LEMMA BooComes ==
    ASSUME MintTypeOK, NEW r \in Messages, r \notin net \/ r.type \notin Boo,
           net' = net \cup {r}
    PROVE  Worth(net', Boo) = Worth(net, Boo) + Part(r, Boo)
<1>1. NetOK(net)
  BY DEF MintTypeOK
<1>2. \A S : S \cap InitTypes = {} /\ (r \notin net \/ r.type \notin S) =>
         Worth(net \cup {r}, S) = Worth(net, S) + Part(r, S)
  BY <1>1, WorthGains
<1> QED BY <1>2, BooksAreMoney

LEMMA BooMoves ==
    ASSUME MintTypeOK, NEW m \in net, NEW r \in Messages,
           r \notin net \/ r.type \notin Boo, Answer(m, r)
    PROVE  Worth(net', Boo) + Part(m, Boo) = Worth(net, Boo) + Part(r, Boo)
<1>1. NetOK(net) /\ net' = (net \ {m}) \cup {r}
  BY DEF MintTypeOK, Answer
<1>2. \A S : S \cap InitTypes = {} /\ (r \notin net \/ r.type \notin S) =>
         Worth((net \ {m}) \cup {r}, S) + Part(m, S)
             = Worth(net, S) + Part(r, S)
  BY <1>1, WorthMoves
<1> QED BY <1>1, <1>2, BooksAreMoney

(* A step of messages that carry nothing booked.                           *)
LEMMA BooStays ==
    ASSUME MintTypeOK,
           \/ net' = net
           \/ \E m \in net : m.type \notin Boo /\ net' = net \ {m}
           \/ \E r : r.type \notin Boo /\ net' = net \cup {r}
           \/ \E m \in net : \E r :
                 m.type \notin Boo /\ r.type \notin Boo /\ Answer(m, r)
    PROVE  Worth(net', Boo) = Worth(net, Boo)
<1>1. {k \in net' : k.type \in Boo} = {k \in net : k.type \in Boo}
  BY DEF Answer
<1> QED BY <1>1 DEF Worth


LEMMA PaidTyped ==
    ASSUME MintTypeOK, MintTypeOK'
    PROVE  /\ Due(due) \in Nat /\ Due(settled) \in Nat
           /\ Worth(net, Boo) \in Nat /\ Debits(transfers) \in Nat
           /\ Due(due') \in Nat /\ Due(settled') \in Nat
           /\ Worth(net', Boo) \in Nat /\ Debits(transfers') \in Nat
<1>1. Due(due) \in Nat /\ Due(settled) \in Nat
      /\ Due(due') \in Nat /\ Due(settled') \in Nat
  BY DEF MintTypeOK, Due, Kinds
<1>2. \A S : S \cap InitTypes = {} =>
         Worth(net, S) \in Nat /\ Worth(net', S) \in Nat
  BY OwedTyped DEF MintTypeOK
<1>3. Debits(transfers) \in Nat /\ Debits(transfers') \in Nat
  BY DebitsTyped DEF MintTypeOK
<1> QED BY <1>1, <1>2, <1>3, BooksAreMoney

LEMMA BookedAsBooks ==
    ASSUME MintTypeOK, MintTypeOK'
    PROVE  /\ Booked = Due(due) + Due(settled) + Worth(net, Boo)
                           + Debits(transfers)
           /\ Booked' = Due(due') + Due(settled') + Worth(net', Boo)
                            + Debits(transfers')
<1>1. /\ due.treasury \in Nat /\ due.burn \in Nat
      /\ settled.treasury \in Nat /\ settled.burn \in Nat
      /\ due'.treasury \in Nat /\ due'.burn \in Nat
      /\ settled'.treasury \in Nat /\ settled'.burn \in Nat
  BY DEF MintTypeOK, Kinds
<1> QED BY <1>1, PaidTyped, BookedIs DEF Due

(* The names minted are finitely many, and what they cost is booked.       *)
PaidInv == IsFiniteSet(Minted) /\ MintsPaidOnce

(* A step that mints no name and books nothing.                            *)
LEMMA BooksKept ==
    ASSUME MintTypeOK, MintTypeOK', PaidInv, Minted' = Minted,
           Due(due') + Due(settled') + Worth(net', Boo) + Debits(transfers')
               = Due(due) + Due(settled) + Worth(net, Boo) + Debits(transfers)
    PROVE  PaidInv'
<1>1. Booked' = Booked
  BY BookedAsBooks
<1> QED BY <1>1 DEF PaidInv, MintsPaidOnce

(* A step that leaves the mints and what the items were initialized with.  *)
LEMMA MintedStays ==
    ASSUME MintTypeOK, pending_mints' = pending_mints,
           \A n \in Names : /\ item'[n].initialized = item[n].initialized
                            /\ item'[n].init_owner = item[n].init_owner
                            /\ item'[n].nonce = item[n].nonce
    PROVE  Minted' = Minted
<1>1. \A p \in pending_mints : p.name \in Names
  BY DEF MintTypeOK, MintsOK, PendingMints
<1>2. \A p \in pending_mints : InitializedBy(p)' <=> InitializedBy(p)
  BY <1>1 DEF InitializedBy
<1> QED BY <1>2 DEF Minted, PendingMint

LEMMA AcceptMints ==
    ASSUME MintTypeOK, AnswerInv, NEW m \in InFlight("notify"),
           AcceptUsernameMint(m)
    PROVE  Minted' = Minted
<1>1. PICK p :
         p = [name |-> m.name, qid |-> m.qid, payer |-> m.payer,
              owner |-> m.owner, price |-> m.amount, nonce |-> mint_seq']
  OBVIOUS
<1>2. /\ mint_seq' = mint_seq + 1 /\ item' = item
      /\ pending_mints' = pending_mints \cup {p}
  BY <1>1 DEF AcceptUsernameMint
<1>3. p.name = m.name /\ p.nonce = mint_seq + 1 /\ m.name \in Names
  <2>1. m \in Payments
    BY MessageKinds DEF MintTypeOK, NetOK, InFlight, PaymentTypes
  <2> QED BY <1>1, <1>2, <2>1 DEF Payments
<1>4. ~InitializedBy(p)'
  <2>1. /\ item[m.name].nonce <= mint_seq /\ item[m.name].nonce \in Nat
        /\ mint_seq \in Nat
    BY <1>3 DEF AnswerInv, NoncesBounded, MintTypeOK, Items
  <2> QED BY <1>2, <1>3, <2>1 DEF InitializedBy
<1>5. \A o : InitializedBy(o)' <=> InitializedBy(o)
  BY <1>2 DEF InitializedBy
<1> QED BY <1>2, <1>4, <1>5 DEF Minted, PendingMint

LEMMA InitializeMints ==
    ASSUME MintTypeOK, AnswerInv, NEW m \in InFlight("init"),
           InitializeUsernameItem(m)
    PROVE  Minted' = Minted
<1> DEFINE it == [initialized |-> TRUE, owner |-> m.owner,
                  init_owner |-> m.owner, nonce |-> m.nonce]
<1>1. /\ m \in net /\ m.type \in Initial /\ m.name \in Names
  BY MessageKinds DEF MintTypeOK, NetOK, InFlight, InitTypes, Inits, Initial
<1>2. /\ pending_mints' = pending_mints
      /\ ~item[m.name].initialized
      /\ item' = [item EXCEPT ![m.name] = it]
  BY DEF InitializeUsernameItem, registryVars
<1>3. it.initialized /\ it.nonce = m.nonce /\ it.init_owner = m.owner
  OBVIOUS
<1> HIDE DEF it
<1>4. /\ item'[m.name] = it
      /\ \A n \in Names : n # m.name => item'[n] = item[n]
  BY <1>1, <1>2 DEF MintTypeOK
<1>5. PICK p \in pending_mints : Belongs(m, p)
  BY <1>1 DEF AnswerInv, InitialsBelong
<1>6. InitializedBy(p)' /\ p.name = m.name
  BY <1>3, <1>4, <1>5 DEF InitializedBy, Belongs
<1>7. m.name \notin Minted /\ m.name \notin Minted'
  BY <1>2, <1>5, <1>6 DEF Minted, PendingMint
<1>8. \A o \in pending_mints : o.name \in Names
  BY DEF MintTypeOK, MintsOK, PendingMints
<1>9. \A o \in pending_mints :
         o.name # m.name => (InitializedBy(o)' <=> InitializedBy(o))
  BY <1>4, <1>8 DEF InitializedBy
<1>10. \A n \in Names : n # m.name => (n \in Minted' <=> n \in Minted)
  BY <1>2, <1>4, <1>9 DEF Minted, PendingMint
<1>11. Minted \subseteq Names /\ Minted' \subseteq Names
  BY DEF Minted
<1> QED BY <1>7, <1>10, <1>11

(* A pending mint that ends mints its name if it initialized the item.     *)
LEMMA EndMints ==
    ASSUME MintTypeOK, AnswerInv, NEW p \in pending_mints, item' = item,
           pending_mints' = pending_mints \ {p}
    PROVE  /\ InitializedBy(p) => /\ p.name \notin Minted
                                  /\ Minted' = Minted \cup {p.name}
           /\ ~InitializedBy(p) => Minted' = Minted
<1>1. \A o : InitializedBy(o)' <=> InitializedBy(o)
  BY DEF InitializedBy
<1>2. \A o \in pending_mints : o.name = p.name => o = p
  BY DEF AnswerInv, NamesOnce
<1>3. p.name \in Names
  BY DEF MintTypeOK, MintsOK, PendingMints
<1>4. ASSUME InitializedBy(p)
      PROVE  p.name \notin Minted /\ Minted' = Minted \cup {p.name}
  <2>1. p.name \notin Minted /\ item[p.name].initialized
    BY <1>4 DEF Minted, PendingMint, InitializedBy
  <2>2. p.name \in Minted'
    BY <1>2, <1>3, <2>1 DEF Minted, PendingMint
  <2>3. \A n \in Names : n # p.name => (n \in Minted' <=> n \in Minted)
    BY <1>1 DEF Minted, PendingMint
  <2>4. Minted \subseteq Names /\ Minted' \subseteq Names
    BY DEF Minted
  <2> QED BY <2>1, <2>2, <2>3, <2>4
<1>5. ASSUME ~InitializedBy(p) PROVE Minted' = Minted
  BY <1>1, <1>5 DEF Minted, PendingMint
<1> QED BY <1>4, <1>5


(* A step that leaves the books: due, settled and the flushes under way.   *)
LEMMA QuietBooks ==
    ASSUME MintTypeOK, MintTypeOK', PaidInv, Minted' = Minted,
           UNCHANGED <<due, settled>>,
           DebitsOf(transfers') = DebitsOf(transfers),
           \/ net' = net
           \/ \E m \in net : m.type \notin Boo /\ net' = net \ {m}
           \/ \E r : r.type \notin Boo /\ net' = net \cup {r}
           \/ \E m \in net : \E r :
                 m.type \notin Boo /\ r.type \notin Boo /\ Answer(m, r)
    PROVE  PaidInv'
<1>1. Worth(net', Boo) = Worth(net, Boo)
  BY BooStays
<1>2. Debits(transfers') = Debits(transfers)
  BY DEF Debits
<1> QED BY <1>1, <1>2, BooksKept

LEMMA OutcomePaid ==
    ASSUME MintTypeOK, MintTypeOK', AnswerInv, PaidInv,
           \/ \E m \in InFlight("deployed") : ItemDeployedAck(m)
           \/ \E m \in InFlight("initBounce") : BouncedInitialize(m)
    PROVE  PaidInv'
<1>1. ASSUME NEW m \in InFlight("deployed"), ItemDeployedAck(m)
      PROVE  PaidInv'
  <2>1. PICK p \in pending_mints :
           /\ Finalizes(p, m) /\ item' = item
           /\ pending_mints' = pending_mints \ {p}
           /\ due' = [treasury |-> due.treasury + TreasuryShare(p.price),
                      burn |-> due.burn + (p.price - TreasuryShare(p.price))]
           /\ Answer(m, NoteAck(p)) /\ UNCHANGED <<settled, transfers>>
    BY <1>1 DEF ItemDeployedAck, walletVars
  <2>2. InitializedBy(p)
    BY <2>1
       DEF InFlight, AnswerInv, DeployedIsTrue, Finalizes, InitializedBy
  <2>3. p.name \notin Minted /\ Minted' = Minted \cup {p.name}
    BY <2>1, <2>2, EndMints
  <2>4. /\ p.price \in Nat /\ p.price = Price[p.name] /\ p.name \in Names
        /\ \A n \in Names : Price[n] \in Int
    BY MintAssumption DEF MintTypeOK, MintsOK, PendingMints
  <2>5. Minted \subseteq Names /\ IsFiniteSet(Minted)
    BY DEF Minted, PaidInv
  <2>6. IsFiniteSet(Minted')
    BY <2>3, <2>5, FS_AddElement
  <2>7. SumFunctionOnSet(Price, Minted')
            = p.price + SumFunctionOnSet(Price, Minted)
    <3> DEFINE M == Minted
    <3> DEFINE n == p.name
    <3>1. /\ IsFiniteSet(M) /\ n \notin M /\ Price[n] = p.price
          /\ \A x \in M \cup {n} : Price[x] \in Int
      BY <2>3, <2>4, <2>5
    <3> HIDE DEF M, n
    <3>2. SumFunctionOnSet(Price, M \cup {n})
              = Price[n] + SumFunctionOnSet(Price, M)
      BY <3>1, SumWith
    <3> QED BY <2>3, <3>1, <3>2 DEF M, n
  <2>8. Due(due') = Due(due) + p.price
    <3>1. due.treasury \in Nat /\ due.burn \in Nat
      BY DEF MintTypeOK, Kinds
    <3>2. /\ TreasuryShare(p.price) \in Nat
          /\ p.price - TreasuryShare(p.price) \in Nat
      BY <2>4, ShareIsPart
    <3> QED BY <2>1, <2>4, <3>1, <3>2 DEF Due
  <2>9. Worth(net', Boo) = Worth(net, Boo)
    <3>1. m \in net /\ m.type \notin Boo /\ NoteAck(p).type \notin Boo
      BY DEF InFlight, NoteAck, Boo
    <3> QED BY <2>1, <3>1, BooStays
  <2>10. Booked' = Booked + p.price
    BY <2>1, <2>4, <2>8, <2>9, BookedAsBooks, PaidTyped
  <2>11. SumFunctionOnSet(Price, Minted) \in Nat
    BY <2>1, BookedAsBooks, PaidTyped DEF PaidInv, MintsPaidOnce
  <2> QED BY <2>4, <2>6, <2>7, <2>10, <2>11 DEF PaidInv, MintsPaidOnce
<1>2. ASSUME NEW m \in InFlight("initBounce"), BouncedInitialize(m)
      PROVE  PaidInv'
  <2>1. PICK p \in pending_mints :
           /\ p.name = m.name /\ item' = item
           /\ pending_mints' = pending_mints \ {p}
           /\ Answer(m, NoteRefund(p)) /\ UNCHANGED <<due, settled, transfers>>
    BY <1>2 DEF BouncedInitialize, PendingMint, walletVars, flushVars
  <2>2. ~InitializedBy(p)
    BY <2>1 DEF AnswerInv, Awaited, InFlight, Initial
  <2>3. Minted' = Minted
    BY <2>1, <2>2, EndMints
  <2>4. m \in net /\ m.type \notin Boo /\ NoteRefund(p).type \notin Boo
    BY DEF InFlight, NoteRefund, Boo
  <2> QED BY <2>1, <2>3, <2>4, QuietBooks
<1> QED BY <1>1, <1>2

LEMMA MintPaid ==
    ASSUME MintTypeOK, MintTypeOK', AnswerInv, PaidInv,
           \/ \E u, o \in Users, q \in QueryIds, n \in Names :
                 \E a \in scene.amounts : Pay(u, q, n, o, a)
           \/ MintStep
    PROVE  PaidInv'
<1>1. CASE \E u, o \in Users, q \in QueryIds, n \in Names :
              \E a \in scene.amounts : Pay(u, q, n, o, a)
  <2>1. UNCHANGED <<pending_mints, item, due, settled, transfers>>
    BY <1>1 DEF Pay, registryVars, flushVars
  <2>2. PICK r : r.type = "notify" /\ net' = net \cup {r}
    BY <1>1 DEF Pay
  <2>3. r.type \notin Boo
    BY <2>2 DEF Boo
  <2>4. Minted' = Minted
    BY <2>1, MintedStays
  <2> QED BY <2>1, <2>2, <2>3, <2>4, QuietBooks
<1>2. ASSUME NEW m \in InFlight("notify"), AcceptUsernameMint(m)
      PROVE  PaidInv'
  <2>1. Minted' = Minted /\ UNCHANGED <<due, settled, transfers>>
    BY <1>2, AcceptMints DEF AcceptUsernameMint, flushVars, walletVars
  <2>2. PICK r : r.type = "init" /\ Answer(m, r)
    BY <1>2 DEF AcceptUsernameMint
  <2>3. m \in net /\ m.type \notin Boo /\ r.type \notin Boo
    BY <2>2 DEF InFlight, Boo
  <2> QED BY <2>1, <2>2, <2>3, QuietBooks
<1>3. ASSUME NEW m \in InFlight("notify"), RefuseUsernameMint(m)
      PROVE  PaidInv'
  <2>1. UNCHANGED <<pending_mints, item, due, settled, transfers>>
    BY <1>3 DEF RefuseUsernameMint, registryVars, flushVars, walletVars
  <2>2. m \in Payments
    BY MessageKinds DEF InFlight, MintTypeOK, NetOK, PaymentTypes
  <2>3. PICK r : r = [m EXCEPT !.type = "notifyBounce"]
    OBVIOUS
  <2>4. Answer(m, r) /\ r.type = "notifyBounce"
    BY <1>3, <2>2, <2>3, BouncedPayment DEF RefuseUsernameMint, Bounce
  <2>5. m \in net /\ m.type \notin Boo /\ r.type \notin Boo
    BY <2>4 DEF InFlight, Boo
  <2>6. Minted' = Minted
    BY <2>1, MintedStays
  <2> QED BY <2>1, <2>4, <2>5, <2>6, QuietBooks
<1>4. ASSUME NEW m \in InFlight("init"), InitializeUsernameItem(m)
      PROVE  PaidInv'
  <2>1. Minted' = Minted /\ UNCHANGED <<due, settled, transfers>>
    BY <1>4, InitializeMints DEF InitializeUsernameItem, flushVars, walletVars
  <2>2. PICK r : r = DeployedAck(m.name, item'[m.name])
    OBVIOUS
  <2>3. Answer(m, r) /\ r.type = "deployed"
    BY <1>4, <2>2 DEF InitializeUsernameItem, DeployedAck
  <2>4. m \in net /\ m.type \notin Boo /\ r.type \notin Boo
    BY <2>3 DEF InFlight, Boo
  <2> QED BY <2>1, <2>3, <2>4, QuietBooks
<1>5. ASSUME NEW m \in InFlight("init"), RefuseInitialize(m)
      PROVE  PaidInv'
  <2>1. UNCHANGED <<pending_mints, item, due, settled, transfers>>
    BY <1>5 DEF RefuseInitialize, registryVars, flushVars, walletVars
  <2>2. m \in Inits
    BY MessageKinds DEF InFlight, MintTypeOK, NetOK, InitTypes
  <2>3. PICK r : r = [m EXCEPT !.type = "initBounce"]
    OBVIOUS
  <2>4. Answer(m, r) /\ r.type = "initBounce"
    BY <1>5, <2>2, <2>3, BouncedInit DEF RefuseInitialize, Bounce
  <2>5. m \in net /\ m.type \notin Boo /\ r.type \notin Boo
    BY <2>4 DEF InFlight, Boo
  <2>6. Minted' = Minted
    BY <2>1, MintedStays
  <2> QED BY <2>1, <2>4, <2>5, <2>6, QuietBooks
<1>6. ASSUME NEW m \in InFlight("deployed"), StaleDeployedAck(m)
      PROVE  PaidInv'
  <2>1. UNCHANGED <<pending_mints, item, due, settled, transfers>>
    BY <1>6 DEF StaleDeployedAck, registryVars, flushVars, walletVars
  <2>2. m \in net /\ m.type \notin Boo /\ net' = net \ {m}
    BY <1>6 DEF InFlight, Boo, StaleDeployedAck, Consume
  <2>3. Minted' = Minted
    BY <2>1, MintedStays
  <2> QED BY <2>1, <2>2, <2>3, QuietBooks
<1> QED BY <1>1, <1>2, <1>3, <1>4, <1>5, <1>6, OutcomePaid DEF MintStep

LEMMA NotesPaid ==
    ASSUME MintTypeOK, MintTypeOK', PaidInv,
           \/ NoteStep
           \/ \E n \in pending_notifications : PruneStaleNotification(n)
           \/ \E n \in Names : ResendDeployedAck(n)
           \/ \E n \in Names, o \in Users : NftTransfer(n, o)
           \/ \E m \in net : Lose(m)
    PROVE  PaidInv'
<1>1. UNCHANGED <<due, settled, pending_mints>>
  BY DEF NoteStep, NotificationAck, RefundPendingNotification, RefundFails,
         PruneStaleNotification, ResendDeployedAck, NftTransfer, Lose,
         registryVars, flushVars
<1>2. Minted' = Minted
  <2>1. ASSUME NEW n \in Names, NEW o \in Users, NftTransfer(n, o)
        PROVE  Minted' = Minted
    <3>1. \A k \in Names : /\ item'[k].initialized = item[k].initialized
                           /\ item'[k].init_owner = item[k].init_owner
                           /\ item'[k].nonce = item[k].nonce
      BY <2>1 DEF NftTransfer, MintTypeOK, Items
    <3> QED BY <1>1, <3>1, MintedStays
  <2>2. CASE item' = item
    BY <1>1, <2>2, MintedStays
  <2> QED BY <2>1, <2>2
          DEF NoteStep, NotificationAck, RefundPendingNotification,
              RefundFails, PruneStaleNotification, ResendDeployedAck, Lose
<1>3. CASE NoteStep
  <2>1. PICK o \in net : o.type \notin Boo /\ net' = net \ {o}
    BY <1>3 DEF NoteStep, NotificationAck, RefundPendingNotification,
                RefundFails, InFlight, Consume, Boo
  <2>2. DebitsOf(transfers') = DebitsOf(transfers)
    <3>1. CASE transfers' = transfers
      BY <3>1
    <3>2. ASSUME NEW m, RefundPendingNotification(m)
          PROVE  DebitsOf(transfers') = DebitsOf(transfers)
      <4>1. PICK n \in pending_notifications :
               transfers' = transfers \cup
                   {[qid |-> n.qid, to |-> n.payer, amount |-> n.amount,
                     credited |-> FALSE]}
        BY <3>2 DEF RefundPendingNotification
      <4>2. n.payer # "treasury"
        BY MintAssumption DEF MintTypeOK, Notifications
      <4> QED BY <4>1, <4>2 DEF DebitsOf, ToTreasury
    <3> QED BY <1>3, <3>1, <3>2
            DEF NoteStep, NotificationAck, RefundFails, walletVars
  <2> QED BY <1>1, <1>2, <2>1, <2>2, QuietBooks
<1>4. CASE \E n \in pending_notifications : PruneStaleNotification(n)
  BY <1>1, <1>2, <1>4, QuietBooks DEF PruneStaleNotification
<1>5. CASE \E n \in Names : ResendDeployedAck(n)
  <2>1. PICK r : r.type = "deployed" /\ net' = net \cup {r}
    BY <1>5 DEF ResendDeployedAck, DeployedAck
  <2>2. r.type \notin Boo
    BY <2>1 DEF Boo
  <2> QED BY <1>1, <1>2, <1>5, <2>1, <2>2, QuietBooks
          DEF ResendDeployedAck, walletVars
<1>6. CASE \E n \in Names, o \in Users : NftTransfer(n, o)
  BY <1>1, <1>2, <1>6, QuietBooks DEF NftTransfer, walletVars
<1>7. CASE \E m \in net : Lose(m)
  <2>1. scene.lossy \subseteq LossyTypes
    BY MintAssumption DEF MintTypeOK
  <2>2. PICK m \in net : m.type \notin Boo /\ net' = net \ {m}
    BY <1>7, <2>1 DEF Lose, Consume, LossyTypes, Boo
  <2> QED BY <1>1, <1>2, <1>7, <2>2, QuietBooks DEF Lose, walletVars
<1> QED BY <1>3, <1>4, <1>5, <1>6, <1>7


(* The message of a flush that replaces another.                           *)
LEMMA FlushAnswerIsNew ==
    ASSUME MintTypeOK, FlushInv, NEW m \in net, IsFlush(m),
           NEW t \in FlushTypes, t # m.type, Bounce(m, t)
    PROVE  \E r \in Messages :
               /\ Answer(m, r) /\ r.type = t /\ r.amount = m.amount
               /\ r.kind = m.kind /\ r \notin net
<1>1. m \in Flushes
  BY MessageKinds DEF IsFlush, MintTypeOK, NetOK
<1>2. PICK r : r = [m EXCEPT !.type = t]
  OBVIOUS
<1>3. /\ r \in Messages /\ r.type = t /\ r.qid = m.qid /\ r.kind = m.kind
      /\ r.amount = m.amount
  BY <1>1, <1>2, NextFlush DEF Messages
<1>4. r \notin net
  BY <1>3 DEF FlushInv, MessagesOnce, IsFlush
<1> QED BY <1>2, <1>3, <1>4 DEF Bounce

LEMMA RequestsPaid ==
    ASSUME MintTypeOK, MintTypeOK', FlushInv, PaidInv, Minted' = Minted,
           NEW m \in InFlight("request"),
           FlushTransferRequest(m) \/ FlushBurn(m) \/ RefuseFlushRequest(m)
    PROVE  PaidInv'
<1>1. m \in net /\ IsFlush(m) /\ m.type = "request" /\ m.amount \in Nat
  BY FlushMessage DEF InFlight, IsFlush, FlushTypes
<1>2. Part(m, Boo) = m.amount
  BY <1>1 DEF Part, Boo
<1>3. UNCHANGED <<due, settled>>
  BY DEF FlushTransferRequest, FlushBurn, RefuseFlushRequest, flushVars
<1>4. CASE FlushTransferRequest(m)
  <2>1. PICK t : t = [qid |-> m.qid, to |-> "treasury", amount |-> m.amount,
                      credited |-> FALSE]
    OBVIOUS
  <2>2. ToTreasury(t) /\ t.qid = m.qid /\ t.amount = m.amount
    BY <2>1 DEF ToTreasury
  <2>3. transfers' = transfers \cup {t} /\ net' = net \ {m}
    BY <1>4, <2>1 DEF FlushTransferRequest, Consume
  <2>4. t \notin transfers
    BY <1>1, <2>2 DEF FlushInv, MessageOrDebit
  <2>5. /\ t \in DebitsOf(transfers')
        /\ DebitsOf(transfers) = DebitsOf(transfers') \ {t}
    BY <2>2, <2>3, <2>4 DEF DebitsOf
  <2>6. Debits(transfers') = Debits(transfers) + m.amount
    BY <2>2, <2>5, DebitsLess DEF MintTypeOK
  <2>7. Worth(net', Boo) + m.amount = Worth(net, Boo)
    BY <1>1, <1>2, <2>3, BooGoes
  <2> QED BY <1>1, <1>3, <2>6, <2>7, PaidTyped, BooksKept
<1>5. CASE FlushBurn(m) \/ RefuseFlushRequest(m)
  <2>1. PICK r \in Messages :
           /\ Answer(m, r) /\ r.type \in Boo /\ r.amount = m.amount
           /\ r \notin net
    BY <1>1, <1>5, FlushAnswerIsNew
       DEF FlushBurn, RefuseFlushRequest, FlushTypes, Boo
  <2>2. Part(r, Boo) = m.amount
    BY <2>1 DEF Part
  <2>3. Worth(net', Boo) = Worth(net, Boo)
    <3>1. Worth(net', Boo) + Part(m, Boo) = Worth(net, Boo) + Part(r, Boo)
      BY <1>1, <2>1, BooMoves
    <3>2. Worth(net', Boo) + m.amount = Worth(net, Boo) + m.amount
      BY <1>2, <2>2, <3>1
    <3>3. Worth(net', Boo) \in Nat /\ Worth(net, Boo) \in Nat
      BY PaidTyped
    <3> QED BY <1>1, <3>2, <3>3
  <2>4. UNCHANGED transfers
    BY <1>5 DEF FlushBurn, RefuseFlushRequest, walletVars
  <2> QED BY <1>3, <2>3, <2>4, BooksKept
<1> QED BY <1>4, <1>5

LEMMA BurnsPaid ==
    ASSUME MintTypeOK, MintTypeOK', FlushInv, PaidInv, Minted' = Minted,
           NEW m \in InFlight("burning"),
           BurnNotification(m) \/ BouncedBurnNotification(m)
    PROVE  PaidInv'
<1>1. m \in net /\ IsFlush(m) /\ m.type = "burning" /\ m.amount \in Nat
  BY FlushMessage DEF InFlight, IsFlush, FlushTypes
<1>2. Part(m, Boo) = m.amount
  BY <1>1 DEF Part, Boo
<1>3. UNCHANGED <<due, transfers>>
  BY DEF BurnNotification, BouncedBurnNotification, flushVars, walletVars
<1>4. CASE BurnNotification(m)
  <2>1. PICK r \in Messages :
           /\ Answer(m, r) /\ r.type = "done" /\ r.amount = m.amount
           /\ r \notin net
    BY <1>1, <1>4, FlushAnswerIsNew DEF BurnNotification, FlushTypes
  <2>2. Part(r, Boo) = 0
    BY <2>1 DEF Part, Boo
  <2>3. Worth(net', Boo) + m.amount = Worth(net, Boo)
    BY <1>1, <1>2, <2>1, <2>2, BooMoves, PaidTyped
  <2>4. Due(settled') = Due(settled) + m.amount
    BY <1>1, <1>4 DEF BurnNotification, Due, MintTypeOK, Kinds
  <2> QED BY <1>1, <1>3, <2>3, <2>4, PaidTyped, BooksKept
<1>5. CASE BouncedBurnNotification(m)
  <2>1. PICK r \in Messages :
           /\ Answer(m, r) /\ r.type = "failed" /\ r.amount = m.amount
           /\ r \notin net
    BY <1>1, <1>5, FlushAnswerIsNew DEF BouncedBurnNotification, FlushTypes
  <2>2. Part(r, Boo) = m.amount
    BY <2>1 DEF Part, Boo
  <2>3. Worth(net', Boo) = Worth(net, Boo)
    <3>1. Worth(net', Boo) + Part(m, Boo) = Worth(net, Boo) + Part(r, Boo)
      BY <1>1, <2>1, BooMoves
    <3>2. Worth(net', Boo) + m.amount = Worth(net, Boo) + m.amount
      BY <1>2, <2>2, <3>1
    <3>3. Worth(net', Boo) \in Nat /\ Worth(net, Boo) \in Nat
      BY PaidTyped
    <3> QED BY <1>1, <3>2, <3>3
  <2> QED BY <1>3, <1>5, <2>3, BooksKept DEF BouncedBurnNotification
<1> QED BY <1>4, <1>5

LEMMA EndsPaid ==
    ASSUME MintTypeOK, MintTypeOK', PaidInv, Minted' = Minted, NEW m \in net,
           \/ m.type = "done" /\ FlushDone(m)
           \/ m.type = "failed" /\ FlushFailed(m)
    PROVE  PaidInv'
<1>1. net' = net \ {m} /\ UNCHANGED <<settled, transfers>>
  BY DEF FlushDone, FlushFailed, Consume, walletVars
<1>2. CASE m.type = "done" /\ FlushDone(m)
  <2>1. UNCHANGED due /\ m.type \notin Boo
    BY <1>2 DEF FlushDone, Boo
  <2> QED BY <1>1, <2>1, QuietBooks
<1>3. CASE m.type = "failed" /\ FlushFailed(m)
  <2>1. m.amount \in Nat /\ m.kind \in Kinds
    BY <1>3, FlushMessage DEF FlushTypes
  <2>2. due' = [due EXCEPT ![m.kind] = @ + m.amount]
    BY <1>3 DEF FlushFailed
  <2>3. Due(due') = Due(due) + m.amount
    BY <2>1, <2>2 DEF Due, MintTypeOK, Kinds
  <2>4. Part(m, Boo) = m.amount
    BY <1>3 DEF Part, Boo
  <2>5. Worth(net', Boo) + m.amount = Worth(net, Boo)
    BY <1>1, <2>4, BooGoes
  <2> QED BY <1>1, <2>1, <2>3, <2>5, PaidTyped, BooksKept
<1> QED BY <1>2, <1>3

LEMMA DuePaid ==
    ASSUME MintTypeOK, MintTypeOK', FlushInv, PaidInv, Minted' = Minted,
           NEW k \in scene.flushes, NEW q \in QueryIds, FlushDue(k, q)
    PROVE  PaidInv'
<1>1. k \in Kinds /\ due[k] \in Nat
  BY MintAssumption DEF MintTypeOK
<1>2. PICK r : r = [type |-> "request", kind |-> k, qid |-> q,
                    amount |-> due[k]]
  OBVIOUS
<1>3. /\ r \in Messages /\ r.type = "request" /\ r.qid = q
      /\ r.amount = due[k] /\ net' = net \cup {r}
  BY <1>1, <1>2 DEF FlushDue, Messages, Flushes, FlushTypes
<1>4. r \notin net
  BY <1>3 DEF FlushDue, PendingFlush, FlushInv, MessagesTracked, Tracks,
              IsFlush, FlushTypes
<1>5. Part(r, Boo) = due[k]
  BY <1>3 DEF Part, Boo
<1>6. Worth(net', Boo) = Worth(net, Boo) + due[k]
  BY <1>3, <1>4, <1>5, BooComes
<1>7. Due(due') + due[k] = Due(due)
  BY <1>1 DEF FlushDue, Due, Kinds, MintTypeOK
<1>8. UNCHANGED <<settled, transfers>>
  BY DEF FlushDue, walletVars
<1> QED BY <1>1, <1>6, <1>7, <1>8, PaidTyped, BooksKept

LEMMA TransfersPaid ==
    ASSUME MintTypeOK, MintTypeOK', FlushInv, PaidInv, Minted' = Minted,
           NEW t \in transfers,
           CreditTransfer(t) \/ SourceAck(t) \/ TakeBackTransfer(t)
    PROVE  PaidInv'
<1>1. UNCHANGED due
  BY DEF CreditTransfer, SourceAck, TakeBackTransfer, flushVars
<1>2. t.amount \in Nat /\ t.qid \in QueryIds
  BY DEF MintTypeOK, TransfersOK, Transfers
<1>3. PICK c : c = [t EXCEPT !.credited = TRUE]
  OBVIOUS
<1>4. c.credited
  BY <1>3, CreditedTransfer DEF MintTypeOK, TransfersOK
<1>5. \/ transfers' = transfers \ {t}
      \/ transfers' = (transfers \ {t}) \cup {c}
  BY <1>3 DEF CreditTransfer, SourceAck, TakeBackTransfer
<1>6. DebitsOf(transfers') = DebitsOf(transfers) \ {t}
  BY <1>4, <1>5 DEF DebitsOf, ToTreasury
<1>7. CASE SourceAck(t) \/ t.to # "treasury"
  <2>1. DebitsOf(transfers') = DebitsOf(transfers)
    BY <1>6, <1>7 DEF DebitsOf, ToTreasury, SourceAck
  <2>2. UNCHANGED <<settled, net>>
    BY <1>7 DEF SourceAck, CreditTransfer, TakeBackTransfer
  <2> QED BY <1>1, <2>1, <2>2, QuietBooks
<1>8. CASE t.to = "treasury" /\ ~SourceAck(t)
  <2>1. t \in DebitsOf(transfers)
    BY <1>8 DEF DebitsOf, ToTreasury, CreditTransfer, TakeBackTransfer
  <2>2. Debits(transfers') + t.amount = Debits(transfers)
    BY <1>6, <2>1, DebitsLess DEF MintTypeOK
  <2>3. CASE CreditTransfer(t)
    <3>1. Due(settled') = Due(settled) + t.amount
      BY <1>2, <1>8, <2>3 DEF CreditTransfer, Due, MintTypeOK, Kinds
    <3>2. PICK r : r = [type |-> "done", kind |-> "treasury",
                        qid |-> t.qid, amount |-> t.amount]
      OBVIOUS
    <3>3. r.type \notin Boo /\ net' = net \cup {r}
      BY <1>8, <2>3, <3>2 DEF CreditTransfer, Boo
    <3>4. Worth(net', Boo) = Worth(net, Boo)
      BY <3>3, BooStays
    <3> QED BY <1>1, <1>2, <2>2, <3>1, <3>4, PaidTyped, BooksKept
  <2>4. CASE TakeBackTransfer(t)
    <3>1. PICK r : r = [type |-> "failed", kind |-> "treasury",
                        qid |-> t.qid, amount |-> t.amount]
      OBVIOUS
    <3>2. /\ r \in Messages /\ r.type = "failed" /\ r.qid = t.qid
          /\ r.amount = t.amount /\ net' = net \cup {r} /\ UNCHANGED settled
      BY <1>2, <1>8, <2>4, <3>1
         DEF TakeBackTransfer, Messages, Flushes, FlushTypes, Kinds
    <3>3. r \notin net
      BY <2>1, <3>2 DEF FlushInv, MessageOrDebit, IsFlush, FlushTypes,
                        DebitsOf
    <3>4. Part(r, Boo) = t.amount
      BY <3>2 DEF Part, Boo
    <3>5. Worth(net', Boo) = Worth(net, Boo) + t.amount
      BY <3>2, <3>3, <3>4, BooComes
    <3> QED BY <1>1, <1>2, <2>2, <3>2, <3>5, PaidTyped, BooksKept
  <2> QED BY <1>8, <2>3, <2>4
<1> QED BY <1>7, <1>8

LEMMA FlushPaid ==
    ASSUME MintTypeOK, MintTypeOK', FlushInv, PaidInv,
           \/ FlushStep
           \/ \E k \in scene.flushes, q \in QueryIds : FlushDue(k, q)
           \/ \E t \in transfers :
                 CreditTransfer(t) \/ SourceAck(t) \/ TakeBackTransfer(t)
    PROVE  PaidInv'
<1>1. UNCHANGED <<pending_mints, item>>
  BY DEF FlushStep, FlushTransferRequest, FlushBurn, RefuseFlushRequest,
         BurnNotification, BouncedBurnNotification, FlushDone, FlushFailed,
         FlushDue, CreditTransfer, SourceAck, TakeBackTransfer, registryVars
<1>2. Minted' = Minted
  BY <1>1, MintedStays
<1>3. CASE FlushStep
  <2>1. \A m \in InFlight("done") : m \in net /\ m.type = "done"
    BY DEF InFlight
  <2>2. \A m \in InFlight("failed") : m \in net /\ m.type = "failed"
    BY DEF InFlight
  <2> QED BY <1>2, <1>3, <2>1, <2>2, RequestsPaid, BurnsPaid, EndsPaid
          DEF FlushStep
<1> QED BY <1>2, <1>3, DuePaid, TransfersPaid

LEMMA PaidKept ==
    ASSUME MintTypeOK, MintTypeOK', AnswerInv, FlushInv, PaidInv, [Next]_vars
    PROVE  PaidInv'
<1>1. CASE UNCHANGED vars
  <2>1. UNCHANGED <<pending_mints, item, due, settled, transfers, net>>
    BY <1>1 DEF vars, registryVars, flushVars, walletVars
  <2>2. Minted' = Minted
    BY <2>1, MintedStays
  <2> QED BY <2>1, <2>2, QuietBooks
<1> QED BY <1>1, MintPaid, NotesPaid, FlushPaid DEF Next

LEMMA PaidAtFirst == Init => PaidInv
<1> SUFFICES ASSUME Init PROVE PaidInv
  OBVIOUS
<1>1. /\ Minted = {} /\ net = {} /\ transfers = {}
      /\ due.treasury = 0 /\ due.burn = 0
      /\ settled.treasury = 0 /\ settled.burn = 0
  BY DEF Init, Minted, Kinds
<1>2. AmountsOf({}) = 0
  BY NoAmounts, AmountsAreTotal
<1>3. Worth(net, Boo) = 0 /\ Debits(transfers) = 0
  <2>1. /\ {m \in net : m.type \in Boo} = {}
        /\ DebitsOf(transfers) = {}
    BY <1>1 DEF DebitsOf
  <2> QED BY <1>2, <2>1 DEF Worth, Debits
<1>4. Booked = 0
  BY <1>1, <1>3, BookedIs
<1> QED BY <1>1, <1>4, SumOfNothing, FS_EmptySet DEF PaidInv, MintsPaidOnce

(* What was booked for the names minted is their price, once each.         *)
THEOREM MintsArePaidOnce == Spec => []MintsPaidOnce
<1>1. MintTypeOK /\ MintTypeOK' /\ AnswerInv /\ FlushInv /\ PaidInv
         /\ [Next]_vars => PaidInv'
  BY PaidKept
<1>2. PaidInv => MintsPaidOnce
  BY DEF PaidInv
<1> QED BY <1>1, <1>2, PaidAtFirst, AnswerInvariant, FlushInvariant, PTL
        DEF Spec


-----------------------------------------------------------------------------
(* Notifications.  A payment has at most one token: a message about it, or *)
(* its pending mint; and the official wallet has the notification of every *)
(* token, as long as users wait for their refunds (fresh) and no           *)
(* UsernameItemDeployedAck is lost.                                        *)

Careful == scene.fresh /\ "deployed" \notin scene.lossy

Tokens == {"notify", "notifyBounce", "noteAck", "noteRefund"}
IsToken(m) == m.type \in Tokens
SamePayment(x, y) == x.qid = y.qid /\ x.payer = y.payer
RefundOf(t, n) == t.qid = n.qid /\ t.to = n.payer

TokensNoted ==
    \A m \in net : IsToken(m) =>
        \E n \in pending_notifications :
            SamePayment(n, m) /\ n.amount = m.amount
MintsNoted ==
    \A p \in pending_mints :
        \E n \in pending_notifications :
            SamePayment(n, p) /\ n.amount = p.price
NotesOnce == \A n, k \in pending_notifications : SamePayment(n, k) => n = k
TokensOnce ==
    \A m, k \in net : IsToken(m) /\ IsToken(k) /\ SamePayment(m, k) => m = k
MintsOnce == \A p, r \in pending_mints : SamePayment(p, r) => p = r
TokenOrMint ==
    \A m \in net, p \in pending_mints : IsToken(m) => ~SamePayment(m, p)
NoteOrRefund ==
    \A n \in pending_notifications, t \in transfers : ~RefundOf(t, n)
(* The acknowledgement of a mint that initialized its item is on its way.  *)
Acknowledges(m, p) ==
    m.type = "deployed" /\ m.name = p.name /\ m.owner = p.owner
                        /\ m.nonce = p.nonce
AckUnderWay ==
    \A p \in pending_mints :
        InitializedBy(p) => \E m \in net : Acknowledges(m, p)

PaymentInv ==
    /\ TokensNoted /\ MintsNoted /\ NotesOnce /\ TokensOnce /\ MintsOnce
    /\ TokenOrMint /\ NoteOrRefund
NoteInv == PaymentInv /\ AckUnderWay
NotesFollow == Careful => NoteInv

LEMMA NoteInvHolds ==
    ASSUME MintTypeOK, Solvent, NotesFollow
    PROVE  RefundsFindPayment
<1> SUFFICES ASSUME Careful,
                    NEW m \in InFlight("notifyBounce")
                              \cup InFlight("noteRefund")
             PROVE  \E n \in pending_notifications : Refundable(n, m)
  BY DEF RefundsFindPayment, Careful
<1> USE DEF NotesFollow
<1>1. /\ m \in net /\ IsToken(m) /\ m.type \in Und /\ m.amount \in Nat
  BY MessageKinds DEF InFlight, IsToken, Tokens, Und, MintTypeOK, NetOK,
                      InitTypes
<1>2. PICK n \in pending_notifications :
         SamePayment(n, m) /\ n.amount = m.amount
  BY <1>1 DEF NoteInv, PaymentInv, TokensNoted
<1>3. Refunds(n.qid, n.payer) = {}
  BY DEF NoteInv, PaymentInv, NoteOrRefund, RefundOf, Refunds
<1>4. m.amount <= Worth(net, Und)
  <2>1. NetOK(net)
    BY DEF MintTypeOK
  <2>2. \A S : S \cap InitTypes = {} =>
           /\ Worth(net \ {m}, S) \in Nat
           /\ Worth(net, S) = Worth(net \ {m}, S) + Part(m, S)
    BY <1>1, <2>1, WorthLoses
  <2>3. /\ Worth(net \ {m}, Und) \in Nat
        /\ Worth(net, Und) = Worth(net \ {m}, Und) + m.amount
    BY <1>1, <2>2, OwedAreMoney, OwedParts
  <2> QED BY <1>1, <2>3
<1>5. /\ Worth(net, Und) \in Nat /\ Worth(net, Unf) \in Nat
      /\ due.treasury \in Nat /\ due.burn \in Nat
      /\ PricesOf(pending_mints) \in Nat /\ balance \in Nat
  BY OwedTyped DEF MintTypeOK
<1>6. balance >= m.amount
  BY <1>1, <1>4, <1>5, OwedIs DEF OwedOf
<1> QED BY <1>2, <1>3, <1>6 DEF Refundable, SamePayment

LEMMA NoteInvAtFirst == Init => NoteInv
BY DEF Init, NoteInv, PaymentInv, TokensNoted, MintsNoted, NotesOnce,
       TokensOnce, MintsOnce, TokenOrMint, NoteOrRefund, AckUnderWay

(* A step that is about one payment alone, of which x is a record.         *)
LEMMA NoteAt ==
    ASSUME PaymentInv, MintTypeOK', NEW x,
           \A n : ~SamePayment(n, x) =>
               (n \in pending_notifications' <=> n \in pending_notifications),
           \A m \in net' : IsToken(m) /\ ~SamePayment(m, x) => m \in net,
           \A p \in pending_mints' :
               ~SamePayment(p, x) => p \in pending_mints,
           \A t \in transfers' : ~RefundOf(t, x) =>
               \/ t.to = "treasury"
               \/ \E s \in transfers : s.qid = t.qid /\ s.to = t.to,
           \A n, k \in pending_notifications' :
               SamePayment(n, x) /\ SamePayment(k, x) => n = k,
           \A m, k \in net' :
               IsToken(m) /\ IsToken(k) /\ SamePayment(m, x)
                   /\ SamePayment(k, x) => m = k,
           \A p, r \in pending_mints' :
               SamePayment(p, x) /\ SamePayment(r, x) => p = r,
           \A m \in net', p \in pending_mints' :
               ~(IsToken(m) /\ SamePayment(m, x) /\ SamePayment(p, x)),
           \A m \in net' : IsToken(m) /\ SamePayment(m, x) =>
               \E n \in pending_notifications' :
                   SamePayment(n, m) /\ n.amount = m.amount,
           \A p \in pending_mints' : SamePayment(p, x) =>
               \E n \in pending_notifications' :
                   SamePayment(n, p) /\ n.amount = p.price,
           \A n \in pending_notifications', t \in transfers' :
               ~(SamePayment(n, x) /\ RefundOf(t, x))
    PROVE  PaymentInv'
<1>1. TokensNoted'
  <2> SUFFICES ASSUME NEW m \in net', IsToken(m)
               PROVE  \E n \in pending_notifications' :
                          SamePayment(n, m) /\ n.amount = m.amount
    BY DEF TokensNoted
  <2>1. CASE SamePayment(m, x)
    BY <2>1
  <2>2. CASE ~SamePayment(m, x)
    <3>1. PICK n \in pending_notifications :
             SamePayment(n, m) /\ n.amount = m.amount
      BY <2>2 DEF PaymentInv, TokensNoted
    <3>2. ~SamePayment(n, x)
      BY <2>2, <3>1 DEF SamePayment
    <3> QED BY <3>1, <3>2
  <2> QED BY <2>1, <2>2
<1>2. MintsNoted'
  <2> SUFFICES ASSUME NEW p \in pending_mints'
               PROVE  \E n \in pending_notifications' :
                          SamePayment(n, p) /\ n.amount = p.price
    BY DEF MintsNoted
  <2>1. CASE SamePayment(p, x)
    BY <2>1
  <2>2. CASE ~SamePayment(p, x)
    <3>1. PICK n \in pending_notifications :
             SamePayment(n, p) /\ n.amount = p.price
      BY <2>2 DEF PaymentInv, MintsNoted
    <3>2. ~SamePayment(n, x)
      BY <2>2, <3>1 DEF SamePayment
    <3> QED BY <3>1, <3>2
  <2> QED BY <2>1, <2>2
<1>3. \A y, z : SamePayment(y, z) => (SamePayment(y, x) <=> SamePayment(z, x))
  BY DEF SamePayment
<1>4. NotesOnce' /\ TokensOnce' /\ MintsOnce' /\ TokenOrMint'
  BY <1>3 DEF PaymentInv, NotesOnce, TokensOnce, MintsOnce, TokenOrMint
<1>5. NoteOrRefund'
  <2> SUFFICES ASSUME NEW n \in pending_notifications', NEW t \in transfers',
                      RefundOf(t, n)
               PROVE  FALSE
    BY DEF NoteOrRefund
  <2>1. t.to # "treasury"
    BY MintAssumption DEF RefundOf, MintTypeOK, Notifications
  <2>2. SamePayment(n, x) <=> RefundOf(t, x)
    BY DEF SamePayment, RefundOf
  <2>3. n \in pending_notifications
    BY <2>2
  <2>4. PICK s \in transfers : s.qid = t.qid /\ s.to = t.to
    BY <2>1, <2>2
  <2> QED BY <2>3, <2>4 DEF PaymentInv, NoteOrRefund, RefundOf
<1> QED BY <1>1, <1>2, <1>4, <1>5 DEF PaymentInv

(* A step that is about no payment, but for losing a token.                *)
LEMMA NoteFrame ==
    ASSUME PaymentInv, MintTypeOK',
           pending_notifications' = pending_notifications,
           pending_mints' = pending_mints,
           \A m \in net' : IsToken(m) => m \in net,
           \A t \in transfers' :
               \/ t.to = "treasury"
               \/ \E s \in transfers : s.qid = t.qid /\ s.to = t.to
    PROVE  PaymentInv'
<1>1. TokensNoted' /\ MintsNoted' /\ NotesOnce' /\ TokensOnce' /\ MintsOnce'
      /\ TokenOrMint'
  BY DEF PaymentInv, TokensNoted, MintsNoted, NotesOnce, TokensOnce,
         MintsOnce, TokenOrMint
<1>2. NoteOrRefund'
  <2> SUFFICES ASSUME NEW n \in pending_notifications', NEW t \in transfers',
                      RefundOf(t, n)
               PROVE  FALSE
    BY DEF NoteOrRefund
  <2>1. t.to # "treasury"
    BY MintAssumption DEF RefundOf, MintTypeOK, Notifications
  <2>2. PICK s \in transfers : s.qid = t.qid /\ s.to = t.to
    BY <2>1
  <2> QED BY <2>2 DEF PaymentInv, NoteOrRefund, RefundOf
<1> QED BY <1>1, <1>2 DEF PaymentInv


LEMMA PayNotes ==
    ASSUME MintTypeOK, MintTypeOK', PaymentInv, scene.fresh,
           NEW u \in Users, NEW o \in Users, NEW q \in QueryIds,
           NEW n \in Names, NEW a \in scene.amounts, Pay(u, q, n, o, a)
    PROVE  PaymentInv'
<1>1. PICK x : x = [qid |-> q, payer |-> u, amount |-> a]
  OBVIOUS
<1>2. PICK r : r = [type |-> "notify", qid |-> q, payer |-> u, name |-> n,
                    owner |-> o, amount |-> a]
  OBVIOUS
<1>3. /\ pending_notifications' = pending_notifications \cup {x}
      /\ net' = net \cup {r}
      /\ UNCHANGED <<pending_mints, transfers>>
  BY <1>1, <1>2 DEF Pay, registryVars
<1>4. /\ x.qid = q /\ x.payer = u /\ x.amount = a
      /\ r.amount = a /\ SamePayment(r, x)
  BY <1>1, <1>2 DEF SamePayment
<1>5. \A k \in pending_notifications : ~SamePayment(k, x)
  BY <1>4 DEF Pay, Note, SamePayment
<1>6. \A m \in net : IsToken(m) => ~SamePayment(m, x)
  BY <1>5 DEF PaymentInv, TokensNoted, SamePayment
<1>7. \A p \in pending_mints : ~SamePayment(p, x)
  BY <1>5 DEF PaymentInv, MintsNoted, SamePayment
<1>8. \A t \in transfers : ~RefundOf(t, x)
  BY <1>4 DEF Pay, Refunds, RefundOf
<1>9. SamePayment(x, r)
  BY <1>4 DEF SamePayment
<1>10. \A m \in net' : IsToken(m) /\ SamePayment(m, x) => m = r
  BY <1>3, <1>6
<1>11. \A k \in pending_notifications' : SamePayment(k, x) => k = x
  BY <1>3, <1>5
<1>12. \A m, k \in net' :
          IsToken(m) /\ IsToken(k) /\ SamePayment(m, x) /\ SamePayment(k, x)
             => m = k
  BY <1>10
<1>13. \A m \in net' : IsToken(m) /\ SamePayment(m, x) =>
          \E k \in pending_notifications' :
              SamePayment(k, m) /\ k.amount = m.amount
  BY <1>3, <1>4, <1>9, <1>10
<1>14. \A p \in pending_mints' : p \in pending_mints /\ ~SamePayment(p, x)
  BY <1>3, <1>7
<1>15. \A t \in transfers' : t \in transfers /\ ~RefundOf(t, x)
  BY <1>3, <1>8
<1>16. \A k, l \in pending_notifications' :
          SamePayment(k, x) /\ SamePayment(l, x) => k = l
  BY <1>11
<1>17. \A k : ~SamePayment(k, x) =>
          (k \in pending_notifications' <=> k \in pending_notifications)
  BY <1>3 DEF SamePayment
<1>18. \A m \in net' : IsToken(m) /\ ~SamePayment(m, x) => m \in net
  BY <1>3, <1>4
<1> QED BY <1>12, <1>13, <1>14, <1>15, <1>16, <1>17, <1>18, NoteAt

(* A token is replaced by another of the same payment.                     *)
LEMMA TokenMoves ==
    ASSUME MintTypeOK', PaymentInv, NEW m \in net, IsToken(m),
           NEW r, SamePayment(r, m), r.amount = m.amount, Answer(m, r),
           UNCHANGED <<pending_notifications, pending_mints, transfers>>
    PROVE  PaymentInv'
<1>1. net' = (net \ {m}) \cup {r}
  BY DEF Answer
<1>2. \A k \in net' : IsToken(k) /\ SamePayment(k, m) => k = r
  BY <1>1 DEF PaymentInv, TokensOnce, SamePayment
<1>3. \A k \in net' : IsToken(k) /\ ~SamePayment(k, m) => k \in net
  BY <1>1
<1>4. \A p \in pending_mints : ~SamePayment(p, m)
  BY DEF PaymentInv, TokenOrMint, SamePayment
<1>5. PICK n \in pending_notifications :
         SamePayment(n, m) /\ n.amount = m.amount
  BY DEF PaymentInv, TokensNoted
<1>6. SamePayment(n, r) /\ n.amount = r.amount
  BY <1>5 DEF SamePayment
<1>7. \A k, l \in pending_notifications :
         SamePayment(k, m) /\ SamePayment(l, m) => k = l
  BY DEF PaymentInv, NotesOnce, SamePayment
<1>8. \A k \in pending_notifications, t \in transfers :
         ~(SamePayment(k, m) /\ RefundOf(t, m))
  BY DEF PaymentInv, NoteOrRefund, SamePayment, RefundOf
<1> QED BY <1>2, <1>3, <1>4, <1>5, <1>6, <1>7, <1>8, NoteAt

(* A token becomes a pending mint.                                         *)
LEMMA AcceptNotes ==
    ASSUME MintTypeOK, MintTypeOK', PaymentInv, NEW m \in InFlight("notify"),
           AcceptUsernameMint(m)
    PROVE  PaymentInv'
<1>1. PICK p :
         p = [name |-> m.name, qid |-> m.qid, payer |-> m.payer,
              owner |-> m.owner, price |-> m.amount, nonce |-> mint_seq']
  OBVIOUS
<1>2. PICK r : r = [type |-> "init", name |-> m.name, owner |-> m.owner,
                    nonce |-> mint_seq']
  OBVIOUS
<1>3. /\ m \in net /\ IsToken(m) /\ ~IsToken(r)
      /\ SamePayment(p, m) /\ p.price = m.amount
      /\ pending_mints' = pending_mints \cup {p}
      /\ net' = (net \ {m}) \cup {r}
      /\ UNCHANGED <<pending_notifications, transfers>>
  BY <1>1, <1>2 DEF AcceptUsernameMint, Answer, InFlight, IsToken, Tokens,
                    SamePayment, walletVars
<1>4. \A k \in net' : IsToken(k) => k \in net /\ ~SamePayment(k, m)
  BY <1>3 DEF PaymentInv, TokensOnce, SamePayment
<1>5. \A o \in pending_mints : ~SamePayment(o, m)
  BY <1>3 DEF PaymentInv, TokenOrMint, SamePayment
<1>6. \A o \in pending_mints' : SamePayment(o, m) => o = p
  BY <1>3, <1>5
<1>7. PICK n \in pending_notifications :
         SamePayment(n, m) /\ n.amount = m.amount
  BY <1>3 DEF PaymentInv, TokensNoted
<1>8. SamePayment(n, p) /\ n.amount = p.price
  BY <1>3, <1>7 DEF SamePayment
<1>9. \A k, l \in pending_notifications :
         SamePayment(k, m) /\ SamePayment(l, m) => k = l
  BY DEF PaymentInv, NotesOnce, SamePayment
<1>10. \A k \in pending_notifications, t \in transfers :
         ~(SamePayment(k, m) /\ RefundOf(t, m))
  BY DEF PaymentInv, NoteOrRefund, SamePayment, RefundOf
<1> QED BY <1>3, <1>4, <1>5, <1>6, <1>7, <1>8, <1>9, <1>10, NoteAt

(* A pending mint becomes a token.                                         *)
LEMMA OutcomeNotes ==
    ASSUME MintTypeOK', PaymentInv, NEW p \in pending_mints, NEW m \in net,
           NEW r, SamePayment(r, p), r.amount = p.price, Answer(m, r),
           pending_mints' = pending_mints \ {p},
           UNCHANGED <<pending_notifications, transfers>>
    PROVE  PaymentInv'
<1>1. net' = (net \ {m}) \cup {r}
  BY DEF Answer
<1>2. \A k \in net' : IsToken(k) /\ SamePayment(k, p) => k = r
  BY <1>1 DEF PaymentInv, TokenOrMint, SamePayment
<1>3. \A k \in net' : IsToken(k) /\ ~SamePayment(k, p) => k \in net
  BY <1>1
<1>4. \A o \in pending_mints' : o \in pending_mints /\ ~SamePayment(o, p)
  BY DEF PaymentInv, MintsOnce, SamePayment
<1>5. PICK n \in pending_notifications :
         SamePayment(n, p) /\ n.amount = p.price
  BY DEF PaymentInv, MintsNoted
<1>6. SamePayment(n, r) /\ n.amount = r.amount
  BY <1>5 DEF SamePayment
<1>7. \A k, l \in pending_notifications :
         SamePayment(k, p) /\ SamePayment(l, p) => k = l
  BY DEF PaymentInv, NotesOnce, SamePayment
<1>8. \A k \in pending_notifications, t \in transfers :
         ~(SamePayment(k, p) /\ RefundOf(t, p))
  BY DEF PaymentInv, NoteOrRefund, SamePayment, RefundOf
<1> QED BY <1>2, <1>3, <1>4, <1>5, <1>6, <1>7, <1>8, NoteAt

(* A token ends, and the notification of its payment with it.              *)
LEMMA TokenEnds ==
    ASSUME MintTypeOK, MintTypeOK', PaymentInv, NEW m \in net, IsToken(m),
           NotificationAck(m) \/ RefundPendingNotification(m)
    PROVE  PaymentInv'
<1>1. net' = net \ {m} /\ UNCHANGED pending_mints
  BY DEF NotificationAck, RefundPendingNotification, Consume, registryVars
<1>2. \A n \in pending_notifications :
         SamePayment(n, m) => n.amount = m.amount
  BY DEF PaymentInv, TokensNoted, NotesOnce, SamePayment
<1>3. /\ \A n \in pending_notifications' :
            n \in pending_notifications /\ ~SamePayment(n, m)
      /\ \A n \in pending_notifications :
            ~SamePayment(n, m) => n \in pending_notifications'
  <2>1. CASE NotificationAck(m)
    BY <1>2, <2>1 DEF NotificationAck, SamePayment
  <2>2. CASE RefundPendingNotification(m)
    <3>1. PICK n \in pending_notifications :
             /\ SamePayment(n, m)
             /\ pending_notifications' = pending_notifications \ {n}
      BY <2>2 DEF RefundPendingNotification, Refundable, SamePayment
    <3>2. \A k \in pending_notifications : SamePayment(k, m) => k = n
      BY <3>1 DEF PaymentInv, NotesOnce, SamePayment
    <3> QED BY <3>1, <3>2
  <2> QED BY <2>1, <2>2
<1>4. \A t \in transfers' : RefundOf(t, m) \/ t \in transfers
  <2>1. CASE NotificationAck(m)
    BY <2>1 DEF NotificationAck
  <2>2. CASE RefundPendingNotification(m)
    <3>1. PICK n \in pending_notifications :
             /\ SamePayment(n, m)
             /\ transfers' = transfers \cup
                   {[qid |-> n.qid, to |-> n.payer, amount |-> n.amount,
                     credited |-> FALSE]}
      BY <2>2 DEF RefundPendingNotification, Refundable, SamePayment
    <3> QED BY <3>1 DEF SamePayment, RefundOf
  <2> QED BY <2>1, <2>2
<1>5. \A k \in net' : IsToken(k) => k \in net /\ ~SamePayment(k, m)
  BY <1>1 DEF PaymentInv, TokensOnce, SamePayment
<1>6. \A p \in pending_mints' : p \in pending_mints /\ ~SamePayment(p, m)
  BY <1>1 DEF PaymentInv, TokenOrMint, SamePayment
<1>7. \A n : ~SamePayment(n, m) =>
         (n \in pending_notifications' <=> n \in pending_notifications)
  BY <1>3
<1> QED BY <1>3, <1>4, <1>5, <1>6, <1>7, NoteAt


(* Nothing about the payment of a pruned notification is on its way.       *)
LEMMA PruneNotes ==
    ASSUME MintTypeOK, MintTypeOK', AnswerInv, NoteInv,
           NEW n \in pending_notifications, PruneStaleNotification(n)
    PROVE  PaymentInv'
<1>1. /\ pending_notifications' = pending_notifications \ {n}
      /\ UNCHANGED <<pending_mints, net, transfers>>
  BY DEF PruneStaleNotification, registryVars
<1>2. \A m \in net : IsToken(m) => ~SamePayment(m, n)
  BY DEF PruneStaleNotification, IsToken, Tokens, SamePayment
<1>3. ASSUME NEW p \in pending_mints, SamePayment(p, n) PROVE FALSE
  <2>1. \A m \in net : m.type \in InitTypes => p.nonce # m.nonce
    BY <1>3 DEF PruneStaleNotification, SamePayment, InitTypes
  <2>2. CASE InitializedBy(p)
    BY <2>1, <2>2 DEF NoteInv, AckUnderWay, Acknowledges, InitTypes
  <2>3. CASE ~InitializedBy(p)
    <3>1. PICK m \in net : m.type \in Initial /\ m.name = p.name
      BY <2>3 DEF AnswerInv, Awaited
    <3>2. m.nonce = p.nonce
      BY <3>1 DEF AnswerInv, InitialsBelong, NamesOnce, Belongs
    <3> QED BY <2>1, <3>1, <3>2 DEF Initial, InitTypes
  <2> QED BY <2>2, <2>3
<1>4. \A k : ~SamePayment(k, n) =>
         (k \in pending_notifications' <=> k \in pending_notifications)
  BY <1>1 DEF SamePayment
<1>5. \A k \in pending_notifications' : ~SamePayment(k, n)
  BY <1>1 DEF NoteInv, PaymentInv, NotesOnce, SamePayment
<1>6. PaymentInv
  BY DEF NoteInv
<1> QED BY <1>1, <1>2, <1>3, <1>4, <1>5, <1>6, NoteAt

(* Transfers begin to the treasury, are credited, end.                     *)
LEMMA TransferNotes ==
    ASSUME MintTypeOK, MintTypeOK', PaymentInv,
           \/ FlushStep
           \/ \E k \in scene.flushes, q \in QueryIds : FlushDue(k, q)
           \/ \E t \in transfers :
                 CreditTransfer(t) \/ SourceAck(t) \/ TakeBackTransfer(t)
    PROVE  PaymentInv'
<1>1. UNCHANGED <<pending_notifications, pending_mints>>
  BY DEF FlushStep, FlushTransferRequest, FlushBurn, RefuseFlushRequest,
         BurnNotification, BouncedBurnNotification, FlushDone, FlushFailed,
         FlushDue, CreditTransfer, SourceAck, TakeBackTransfer, registryVars,
         walletVars
<1>2. \A m \in net' : IsToken(m) => m \in net
  <2>1. ASSUME NEW m \in net, m.type \in FlushTypes, NEW t \in FlushTypes,
               Bounce(m, t), NEW k \in net', IsToken(k)
        PROVE  k \in net
    <3>1. [m EXCEPT !.type = t].type = t
      BY <2>1, MessageKinds, NextFlush DEF MintTypeOK, NetOK
    <3>2. net' = (net \ {m}) \cup {[m EXCEPT !.type = t]}
      BY <2>1 DEF Bounce, Answer
    <3> QED BY <2>1, <3>1, <3>2 DEF IsToken, Tokens, FlushTypes
  <2>2. CASE FlushStep
    BY <2>1, <2>2
       DEF FlushStep, FlushTransferRequest, FlushBurn, RefuseFlushRequest,
           BurnNotification, BouncedBurnNotification, FlushDone, FlushFailed,
           InFlight, Consume, FlushTypes
  <2>3. CASE \E k \in scene.flushes, q \in QueryIds : FlushDue(k, q)
    <3>1. PICK r : r.type = "request" /\ net' = net \cup {r}
      BY <2>3 DEF FlushDue
    <3> QED BY <3>1 DEF IsToken, Tokens
  <2>4. ASSUME NEW t \in transfers,
               CreditTransfer(t) \/ SourceAck(t) \/ TakeBackTransfer(t)
        PROVE  \A m \in net' : IsToken(m) => m \in net
    <3>1. \/ net' = net
          \/ net' = net \cup {[type |-> "done", kind |-> "treasury",
                               qid |-> t.qid, amount |-> t.amount]}
          \/ net' = net \cup {[type |-> "failed", kind |-> "treasury",
                               qid |-> t.qid, amount |-> t.amount]}
      BY <2>4 DEF CreditTransfer, SourceAck, TakeBackTransfer
    <3> QED BY <3>1 DEF IsToken, Tokens
  <2> QED BY <2>2, <2>3, <2>4
<1>3. \A t \in transfers' :
         \/ t.to = "treasury"
         \/ \E s \in transfers : s.qid = t.qid /\ s.to = t.to
  <2>1. CASE transfers' = transfers
    BY <2>1
  <2>2. ASSUME NEW m, FlushTransferRequest(m)
        PROVE  \A t \in transfers' : t.to = "treasury" \/ t \in transfers
    BY <2>2 DEF FlushTransferRequest
  <2>3. ASSUME NEW t \in transfers,
               CreditTransfer(t) \/ SourceAck(t) \/ TakeBackTransfer(t),
               NEW s \in transfers'
        PROVE  \E o \in transfers : o.qid = s.qid /\ o.to = s.to
    <3>1. PICK c : c = [t EXCEPT !.credited = TRUE]
      OBVIOUS
    <3>2. c.qid = t.qid /\ c.to = t.to
      BY <3>1, CreditedTransfer DEF MintTypeOK, TransfersOK
    <3>3. s \in transfers \/ s = c
      BY <2>3, <3>1 DEF CreditTransfer, SourceAck, TakeBackTransfer
    <3> QED BY <3>2, <3>3
  <2> QED BY <2>1, <2>2, <2>3
          DEF FlushStep, FlushBurn, RefuseFlushRequest, BurnNotification,
              BouncedBurnNotification, FlushDone, FlushFailed, FlushDue,
              walletVars
<1> QED BY <1>1, <1>2, <1>3, NoteFrame

(* Every step keeps the notifications of the payments.                     *)
LEMMA PaymentsKept ==
    ASSUME MintTypeOK, MintTypeOK', AnswerInv, Careful, NoteInv, [Next]_vars
    PROVE  PaymentInv'
<1>1. PaymentInv
  BY DEF NoteInv
<1>2. ASSUME UNCHANGED <<pending_notifications, pending_mints, transfers>>,
             \A m \in net' : IsToken(m) => m \in net
      PROVE  PaymentInv'
  BY <1>1, <1>2, NoteFrame
<1>3. CASE UNCHANGED vars
  BY <1>2, <1>3 DEF vars, registryVars, walletVars
<1>4. CASE \E u, o \in Users, q \in QueryIds, n \in Names :
              \E a \in scene.amounts : Pay(u, q, n, o, a)
  BY <1>1, <1>4, PayNotes DEF Careful
<1>5. CASE MintStep
  <2>1. ASSUME NEW m \in InFlight("notify"), RefuseUsernameMint(m)
        PROVE  PaymentInv'
    <3>1. m \in Payments /\ m \in net /\ IsToken(m)
      BY MessageKinds DEF InFlight, MintTypeOK, NetOK, PaymentTypes, IsToken,
                          Tokens
    <3>2. PICK r : r = [m EXCEPT !.type = "notifyBounce"]
      OBVIOUS
    <3>3. SamePayment(r, m) /\ r.amount = m.amount /\ Answer(m, r)
      BY <2>1, <3>1, <3>2, BouncedPayment
         DEF RefuseUsernameMint, Bounce, SamePayment
    <3> QED BY <1>1, <2>1, <3>1, <3>3, TokenMoves
            DEF RefuseUsernameMint, registryVars, walletVars
  <2>2. ASSUME NEW m \in InFlight("init"),
               InitializeUsernameItem(m) \/ RefuseInitialize(m)
        PROVE  PaymentInv'
    <3>1. m \in Inits
      BY MessageKinds DEF InFlight, MintTypeOK, NetOK, InitTypes
    <3>2. PICK b : b = [m EXCEPT !.type = "initBounce"]
      OBVIOUS
    <3>3. ~IsToken(b)
      BY <3>1, <3>2, BouncedInit DEF IsToken, Tokens
    <3>4. PICK d : d = DeployedAck(m.name, item'[m.name])
      OBVIOUS
    <3>5. ~IsToken(d)
      BY <3>4 DEF DeployedAck, IsToken, Tokens
    <3>6. net' = (net \ {m}) \cup {b} \/ net' = (net \ {m}) \cup {d}
      BY <2>2, <3>2, <3>4
         DEF InitializeUsernameItem, RefuseInitialize, Bounce, Answer
    <3> QED BY <1>2, <2>2, <3>3, <3>5, <3>6
            DEF InitializeUsernameItem, RefuseInitialize, registryVars,
                walletVars
  <2>3. ASSUME NEW m \in InFlight("deployed"), ItemDeployedAck(m)
        PROVE  PaymentInv'
    <3>1. PICK p \in pending_mints :
             pending_mints' = pending_mints \ {p} /\ Answer(m, NoteAck(p))
      BY <2>3 DEF ItemDeployedAck
    <3>2. PICK r : r = NoteAck(p)
      OBVIOUS
    <3>3. SamePayment(r, p) /\ r.amount = p.price
      BY <3>2 DEF NoteAck, SamePayment
    <3> QED BY <1>1, <2>3, <3>1, <3>2, <3>3, OutcomeNotes
            DEF ItemDeployedAck, walletVars, InFlight
  <2>4. ASSUME NEW m \in InFlight("initBounce"), BouncedInitialize(m)
        PROVE  PaymentInv'
    <3>1. PICK p \in pending_mints :
             pending_mints' = pending_mints \ {p} /\ Answer(m, NoteRefund(p))
      BY <2>4 DEF BouncedInitialize, PendingMint
    <3>2. PICK r : r = NoteRefund(p)
      OBVIOUS
    <3>3. SamePayment(r, p) /\ r.amount = p.price
      BY <3>2 DEF NoteRefund, SamePayment
    <3> QED BY <1>1, <2>4, <3>1, <3>2, <3>3, OutcomeNotes
            DEF BouncedInitialize, walletVars, InFlight
  <2>5. ASSUME NEW m, StaleDeployedAck(m) PROVE PaymentInv'
    BY <1>2, <2>5 DEF StaleDeployedAck, Consume, registryVars, walletVars
  <2> QED BY <1>1, <1>5, <2>1, <2>2, <2>3, <2>4, <2>5, AcceptNotes
          DEF MintStep
<1>6. CASE NoteStep
  <2>1. ASSUME NEW m, RefundFails(m) PROVE PaymentInv'
    BY <1>2, <2>1 DEF RefundFails, Consume, registryVars, walletVars
  <2>2. \A t \in Tokens : \A m \in InFlight(t) : m \in net /\ IsToken(m)
    BY DEF InFlight, IsToken
  <2> QED BY <1>1, <1>6, <2>1, <2>2, TokenEnds DEF NoteStep, Tokens
<1>7. CASE \E n \in Names : ResendDeployedAck(n)
  <2>1. PICK r : r.type = "deployed" /\ net' = net \cup {r}
    BY <1>7 DEF ResendDeployedAck, DeployedAck
  <2> QED BY <1>2, <1>7, <2>1 DEF ResendDeployedAck, registryVars, walletVars,
                                  IsToken, Tokens
<1>8. CASE \E n \in Names, o \in Users : NftTransfer(n, o)
  BY <1>2, <1>8 DEF NftTransfer, registryVars, walletVars
<1>9. CASE \E m \in net : Lose(m)
  BY <1>2, <1>9 DEF Lose, Consume, registryVars, walletVars
<1> QED BY <1>1, <1>3, <1>4, <1>5, <1>6, <1>7, <1>8, <1>9, PruneNotes,
           TransferNotes DEF Next


(* The acknowledgement of a mint stays on its way until the mint ends.     *)
LEMMA AckFrame ==
    ASSUME AckUnderWay,
           \A p \in pending_mints' :
               /\ p \in pending_mints
               /\ InitializedBy(p)' => InitializedBy(p),
           \A m \in net, p \in pending_mints' :
               Acknowledges(m, p) => m \in net'
    PROVE  AckUnderWay'
BY DEF AckUnderWay

LEMMA InitializeAcks ==
    ASSUME MintTypeOK, AnswerInv, AckUnderWay, NEW m \in InFlight("init"),
           InitializeUsernameItem(m)
    PROVE  AckUnderWay'
<1> DEFINE it == [initialized |-> TRUE, owner |-> m.owner,
                  init_owner |-> m.owner, nonce |-> m.nonce]
<1>1. /\ m \in net /\ m.type = "init" /\ m.type \in Initial
      /\ m.name \in Names
  BY MessageKinds DEF MintTypeOK, NetOK, InFlight, InitTypes, Inits, Initial
<1>2. PICK r : r = DeployedAck(m.name, item'[m.name])
  OBVIOUS
<1>3. /\ pending_mints' = pending_mints
      /\ item' = [item EXCEPT ![m.name] = it]
      /\ net' = (net \ {m}) \cup {r}
  BY <1>2 DEF InitializeUsernameItem, Answer, registryVars
<1>4. it.nonce = m.nonce /\ it.init_owner = m.owner
  OBVIOUS
<1> HIDE DEF it
<1>5. /\ item'[m.name] = it
      /\ \A n \in Names : n # m.name => item'[n] = item[n]
  BY <1>1, <1>3 DEF MintTypeOK
<1>6. PICK p \in pending_mints : Belongs(m, p)
  BY <1>1 DEF AnswerInv, InitialsBelong
<1>7. Acknowledges(r, p) /\ r \in net'
  <2>1. /\ r.type = "deployed" /\ r.name = m.name
        /\ r.owner = item'[m.name].init_owner
        /\ r.nonce = item'[m.name].nonce
    BY <1>2 DEF DeployedAck
  <2>2. item'[m.name].init_owner = p.owner /\ item'[m.name].nonce = p.nonce
    BY <1>4, <1>5, <1>6 DEF Belongs
  <2>3. r \in net' /\ m.name = p.name
    BY <1>3, <1>6 DEF Belongs
  <2> QED BY <2>1, <2>2, <2>3 DEF Acknowledges
<1> SUFFICES ASSUME NEW o \in pending_mints, InitializedBy(o)'
             PROVE  \E k \in net' : Acknowledges(k, o)
  BY <1>3 DEF AckUnderWay
<1>8. CASE o = p
  BY <1>7, <1>8
<1>9. CASE o # p
  <2>1. o.name # m.name /\ o.name \in Names
    BY <1>6, <1>9 DEF AnswerInv, NamesOnce, Belongs, MintTypeOK, MintsOK,
                      PendingMints
  <2>2. InitializedBy(o)
    BY <1>5, <2>1 DEF InitializedBy
  <2>3. PICK k \in net : Acknowledges(k, o)
    BY <2>2 DEF AckUnderWay
  <2>4. k \in net'
    BY <1>1, <1>3, <2>3 DEF Acknowledges
  <2> QED BY <2>3, <2>4
<1> QED BY <1>8, <1>9

LEMMA AcceptAcks ==
    ASSUME MintTypeOK, AnswerInv, AckUnderWay, NEW m \in InFlight("notify"),
           AcceptUsernameMint(m)
    PROVE  AckUnderWay'
<1>1. PICK p :
         p = [name |-> m.name, qid |-> m.qid, payer |-> m.payer,
              owner |-> m.owner, price |-> m.amount, nonce |-> mint_seq']
  OBVIOUS
<1>2. /\ mint_seq' = mint_seq + 1 /\ item' = item
      /\ pending_mints' = pending_mints \cup {p}
      /\ m.type = "notify" /\ \A k \in net : k # m => k \in net'
  BY <1>1 DEF AcceptUsernameMint, Answer, InFlight
<1>3. p.name = m.name /\ p.nonce = mint_seq + 1 /\ m.name \in Names
  <2>1. m \in Payments
    BY MessageKinds DEF MintTypeOK, NetOK, InFlight, PaymentTypes
  <2> QED BY <1>1, <1>2, <2>1 DEF Payments
<1>4. ~InitializedBy(p)'
  <2>1. /\ item[m.name].nonce <= mint_seq /\ item[m.name].nonce \in Nat
        /\ mint_seq \in Nat
    BY <1>3 DEF AnswerInv, NoncesBounded, MintTypeOK, Items
  <2> QED BY <1>2, <1>3, <2>1 DEF InitializedBy
<1>5. \A o : InitializedBy(o)' <=> InitializedBy(o)
  BY <1>2 DEF InitializedBy
<1> QED BY <1>2, <1>4, <1>5 DEF AckUnderWay, Acknowledges

LEMMA AcksKept ==
    ASSUME MintTypeOK, MintTypeOK', AnswerInv, Careful, AckUnderWay,
           [Next]_vars
    PROVE  AckUnderWay'
<1>1. ASSUME UNCHANGED <<pending_mints, item>>,
             \A m \in net : m.type = "deployed" => m \in net'
      PROVE  AckUnderWay'
  <2>1. \A o : InitializedBy(o)' <=> InitializedBy(o)
    BY <1>1 DEF InitializedBy
  <2> QED BY <1>1, <2>1, AckFrame DEF Acknowledges
<1>2. CASE UNCHANGED vars
  BY <1>1, <1>2 DEF vars, registryVars
<1>3. CASE \E u, o \in Users, q \in QueryIds, n \in Names :
              \E a \in scene.amounts : Pay(u, q, n, o, a)
  BY <1>1, <1>3 DEF Pay, registryVars
<1>4. CASE MintStep
  <2>1. ASSUME NEW m, \/ m \in InFlight("notify") /\ RefuseUsernameMint(m)
                      \/ m \in InFlight("init") /\ RefuseInitialize(m)
        PROVE  AckUnderWay'
    BY <1>1, <2>1 DEF RefuseUsernameMint, RefuseInitialize, Bounce, Answer,
                      InFlight, registryVars
  <2>2. ASSUME NEW m \in InFlight("deployed"), ItemDeployedAck(m)
        PROVE  AckUnderWay'
    <3>1. PICK p \in pending_mints :
             /\ Finalizes(p, m) /\ item' = item
             /\ pending_mints' = pending_mints \ {p}
             /\ \A k \in net : k # m => k \in net'
      BY <2>2 DEF ItemDeployedAck, Answer
    <3>2. \A o \in pending_mints' : ~Acknowledges(m, o)
      BY <3>1 DEF AnswerInv, NamesOnce, Finalizes, Acknowledges
    <3>3. \A o : InitializedBy(o)' <=> InitializedBy(o)
      BY <3>1 DEF InitializedBy
    <3> QED BY <3>1, <3>2, <3>3, AckFrame
  <2>3. ASSUME NEW m \in InFlight("deployed"), StaleDeployedAck(m)
        PROVE  AckUnderWay'
    <3>1. /\ UNCHANGED <<pending_mints, item>>
          /\ net' = net \ {m}
          /\ \A o \in pending_mints : ~Acknowledges(m, o)
      BY <2>3 DEF StaleDeployedAck, Consume, Finalizes, Acknowledges,
                  registryVars
    <3>2. \A o : InitializedBy(o)' <=> InitializedBy(o)
      BY <3>1 DEF InitializedBy
    <3> QED BY <3>1, <3>2, AckFrame
  <2>4. ASSUME NEW m \in InFlight("initBounce"), BouncedInitialize(m)
        PROVE  AckUnderWay'
    <3>1. /\ item' = item /\ pending_mints' \subseteq pending_mints
          /\ m.type = "initBounce" /\ \A k \in net : k # m => k \in net'
      BY <2>4 DEF BouncedInitialize, PendingMint, Answer, InFlight
    <3>2. \A o : InitializedBy(o)' <=> InitializedBy(o)
      BY <3>1 DEF InitializedBy
    <3> QED BY <3>1, <3>2, AckFrame DEF Acknowledges
  <2> QED BY <1>4, <2>1, <2>2, <2>3, <2>4, InitializeAcks, AcceptAcks
          DEF MintStep
<1>5. CASE NoteStep
  BY <1>1, <1>5
     DEF NoteStep, NotificationAck, RefundPendingNotification, RefundFails,
         InFlight, Consume, registryVars
<1>6. CASE FlushStep
  BY <1>1, <1>6
     DEF FlushStep, FlushTransferRequest, FlushBurn, RefuseFlushRequest,
         BurnNotification, BouncedBurnNotification, FlushDone, FlushFailed,
         Bounce, Answer, InFlight, Consume, registryVars
<1>7. CASE \/ \E n \in Names : ResendDeployedAck(n)
           \/ \E n \in pending_notifications : PruneStaleNotification(n)
           \/ \E k \in scene.flushes, q \in QueryIds : FlushDue(k, q)
  BY <1>1, <1>7 DEF ResendDeployedAck, PruneStaleNotification, FlushDue,
                    registryVars
<1>8. ASSUME NEW n \in Names, NEW o \in Users, NftTransfer(n, o)
      PROVE  AckUnderWay'
  <2>1. UNCHANGED <<pending_mints, net>>
    BY <1>8 DEF NftTransfer, registryVars
  <2>2. \A k \in Names : /\ item'[k].initialized = item[k].initialized
                         /\ item'[k].init_owner = item[k].init_owner
                         /\ item'[k].nonce = item[k].nonce
    BY <1>8 DEF NftTransfer, MintTypeOK, Items
  <2>3. \A p \in pending_mints : p.name \in Names
    BY DEF MintTypeOK, MintsOK, PendingMints
  <2>4. \A p \in pending_mints : InitializedBy(p)' <=> InitializedBy(p)
    BY <2>2, <2>3 DEF InitializedBy
  <2> QED BY <2>1, <2>4, AckFrame
<1>9. CASE \E t \in transfers :
              CreditTransfer(t) \/ SourceAck(t) \/ TakeBackTransfer(t)
  BY <1>1, <1>9 DEF CreditTransfer, SourceAck, TakeBackTransfer, registryVars
<1>10. CASE \E m \in net : Lose(m)
  BY <1>1, <1>10 DEF Lose, Consume, Careful, registryVars
<1> QED BY <1>2, <1>3, <1>4, <1>5, <1>6, <1>7, <1>8, <1>9, <1>10 DEF Next

LEMMA SceneStays == [Next]_vars => scene' = scene
BY DEF Next, MintStep, NoteStep, FlushStep, Pay, AcceptUsernameMint,
       RefuseUsernameMint, InitializeUsernameItem, RefuseInitialize,
       ItemDeployedAck, StaleDeployedAck, BouncedInitialize, NotificationAck,
       RefundPendingNotification, RefundFails, FlushTransferRequest, FlushBurn,
       RefuseFlushRequest, BurnNotification, BouncedBurnNotification,
       FlushDone, FlushFailed, FlushDue, CreditTransfer, SourceAck,
       TakeBackTransfer, ResendDeployedAck, NftTransfer,
       PruneStaleNotification, Lose, vars

LEMMA NotesKept ==
    ASSUME MintTypeOK, MintTypeOK', AnswerInv, NotesFollow, [Next]_vars
    PROVE  NotesFollow'
<1>1. Careful' <=> Careful
  BY SceneStays DEF Careful
<1>2. ASSUME Careful PROVE NoteInv'
  <2>1. NoteInv /\ AckUnderWay
    BY <1>2 DEF NotesFollow, NoteInv
  <2>2. PaymentInv' /\ AckUnderWay'
    BY <1>2, <2>1, PaymentsKept, AcksKept
  <2> QED BY <2>2 DEF NoteInv
<1> QED BY <1>1, <1>2 DEF NotesFollow

(* A refund finds the notification of its payment in the official wallet,  *)
(* its amount in the balance and room for its transfer.                    *)
THEOREM RefundsAreFound == Spec => []RefundsFindPayment
<1>1. MintTypeOK /\ MintTypeOK' /\ AnswerInv /\ NotesFollow /\ [Next]_vars
         => NotesFollow'
  BY NotesKept
<1>2. Init => NotesFollow
  BY NoteInvAtFirst DEF NotesFollow
<1>3. Spec => []NotesFollow
  BY <1>1, <1>2, AnswerInvariant, PTL DEF Spec
<1>4. MintTypeOK /\ Solvent /\ NotesFollow => RefundsFindPayment
  BY NoteInvHolds
<1> QED BY <1>3, <1>4, MintTypes, WalletIsSolvent, PTL

(* What names cost is booked once and finds its way, whatever the network  *)
(* loses or refuses: each flush is tracked, each refund finds its payment, *)
(* and the names minted are paid for exactly once.                         *)
THEOREM PaymentsAreAccounted == Spec => []PaymentsAccounted
<1>1. FlushesTracked /\ RefundsFindPayment /\ MintsPaidOnce
         => PaymentsAccounted
  BY DEF PaymentsAccounted, PaymentsTracked
<1> QED BY <1>1, FlushesAreTracked, RefundsAreFound, MintsArePaidOnce, PTL

=============================================================================
