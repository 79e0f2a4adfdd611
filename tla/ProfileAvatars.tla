--------------------------- MODULE ProfileAvatars ---------------------------
(***************************************************************************)
(* Paying for an avatar: the ProfileRegistry, its official ATH wallet, the *)
(* KeyShards, and the messages between them                                *)
(* (contracts18/contracts/ProfileRegistry.tact, ATHWallet.tact), after     *)
(* SealGenesis.                                                            *)
(*                                                                         *)
(* A payment reaches the official wallet, which keeps a notification of it *)
(* until the registry acknowledges it (the shard wrote the avatar) or has  *)
(* it refunded.  The registry keeps the write pending while the shard is   *)
(* asked; a day later anybody may have it given up and refunded.  Half of  *)
(* what was earned is due to the treasury, half is to be burned; anybody   *)
(* flushes either.                                                         *)
(*                                                                         *)
(* Abstractions.  ATH is counted in halves of the price.  Every handler    *)
(* may run out of TON, so every message that bounces may do so whatever    *)
(* the other guards say; a shard's acknowledgement carries the gas it      *)
(* needs.  Messages arrive in any order, each within MaxTransit units of   *)
(* time; the last one of an exchange (noteAck, done) may be lost.  A       *)
(* transfer or a burn of the official wallet is what ATHLedger promises:   *)
(* it arrives once, or is taken back, after any time.                      *)
(***************************************************************************)
EXTENDS KeyShard, FiniteSets, Functions

CONSTANTS
    QueryIds,     \* query ids of payments
    Funds,        \* avatars each user can pay for
    StaleTTL,     \* PROFILE_AVATAR_WRITE_STALE_TTL
    MaxTransit,   \* bound on the time a message spends in flight
    MaxIds,       \* bound of the model on next_avatar_write_id
    MaxTime       \* bound of the model on the clock

ASSUME AvatarAssumption ==
    /\ {Funds, StaleTTL, MaxTransit, MaxIds, MaxTime} \subseteq Nat
    /\ {WrittenBefore, MaxKeys, MaxOldAvatars} \subseteq Nat
    /\ "none" \notin Avatars

(* The network is far faster than a day: a write and its answer both       *)
(* arrive before it may be given up.                                       *)
ASSUME StaleAssumption == 2 * MaxTransit < StaleTTL

VARIABLES
    next_write_id,           \* next_avatar_write_id, of writes and flushes
    pending_avatar_writes,
    profile_count,
    due,                     \* treasury_due_ath and burn_due_ath
    pending_flushes,         \* pending_treasury_flushes, _burn_flushes
    balance, notifications,  \* the official wallet
    leaving,                 \* its transfers and burns on the way
    purse,                   \* ATH of each user
    net,                     \* messages in flight
    applied, abandoned       \* the writes a shard made; those given up

shardVars == <<shard, old, proofs>>
writeVars == <<next_write_id, pending_avatar_writes, profile_count>>
flushVars == <<due, pending_flushes>>
walletVars == <<balance, notifications, leaving, purse>>
pastVars == <<applied, abandoned>>
vars == <<shardVars, writeVars, flushVars, walletVars, pastVars, net, now>>

Kinds == {"treasury", "burn"}
Price == 2

NoteTypes == {"notify", "notifyBounce", "noteRefund", "noteAck"}
WriteTypes == {"write", "ack", "writeBounce"}
InFlight(type) == {m \in net : m.type = type}
Write(id) == {p \in pending_avatar_writes : p.id = id}
Note(q, u) == {n \in notifications : n.qid = q /\ n.payer = u}
Flush(id) == {f \in pending_flushes : f.id = id}

Consume(m) == net' = net \ {m}
Answer(m, reply) == net' = (net \ {m}) \cup {reply}
Bounce(m, type) == Answer(m, [m EXCEPT !.type = type, !.sent = now])

(* the clock starts where created_at = 0 is long ago                       *)
Init ==
    /\ ShardInit
    /\ next_write_id = 1
    /\ pending_avatar_writes = {}
    /\ profile_count = 0
    /\ due = [k \in Kinds |-> 0]
    /\ pending_flushes = {}
    /\ balance = 0
    /\ notifications = {}
    /\ leaving = {}
    /\ purse = [u \in Users |-> Funds * Price]
    /\ net = {}
    /\ applied = {} /\ abandoned = {}
    /\ now = StaleTTL

-----------------------------------------------------------------------------
(* The payment.                                                            *)

(* the official wallet receives ATHInternalTransferRegistryProfileAvatar   *)
Pay(u, q, a) ==
    /\ purse[u] >= Price
    /\ Note(q, u) = {}
    /\ purse' = [purse EXCEPT ![u] = @ - Price]
    /\ balance' = balance + Price
    /\ notifications' = notifications \cup
           {[qid |-> q, payer |-> u]}
    /\ net' = net \cup {[type |-> "notify", qid |-> q, payer |-> u,
                         avatar |-> a, sent |-> now]}
    /\ UNCHANGED <<shardVars, writeVars, flushVars, leaving, pastVars, now>>

(* receive(AthTransferNotificationRegistryProfileAvatar):                  *)
(* acceptAvatarPayment                                                     *)
AcceptAvatarPayment(m) ==
    /\ next_write_id <= MaxIds
    /\ next_write_id' = next_write_id + 1
    /\ pending_avatar_writes' = pending_avatar_writes \cup
           {[id |-> next_write_id, qid |-> m.qid, owner |-> m.payer,
             created_at |-> now]}
    /\ Answer(m, [type |-> "write", id |-> next_write_id, owner |-> m.payer,
                  avatar |-> m.avatar, sent |-> now])
    /\ UNCHANGED <<shardVars, profile_count, flushVars, walletVars, pastVars,
                   now>>

(* it throws (21111..21125, 21160, 21163): the notification bounces        *)
RefuseAvatarPayment(m) ==
    /\ Bounce(m, "notifyBounce")
    /\ UNCHANGED <<shardVars, writeVars, flushVars, walletVars, pastVars, now>>

-----------------------------------------------------------------------------
(* The write, at the shard.                                                *)

(* KeyShard receive(KeyShardSetAvatarPointer) and its acknowledgement      *)
SetAvatarPointer(m) ==
    /\ AvatarAccepted(shard[m.owner], m.avatar)
    /\ shard' = [shard EXCEPT ![m.owner] = WithAvatar(@, m.avatar)]
    /\ applied' = applied \cup {m.id}
    /\ Answer(m, [type |-> "ack", id |-> m.id, owner |-> m.owner,
                  version |-> shard'[m.owner].version, sent |-> now])
    /\ UNCHANGED <<old, proofs, writeVars, flushVars, walletVars, abandoned,
                   now>>

(* it throws (22202, 22203, 22205)                                         *)
RefuseAvatarPointer(m) ==
    /\ Bounce(m, "writeBounce")
    /\ UNCHANGED <<shardVars, writeVars, flushVars, walletVars, pastVars, now>>

-----------------------------------------------------------------------------
(* The outcome, at the registry.                                           *)

(* receive(KeyShardAvatarPointerAck): book the price, acknowledge          *)
AvatarPointerAck(m) ==
    \E p \in Write(m.id) :
        /\ pending_avatar_writes' = pending_avatar_writes \ {p}
        /\ profile_count' =
               IF m.version = 1 THEN profile_count + 1 ELSE profile_count
        /\ due' = [k \in Kinds |-> due[k] + 1]
        /\ Answer(m, [type |-> "noteAck", qid |-> p.qid, payer |-> p.owner,
                      sent |-> now])
        /\ UNCHANGED <<shardVars, next_write_id, pending_flushes, walletVars,
                       pastVars, now>>

(* it throws (21500, 21510) on a write already given up                    *)
StaleAnswer(m) ==
    /\ Write(m.id) = {}
    /\ Consume(m)
    /\ UNCHANGED <<shardVars, writeVars, flushVars, walletVars, pastVars, now>>

NoteRefund(p) ==
    [type |-> "noteRefund", qid |-> p.qid, payer |-> p.owner, sent |-> now]

(* abandonPendingAvatarWrite                                               *)
Abandon(p) ==
    /\ pending_avatar_writes' = pending_avatar_writes \ {p}
    /\ abandoned' = abandoned \cup {p.id}
    /\ UNCHANGED <<shardVars, next_write_id, profile_count, flushVars,
                   walletVars, applied, now>>

(* bounced(KeyShardSetAvatarPointer): given up at once, with value enough  *)
BouncedAvatarPointer(m) ==
    \E p \in Write(m.id) :
        /\ Abandon(p)
        /\ Answer(m, NoteRefund(p))

(* mutant: the date stays                                                  *)
BouncedAvatarPointerShortWaits(m) ==
    \E p \in Write(m.id) :
        /\ Consume(m)
        /\ UNCHANGED <<shardVars, writeVars, flushVars, walletVars, pastVars,
                       now>>

(* the same with too little: dated long ago, for anybody to give up        *)
BouncedAvatarPointerShort(m) ==
    \E p \in Write(m.id) :
        /\ pending_avatar_writes' =
               (pending_avatar_writes \ {p}) \cup {[p EXCEPT !.created_at = 0]}
        /\ Consume(m)
        /\ UNCHANGED <<shardVars, next_write_id, profile_count, flushVars,
                       walletVars, pastVars, now>>

(* mutant: a write may be given up at any time                             *)
PruneAnyAvatarWrite(p) ==
    /\ Abandon(p)
    /\ net' = net \cup {NoteRefund(p)}

(* receive(PruneStaleAvatarWrite), which anybody may send                  *)
PruneStaleAvatarWrite(p) ==
    /\ now >= p.created_at + StaleTTL
    /\ Abandon(p)
    /\ net' = net \cup {NoteRefund(p)}

-----------------------------------------------------------------------------
(* The outcome, at the official wallet.                                    *)

(* receive(AthTransferNotificationAck); it returns if it finds nothing     *)
NotificationAck(m) ==
    /\ notifications' = notifications \ Note(m.qid, m.payer)
    /\ Consume(m)
    /\ UNCHANGED <<shardVars, writeVars, flushVars, balance, leaving, purse,
                   pastVars, now>>

Refund(q, u) == {t \in leaving : t.kind = "refund" /\ t.id = q /\ t.to = u}

(* refund_pending_notification, for a bounced notification and for         *)
(* receive(AthTransferNotificationRefund)                                  *)
RefundNotification(m) ==
    /\ Note(m.qid, m.payer) # {}
    /\ Refund(m.qid, m.payer) = {}
    /\ balance >= Price
    /\ balance' = balance - Price
    /\ notifications' = notifications \ Note(m.qid, m.payer)
    /\ leaving' = leaving \cup
           {[kind |-> "refund", id |-> m.qid, to |-> m.payer,
             amount |-> Price]}
    /\ Consume(m)
    /\ UNCHANGED <<shardVars, writeVars, flushVars, purse, pastVars, now>>

(* it throws: the registry has no handler for the bounce                   *)
RefundFails(m) ==
    /\ Note(m.qid, m.payer) = {} \/ Refund(m.qid, m.payer) # {}
    /\ Consume(m)
    /\ UNCHANGED <<shardVars, writeVars, flushVars, walletVars, pastVars, now>>

(* ATHWallet receive(PruneStaleNotification), which anybody may send,      *)
(* ATH_REGISTRY_PENDING_TTL (a week) on: no message about it is on its way *)
(* by then                                                                 *)
PruneStaleNotification(n) ==
    /\ \A m \in net :
          m.type \in NoteTypes => m.qid # n.qid \/ m.payer # n.payer
    /\ \A p \in pending_avatar_writes : p.qid = n.qid /\ p.owner = n.payer =>
          /\ \A m \in net : m.type \in WriteTypes => m.id # p.id
          /\ now >= p.created_at + StaleTTL
    /\ notifications' = notifications \ {n}
    /\ UNCHANGED <<shardVars, writeVars, flushVars, balance, leaving, purse,
                   net, pastVars, now>>

-----------------------------------------------------------------------------
(* Flushing what is due.                                                   *)

(* receive(FlushProfileTreasuryAthDue), receive(FlushProfileBurnAthDue)    *)
FlushDue(k) ==
    /\ due[k] > 0
    /\ next_write_id <= MaxIds
    /\ next_write_id' = next_write_id + 1
    /\ due' = [due EXCEPT ![k] = 0]
    /\ pending_flushes' = pending_flushes \cup
           {[id |-> next_write_id, kind |-> k, amount |-> due[k]]}
    /\ net' = net \cup {[type |-> "request", kind |-> k, id |-> next_write_id,
                         amount |-> due[k], sent |-> now]}
    /\ UNCHANGED <<shardVars, pending_avatar_writes, profile_count, walletVars,
                   pastVars, now>>

(* ATHWallet receive(ATHTransferRequest) and receive(ATHBurn)              *)
FlushRequest(m) ==
    /\ balance >= m.amount
    /\ balance' = balance - m.amount
    /\ leaving' = leaving \cup
           {[kind |-> m.kind, id |-> m.id, to |-> m.kind, amount |-> m.amount]}
    /\ Consume(m)
    /\ UNCHANGED <<shardVars, writeVars, flushVars, notifications, purse,
                   pastVars, now>>

(* it throws: bounced(ATHTransferRequest), bounced(ATHBurn)                *)
RefuseFlush(m) ==
    /\ Bounce(m, "failed")
    /\ UNCHANGED <<shardVars, writeVars, flushVars, walletVars, pastVars, now>>

(* what leaves the official wallet arrives                                 *)
Arrive(t) ==
    /\ leaving' = leaving \ {t}
    /\ IF t.kind = "refund"
       THEN /\ purse' = [purse EXCEPT ![t.to] = @ + t.amount]
            /\ UNCHANGED net
       ELSE /\ net' = net \cup {[type |-> "done", kind |-> t.kind, id |-> t.id,
                                 amount |-> t.amount, sent |-> now]}
            /\ UNCHANGED purse
    /\ UNCHANGED <<shardVars, writeVars, flushVars, balance, notifications,
                   pastVars, now>>

(* it bounces, or is recovered as stuck: the registry is told of its own   *)
TakeBack(t) ==
    /\ leaving' = leaving \ {t}
    /\ balance' = balance + t.amount
    /\ IF t.kind = "refund"
       THEN UNCHANGED net
       ELSE net' = net \cup {[type |-> "failed", kind |-> t.kind, id |-> t.id,
                              amount |-> t.amount, sent |-> now]}
    /\ UNCHANGED <<shardVars, writeVars, flushVars, notifications, purse,
                   pastVars, now>>

(* receive(ATHTransferAck), receive(ATHTransferExcess) and                 *)
(* receive(ATHBurnFinalized)                                               *)
FlushDone(m) ==
    /\ pending_flushes' = pending_flushes \ Flush(m.id)
    /\ Consume(m)
    /\ UNCHANGED <<shardVars, writeVars, due, walletVars, pastVars, now>>

(* receive(ATHTransferFailed), receive(ATHBurnFailed) and the two bounces  *)
FlushFailed(m) ==
    \E f \in Flush(m.id) :
        /\ due' = [due EXCEPT ![m.kind] = @ + f.amount]
        /\ pending_flushes' = pending_flushes \ {f}
        /\ Consume(m)
        /\ UNCHANGED <<shardVars, writeVars, walletVars, pastVars, now>>

(* it throws (21230, 21240) on a flush pruned meanwhile                    *)
StaleFailure(m) ==
    /\ Flush(m.id) = {}
    /\ Consume(m)
    /\ UNCHANGED <<shardVars, writeVars, flushVars, walletVars, pastVars, now>>

(* mutant: what is given up is due again                                   *)
PruneStaleDueFlushRestores(f) ==
    /\ \A m \in InFlight("request") \cup InFlight("failed")
                  \cup InFlight("done") : m.id # f.id
    /\ due' = [due EXCEPT ![f.kind] = @ + f.amount]
    /\ pending_flushes' = pending_flushes \ {f}
    /\ UNCHANGED <<shardVars, writeVars, walletVars, net, pastVars, now>>

(* receive(PruneStaleDueFlush), PROFILE_DUE_FLUSH_STALE_TTL (45 days) on:  *)
(* by then no message about it is on its way, but a transfer nobody        *)
(* recovered may still be taken back                                       *)
PruneStaleDueFlush(f) ==
    /\ \A m \in InFlight("request") \cup InFlight("failed")
                  \cup InFlight("done") : m.id # f.id
    /\ pending_flushes' = pending_flushes \ {f}
    /\ UNCHANGED <<shardVars, writeVars, due, walletVars, net, pastVars, now>>

-----------------------------------------------------------------------------
(* the last message of an exchange fails where it arrives, or is not sent  *)
Lose(m) ==
    /\ m.type \in {"noteAck", "done"}
    /\ Consume(m)
    /\ UNCHANGED <<shardVars, writeVars, flushVars, walletVars, pastVars, now>>

Tick ==
    /\ now < MaxTime
    /\ \A m \in net : now < m.sent + MaxTransit
    /\ now' = now + 1
    /\ UNCHANGED <<shardVars, writeVars, flushVars, walletVars, pastVars, net>>

WriteStep ==
    \/ \E m \in InFlight("notify") :
          AcceptAvatarPayment(m) \/ RefuseAvatarPayment(m)
    \/ \E m \in InFlight("write") :
          SetAvatarPointer(m) \/ RefuseAvatarPointer(m)
    \/ \E m \in InFlight("ack") : AvatarPointerAck(m) \/ StaleAnswer(m)
    \/ \E m \in InFlight("writeBounce") :
          \/ BouncedAvatarPointer(m)
          \/ BouncedAvatarPointerShort(m)
          \/ StaleAnswer(m)
    \/ \E p \in pending_avatar_writes : PruneStaleAvatarWrite(p)

NoteStep ==
    \/ \E m \in InFlight("noteAck") : NotificationAck(m)
    \/ \E m \in InFlight("notifyBounce") \cup InFlight("noteRefund") :
          RefundNotification(m) \/ RefundFails(m)
    \/ \E n \in notifications : PruneStaleNotification(n)

FlushStep ==
    \/ \E k \in Kinds : FlushDue(k)
    \/ \E m \in InFlight("request") : FlushRequest(m) \/ RefuseFlush(m)
    \/ \E m \in InFlight("done") : FlushDone(m)
    \/ \E m \in InFlight("failed") : FlushFailed(m) \/ StaleFailure(m)
    \/ \E f \in pending_flushes : PruneStaleDueFlush(f)
    \/ \E t \in leaving : Arrive(t) \/ TakeBack(t)

Next ==
    \/ \E u \in Users, q \in QueryIds, a \in Avatars : Pay(u, q, a)
    \/ WriteStep
    \/ NoteStep
    \/ FlushStep
    \/ \E m \in net : Lose(m)
    \/ /\ Identity
       /\ UNCHANGED <<writeVars, flushVars, walletVars, pastVars, net>>
    \/ Tick

Spec == Init /\ [][Next]_vars

-----------------------------------------------------------------------------
(* An avatar that a shard shows was paid for: no write is given up, and    *)
(* its payment sent back, before or after the shard makes it, whoever      *)
(* prunes it and however late its acknowledgement is.                      *)
AppliedIsPaid == applied \cap abandoned = {}

(* What the registry owes is in its wallet: the amounts due and those      *)
(* whose flush has not left, the payments of pending writes, and those to  *)
(* be decided or refunded.                                                 *)
AmountsOf(S) == SumFunction([m \in S |-> m.amount])
Undecided == InFlight("notify") \cup InFlight("notifyBounce")
                 \cup InFlight("noteRefund")
Unflushed ==
    InFlight("request") \cup {m \in InFlight("failed") : Flush(m.id) # {}}
PaymentsCovered ==
    balance >= due.treasury + due.burn + AmountsOf(Unflushed)
                   + Price * Cardinality(pending_avatar_writes)
                   + Price * Cardinality(Undecided)

(* An avatar that a shard applied is paid for, and the wallet covers what  *)
(* the registry owes of the payments it took.                              *)
AvatarsPaid == AppliedIsPaid /\ PaymentsCovered

(* A shard never shows an older avatar or older keys than before, whatever *)
(* proofs of the old generation arrive late and in what order: each change *)
(* of the avatar has a higher version and no earlier date, and keys        *)
(* registered here are replaced by their owner only.                       *)
NeverOlder ==
    [][\A u \in Users :
          LET s == shard[u]  t == shard'[u]
          IN  /\ <<s.avatar, s.version>> # <<t.avatar, t.version>> =>
                    t.version > s.version /\ t.updated_at >= s.updated_at
              /\ (s.registered /\ s.keys # t.keys) =>
                    t.keys = s.keys + 1 /\ t.created_at = now]_vars

(* Every write is decided in the end, if messages are delivered and        *)
(* somebody gives up those that bounced with too little value.             *)
WriteDelivered(id) ==
    \E m \in net :
        /\ m.type \in {"write", "ack", "writeBounce"} /\ m.id = id
        /\ \/ m.type = "write" /\ SetAvatarPointer(m)
           \/ m.type = "write" /\ RefuseAvatarPointer(m)
           \/ m.type = "ack" /\ AvatarPointerAck(m)
           \/ m.type = "writeBounce" /\ BouncedAvatarPointer(m)
           \/ m.type = "writeBounce" /\ BouncedAvatarPointerShort(m)

WritesDecided == \A id \in 1..MaxIds : []<>(Write(id) = {})

=============================================================================
