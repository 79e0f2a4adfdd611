---------------------------- MODULE ProfileProofs ----------------------------
(***************************************************************************)
(* Proofs about ProfileAvatars, for any number of users, avatars and       *)
(* payments: an avatar that a shard shows was paid for, what the registry  *)
(* owes is in its wallet, and no shard ever shows an older avatar or older *)
(* keys than before.                                                       *)
(*                                                                         *)
(* The first rests on time.  A write has one message on its way at most,   *)
(* no older than the network allows, so it is not old enough to be given   *)
(* up by anybody while the shard may still make it.                        *)
(***************************************************************************)
EXTENDS ProfileAvatars, Sums, TLAPS

(* Messages, by what they carry.                                           *)
PaymentTypes == {"notify", "notifyBounce"}
VerdictTypes == {"noteRefund", "noteAck"}
AskingTypes == {"write", "writeBounce"}
FlushTypes == {"request", "failed", "done"}

Payments == [type : PaymentTypes, qid : QueryIds, payer : Users,
             avatar : Avatars, sent : Nat]
Decisions == [type : VerdictTypes, qid : QueryIds, payer : Users, sent : Nat]
Askings == [type : AskingTypes, id : Nat, owner : Users, avatar : Avatars,
            sent : Nat]
Acks == [type : {"ack"}, id : Nat, owner : Users, version : Nat, sent : Nat]
Flushes == [type : FlushTypes, kind : Kinds, id : Nat, amount : Nat,
            sent : Nat]
Messages == Payments \cup Decisions \cup Askings \cup Acks \cup Flushes

Shards == [registered : BOOLEAN, keys : Nat, created_at : Nat,
           version : Nat, avatar : Avatars \cup {NoAvatar}, updated_at : Nat]
PendingWrites == [id : Nat, qid : QueryIds, owner : Users, created_at : Nat]
PendingFlushes == [id : Nat, kind : Kinds, amount : Nat]
Leavings ==
    [kind : {"refund"}, id : QueryIds, to : Users, amount : Nat]
    \cup [kind : Kinds, id : Nat, to : Kinds, amount : Nat]

NetOK(N) == IsFiniteSet(N) /\ N \subseteq Messages
PendingOK(P) == IsFiniteSet(P) /\ P \subseteq PendingWrites

ShardsTyped ==
    /\ now \in Nat
    /\ shard \in [Users -> Shards]
    /\ old \in [Users -> Shards]
    /\ proofs \subseteq [owner : Users, of : Shards]

RegistryTyped ==
    /\ next_write_id \in Nat
    /\ PendingOK(pending_avatar_writes)
    /\ profile_count \in Nat
    /\ due \in [Kinds -> Nat]
    /\ pending_flushes \subseteq PendingFlushes
    /\ applied \subseteq Nat /\ abandoned \subseteq Nat

WalletTyped ==
    /\ balance \in Nat
    /\ notifications \subseteq [qid : QueryIds, payer : Users]
    /\ leaving \subseteq Leavings
    /\ purse \in [Users -> Nat]
    /\ NetOK(net)

ProfileTypeOK == ShardsTyped /\ RegistryTyped /\ WalletTyped

-----------------------------------------------------------------------------
(* Nothing is dated in the future: no avatar, old or new, and no message;  *)
(* and no message is older than the network allows.                        *)
ShardsDated ==
    /\ \A u \in Users : shard[u].updated_at <= now /\ old[u].updated_at <= now
    /\ \A q \in proofs : q.of.updated_at <= now

MessagesDated == \A m \in net : m.sent <= now /\ now <= m.sent + MaxTransit

Dated == ShardsDated /\ MessagesDated

(* Ids are given out once.                                                 *)
IdsUsed ==
    /\ \A p \in pending_avatar_writes : p.id < next_write_id
    /\ \A m \in net :
          m.type \in WriteTypes \cup FlushTypes => m.id < next_write_id
    /\ \A f \in pending_flushes : f.id < next_write_id
    /\ \A t \in leaving : t.kind # "refund" => t.id < next_write_id
    /\ \A id \in applied \cup abandoned : id < next_write_id

(* A write is pending once, and not given up; it has one message on its    *)
(* way at most, which left within a transit of the day it is dated; and    *)
(* what the shard made is pending only until that message, the             *)
(* acknowledgement, arrives.                                               *)
OnePending ==
    \A p, r \in pending_avatar_writes : p.id = r.id => p = r

NotGivenUp ==
    \A p \in pending_avatar_writes : p.id \notin abandoned

OneMessage ==
    \A m, n \in net :
        m.type \in WriteTypes /\ n.type \in WriteTypes /\ m.id = n.id => m = n

WritesAnswered ==
    \A m \in net : m.type \in WriteTypes =>
        \E p \in pending_avatar_writes :
            /\ p.id = m.id
            /\ m.type = "write" => m.sent <= p.created_at
            /\ m.sent <= p.created_at + MaxTransit

AppliedAnswered ==
    \A p \in pending_avatar_writes : p.id \in applied =>
        \E m \in net : m.type = "ack" /\ m.id = p.id

WritesTracked ==
    /\ OnePending /\ NotGivenUp /\ OneMessage
    /\ WritesAnswered /\ AppliedAnswered
    /\ AppliedIsPaid

(* What is on its way about a flush has the amount that is pending.        *)
FlushesMatch ==
    \A f \in pending_flushes :
        /\ \A m \in net :
              m.type \in FlushTypes /\ m.id = f.id => m.amount = f.amount
        /\ \A t \in leaving :
              t.kind # "refund" /\ t.id = f.id => t.amount = f.amount

ProfileInv ==
    /\ ProfileTypeOK /\ Dated /\ IdsUsed
    /\ WritesTracked
    /\ FlushesMatch /\ PaymentsCovered

-----------------------------------------------------------------------------
(* Messages and records.                                                   *)

LEMMA MessageKinds ==
    ASSUME NEW m \in Messages
    PROVE  /\ m.sent \in Nat
           /\ m.type \in PaymentTypes => m \in Payments
           /\ m.type \in VerdictTypes => m \in Decisions
           /\ m.type \in NoteTypes => m.qid \in QueryIds /\ m.payer \in Users
           /\ m.type \in AskingTypes => m \in Askings
           /\ m.type = "ack" => m \in Acks
           /\ m.type \in WriteTypes => m.id \in Nat
           /\ m.type \in FlushTypes => m \in Flushes
           /\ m.type \in NoteTypes \cup WriteTypes \cup FlushTypes
BY DEF Messages, Payments, Decisions, Askings, Acks, Flushes, PaymentTypes,
       VerdictTypes, NoteTypes, AskingTypes, WriteTypes, FlushTypes

Bounced(m, type) == [m EXCEPT !.type = type, !.sent = now]

LEMMA BouncedPayment ==
    ASSUME NEW m \in Payments, now \in Nat
    PROVE  LET b == Bounced(m, "notifyBounce")
           IN  /\ b \in Messages /\ b.type = "notifyBounce"
               /\ b.sent = now
BY DEF Payments, PaymentTypes, Messages, Bounced

LEMMA BouncedWrite ==
    ASSUME NEW m \in Askings, now \in Nat
    PROVE  LET b == Bounced(m, "writeBounce")
           IN  /\ b \in Messages /\ b.type = "writeBounce"
               /\ b.sent = now /\ b.id = m.id
BY DEF Askings, AskingTypes, Messages, Bounced

LEMMA BouncedFlush ==
    ASSUME NEW m \in Flushes, now \in Nat
    PROVE  LET b == Bounced(m, "failed")
           IN  /\ b \in Messages /\ b.type = "failed"
               /\ b.sent = now /\ b.id = m.id /\ b.amount = m.amount
BY DEF Flushes, FlushTypes, Messages, Bounced

LEMMA Received ==
    ASSUME NetOK(net), NEW type, NEW m \in InFlight(type)
    PROVE  m \in net /\ m \in Messages /\ m.type = type
BY DEF NetOK, InFlight

LEMMA NetLoses == ASSUME NEW N, NetOK(N), NEW m PROVE NetOK(N \ {m})
<1>1. IsFiniteSet(N \ {m})
  BY FS_RemoveElement DEF NetOK
<1> QED BY <1>1 DEF NetOK

LEMMA NetGains ==
    ASSUME NEW N, NetOK(N), NEW r \in Messages PROVE NetOK(N \cup {r})
<1>1. IsFiniteSet(N \cup {r})
  BY FS_AddElement DEF NetOK
<1> QED BY <1>1 DEF NetOK

LEMMA NetAnswers ==
    ASSUME NEW N, NetOK(N), NEW m, NEW r \in Messages
    PROVE  NetOK((N \ {m}) \cup {r})
BY NetLoses, NetGains

LEMMA PendingKept ==
    ASSUME NEW P, PendingOK(P)
    PROVE  /\ \A p : PendingOK(P \ {p})
           /\ \A p \in PendingWrites : PendingOK(P \cup {p})
           /\ \A p, r : r \in PendingWrites => PendingOK((P \ {p}) \cup {r})
<1>1. \A p : IsFiniteSet(P \ {p})
  BY FS_RemoveElement DEF PendingOK
<1>2. \A r : IsFiniteSet(P \cup {r})
  BY FS_AddElement DEF PendingOK
<1>3. \A p, r : IsFiniteSet((P \ {p}) \cup {r})
  BY <1>1, FS_AddElement
<1> QED BY <1>1, <1>2, <1>3 DEF PendingOK

-----------------------------------------------------------------------------
(* The shards.                                                             *)

LEMMA KeysWritten ==
    ASSUME NEW s \in Shards, NEW k \in Nat, NEW t \in Nat
    PROVE  LET w == WithKeys(s, k, t)
           IN  /\ w \in Shards /\ w.registered
               /\ w.keys = k /\ w.created_at = t
               /\ w.version = s.version /\ w.avatar = s.avatar
               /\ w.updated_at = s.updated_at
BY DEF Shards, WithKeys

LEMMA AvatarWritten ==
    ASSUME NEW s \in Shards, NEW a \in Avatars, now \in Nat
    PROVE  LET w == WithAvatar(s, a)
           IN  /\ w \in Shards
               /\ w.registered = s.registered /\ w.keys = s.keys
               /\ w.created_at = s.created_at
               /\ w.version = s.version + 1 /\ w.avatar = a
               /\ w.updated_at = now
<1> DEFINE v == s.version + 1
<1>1. v \in Nat /\ a \in Avatars \cup {NoAvatar}
  BY DEF Shards
<1> HIDE DEF v
<1>2. WithAvatar(s, a) =
         [s EXCEPT !.version = v, !.avatar = a, !.updated_at = now]
  BY DEF WithAvatar, v, Shards
<1>3. /\ WithAvatar(s, a) \in Shards
      /\ WithAvatar(s, a).registered = s.registered
      /\ WithAvatar(s, a).keys = s.keys
      /\ WithAvatar(s, a).created_at = s.created_at
      /\ WithAvatar(s, a).version = v
      /\ WithAvatar(s, a).avatar = a
      /\ WithAvatar(s, a).updated_at = now
  BY <1>1, <1>2 DEF Shards
<1> QED BY <1>3 DEF v

LEMMA RotationWritten ==
    ASSUME NEW s \in Shards, now \in Nat
    PROVE  LET w == Rotated(s)
           IN  /\ w \in Shards
               /\ w.version = s.version /\ w.avatar = s.avatar
               /\ w.updated_at = s.updated_at
               /\ w.created_at = now
               /\ s.registered => w.keys = s.keys + 1
<1> DEFINE k == IF s.registered THEN s.keys + 1 ELSE 0
<1>1. k \in Nat /\ (s.registered => k = s.keys + 1)
  BY DEF Shards
<1>2. Rotated(s) = WithKeys(s, k, now)
  BY DEF Rotated
<1> HIDE DEF k
<1>3. LET w == WithKeys(s, k, now)
      IN  /\ w \in Shards /\ w.registered
          /\ w.keys = k /\ w.created_at = now
          /\ w.version = s.version /\ w.avatar = s.avatar
          /\ w.updated_at = s.updated_at
  BY <1>1, KeysWritten
<1> QED BY <1>1, <1>2, <1>3

(* What is adopted keeps registered keys, and an avatar that changes has a *)
(* higher version and a later date.                                        *)
LEMMA AdoptionWritten ==
    ASSUME NEW s \in Shards, NEW p \in Shards
    PROVE  LET w == Adopted(s, p)
           IN  /\ w \in Shards
               /\ s.registered => w.keys = s.keys
               /\ \/ /\ w.version = s.version /\ w.avatar = s.avatar
                     /\ w.updated_at = s.updated_at
                  \/ /\ w.version > s.version
                     /\ w.updated_at = p.updated_at
                     /\ w.updated_at > s.updated_at
<1> DEFINE t == IF AdoptsKeys(s, p) THEN WithKeys(s, p.keys, p.created_at)
                                    ELSE s
           w == Adopted(s, p)
<1>1. /\ t \in Shards
      /\ s.registered => t.keys = s.keys
      /\ t.version = s.version /\ t.avatar = s.avatar
      /\ t.updated_at = s.updated_at
  <2>1. CASE AdoptsKeys(s, p)
    <3>1. p.keys \in Nat /\ p.created_at \in Nat
      BY DEF Shards
    <3>2. t = WithKeys(s, p.keys, p.created_at) /\ ~s.registered
      BY <2>1 DEF AdoptsKeys
    <3> DEFINE w1 == WithKeys(s, p.keys, p.created_at)
    <3>3. /\ w1 \in Shards /\ w1.version = s.version
          /\ w1.avatar = s.avatar /\ w1.updated_at = s.updated_at
      BY <3>1, KeysWritten
    <3> QED BY <3>2, <3>3
  <2>2. CASE ~AdoptsKeys(s, p)
    BY <2>2
  <2> QED BY <2>1, <2>2
<1>2. w = IF AdoptsAvatar(s, p)
          THEN [t EXCEPT !.version = AdoptedVersion(s, p),
                         !.avatar = p.avatar, !.updated_at = p.updated_at]
          ELSE t
  BY DEF Adopted
<1>3. AdoptedVersion(s, p) \in Nat /\ AdoptedVersion(s, p) > s.version
  BY DEF AdoptedVersion, Shards
<1>4. p.avatar \in Avatars \cup {NoAvatar} /\ p.updated_at \in Nat
  BY DEF Shards
<1>5. AdoptsAvatar(s, p) => p.updated_at > s.updated_at
  BY DEF AdoptsAvatar
<1> HIDE DEF t, w
<1>6. CASE AdoptsAvatar(s, p)
  <2> DEFINE v == AdoptedVersion(s, p)
  <2> HIDE DEF v
  <2>1. w = [t EXCEPT !.version = v, !.avatar = p.avatar,
                      !.updated_at = p.updated_at]
    BY <1>2, <1>6 DEF v
  <2>2. /\ w \in Shards /\ w.keys = t.keys /\ w.version = v
        /\ w.updated_at = p.updated_at
    BY <2>1, <1>1, <1>3, <1>4 DEF Shards, v
  <2> QED BY <2>2, <1>1, <1>3, <1>5, <1>6 DEF w, v
<1>7. CASE ~AdoptsAvatar(s, p)
  BY <1>1, <1>2, <1>7 DEF w
<1> QED BY <1>6, <1>7

-----------------------------------------------------------------------------
(* Every handler keeps the types.                                          *)

LEMMA ProfileInitTypes == Init => ProfileTypeOK
<1> SUFFICES ASSUME Init PROVE ProfileTypeOK
  OBVIOUS
<1>1. IsFiniteSet({})
  BY FS_EmptySet
<1>2. Unregistered \in Shards /\ Registered \in Shards
  BY DEF Unregistered, Registered, Shards
<1>3. StaleTTL \in Nat /\ Funds * Price \in Nat
  BY AvatarAssumption DEF Price
<1> QED BY <1>1, <1>2, <1>3
        DEF Init, ShardInit, ProfileTypeOK, ShardsTyped, RegistryTyped,
            WalletTyped, PendingOK, NetOK, Kinds

LEMMA NetTyped ==
    ASSUME ProfileTypeOK
    PROVE  /\ now \in Nat
           /\ NetOK(net) /\ IsFiniteSet(net)
           /\ \A m \in net : m \in Messages
           /\ \A m : Consume(m) => NetOK(net')
           /\ \A m : \A r \in Messages : Answer(m, r) => NetOK(net')
           /\ \A r \in Messages : net' = net \cup {r} => NetOK(net')
<1>1. NetOK(net) /\ now \in Nat
  BY DEF ProfileTypeOK, WalletTyped, ShardsTyped
<1>2. \A m : NetOK(net \ {m})
  BY <1>1, NetLoses
<1>3. \A m : \A r \in Messages : NetOK((net \ {m}) \cup {r})
  BY <1>1, NetAnswers
<1>4. \A r \in Messages : NetOK(net \cup {r})
  BY <1>1, NetGains
<1>5. \A m : Consume(m) => NetOK(net')
  BY <1>2 DEF Consume
<1>6. \A m : \A r \in Messages : Answer(m, r) => NetOK(net')
  BY <1>3 DEF Answer
<1>7. \A r \in Messages : net' = net \cup {r} => NetOK(net')
  BY <1>4
<1>8. IsFiniteSet(net) /\ \A m \in net : m \in Messages
  BY <1>1 DEF NetOK
<1> QED BY <1>1, <1>5, <1>6, <1>7, <1>8

(* The handlers that only change what is on its way.                       *)
LEMMA NetOnlyTypes ==
    ASSUME ProfileTypeOK, NetOK(net'),
           UNCHANGED <<shardVars, writeVars, flushVars, walletVars, pastVars,
                       now>>
    PROVE  ProfileTypeOK'
BY DEF ProfileTypeOK, ShardsTyped, RegistryTyped, WalletTyped, shardVars,
       writeVars, flushVars, walletVars, pastVars

LEMMA PayTypes ==
    ASSUME ProfileTypeOK, NEW u \in Users, NEW q \in QueryIds,
           NEW a \in Avatars, Pay(u, q, a)
    PROVE  ProfileTypeOK'
<1> DEFINE m == [type |-> "notify", qid |-> q, payer |-> u, avatar |-> a,
                 sent |-> now]
<1>1. m \in Messages
  BY NetTyped DEF Messages, Payments, PaymentTypes
<1>2. net' = net \cup {m}
  BY DEF Pay
<1> HIDE DEF m
<1>3. NetOK(net')
  BY <1>1, <1>2, NetTyped
<1>4. purse' \in [Users -> Nat] /\ balance' \in Nat
  BY DEF Pay, ProfileTypeOK, WalletTyped, Price
<1> QED BY <1>3, <1>4
        DEF Pay, ProfileTypeOK, ShardsTyped, RegistryTyped, WalletTyped,
            shardVars, writeVars, flushVars, pastVars

LEMMA AcceptTypes ==
    ASSUME ProfileTypeOK, NEW m \in InFlight("notify"), AcceptAvatarPayment(m)
    PROVE  ProfileTypeOK'
<1> DEFINE p == [id |-> next_write_id, qid |-> m.qid, owner |-> m.payer,
                 created_at |-> now]
           r == [type |-> "write", id |-> next_write_id, owner |-> m.payer,
                 avatar |-> m.avatar, sent |-> now]
<1>1. m \in Payments
  BY NetTyped, Received, MessageKinds DEF PaymentTypes
<1>2. next_write_id \in Nat /\ next_write_id' \in Nat
  BY DEF AcceptAvatarPayment, ProfileTypeOK, RegistryTyped
<1>3. p \in PendingWrites /\ r \in Messages
  BY <1>1, <1>2, NetTyped
     DEF PendingWrites, Payments, Messages, Askings, AskingTypes
<1>4. /\ pending_avatar_writes' = pending_avatar_writes \cup {p}
      /\ Answer(m, r)
  BY DEF AcceptAvatarPayment
<1> HIDE DEF p, r
<1>5. NetOK(net')
  BY <1>3, <1>4, NetTyped
<1>6. PendingOK(pending_avatar_writes')
  BY <1>3, <1>4, PendingKept DEF ProfileTypeOK, RegistryTyped
<1> QED BY <1>2, <1>5, <1>6
        DEF AcceptAvatarPayment, ProfileTypeOK, ShardsTyped, RegistryTyped,
            WalletTyped, shardVars, flushVars, walletVars, pastVars

LEMMA RefusePaymentTypes ==
    ASSUME ProfileTypeOK, NEW m \in InFlight("notify"), RefuseAvatarPayment(m)
    PROVE  ProfileTypeOK'
<1>1. m \in Payments
  BY NetTyped, Received, MessageKinds DEF PaymentTypes
<1>2. Bounced(m, "notifyBounce") \in Messages
  BY <1>1, BouncedPayment, NetTyped
<1>3. NetOK(net')
  BY <1>2, NetTyped DEF RefuseAvatarPayment, Bounce, Bounced
<1> QED BY <1>3, NetOnlyTypes DEF RefuseAvatarPayment

(* The message that asks a shard for a write, and the acknowledgement.     *)
AckOf(m) == [type |-> "ack", id |-> m.id, owner |-> m.owner,
             version |-> shard'[m.owner].version, sent |-> now]

LEMMA SetAvatarTypes ==
    ASSUME ProfileTypeOK, NEW m \in InFlight("write"), SetAvatarPointer(m)
    PROVE  /\ ProfileTypeOK'
           /\ m \in Askings /\ m.owner \in Users /\ m.avatar \in Avatars
           /\ shard' = [shard EXCEPT
                 ![m.owner] = WithAvatar(shard[m.owner], m.avatar)]
           /\ AckOf(m) \in Messages /\ Answer(m, AckOf(m))
<1>1. m \in Askings
  BY NetTyped, Received, MessageKinds DEF AskingTypes
<1>2. m.owner \in Users /\ m.avatar \in Avatars /\ m.id \in Nat
  BY <1>1 DEF Askings
<1>3. shard' =
         [shard EXCEPT ![m.owner] = WithAvatar(shard[m.owner], m.avatar)]
  BY DEF SetAvatarPointer
<1>4. WithAvatar(shard[m.owner], m.avatar) \in Shards
  BY <1>2, AvatarWritten DEF ProfileTypeOK, ShardsTyped
<1>5. shard' \in [Users -> Shards]
  BY <1>2, <1>3, <1>4 DEF ProfileTypeOK, ShardsTyped
<1>6. AckOf(m) \in Messages
  BY <1>2, <1>5, NetTyped DEF AckOf, Messages, Acks, Shards
<1>7. Answer(m, AckOf(m))
  BY DEF SetAvatarPointer, AckOf
<1>8. NetOK(net')
  BY <1>6, <1>7, NetTyped
<1>9. applied' \subseteq Nat
  BY <1>2 DEF SetAvatarPointer, ProfileTypeOK, RegistryTyped
<1>10. ProfileTypeOK'
  BY <1>5, <1>8, <1>9
        DEF SetAvatarPointer, ProfileTypeOK, ShardsTyped, RegistryTyped,
            WalletTyped, writeVars, flushVars, walletVars
<1> QED BY <1>1, <1>2, <1>3, <1>6, <1>7, <1>10

LEMMA RefuseWriteTypes ==
    ASSUME ProfileTypeOK, NEW m \in InFlight("write"), RefuseAvatarPointer(m)
    PROVE  ProfileTypeOK'
<1>1. m \in Askings
  BY NetTyped, Received, MessageKinds DEF AskingTypes
<1>2. Bounced(m, "writeBounce") \in Messages
  BY <1>1, BouncedWrite, NetTyped
<1>3. NetOK(net')
  BY <1>2, NetTyped DEF RefuseAvatarPointer, Bounce, Bounced
<1> QED BY <1>3, NetOnlyTypes DEF RefuseAvatarPointer

NoteAckOf(p) ==
    [type |-> "noteAck", qid |-> p.qid, payer |-> p.owner, sent |-> now]

LEMMA NotesTyped ==
    ASSUME ProfileTypeOK, NEW p \in pending_avatar_writes
    PROVE  /\ p \in PendingWrites
           /\ NoteAckOf(p) \in Messages /\ NoteRefund(p) \in Messages
<1>1. p \in PendingWrites
  BY DEF ProfileTypeOK, RegistryTyped, PendingOK
<1> QED BY <1>1, NetTyped DEF PendingWrites, NoteAckOf, NoteRefund, Messages,
                              Decisions, VerdictTypes

LEMMA AckTypes ==
    ASSUME ProfileTypeOK, NEW m \in InFlight("ack"), AvatarPointerAck(m)
    PROVE  ProfileTypeOK'
<1>1. PICK p \in Write(m.id) :
         /\ pending_avatar_writes' = pending_avatar_writes \ {p}
         /\ profile_count' =
               IF m.version = 1 THEN profile_count + 1 ELSE profile_count
         /\ due' = [k \in Kinds |-> due[k] + 1]
         /\ Answer(m, NoteAckOf(p))
         /\ UNCHANGED <<shardVars, next_write_id, pending_flushes, walletVars,
                        pastVars, now>>
  BY DEF AvatarPointerAck, NoteAckOf
<1>2. NetOK(net')
  BY <1>1, NotesTyped, NetTyped DEF Write
<1>3. PendingOK(pending_avatar_writes')
  BY <1>1, PendingKept DEF ProfileTypeOK, RegistryTyped
<1>4. profile_count' \in Nat /\ due' \in [Kinds -> Nat]
  BY <1>1 DEF ProfileTypeOK, RegistryTyped
<1> QED BY <1>1, <1>2, <1>3, <1>4
        DEF ProfileTypeOK, ShardsTyped, RegistryTyped, WalletTyped,
            shardVars, walletVars, pastVars

LEMMA ConsumeTypes ==
    ASSUME ProfileTypeOK, NEW m, Consume(m),
           UNCHANGED <<shardVars, writeVars, flushVars, walletVars, pastVars,
                       now>>
    PROVE  ProfileTypeOK'
<1>1. NetOK(net')
  BY NetTyped
<1> QED BY <1>1, NetOnlyTypes

LEMMA AbandonTypes ==
    ASSUME ProfileTypeOK, NEW p \in pending_avatar_writes, Abandon(p),
           net' = net \cup {NoteRefund(p)} \/ \E m : Answer(m, NoteRefund(p))
    PROVE  ProfileTypeOK'
<1>1. NetOK(net')
  BY NotesTyped, NetTyped
<1>2. PendingOK(pending_avatar_writes')
  BY PendingKept DEF ProfileTypeOK, RegistryTyped, Abandon
<1>3. abandoned' \subseteq Nat
  BY NotesTyped DEF ProfileTypeOK, RegistryTyped, Abandon, PendingWrites
<1> QED BY <1>1, <1>2, <1>3
        DEF Abandon, ProfileTypeOK, ShardsTyped, RegistryTyped, WalletTyped,
            shardVars, flushVars, walletVars

LEMMA ShortTypes ==
    ASSUME ProfileTypeOK, NEW m, BouncedAvatarPointerShort(m)
    PROVE  ProfileTypeOK'
<1>1. PICK p \in Write(m.id) :
         /\ pending_avatar_writes' =
               (pending_avatar_writes \ {p}) \cup {[p EXCEPT !.created_at = 0]}
         /\ Consume(m)
         /\ UNCHANGED <<shardVars, next_write_id, profile_count, flushVars,
                        walletVars, pastVars, now>>
  BY DEF BouncedAvatarPointerShort
<1>2. p \in PendingWrites
  BY NotesTyped DEF Write
<1>3. [p EXCEPT !.created_at = 0] \in PendingWrites
  BY <1>2 DEF PendingWrites
<1>4. PendingOK(pending_avatar_writes')
  BY <1>1, <1>3, PendingKept DEF ProfileTypeOK, RegistryTyped
<1>5. NetOK(net')
  BY <1>1, NetTyped
<1> QED BY <1>1, <1>4, <1>5
        DEF ProfileTypeOK, ShardsTyped, RegistryTyped, WalletTyped,
            shardVars, flushVars, walletVars, pastVars

RefundOf(m) == [kind |-> "refund", id |-> m.qid, to |-> m.payer,
                amount |-> Price]

LEMMA RefundTypes ==
    ASSUME ProfileTypeOK, NEW m \in net, m.type \in NoteTypes,
           RefundNotification(m)
    PROVE  ProfileTypeOK'
<1>1. m.qid \in QueryIds /\ m.payer \in Users
  BY NetTyped, MessageKinds
<1>2. RefundOf(m) \in Leavings
  BY <1>1 DEF RefundOf, Leavings, Price
<1>3. NetOK(net')
  BY NetTyped DEF RefundNotification
<1>4. balance' \in Nat
  BY DEF RefundNotification, Price, ProfileTypeOK, WalletTyped
<1>5. leaving' = leaving \cup {RefundOf(m)}
  BY DEF RefundNotification, RefundOf
<1> QED BY <1>2, <1>3, <1>4, <1>5
        DEF RefundNotification, ProfileTypeOK, ShardsTyped, RegistryTyped,
            WalletTyped, shardVars, writeVars, flushVars, pastVars

LEMMA NotificationTypes ==
    ASSUME ProfileTypeOK, NetOK(net'), notifications' \subseteq notifications,
           UNCHANGED <<shardVars, writeVars, flushVars, balance, leaving,
                       purse, pastVars, now>>
    PROVE  ProfileTypeOK'
BY DEF ProfileTypeOK, ShardsTyped, RegistryTyped, WalletTyped, shardVars,
       writeVars, flushVars, pastVars

RequestOf(k) == [type |-> "request", kind |-> k, id |-> next_write_id,
                 amount |-> due[k], sent |-> now]
FlushOf(k) == [id |-> next_write_id, kind |-> k, amount |-> due[k]]

LEMMA FlushDueTypes ==
    ASSUME ProfileTypeOK, NEW k \in Kinds, FlushDue(k)
    PROVE  ProfileTypeOK' /\ RequestOf(k) \in Messages
<1>1. next_write_id \in Nat /\ due[k] \in Nat /\ next_write_id' \in Nat
  BY DEF ProfileTypeOK, RegistryTyped, FlushDue
<1>2. RequestOf(k) \in Messages
  BY <1>1, NetTyped DEF RequestOf, Messages, Flushes, FlushTypes
<1>3. FlushOf(k) \in PendingFlushes
  BY <1>1 DEF FlushOf, PendingFlushes
<1>4. /\ net' = net \cup {RequestOf(k)}
      /\ pending_flushes' = pending_flushes \cup {FlushOf(k)}
  BY DEF FlushDue, RequestOf, FlushOf
<1>5. NetOK(net')
  BY <1>2, <1>4, NetTyped
<1>6. due' \in [Kinds -> Nat]
  BY DEF FlushDue, ProfileTypeOK, RegistryTyped
<1>7. ProfileTypeOK'
  BY <1>1, <1>3, <1>4, <1>5, <1>6
        DEF FlushDue, ProfileTypeOK, ShardsTyped, RegistryTyped,
            WalletTyped, shardVars, walletVars, pastVars
<1> QED BY <1>2, <1>7

FlushLeaving(m) ==
    [kind |-> m.kind, id |-> m.id, to |-> m.kind, amount |-> m.amount]

LEMMA FlushRequestTypes ==
    ASSUME ProfileTypeOK, NEW m \in InFlight("request"), FlushRequest(m)
    PROVE  ProfileTypeOK'
<1>1. m \in Flushes
  BY NetTyped, Received, MessageKinds DEF FlushTypes
<1>2. FlushLeaving(m) \in Leavings /\ m.amount \in Nat
  BY <1>1 DEF FlushLeaving, Leavings, Flushes
<1>3. NetOK(net')
  BY NetTyped DEF FlushRequest
<1>4. balance' \in Nat
  BY <1>2 DEF FlushRequest, ProfileTypeOK, WalletTyped
<1>5. leaving' = leaving \cup {FlushLeaving(m)}
  BY DEF FlushRequest, FlushLeaving
<1> QED BY <1>2, <1>3, <1>4, <1>5
        DEF FlushRequest, ProfileTypeOK, ShardsTyped, RegistryTyped,
            WalletTyped, shardVars, writeVars, flushVars, pastVars

LEMMA RefuseFlushTypes ==
    ASSUME ProfileTypeOK, NEW m \in InFlight("request"), RefuseFlush(m)
    PROVE  ProfileTypeOK'
<1>1. m \in Flushes
  BY NetTyped, Received, MessageKinds DEF FlushTypes
<1>2. Bounced(m, "failed") \in Messages
  BY <1>1, BouncedFlush, NetTyped
<1>3. NetOK(net')
  BY <1>2, NetTyped DEF RefuseFlush, Bounce, Bounced
<1> QED BY <1>3, NetOnlyTypes DEF RefuseFlush

(* What has left the official wallet, and the message it ends in.          *)
OutcomeOf(type, t) ==
    [type |-> type, kind |-> t.kind, id |-> t.id, amount |-> t.amount,
     sent |-> now]

LEMMA LeavingTyped ==
    ASSUME ProfileTypeOK, NEW t \in leaving
    PROVE  /\ t.amount \in Nat
           /\ t.kind = "refund" => t.to \in Users
           /\ t.kind # "refund" =>
                 /\ t.id \in Nat
                 /\ \A type \in FlushTypes : OutcomeOf(type, t) \in Messages
<1>1. t \in Leavings /\ now \in Nat
  BY DEF ProfileTypeOK, WalletTyped, ShardsTyped
<1> QED BY <1>1 DEF Leavings, Kinds, OutcomeOf, Messages, Flushes

LEMMA ArriveTypes ==
    ASSUME ProfileTypeOK, NEW t \in leaving, Arrive(t)
    PROVE  ProfileTypeOK'
<1>1. CASE t.kind = "refund"
  <2>1. purse' \in [Users -> Nat]
    BY <1>1, LeavingTyped DEF Arrive, ProfileTypeOK, WalletTyped
  <2> QED BY <1>1, <2>1
          DEF Arrive, ProfileTypeOK, ShardsTyped, RegistryTyped, WalletTyped,
              shardVars, writeVars, flushVars, pastVars
<1>2. CASE t.kind # "refund"
  <2>1. net' = net \cup {OutcomeOf("done", t)}
    BY <1>2 DEF Arrive, OutcomeOf
  <2>2. NetOK(net')
    BY <1>2, <2>1, LeavingTyped, NetTyped DEF FlushTypes
  <2> QED BY <1>2, <2>2
          DEF Arrive, ProfileTypeOK, ShardsTyped, RegistryTyped, WalletTyped,
              shardVars, writeVars, flushVars, pastVars
<1> QED BY <1>1, <1>2

LEMMA TakeBackTypes ==
    ASSUME ProfileTypeOK, NEW t \in leaving, TakeBack(t)
    PROVE  ProfileTypeOK'
<1>1. balance' \in Nat
  BY LeavingTyped DEF TakeBack, ProfileTypeOK, WalletTyped
<1>2. NetOK(net')
  <2>1. CASE t.kind = "refund"
    BY <2>1, NetTyped DEF TakeBack
  <2>2. CASE t.kind # "refund"
    <3>1. net' = net \cup {OutcomeOf("failed", t)}
      BY <2>2 DEF TakeBack, OutcomeOf
    <3> QED BY <2>2, <3>1, LeavingTyped, NetTyped DEF FlushTypes
  <2> QED BY <2>1, <2>2
<1> QED BY <1>1, <1>2
        DEF TakeBack, ProfileTypeOK, ShardsTyped, RegistryTyped, WalletTyped,
            shardVars, writeVars, flushVars, pastVars

LEMMA FlushDoneTypes ==
    ASSUME ProfileTypeOK, NetOK(net'),
           pending_flushes' \subseteq pending_flushes,
           UNCHANGED <<shardVars, writeVars, due, walletVars, pastVars, now>>
    PROVE  ProfileTypeOK'
BY DEF ProfileTypeOK, ShardsTyped, RegistryTyped, WalletTyped, shardVars,
       writeVars, walletVars, pastVars

LEMMA FlushFailedTypes ==
    ASSUME ProfileTypeOK, NEW m \in InFlight("failed"), FlushFailed(m)
    PROVE  ProfileTypeOK'
<1>1. m \in Flushes
  BY NetTyped, Received, MessageKinds DEF FlushTypes
<1>2. PICK f \in Flush(m.id) :
         /\ due' = [due EXCEPT ![m.kind] = @ + f.amount]
         /\ pending_flushes' = pending_flushes \ {f}
         /\ Consume(m)
         /\ UNCHANGED <<shardVars, writeVars, walletVars, pastVars, now>>
  BY DEF FlushFailed
<1>3. f.amount \in Nat /\ m.kind \in Kinds
  BY <1>1 DEF Flush, Flushes, ProfileTypeOK, RegistryTyped, PendingFlushes
<1>4. due' \in [Kinds -> Nat]
  BY <1>2, <1>3 DEF ProfileTypeOK, RegistryTyped
<1>5. NetOK(net')
  BY <1>2, NetTyped
<1> QED BY <1>2, <1>4, <1>5
        DEF ProfileTypeOK, ShardsTyped, RegistryTyped, WalletTyped,
            shardVars, writeVars, walletVars, pastVars

LEMMA TickTypes ==
    ASSUME ProfileTypeOK, Tick PROVE ProfileTypeOK'
BY DEF Tick, ProfileTypeOK, ShardsTyped, RegistryTyped, WalletTyped,
       shardVars, writeVars, flushVars, walletVars, pastVars

-----------------------------------------------------------------------------
(* A shard never goes back.                                                *)

(* what NeverOlder says of a step                                          *)
Forward ==
    \A u \in Users :
        LET s == shard[u]  t == shard'[u]
        IN  /\ <<s.avatar, s.version>> # <<t.avatar, t.version>> =>
                  t.version > s.version /\ t.updated_at >= s.updated_at
            /\ (s.registered /\ s.keys # t.keys) =>
                  t.keys = s.keys + 1 /\ t.created_at = now

LEMMA ShardsStay ==
    ASSUME ShardsTyped, ShardsDated, UNCHANGED <<shardVars, now>>
    PROVE  ShardsTyped' /\ ShardsDated' /\ Forward
BY DEF ShardsTyped, ShardsDated, shardVars, Forward

(* One user's shard changes, in the way that is allowed.                   *)
LEMMA OneShardMoves ==
    ASSUME ShardsTyped, ShardsDated, NEW u \in Users, NEW w \in Shards,
           shard' = [shard EXCEPT ![u] = w],
           UNCHANGED <<old, now>>, proofs' \subseteq proofs,
           w.updated_at <= now,
           \/ w.version = shard[u].version /\ w.avatar = shard[u].avatar
           \/ /\ w.version > shard[u].version
              /\ w.updated_at >= shard[u].updated_at,
           \/ ~shard[u].registered
           \/ w.keys = shard[u].keys
           \/ w.keys = shard[u].keys + 1 /\ w.created_at = now
    PROVE  ShardsTyped' /\ ShardsDated' /\ Forward
<1>1. shard'[u] = w /\ \A v \in Users : v # u => shard'[v] = shard[v]
  BY DEF ShardsTyped
<1>2. shard' \in [Users -> Shards]
  BY DEF ShardsTyped
<1>3. ShardsTyped'
  BY <1>2 DEF ShardsTyped
<1>4. ShardsDated'
  BY <1>1 DEF ShardsDated
<1>5. ASSUME NEW v \in Users
      PROVE  /\ <<shard[v].avatar, shard[v].version>>
                   # <<shard'[v].avatar, shard'[v].version>> =>
                   /\ shard'[v].version > shard[v].version
                   /\ shard'[v].updated_at >= shard[v].updated_at
             /\ (shard[v].registered /\ shard[v].keys # shard'[v].keys) =>
                   /\ shard'[v].keys = shard[v].keys + 1
                   /\ shard'[v].created_at = now
  <2>1. CASE v = u
    BY <2>1, <1>1
  <2>2. CASE v # u
    BY <2>2, <1>1
  <2> QED BY <2>1, <2>2
<1> QED BY <1>3, <1>4, <1>5 DEF Forward

LEMMA OldShardMoves ==
    ASSUME ShardsTyped, ShardsDated, NEW u \in Users, NEW w \in Shards,
           old' = [old EXCEPT ![u] = w], w.updated_at <= now,
           UNCHANGED <<shard, proofs, now>>
    PROVE  ShardsTyped' /\ ShardsDated' /\ Forward
<1>1. old'[u] = w /\ \A v \in Users : v # u => old'[v] = old[v]
  BY DEF ShardsTyped
<1>2. old' \in [Users -> Shards]
  BY DEF ShardsTyped
<1> QED BY <1>1, <1>2 DEF ShardsTyped, ShardsDated, Forward

LEMMA IdentityMoves ==
    ASSUME ShardsTyped, ShardsDated, Identity
    PROVE  ShardsTyped' /\ ShardsDated' /\ Forward
<1>1. now \in Nat
  BY DEF ShardsTyped
<1>2. ASSUME NEW u \in Users, RegisterKeys(u)
      PROVE  ShardsTyped' /\ ShardsDated' /\ Forward
  <2> DEFINE w == Rotated(shard[u])
  <2>1. /\ w \in Shards
        /\ w.version = shard[u].version /\ w.avatar = shard[u].avatar
        /\ w.updated_at = shard[u].updated_at
        /\ w.created_at = now
        /\ shard[u].registered => w.keys = shard[u].keys + 1
    BY <1>1, RotationWritten DEF ShardsTyped
  <2>2. /\ shard' = [shard EXCEPT ![u] = w]
        /\ UNCHANGED <<old, proofs, now>>
    BY <1>2 DEF RegisterKeys
  <2> HIDE DEF w
  <2>3. w.updated_at <= now
    BY <2>1 DEF ShardsDated
  <2>4. \/ ~shard[u].registered
        \/ w.keys = shard[u].keys + 1 /\ w.created_at = now
    BY <2>1 DEF ShardsTyped, Shards
  <2> QED BY <2>1, <2>2, <2>3, <2>4, OneShardMoves
<1>3. ASSUME NEW u \in Users, RegisterOldKeys(u)
      PROVE  ShardsTyped' /\ ShardsDated' /\ Forward
  <2> DEFINE w == Rotated(old[u])
  <2>1. w \in Shards /\ w.updated_at = old[u].updated_at
    BY <1>1, RotationWritten DEF ShardsTyped
  <2>2. /\ old' = [old EXCEPT ![u] = w]
        /\ UNCHANGED <<shard, proofs, now>>
    BY <1>3 DEF RegisterOldKeys
  <2> HIDE DEF w
  <2> QED BY <2>1, <2>2, OldShardMoves DEF ShardsDated
<1>4. ASSUME NEW u \in Users, ProveOwnership(u)
      PROVE  ShardsTyped' /\ ShardsDated' /\ Forward
  <2>1. /\ proofs' = proofs \cup {[owner |-> u, of |-> old[u]]}
        /\ UNCHANGED <<shard, old, now>>
    BY <1>4 DEF ProveOwnership
  <2>2. old[u] \in Shards
    BY DEF ShardsTyped
  <2>3. ShardsTyped'
    BY <2>1, <2>2 DEF ShardsTyped
  <2> QED BY <2>1, <2>3 DEF ShardsDated, Forward
<1>5. ASSUME NEW u \in Users, NEW a \in Avatars, SetOldAvatar(u, a)
      PROVE  ShardsTyped' /\ ShardsDated' /\ Forward
  <2> DEFINE w == WithAvatar(old[u], a)
  <2>1. w \in Shards /\ w.updated_at = now
    BY <1>1, AvatarWritten DEF ShardsTyped
  <2>2. /\ old' = [old EXCEPT ![u] = w]
        /\ UNCHANGED <<shard, proofs, now>>
    BY <1>5 DEF SetOldAvatar
  <2> HIDE DEF w
  <2>3. w.updated_at <= now
    BY <1>1, <2>1
  <2> QED BY <2>1, <2>2, <2>3, OldShardMoves
<1>6. ASSUME NEW m \in proofs, AdoptIdentity(m)
      PROVE  ShardsTyped' /\ ShardsDated' /\ Forward
  <2> DEFINE s == shard[m.owner]
             w == Adopted(s, m.of)
  <2>1. m.owner \in Users /\ m.of \in Shards /\ s \in Shards
    BY DEF ShardsTyped
  <2>2. /\ w \in Shards
        /\ s.registered => w.keys = s.keys
        /\ \/ /\ w.version = s.version /\ w.avatar = s.avatar
              /\ w.updated_at = s.updated_at
           \/ /\ w.version > s.version
              /\ w.updated_at = m.of.updated_at
              /\ w.updated_at > s.updated_at
    BY <2>1, AdoptionWritten
  <2>3. /\ shard' = [shard EXCEPT ![m.owner] = w]
        /\ proofs' = proofs \ {m} /\ UNCHANGED <<old, now>>
    BY <1>6 DEF AdoptIdentity
  <2>4. s.updated_at <= now /\ m.of.updated_at <= now
    BY <2>1 DEF ShardsDated
  <2>5. s.updated_at \in Nat /\ w.updated_at \in Nat
    BY <2>1, <2>2 DEF Shards
  <2> HIDE DEF w
  <2>6. w.updated_at <= now
    BY <2>2, <2>4
  <2>7. /\ \/ w.version = s.version /\ w.avatar = s.avatar
           \/ w.version > s.version /\ w.updated_at >= s.updated_at
        /\ ~s.registered \/ w.keys = s.keys
    BY <2>2, <2>5
  <2>8. proofs' \subseteq proofs
    BY <2>3
  <2> HIDE DEF s
  <2> QED BY <2>1, <2>2, <2>3, <2>6, <2>7, <2>8, OneShardMoves DEF s
<1>7. ASSUME NEW m \in proofs, RefuseIdentity(m)
      PROVE  ShardsTyped' /\ ShardsDated' /\ Forward
  BY <1>7 DEF RefuseIdentity, ShardsTyped, ShardsDated, Forward
<1> QED BY <1>2, <1>3, <1>4, <1>5, <1>6, <1>7 DEF Identity

LEMMA SetAvatarMoves ==
    ASSUME ProfileTypeOK, ShardsDated, NEW m \in InFlight("write"),
           SetAvatarPointer(m)
    PROVE  ShardsDated' /\ Forward
<1> DEFINE s == shard[m.owner]
           w == WithAvatar(s, m.avatar)
<1>1. /\ m.owner \in Users /\ m.avatar \in Avatars
      /\ shard' = [shard EXCEPT ![m.owner] = w]
  BY SetAvatarTypes
<1>2. now \in Nat /\ s \in Shards
  BY <1>1 DEF ProfileTypeOK, ShardsTyped
<1>3. /\ w \in Shards /\ w.keys = s.keys
      /\ w.version = s.version + 1 /\ w.updated_at = now
  BY <1>1, <1>2, AvatarWritten
<1>4. s.version \in Nat /\ s.updated_at \in Nat /\ s.updated_at <= now
  BY <1>1, <1>2 DEF Shards, ShardsDated
<1>5. UNCHANGED <<old, proofs, now>>
  BY DEF SetAvatarPointer
<1> HIDE DEF w
<1>6. w.version > s.version /\ w.updated_at >= s.updated_at
      /\ w.updated_at <= now
  BY <1>2, <1>3, <1>4
<1> QED BY <1>1, <1>3, <1>5, <1>6, OneShardMoves DEF ProfileTypeOK

(* Every other step leaves the shards alone.                               *)
LEMMA NextMovesForward ==
    ASSUME ProfileTypeOK, ShardsDated, Next
    PROVE  Forward /\ ShardsDated'
<1>1. CASE Identity
  BY <1>1, IdentityMoves DEF ProfileTypeOK
<1>2. CASE Tick
  BY <1>2 DEF Tick, ProfileTypeOK, ShardsTyped, ShardsDated, shardVars,
              Forward, Shards
<1>3. ASSUME NEW m \in InFlight("write"), SetAvatarPointer(m)
      PROVE  Forward /\ ShardsDated'
  BY <1>3, SetAvatarMoves
<1>4. CASE UNCHANGED <<shardVars, now>>
  BY <1>4, ShardsStay DEF ProfileTypeOK
<1>5. ASSUME NEW u \in Users, NEW q \in QueryIds, NEW a \in Avatars,
             Pay(u, q, a)
      PROVE  UNCHANGED <<shardVars, now>>
  BY <1>5 DEF Pay
<1>6. WriteStep => \/ UNCHANGED <<shardVars, now>>
                   \/ \E m \in InFlight("write") : SetAvatarPointer(m)
  BY DEF WriteStep, AcceptAvatarPayment, RefuseAvatarPayment,
         RefuseAvatarPointer, AvatarPointerAck, StaleAnswer,
         BouncedAvatarPointer, BouncedAvatarPointerShort,
         PruneStaleAvatarWrite, Abandon
<1>7. NoteStep => UNCHANGED <<shardVars, now>>
  BY DEF NoteStep, NotificationAck, RefundNotification, RefundFails,
         PruneStaleNotification
<1>8. FlushStep => UNCHANGED <<shardVars, now>>
  BY DEF FlushStep, FlushDue, FlushRequest, RefuseFlush, FlushDone,
         FlushFailed, StaleFailure, PruneStaleDueFlush, Arrive, TakeBack
<1>9. ASSUME NEW m \in net, Lose(m) PROVE UNCHANGED <<shardVars, now>>
  BY <1>9 DEF Lose
<1> QED BY <1>1, <1>2, <1>3, <1>4, <1>5, <1>6, <1>7, <1>8, <1>9 DEF Next

-----------------------------------------------------------------------------
(* No message is older than the network allows.                            *)

LEMMA BouncedFields ==
    ASSUME NEW m \in Messages, NEW type
    PROVE  /\ Bounced(m, type).type = type
           /\ Bounced(m, type).sent = now
           /\ m.type \in WriteTypes \cup FlushTypes
                 => Bounced(m, type).id = m.id
           /\ m.type \in FlushTypes => Bounced(m, type).amount = m.amount
BY DEF Messages, Payments, Decisions, Askings, Acks, Flushes, PaymentTypes,
       VerdictTypes, AskingTypes, WriteTypes, FlushTypes, Bounced

SentNow == now' = now /\ \A m \in net' : m \in net \/ m.sent = now

LEMMA WriteStepSends ==
    ASSUME ProfileTypeOK, WriteStep PROVE SentNow
<1>1. \A m \in net : \A type : Bounced(m, type).sent = now
  BY NetTyped, BouncedFields
<1>2. ASSUME NEW m \in InFlight("notify"),
             AcceptAvatarPayment(m) \/ RefuseAvatarPayment(m)
      PROVE  SentNow
  <2>1. CASE AcceptAvatarPayment(m)
    BY <2>1 DEF AcceptAvatarPayment, Answer, SentNow
  <2>2. CASE RefuseAvatarPayment(m)
    <3>1. net' = (net \ {m}) \cup {Bounced(m, "notifyBounce")} /\ now' = now
      BY <2>2 DEF RefuseAvatarPayment, Bounce, Answer, Bounced
    <3> QED BY <1>1, <3>1 DEF SentNow, InFlight
  <2> QED BY <1>2, <2>1, <2>2
<1>3. ASSUME NEW m \in InFlight("write"),
             SetAvatarPointer(m) \/ RefuseAvatarPointer(m)
      PROVE  SentNow
  <2>1. CASE SetAvatarPointer(m)
    <3>1. net' = (net \ {m}) \cup {AckOf(m)} /\ now' = now
      BY <2>1 DEF SetAvatarPointer, Answer, AckOf
    <3> QED BY <3>1 DEF SentNow, AckOf
  <2>2. CASE RefuseAvatarPointer(m)
    <3>1. net' = (net \ {m}) \cup {Bounced(m, "writeBounce")} /\ now' = now
      BY <2>2 DEF RefuseAvatarPointer, Bounce, Answer, Bounced
    <3> QED BY <1>1, <3>1 DEF SentNow, InFlight
  <2> QED BY <1>3, <2>1, <2>2
<1>4. ASSUME NEW m, AvatarPointerAck(m) \/ StaleAnswer(m)
                      \/ BouncedAvatarPointer(m)
                      \/ BouncedAvatarPointerShort(m)
      PROVE  SentNow
  BY <1>4 DEF AvatarPointerAck, StaleAnswer, BouncedAvatarPointer,
              BouncedAvatarPointerShort, Abandon, Answer, Consume, NoteRefund,
              SentNow
<1>5. ASSUME NEW p, PruneStaleAvatarWrite(p) PROVE SentNow
  BY <1>5 DEF PruneStaleAvatarWrite, Abandon, NoteRefund, SentNow
<1> QED BY <1>2, <1>3, <1>4, <1>5 DEF WriteStep

LEMMA NoteStepSends ==
    ASSUME NoteStep PROVE SentNow
BY DEF NoteStep, NotificationAck, RefundNotification, RefundFails,
       PruneStaleNotification, Consume, SentNow

LEMMA FlushStepSends ==
    ASSUME ProfileTypeOK, FlushStep PROVE SentNow
<1>1. \A m \in net : \A type : Bounced(m, type).sent = now
  BY NetTyped, BouncedFields
<1>2. ASSUME NEW k, FlushDue(k) PROVE SentNow
  BY <1>2 DEF FlushDue, SentNow
<1>3. ASSUME NEW m \in InFlight("request"), FlushRequest(m) \/ RefuseFlush(m)
      PROVE  SentNow
  BY <1>1, <1>3 DEF FlushRequest, RefuseFlush, Consume, Answer, Bounce,
                    Bounced, SentNow, InFlight
<1>4. ASSUME NEW m, FlushDone(m) \/ FlushFailed(m) \/ StaleFailure(m)
      PROVE  SentNow
  BY <1>4 DEF FlushDone, FlushFailed, StaleFailure, Consume, SentNow
<1>5. ASSUME NEW f, PruneStaleDueFlush(f) PROVE SentNow
  BY <1>5 DEF PruneStaleDueFlush, SentNow
<1>6. ASSUME NEW t, Arrive(t) \/ TakeBack(t) PROVE SentNow
  BY <1>6 DEF Arrive, TakeBack, SentNow
<1> QED BY <1>2, <1>3, <1>4, <1>5, <1>6 DEF FlushStep

LEMMA MessagesStayDated ==
    ASSUME ProfileTypeOK, MessagesDated, Next
    PROVE  MessagesDated'
<1>1. now \in Nat /\ MaxTransit \in Nat
  BY NetTyped, AvatarAssumption
<1>2. \A m \in net : m.sent \in Nat
  BY NetTyped, MessageKinds
<1>3. CASE SentNow
  <2>1. ASSUME NEW m \in net'
        PROVE  m.sent <= now' /\ now' <= m.sent + MaxTransit
    <3>1. CASE m \in net
      BY <1>3, <3>1 DEF MessagesDated, SentNow
    <3>2. CASE m.sent = now
      BY <1>1, <1>3, <3>2 DEF SentNow
    <3> QED BY <2>1, <1>3, <3>1, <3>2 DEF SentNow
  <2> QED BY <2>1 DEF MessagesDated
<1>4. CASE Tick
  <2>1. ASSUME NEW m \in net
        PROVE  m.sent <= now + 1 /\ now + 1 <= m.sent + MaxTransit
    <3>1. now < m.sent + MaxTransit /\ m.sent <= now
      BY <1>4 DEF Tick, MessagesDated
    <3> QED BY <1>1, <1>2, <3>1
  <2>2. now' = now + 1 /\ net' = net
    BY <1>4 DEF Tick
  <2> QED BY <2>1, <2>2 DEF MessagesDated
<1>5. ASSUME NEW u, NEW q, NEW a, Pay(u, q, a) PROVE SentNow
  BY <1>5 DEF Pay, SentNow
<1>6. ASSUME NEW m, Lose(m) PROVE SentNow
  BY <1>6 DEF Lose, Consume, SentNow
<1>7. Identity /\ UNCHANGED net => SentNow
  BY DEF Identity, RegisterKeys, RegisterOldKeys, ProveOwnership,
         SetOldAvatar, AdoptIdentity, RefuseIdentity, SentNow
<1> QED BY <1>3, <1>4, <1>5, <1>6, <1>7, WriteStepSends, NoteStepSends,
           FlushStepSends DEF Next

-----------------------------------------------------------------------------
(* Ids, writes and flushes, in the steps that leave the writes alone.      *)

Tracked == IdsUsed /\ WritesTracked /\ FlushesMatch

LEMMA IdsTyped ==
    ASSUME ProfileTypeOK
    PROVE  /\ next_write_id \in Nat
           /\ \A p \in pending_avatar_writes :
                 p.id \in Nat /\ p.created_at \in Nat
           /\ \A m \in net : m.type \in WriteTypes \cup FlushTypes
                 => m.id \in Nat
           /\ \A f \in pending_flushes : f.id \in Nat /\ f.amount \in Nat
           /\ \A t \in leaving : t.kind # "refund" => t.id \in Nat
           /\ \A id \in applied \cup abandoned : id \in Nat
<1>1. \A m \in net : m.type \in WriteTypes \cup FlushTypes => m.id \in Nat
  BY NetTyped, MessageKinds DEF Flushes
<1> QED BY <1>1, LeavingTyped
        DEF ProfileTypeOK, RegistryTyped, PendingOK, PendingWrites,
            PendingFlushes

LEMMA SameWrites ==
    ASSUME WritesTracked,
           UNCHANGED <<pending_avatar_writes, applied, abandoned>>,
           \A m \in net' : m.type \in WriteTypes => m \in net,
           \A m \in net : m.type \in WriteTypes => m \in net'
    PROVE  WritesTracked'
<1>1. OnePending' /\ NotGivenUp' /\ AppliedIsPaid'
  BY DEF WritesTracked, OnePending, NotGivenUp, AppliedIsPaid
<1>2. OneMessage'
  BY DEF WritesTracked, OneMessage
<1>3. WritesAnswered'
  BY DEF WritesTracked, WritesAnswered
<1>4. AppliedAnswered'
  BY DEF WritesTracked, AppliedAnswered, WriteTypes
<1> QED BY <1>1, <1>2, <1>3, <1>4 DEF WritesTracked

(* Only messages about notifications are sent, nothing is lost of a write, *)
(* and nothing leaves the wallet but refunds.                              *)
LEMMA NotesKeep ==
    ASSUME Tracked,
           UNCHANGED <<next_write_id, pending_avatar_writes, applied,
                       abandoned>>,
           pending_flushes' \subseteq pending_flushes,
           \A m \in net' : m \in net \/ m.type \in NoteTypes,
           \A m \in net : m.type \in WriteTypes => m \in net',
           \A t \in leaving' : t \in leaving \/ t.kind = "refund"
    PROVE  Tracked'
<1>1. NoteTypes \cap (WriteTypes \cup FlushTypes) = {}
  BY DEF NoteTypes, WriteTypes, FlushTypes
<1>2. WritesTracked'
  BY <1>1, SameWrites DEF Tracked
<1>3. IdsUsed'
  BY <1>1 DEF Tracked, IdsUsed
<1>4. FlushesMatch'
  BY <1>1 DEF Tracked, FlushesMatch
<1> QED BY <1>2, <1>3, <1>4 DEF Tracked

(* What is on its way about a flush goes on as something else, with the    *)
(* same id and amount.                                                     *)
OnItsWay(id, amount) ==
    \/ \E m \in net :
          m.type \in FlushTypes /\ m.id = id /\ m.amount = amount
    \/ \E t \in leaving :
          t.kind # "refund" /\ t.id = id /\ t.amount = amount

LEMMA FlushMoves ==
    ASSUME Tracked, NEW id, NEW amount, OnItsWay(id, amount),
           UNCHANGED <<next_write_id, pending_avatar_writes, applied,
                       abandoned, pending_flushes>>,
           \A m \in net' : \/ m \in net
                           \/ /\ m.type \in FlushTypes
                              /\ m.id = id /\ m.amount = amount,
           \A m \in net : m.type \in WriteTypes => m \in net',
           \A t \in leaving' :
              t \in leaving \/ (t.id = id /\ t.amount = amount)
    PROVE  Tracked'
<1>1. FlushTypes \cap WriteTypes = {}
  BY DEF WriteTypes, FlushTypes
<1>2. WritesTracked'
  BY <1>1, SameWrites DEF Tracked
<1>3. id < next_write_id
  BY DEF Tracked, IdsUsed, OnItsWay
<1>4. IdsUsed'
  BY <1>1, <1>3 DEF Tracked, IdsUsed
<1>5. \A f \in pending_flushes : f.id = id => f.amount = amount
  BY DEF Tracked, FlushesMatch, OnItsWay
<1>6. FlushesMatch'
  BY <1>1, <1>5 DEF Tracked, FlushesMatch
<1> QED BY <1>2, <1>4, <1>6 DEF Tracked

LEMMA PayTracked ==
    ASSUME Tracked, NEW u \in Users, NEW q \in QueryIds, NEW a \in Avatars,
           Pay(u, q, a)
    PROVE  Tracked'
BY NotesKeep DEF Pay, writeVars, flushVars, pastVars, NoteTypes

LEMMA NoteStepTracked ==
    ASSUME ProfileTypeOK, Tracked, NoteStep
    PROVE  Tracked'
<1>1. NoteTypes \cap WriteTypes = {}
  BY DEF NoteTypes, WriteTypes
<1>2. ASSUME NEW m \in InFlight("noteAck"), NotificationAck(m) PROVE Tracked'
  BY <1>1, <1>2, NotesKeep
     DEF NotificationAck, Consume, InFlight, writeVars, flushVars, pastVars,
         NoteTypes
<1>3. ASSUME NEW m \in InFlight("notifyBounce") \cup InFlight("noteRefund"),
             RefundNotification(m) \/ RefundFails(m)
      PROVE  Tracked'
  <2>1. m.type \notin WriteTypes
    BY DEF InFlight, WriteTypes
  <2>2. CASE RefundNotification(m)
    BY <2>1, <2>2, NotesKeep
       DEF RefundNotification, Consume, writeVars, flushVars, pastVars
  <2>3. CASE RefundFails(m)
    BY <2>1, <2>3, NotesKeep
       DEF RefundFails, Consume, writeVars, flushVars, walletVars, pastVars
  <2> QED BY <1>3, <2>2, <2>3
<1>4. ASSUME NEW n \in notifications, PruneStaleNotification(n)
      PROVE  Tracked'
  BY <1>4, NotesKeep
     DEF PruneStaleNotification, writeVars, flushVars, pastVars
<1> QED BY <1>2, <1>3, <1>4 DEF NoteStep

LEMMA FlushStepTracked ==
    ASSUME ProfileTypeOK, Tracked, FlushStep
    PROVE  Tracked'
<1>1. FlushTypes \cap WriteTypes = {}
  BY DEF FlushTypes, WriteTypes
<1>2. ASSUME NEW k \in Kinds, FlushDue(k) PROVE Tracked'
  <2> DEFINE id == next_write_id
             r == RequestOf(k)
             f == FlushOf(k)
  <2>1. /\ r.type = "request" /\ r.id = id /\ r.amount = due[k]
        /\ f.id = id /\ f.amount = due[k]
    BY DEF RequestOf, FlushOf
  <2>2. /\ net' = net \cup {r}
        /\ pending_flushes' = pending_flushes \cup {f}
        /\ next_write_id' = id + 1
        /\ UNCHANGED <<pending_avatar_writes, applied, abandoned, leaving>>
    BY <1>2 DEF FlushDue, RequestOf, FlushOf, walletVars, pastVars
  <2>3. id \in Nat
    BY IdsTyped
  <2> HIDE DEF r, f
  <2>4. WritesTracked'
    BY <1>1, <2>1, <2>2, SameWrites DEF Tracked, FlushTypes
  <2>5. \A i \in Nat : i < id => i < id + 1
    BY <2>3
  <2>6. id < id + 1
    BY <2>3
  <2>7. IdsUsed'
    BY <1>1, <2>1, <2>2, <2>5, <2>6, IdsTyped DEF Tracked, IdsUsed
  <2>8. FlushesMatch'
    BY <2>1, <2>2, <2>3, IdsTyped DEF Tracked, IdsUsed, FlushesMatch
  <2> QED BY <2>4, <2>7, <2>8 DEF Tracked
<1>3. ASSUME NEW m \in InFlight("request"), FlushRequest(m)
      PROVE  Tracked'
  <2>1. m \in net /\ m.type \in FlushTypes
    BY DEF InFlight, FlushTypes
  <2>2. FlushLeaving(m).id = m.id /\ FlushLeaving(m).amount = m.amount
    BY DEF FlushLeaving
  <2>3. /\ leaving' = leaving \cup {FlushLeaving(m)}
        /\ net' = net \ {m}
        /\ UNCHANGED <<next_write_id, pending_avatar_writes, applied,
                       abandoned, pending_flushes>>
    BY <1>3 DEF FlushRequest, FlushLeaving, Consume, writeVars, flushVars,
                pastVars
  <2>4. OnItsWay(m.id, m.amount)
    BY <2>1 DEF OnItsWay
  <2>5. \A n \in net' : n \in net
    BY <2>3
  <2>6. \A n \in net : n.type \in WriteTypes => n \in net'
    BY <1>1, <2>1, <2>3
  <2>7. \A t \in leaving' :
           t \in leaving \/ (t.id = m.id /\ t.amount = m.amount)
    BY <2>2, <2>3
  <2> QED BY <2>3, <2>4, <2>5, <2>6, <2>7, FlushMoves
<1>4. ASSUME NEW m \in InFlight("request"), RefuseFlush(m)
      PROVE  Tracked'
  <2> DEFINE b == Bounced(m, "failed")
  <2>1. m \in net /\ m.type \in FlushTypes /\ m \in Messages
    BY NetTyped DEF InFlight, FlushTypes
  <2>2. b.type \in FlushTypes /\ b.id = m.id /\ b.amount = m.amount
    BY <2>1, BouncedFields DEF FlushTypes
  <2>3. /\ net' = (net \ {m}) \cup {b}
        /\ UNCHANGED <<next_write_id, pending_avatar_writes, applied,
                       abandoned, pending_flushes, leaving>>
    BY <1>4 DEF RefuseFlush, Bounce, Answer, Bounced, writeVars, flushVars,
                walletVars, pastVars
  <2> HIDE DEF b
  <2>4. OnItsWay(m.id, m.amount)
    BY <2>1 DEF OnItsWay
  <2>5. \A n \in net' : \/ n \in net
                        \/ /\ n.type \in FlushTypes
                           /\ n.id = m.id /\ n.amount = m.amount
    BY <2>2, <2>3
  <2>6. \A n \in net : n.type \in WriteTypes => n \in net'
    BY <1>1, <2>1, <2>3
  <2>7. \A t \in leaving' : t \in leaving
    BY <2>3
  <2> QED BY <2>3, <2>4, <2>5, <2>6, <2>7, FlushMoves
<1>5. ASSUME NEW m \in net, m.type \in FlushTypes,
             FlushDone(m) \/ FlushFailed(m) \/ StaleFailure(m)
      PROVE  Tracked'
  <2>1. /\ net' = net \ {m}
        /\ pending_flushes' \subseteq pending_flushes
        /\ UNCHANGED <<next_write_id, pending_avatar_writes, applied,
                       abandoned, leaving>>
    BY <1>5 DEF FlushDone, FlushFailed, StaleFailure, Consume, writeVars,
                flushVars, walletVars, pastVars
  <2> QED BY <1>1, <1>5, <2>1, NotesKeep
<1>6. ASSUME NEW f \in pending_flushes, PruneStaleDueFlush(f) PROVE Tracked'
  BY <1>6, NotesKeep DEF PruneStaleDueFlush, writeVars, walletVars, pastVars
<1>7. ASSUME NEW t \in leaving, Arrive(t) \/ TakeBack(t) PROVE Tracked'
  <2>1. /\ leaving' = leaving \ {t}
        /\ UNCHANGED <<next_write_id, pending_avatar_writes, applied,
                       abandoned, pending_flushes>>
    BY <1>7 DEF Arrive, TakeBack, writeVars, flushVars, pastVars
  <2>2. CASE t.kind = "refund"
    <3>1. net' = net
      BY <1>7, <2>2 DEF Arrive, TakeBack
    <3> QED BY <2>1, <3>1, NotesKeep
  <2>3. CASE t.kind # "refund"
    <3>1. PICK type \in FlushTypes : net' = net \cup {OutcomeOf(type, t)}
      BY <1>7, <2>3 DEF Arrive, TakeBack, OutcomeOf, FlushTypes
    <3>2. /\ OutcomeOf(type, t).type = type
          /\ OutcomeOf(type, t).id = t.id
          /\ OutcomeOf(type, t).amount = t.amount
      BY DEF OutcomeOf
    <3>3. \A m \in net' : \/ m \in net
                          \/ /\ m.type \in FlushTypes
                             /\ m.id = t.id /\ m.amount = t.amount
      BY <3>1, <3>2
    <3>4. \A m \in net : m \in net'
      BY <3>1
    <3>5. \A s \in leaving' : s \in leaving
      BY <2>1
    <3>6. OnItsWay(t.id, t.amount)
      BY <2>3 DEF OnItsWay
    <3> QED BY <2>1, <3>3, <3>4, <3>5, <3>6, FlushMoves
  <2> QED BY <2>2, <2>3
<1>8. InFlight("done") \cup InFlight("failed")
         \subseteq {m \in net : m.type \in FlushTypes}
  BY DEF InFlight, FlushTypes
<1> QED BY <1>2, <1>3, <1>4, <1>5, <1>6, <1>7, <1>8 DEF FlushStep

-----------------------------------------------------------------------------
(* The steps of a write.                                                   *)

(* The flushes are left alone, no message is sent but about writes and     *)
(* notifications.                                                          *)
LEMMA WritesLeaveFlushes ==
    ASSUME Tracked, UNCHANGED <<pending_flushes, leaving>>,
           \A m \in net' : m.type \in FlushTypes => m \in net
    PROVE  FlushesMatch'
BY DEF Tracked, FlushesMatch

(* The one message about a write arrives, and the write is decided.        *)
LEMMA DecidedTracked ==
    ASSUME ProfileTypeOK, Tracked, NEW p \in pending_avatar_writes,
           pending_avatar_writes' = pending_avatar_writes \ {p},
           \/ abandoned' = abandoned
           \/ abandoned' = abandoned \cup {p.id} /\ p.id \notin applied,
           \A m \in net' : m \in net \/ m.type \in NoteTypes,
           \A m \in net' : m.type \in WriteTypes => m.id # p.id,
           \A m \in net :
              (m.type \in WriteTypes /\ m.id # p.id) => m \in net',
           UNCHANGED <<next_write_id, applied, pending_flushes, leaving>>
    PROVE  Tracked'
<1>1. NoteTypes \cap (WriteTypes \cup FlushTypes) = {}
  BY DEF NoteTypes, WriteTypes, FlushTypes
<1>2. \A m \in net' : m.type \in WriteTypes \cup FlushTypes => m \in net
  BY <1>1
<1>3. IdsUsed'
  <2>1. p.id < next_write_id
    BY DEF Tracked, IdsUsed
  <2> QED BY <1>2, <2>1 DEF Tracked, IdsUsed
<1>4. FlushesMatch'
  BY <1>2, WritesLeaveFlushes
<1>5. OnePending' /\ OneMessage' /\ AppliedIsPaid'
  BY <1>2 DEF Tracked, WritesTracked, OnePending, OneMessage, AppliedIsPaid
<1>6. NotGivenUp'
  BY DEF Tracked, WritesTracked, OnePending, NotGivenUp
<1>7. WritesAnswered'
  BY <1>2 DEF Tracked, WritesTracked, WritesAnswered
<1>8. AppliedAnswered'
  <2>1. ASSUME NEW r \in pending_avatar_writes', r.id \in applied
        PROVE  \E m \in net' : m.type = "ack" /\ m.id = r.id
    <3>1. r \in pending_avatar_writes /\ r.id # p.id
      BY DEF Tracked, WritesTracked, OnePending
    <3>2. PICK m \in net : m.type = "ack" /\ m.id = r.id
      BY <2>1, <3>1 DEF Tracked, WritesTracked, AppliedAnswered
    <3> QED BY <3>1, <3>2 DEF WriteTypes
  <2> QED BY <2>1 DEF AppliedAnswered
<1> QED BY <1>3, <1>4, <1>5, <1>6, <1>7, <1>8 DEF Tracked, WritesTracked

LEMMA AcceptTracked ==
    ASSUME ProfileTypeOK, Tracked, NEW m \in InFlight("notify"),
           AcceptAvatarPayment(m)
    PROVE  Tracked'
<1> DEFINE id == next_write_id
           p == [id |-> id, qid |-> m.qid, owner |-> m.payer,
                 created_at |-> now]
           r == [type |-> "write", id |-> id, owner |-> m.payer,
                 avatar |-> m.avatar, sent |-> now]
<1>1. /\ p.id = id /\ p.created_at = now
      /\ r.type = "write" /\ r.id = id /\ r.sent = now
  OBVIOUS
<1>2. /\ pending_avatar_writes' = pending_avatar_writes \cup {p}
      /\ net' = (net \ {m}) \cup {r}
      /\ next_write_id' = id + 1
      /\ UNCHANGED <<applied, abandoned, pending_flushes, leaving>>
  BY DEF AcceptAvatarPayment, Answer, flushVars, walletVars, pastVars
<1>3. m \in net /\ m.type \notin WriteTypes \cup FlushTypes
  BY DEF InFlight, WriteTypes, FlushTypes
<1>4. id \in Nat /\ now \in Nat /\ MaxTransit \in Nat
  BY IdsTyped, NetTyped, AvatarAssumption
<1> HIDE DEF p, r
<1>5. /\ \A q \in pending_avatar_writes : q.id # id
      /\ \A n \in net : n.type \in WriteTypes => n.id # id
      /\ id \notin applied \cup abandoned
  BY <1>4, IdsTyped DEF Tracked, IdsUsed
<1>6. IdsUsed'
  <2>1. \A i \in Nat : i < id => i < id + 1
    BY <1>4
  <2>2. id < id + 1
    BY <1>4
  <2> QED BY <1>1, <1>2, <2>1, <2>2, IdsTyped DEF Tracked, IdsUsed
<1>7. FlushesMatch'
  <2>1. \A n \in net' : n.type \in FlushTypes => n \in net
    BY <1>1, <1>2 DEF FlushTypes
  <2> QED BY <1>2, <2>1, WritesLeaveFlushes
<1>8. OnePending' /\ NotGivenUp' /\ AppliedIsPaid'
  BY <1>1, <1>2, <1>5
     DEF Tracked, WritesTracked, OnePending, NotGivenUp, AppliedIsPaid
<1>9. OneMessage'
  BY <1>1, <1>2, <1>5 DEF Tracked, WritesTracked, OneMessage
<1>10. WritesAnswered'
  <2>1. p \in pending_avatar_writes' /\ now <= now /\ now <= now + MaxTransit
    BY <1>2, <1>4
  <2>2. ASSUME NEW n \in net', n.type \in WriteTypes
        PROVE  \E q \in pending_avatar_writes' :
                  /\ q.id = n.id
                  /\ n.type = "write" => n.sent <= q.created_at
                  /\ n.sent <= q.created_at + MaxTransit
    <3>1. CASE n = r
      BY <1>1, <2>1, <3>1
    <3>2. CASE n \in net
      BY <1>2, <2>2, <3>2 DEF Tracked, WritesTracked, WritesAnswered
    <3> QED BY <1>2, <3>1, <3>2
  <2> QED BY <2>2 DEF WritesAnswered
<1>11. AppliedAnswered'
  BY <1>1, <1>2, <1>3, <1>5
     DEF Tracked, WritesTracked, AppliedAnswered, WriteTypes
<1> QED BY <1>6, <1>7, <1>8, <1>9, <1>10, <1>11 DEF Tracked, WritesTracked

(* A write asked for is pending, and not given up.                         *)
LEMMA AskedIsPending ==
    ASSUME Tracked, NEW m \in net, m.type \in WriteTypes
    PROVE  /\ m.id \notin abandoned
           /\ \A n \in net : n.type \in WriteTypes /\ n.id = m.id => n = m
           /\ Write(m.id) # {}
           /\ m.type # "ack" =>
                 \A p \in pending_avatar_writes :
                     p.id = m.id => p.id \notin applied
BY DEF Tracked, WritesTracked, OneMessage, NotGivenUp, WritesAnswered,
       AppliedAnswered, Write, WriteTypes

(* The shard answers: with an acknowledgement, or the message bounces.     *)
LEMMA ShardAnswers ==
    ASSUME ProfileTypeOK, MessagesDated, Tracked, NEW m \in InFlight("write"),
           NEW r, r.type \in {"ack", "writeBounce"}, r.id = m.id,
           r.sent = now,
           net' = (net \ {m}) \cup {r},
           \/ applied' = applied
           \/ r.type = "ack" /\ applied' = applied \cup {m.id},
           UNCHANGED <<next_write_id, pending_avatar_writes, abandoned,
                       pending_flushes, leaving>>
    PROVE  Tracked'
<1>1. m \in net /\ m.type = "write" /\ r.type \in WriteTypes
  BY DEF InFlight, WriteTypes
<1>2. /\ m.id \notin abandoned
      /\ \A n \in net : n.type \in WriteTypes /\ n.id = m.id => n = m
      /\ \A p \in pending_avatar_writes : p.id = m.id => p.id \notin applied
  BY <1>1, AskedIsPending DEF WriteTypes
<1>3. m.id < next_write_id
  BY <1>1 DEF Tracked, IdsUsed, WriteTypes
<1>4. IdsUsed'
  BY <1>3 DEF Tracked, IdsUsed
<1>5. FlushesMatch'
  <2>1. \A n \in net' : n.type \in FlushTypes => n \in net
    BY DEF FlushTypes
  <2> QED BY <2>1, WritesLeaveFlushes
<1>6. OnePending' /\ NotGivenUp'
  BY DEF Tracked, WritesTracked, OnePending, NotGivenUp
<1>7. AppliedIsPaid'
  BY <1>2 DEF Tracked, WritesTracked, AppliedIsPaid
<1>8. OneMessage'
  <2>1. \A n \in net' : n = r \/ (n \in net /\ n # m)
    OBVIOUS
  <2> QED BY <1>1, <1>2, <2>1 DEF Tracked, WritesTracked, OneMessage
<1>9. WritesAnswered'
  <2>1. PICK p \in pending_avatar_writes :
           p.id = m.id /\ m.sent <= p.created_at
    BY <1>1 DEF Tracked, WritesTracked, WritesAnswered, WriteTypes
  <2>2. now <= m.sent + MaxTransit
    BY <1>1 DEF MessagesDated
  <2>3. /\ now \in Nat /\ MaxTransit \in Nat /\ m.sent \in Nat
        /\ p.created_at \in Nat
    BY <1>1, NetTyped, MessageKinds, AvatarAssumption, IdsTyped
  <2>4. r.sent <= p.created_at + MaxTransit
    BY <2>1, <2>2, <2>3
  <2>5. r.type # "write"
    OBVIOUS
  <2> QED BY <2>1, <2>4, <2>5 DEF Tracked, WritesTracked, WritesAnswered
<1>10. AppliedAnswered'
  <2>1. ASSUME NEW p \in pending_avatar_writes, p.id \in applied'
        PROVE  \E n \in net' : n.type = "ack" /\ n.id = p.id
    <3>1. CASE p.id \in applied
      <4>1. PICK n \in net : n.type = "ack" /\ n.id = p.id
        BY <3>1 DEF Tracked, WritesTracked, AppliedAnswered
      <4> QED BY <1>1, <4>1
    <3>2. CASE p.id \notin applied
      BY <2>1, <3>2
    <3> QED BY <3>1, <3>2
  <2> QED BY <2>1 DEF AppliedAnswered
<1> QED BY <1>4, <1>5, <1>6, <1>7, <1>8, <1>9, <1>10 DEF Tracked, WritesTracked

(* A bounce that is short of value leaves the write pending, dated long    *)
(* ago, with no message on its way.                                        *)
LEMMA ShortTracked ==
    ASSUME ProfileTypeOK, Tracked, NEW m \in InFlight("writeBounce"),
           BouncedAvatarPointerShort(m)
    PROVE  Tracked'
<1>1. PICK p \in Write(m.id) :
         /\ pending_avatar_writes' =
               (pending_avatar_writes \ {p}) \cup {[p EXCEPT !.created_at = 0]}
         /\ net' = net \ {m}
         /\ UNCHANGED <<next_write_id, applied, abandoned, pending_flushes,
                        leaving>>
  BY DEF BouncedAvatarPointerShort, Consume, flushVars, walletVars, pastVars
<1>2. p \in pending_avatar_writes /\ p.id = m.id /\ p \in PendingWrites
  BY NotesTyped DEF Write
<1> DEFINE r == [p EXCEPT !.created_at = 0]
<1>3. r.id = p.id
  BY <1>2 DEF PendingWrites
<1>4. m \in net /\ m.type = "writeBounce" /\ m.type \in WriteTypes
  BY DEF InFlight, WriteTypes
<1>5. /\ \A n \in net : n.type \in WriteTypes /\ n.id = m.id => n = m
      /\ p.id \notin applied
  BY <1>2, <1>4, AskedIsPending
<1>6. pending_avatar_writes' = (pending_avatar_writes \ {p}) \cup {r}
  BY <1>1
<1> HIDE DEF r
<1>7. IdsUsed'
  BY <1>1, <1>2, <1>3, <1>6 DEF Tracked, IdsUsed
<1>8. FlushesMatch'
  BY <1>1, WritesLeaveFlushes
<1>9. OnePending' /\ NotGivenUp' /\ AppliedIsPaid'
  BY <1>1, <1>2, <1>3, <1>6
     DEF Tracked, WritesTracked, OnePending, NotGivenUp, AppliedIsPaid
<1>10. OneMessage'
  BY <1>1 DEF Tracked, WritesTracked, OneMessage
<1>11. WritesAnswered'
  BY <1>1, <1>2, <1>5, <1>6 DEF Tracked, WritesTracked, WritesAnswered
<1>12. AppliedAnswered'
  BY <1>1, <1>2, <1>3, <1>4, <1>5, <1>6
     DEF Tracked, WritesTracked, AppliedAnswered
<1> QED BY <1>7, <1>8, <1>9, <1>10, <1>11, <1>12 DEF Tracked, WritesTracked

(* Who is old enough to be given up has no message on its way: what the    *)
(* shard made is acknowledged by then.                                     *)
LEMMA StaleIsUnasked ==
    ASSUME ProfileTypeOK, MessagesDated, Tracked,
           NEW p \in pending_avatar_writes, now >= p.created_at + StaleTTL
    PROVE  /\ \A m \in net : m.type \in WriteTypes => m.id # p.id
           /\ p.id \notin applied
<1>1. /\ now \in Nat /\ MaxTransit \in Nat /\ StaleTTL \in Nat
      /\ p.created_at \in Nat /\ 2 * MaxTransit < StaleTTL
  BY NetTyped, IdsTyped, AvatarAssumption, StaleAssumption
<1>2. ASSUME NEW m \in net, m.type \in WriteTypes, m.id = p.id
      PROVE  FALSE
  <2>1. m.sent \in Nat
    BY NetTyped, MessageKinds
  <2>2. m.sent <= p.created_at + MaxTransit
    BY <1>2 DEF Tracked, WritesTracked, WritesAnswered, OnePending
  <2>3. now <= m.sent + MaxTransit
    BY DEF MessagesDated
  <2> QED BY <1>1, <2>1, <2>2, <2>3
<1>3. p.id \notin applied
  BY <1>2 DEF Tracked, WritesTracked, AppliedAnswered, WriteTypes
<1> QED BY <1>2, <1>3

LEMMA WriteStepTracked ==
    ASSUME ProfileTypeOK, MessagesDated, Tracked, WriteStep
    PROVE  Tracked'
<1>1. ASSUME NEW m \in InFlight("notify"), RefuseAvatarPayment(m)
      PROVE  Tracked'
  <2> DEFINE b == Bounced(m, "notifyBounce")
  <2>1. m \in net /\ m \in Messages /\ m.type \notin WriteTypes
    BY NetTyped DEF InFlight, WriteTypes
  <2>2. b.type \in NoteTypes
    BY <2>1, BouncedFields DEF NoteTypes
  <2>3. /\ net' = (net \ {m}) \cup {b}
        /\ UNCHANGED <<next_write_id, pending_avatar_writes, applied,
                       abandoned, pending_flushes, leaving>>
    BY <1>1 DEF RefuseAvatarPayment, Bounce, Answer, Bounced, writeVars,
                flushVars, walletVars, pastVars
  <2> HIDE DEF b
  <2> QED BY <2>1, <2>2, <2>3, NotesKeep
<1>2. ASSUME NEW m \in InFlight("write"), SetAvatarPointer(m)
      PROVE  Tracked'
  <2> DEFINE r == AckOf(m)
  <2>1. r.type = "ack" /\ r.id = m.id /\ r.sent = now
    BY DEF AckOf
  <2>2. /\ net' = (net \ {m}) \cup {r}
        /\ applied' = applied \cup {m.id}
        /\ UNCHANGED <<next_write_id, pending_avatar_writes, abandoned,
                       pending_flushes, leaving>>
    BY <1>2 DEF SetAvatarPointer, Answer, AckOf, writeVars, flushVars,
                walletVars
  <2> HIDE DEF r
  <2>3. r.type \in {"ack", "writeBounce"}
    BY <2>1
  <2> QED BY <2>1, <2>2, <2>3, ShardAnswers
<1>3. ASSUME NEW m \in InFlight("write"), RefuseAvatarPointer(m)
      PROVE  Tracked'
  <2> DEFINE r == Bounced(m, "writeBounce")
  <2>1. m \in Messages /\ m.type \in WriteTypes
    BY NetTyped DEF InFlight, WriteTypes
  <2>2. r.type = "writeBounce" /\ r.id = m.id /\ r.sent = now
    BY <2>1, BouncedFields
  <2>3. /\ net' = (net \ {m}) \cup {r}
        /\ UNCHANGED <<next_write_id, pending_avatar_writes, applied,
                       abandoned, pending_flushes, leaving>>
    BY <1>3 DEF RefuseAvatarPointer, Bounce, Answer, Bounced, writeVars,
                flushVars, walletVars, pastVars
  <2> HIDE DEF r
  <2>4. r.type \in {"ack", "writeBounce"}
    BY <2>2
  <2> QED BY <2>2, <2>3, <2>4, ShardAnswers
<1>4. ASSUME NEW m \in net, m.type \in {"ack", "writeBounce"}
      PROVE  /\ m.type \in WriteTypes /\ Write(m.id) # {}
             /\ ~StaleAnswer(m)
             /\ \A n \in net : n.type \in WriteTypes /\ n.id = m.id => n = m
             /\ m.type = "writeBounce" =>
                   \A p \in pending_avatar_writes :
                       p.id = m.id => p.id \notin applied
  <2>1. m.type \in WriteTypes
    BY <1>4 DEF WriteTypes
  <2> QED BY <1>4, <2>1, AskedIsPending DEF StaleAnswer
<1>5. ASSUME NEW m \in InFlight("ack"), AvatarPointerAck(m) PROVE Tracked'
  <2>1. m \in net /\ m.type = "ack"
    BY DEF InFlight
  <2>2. PICK p \in Write(m.id) :
           /\ pending_avatar_writes' = pending_avatar_writes \ {p}
           /\ net' = (net \ {m}) \cup {NoteAckOf(p)}
           /\ UNCHANGED <<next_write_id, pending_flushes, applied, abandoned,
                          leaving>>
    BY <1>5 DEF AvatarPointerAck, Answer, NoteAckOf, walletVars, pastVars
  <2>3. p \in pending_avatar_writes /\ p.id = m.id
    BY DEF Write
  <2>4. NoteAckOf(p).type \in NoteTypes \ WriteTypes
    BY DEF NoteAckOf, NoteTypes, WriteTypes
  <2>5. \A n \in net' : n \in net \/ n.type \in NoteTypes
    BY <2>2, <2>4
  <2>6. \A n \in net' : n.type \in WriteTypes => n.id # p.id
    BY <1>4, <2>1, <2>2, <2>3, <2>4
  <2>7. \A n \in net : (n.type \in WriteTypes /\ n.id # p.id) => n \in net'
    BY <2>2, <2>3
  <2> QED BY <2>2, <2>3, <2>5, <2>6, <2>7, DecidedTracked
<1>6. ASSUME NEW m \in InFlight("writeBounce"), BouncedAvatarPointer(m)
      PROVE  Tracked'
  <2>1. m \in net /\ m.type = "writeBounce"
    BY DEF InFlight
  <2>2. PICK p \in Write(m.id) :
           /\ pending_avatar_writes' = pending_avatar_writes \ {p}
           /\ abandoned' = abandoned \cup {p.id}
           /\ net' = (net \ {m}) \cup {NoteRefund(p)}
           /\ UNCHANGED <<next_write_id, pending_flushes, applied, leaving>>
    BY <1>6 DEF BouncedAvatarPointer, Abandon, Answer, flushVars, walletVars
  <2>3. p \in pending_avatar_writes /\ p.id = m.id
    BY DEF Write
  <2>4. NoteRefund(p).type \in NoteTypes \ WriteTypes
    BY DEF NoteRefund, NoteTypes, WriteTypes
  <2>5. \A n \in net' : n \in net \/ n.type \in NoteTypes
    BY <2>2, <2>4
  <2>6. \A n \in net' : n.type \in WriteTypes => n.id # p.id
    BY <1>4, <2>1, <2>2, <2>3, <2>4
  <2>7. \A n \in net : (n.type \in WriteTypes /\ n.id # p.id) => n \in net'
    BY <2>2, <2>3
  <2>8. p.id \notin applied
    BY <1>4, <2>1, <2>3
  <2> QED BY <2>2, <2>3, <2>5, <2>6, <2>7, <2>8, DecidedTracked
<1>7. ASSUME NEW p \in pending_avatar_writes, PruneStaleAvatarWrite(p)
      PROVE  Tracked'
  <2>1. /\ now >= p.created_at + StaleTTL
        /\ pending_avatar_writes' = pending_avatar_writes \ {p}
        /\ abandoned' = abandoned \cup {p.id}
        /\ net' = net \cup {NoteRefund(p)}
        /\ UNCHANGED <<next_write_id, pending_flushes, applied, leaving>>
    BY <1>7 DEF PruneStaleAvatarWrite, Abandon, flushVars, walletVars
  <2>2. NoteRefund(p).type \in NoteTypes \ WriteTypes
    BY DEF NoteRefund, NoteTypes, WriteTypes
  <2>3. /\ \A m \in net : m.type \in WriteTypes => m.id # p.id
        /\ p.id \notin applied
    BY <2>1, StaleIsUnasked
  <2>4. \A n \in net' : n \in net \/ n.type \in NoteTypes
    BY <2>1, <2>2
  <2>5. \A n \in net' : n.type \in WriteTypes => n.id # p.id
    BY <2>1, <2>2, <2>3
  <2>6. \A n \in net : (n.type \in WriteTypes /\ n.id # p.id) => n \in net'
    BY <2>1
  <2> QED BY <2>1, <2>3, <2>4, <2>5, <2>6, DecidedTracked
<1>8. \A m \in InFlight("ack") \cup InFlight("writeBounce") :
         m \in net /\ m.type \in {"ack", "writeBounce"}
  BY DEF InFlight
<1> QED BY <1>1, <1>2, <1>3, <1>4, <1>5, <1>6, <1>7, <1>8, AcceptTracked,
           ShortTracked DEF WriteStep

LEMMA NextTracked ==
    ASSUME ProfileTypeOK, MessagesDated, Tracked, Next
    PROVE  Tracked'
<1>1. ASSUME NEW m \in net, Lose(m) PROVE Tracked'
  <2>1. m.type \notin WriteTypes
    BY <1>1 DEF Lose, WriteTypes
  <2> QED BY <1>1, <2>1, NotesKeep
          DEF Lose, Consume, writeVars, flushVars, walletVars, pastVars
<1>2. CASE UNCHANGED <<writeVars, flushVars, walletVars, pastVars, net>>
  BY <1>2, NotesKeep DEF writeVars, flushVars, walletVars, pastVars
<1>3. Tick => UNCHANGED <<writeVars, flushVars, walletVars, pastVars, net>>
  BY DEF Tick
<1> QED BY <1>1, <1>2, <1>3, PayTracked, WriteStepTracked, NoteStepTracked,
           FlushStepTracked DEF Next

-----------------------------------------------------------------------------
(* What is owed.                                                           *)

LEMMA CountOfPart ==
    ASSUME NEW S, IsFiniteSet(S), NEW T, T \subseteq S
    PROVE  Cardinality(T) <= Cardinality(S)
BY FS_Subset

LEMMA CountWith ==
    ASSUME NEW S, IsFiniteSet(S), NEW x, NEW T, T \subseteq S \cup {x}
    PROVE  Cardinality(T) <= Cardinality(S) + 1
<1>1. /\ IsFiniteSet(S \cup {x}) /\ Cardinality(S) \in Nat
      /\ Cardinality(S \cup {x}) <= Cardinality(S) + 1
      /\ Cardinality(S \cup {x}) \in Nat
  BY FS_AddElement, FS_CardinalityType
<1>2. Cardinality(T) <= Cardinality(S \cup {x}) /\ IsFiniteSet(T)
  BY <1>1, FS_Subset
<1>3. Cardinality(T) \in Nat
  BY <1>2, FS_CardinalityType
<1> QED BY <1>1, <1>2, <1>3

LEMMA CountWithout ==
    ASSUME NEW S, IsFiniteSet(S), NEW x \in S, NEW T, T \subseteq S \ {x}
    PROVE  Cardinality(T) <= Cardinality(S) - 1
<1>1. /\ IsFiniteSet(S \ {x})
      /\ Cardinality(S \ {x}) = Cardinality(S) - 1
  BY FS_RemoveElement
<1> QED BY <1>1, CountOfPart

LEMMA CountMoved ==
    ASSUME NEW S, IsFiniteSet(S), NEW x \in S, NEW y, NEW T,
           T \subseteq (S \ {x}) \cup {y}
    PROVE  Cardinality(T) <= Cardinality(S)
<1>1. /\ IsFiniteSet(S \ {x})
      /\ Cardinality(S \ {x}) = Cardinality(S) - 1
      /\ Cardinality(S) \in Nat
  BY FS_RemoveElement, FS_CardinalityType
<1>2. Cardinality(T) <= Cardinality(S \ {x}) + 1
  BY <1>1, CountWith
<1>3. Cardinality(S) - 1 + 1 = Cardinality(S)
  BY <1>1
<1> QED BY <1>1, <1>2, <1>3

Amounts(S) == IsFiniteSet(S) /\ \A t \in S : t.amount \in Nat

LEMMA TotalOfPart ==
    ASSUME NEW S, Amounts(S), NEW T, T \subseteq S
    PROVE  TotalAmount(T) <= TotalAmount(S)
BY AmountsOfPart DEF Amounts

LEMMA TotalWith ==
    ASSUME NEW S, Amounts(S), NEW x, x.amount \in Nat,
           NEW T, T \subseteq S \cup {x}
    PROVE  TotalAmount(T) <= TotalAmount(S) + x.amount
<1>1. Amounts(S \cup {x})
  BY FS_AddElement DEF Amounts
<1>2. Amounts(T)
  BY <1>1, FS_Subset DEF Amounts
<1>3. TotalAmount(T) <= TotalAmount(S \cup {x})
  BY <1>1, TotalOfPart
<1>4. TotalAmount(S \cup {x}) <= TotalAmount(S) + x.amount
  BY AmountsWithAtMost DEF Amounts
<1>5. /\ TotalAmount(T) \in Nat /\ TotalAmount(S) \in Nat
      /\ TotalAmount(S \cup {x}) \in Nat
  BY <1>1, <1>2, AmountsNatural DEF Amounts
<1> QED BY <1>3, <1>4, <1>5

LEMMA TotalWithout ==
    ASSUME NEW S, Amounts(S), NEW x \in S, NEW T, T \subseteq S \ {x}
    PROVE  TotalAmount(T) <= TotalAmount(S) - x.amount
<1>1. Amounts(S \ {x}) /\ TotalAmount(S) = TotalAmount(S \ {x}) + x.amount
  BY AmountsWithout DEF Amounts
<1>2. TotalAmount(T) <= TotalAmount(S \ {x})
  BY <1>1, TotalOfPart
<1>3. x.amount \in Nat /\ TotalAmount(S \ {x}) \in Nat
  BY <1>1, AmountsNatural DEF Amounts
<1> QED BY <1>1, <1>2, <1>3

LEMMA TotalMoved ==
    ASSUME NEW S, Amounts(S), NEW x \in S, NEW y, y.amount = x.amount,
           NEW T, T \subseteq (S \ {x}) \cup {y}
    PROVE  TotalAmount(T) <= TotalAmount(S)
<1>1. Amounts(S \ {x}) /\ TotalAmount(S) = TotalAmount(S \ {x}) + x.amount
  BY AmountsWithout DEF Amounts
<1>2. y.amount \in Nat
  BY DEF Amounts
<1>3. TotalAmount(T) <= TotalAmount(S \ {x}) + y.amount
  BY <1>1, <1>2, TotalWith
<1> QED BY <1>1, <1>3

(* The parts of what is owed.                                              *)
OwedDue == due.treasury + due.burn
OwedFlushed == TotalAmount(Unflushed)
OwedPending == Cardinality(pending_avatar_writes)
OwedUndecided == Cardinality(Undecided)

OwedCovered == balance >= OwedDue + OwedFlushed + 2 * OwedPending
                             + 2 * OwedUndecided

LEMMA CoveredIs == PaymentsCovered <=> OwedCovered
BY DEF PaymentsCovered, Price, AmountsOf, TotalAmount, OwedDue, OwedFlushed,
       OwedPending, OwedUndecided, OwedCovered

OwedOK ==
    /\ balance \in Nat /\ OwedDue \in Nat
    /\ OwedFlushed \in Nat /\ OwedPending \in Nat /\ OwedUndecided \in Nat
    /\ IsFiniteSet(pending_avatar_writes) /\ IsFiniteSet(Undecided)
    /\ Amounts(Unflushed)

LEMMA OwedTyped == ProfileTypeOK => OwedOK
<1> SUFFICES ASSUME ProfileTypeOK PROVE OwedOK
  OBVIOUS
<1>1. IsFiniteSet(net) /\ IsFiniteSet(pending_avatar_writes)
  BY NetTyped DEF ProfileTypeOK, RegistryTyped, PendingOK
<1>2. Undecided \in SUBSET net /\ Unflushed \in SUBSET net
  BY DEF Undecided, Unflushed, InFlight
<1>3. IsFiniteSet(Undecided) /\ IsFiniteSet(Unflushed)
  BY <1>1, <1>2, FS_Subset
<1>4. \A m \in Unflushed : m \in net /\ m.type \in FlushTypes
  BY DEF Unflushed, InFlight, FlushTypes
<1>5. \A m \in Unflushed : m.amount \in Nat
  BY <1>4, NetTyped, MessageKinds DEF Flushes
<1>6. Amounts(Unflushed)
  BY <1>3, <1>5 DEF Amounts
<1>7. OwedFlushed \in Nat
  BY <1>3, <1>5, AmountsNatural DEF OwedFlushed
<1>8. OwedPending \in Nat /\ OwedUndecided \in Nat
  BY <1>1, <1>3, FS_CardinalityType DEF OwedPending, OwedUndecided
<1>9. balance \in Nat /\ OwedDue \in Nat
  BY DEF ProfileTypeOK, WalletTyped, RegistryTyped, Kinds, OwedDue
<1> QED BY <1>1, <1>3, <1>6, <1>7, <1>8, <1>9 DEF OwedOK

(* The wallet gains at least what the parts of what is owed gain together. *)
LEMMA CoveredStep ==
    ASSUME ProfileTypeOK, ProfileTypeOK', PaymentsCovered,
           NEW gain \in Int, NEW dues \in Int, NEW flushed \in Int,
           NEW pending \in Int, NEW undecided \in Int,
           balance' >= balance + gain,
           OwedDue' = OwedDue + dues,
           OwedFlushed' <= OwedFlushed + flushed,
           OwedPending' <= OwedPending + pending,
           OwedUndecided' <= OwedUndecided + undecided,
           gain >= dues + flushed + 2 * pending + 2 * undecided
    PROVE  PaymentsCovered'
<1>1. /\ balance \in Nat /\ OwedDue \in Nat
      /\ OwedFlushed \in Nat /\ OwedPending \in Nat /\ OwedUndecided \in Nat
  BY OwedTyped DEF OwedOK
<1>2. /\ balance' \in Nat /\ OwedDue' \in Nat
      /\ OwedFlushed' \in Nat /\ OwedPending' \in Nat /\ OwedUndecided' \in Nat
  <2>1. ProfileTypeOK' => OwedOK'
    BY OwedTyped, PTL
  <2> QED BY <2>1 DEF OwedOK
<1>3. balance >= OwedDue + OwedFlushed + 2 * OwedPending + 2 * OwedUndecided
  BY CoveredIs DEF OwedCovered
<1>4. balance' >= OwedDue' + OwedFlushed' + 2 * OwedPending'
                     + 2 * OwedUndecided'
  <2> DEFINE b == balance  d == OwedDue  f == OwedFlushed
             p == OwedPending  u == OwedUndecided
             b1 == balance'  d1 == OwedDue'  f1 == OwedFlushed'
             p1 == OwedPending'  u1 == OwedUndecided'
  <2>1. /\ b \in Nat /\ d \in Nat /\ f \in Nat /\ p \in Nat /\ u \in Nat
        /\ b1 \in Nat /\ d1 \in Nat /\ f1 \in Nat /\ p1 \in Nat
        /\ u1 \in Nat
    BY <1>1, <1>2
  <2>2. b >= d + f + 2 * p + 2 * u
    BY <1>3
  <2>3. /\ b1 >= b + gain /\ d1 = d + dues /\ f1 <= f + flushed
        /\ p1 <= p + pending /\ u1 <= u + undecided
    OBVIOUS
  <2> HIDE DEF b, d, f, p, u, b1, d1, f1, p1, u1
  <2>4. b1 >= d1 + f1 + 2 * p1 + 2 * u1
    BY <2>1, <2>2, <2>3
  <2> QED BY <2>4 DEF b1, d1, f1, p1, u1
<1>5. PaymentsCovered' <=> OwedCovered'
  BY CoveredIs, PTL
<1> QED BY <1>4, <1>5 DEF OwedCovered

UndecidedTypes == {"notify", "notifyBounce", "noteRefund"}
UnflushedTypes == {"request", "failed"}
OwingTypes == UndecidedTypes \cup UnflushedTypes

(* The amounts owed in messages, of which some may have been received and  *)
(* none was sent.                                                          *)
LEMMA NoMoreOwed ==
    ASSUME ProfileTypeOK, pending_flushes' \subseteq pending_flushes,
           \A m \in net' : m.type \in UnflushedTypes => m \in net
    PROVE  OwedFlushed' <= OwedFlushed
<1>1. Unflushed' \subseteq Unflushed
  BY DEF Unflushed, InFlight, Flush, UnflushedTypes
<1>2. TotalAmount(Unflushed') <= TotalAmount(Unflushed)
  BY <1>1, OwedTyped, TotalOfPart DEF OwedOK
<1> QED BY <1>2 DEF OwedFlushed

LEMMA NoMoreUndecided ==
    ASSUME ProfileTypeOK,
           \A m \in net' : m.type \in UndecidedTypes => m \in net
    PROVE  OwedUndecided' <= OwedUndecided
<1>1. Undecided' \subseteq Undecided
  BY DEF Undecided, InFlight, UndecidedTypes
<1>2. Cardinality(Undecided') <= Cardinality(Undecided)
  BY <1>1, OwedTyped, CountOfPart DEF OwedOK
<1> QED BY <1>2 DEF OwedUndecided

(* One message more is undecided, or one less.                             *)
LEMMA MoreUndecided ==
    ASSUME ProfileTypeOK, NEW r,
           \A m \in net' : m.type \in UndecidedTypes => m \in net \/ m = r
    PROVE  OwedUndecided' <= OwedUndecided + 1
<1>1. Undecided' \subseteq Undecided \cup {r}
  BY DEF Undecided, InFlight, UndecidedTypes
<1>2. Cardinality(Undecided') <= Cardinality(Undecided) + 1
  BY <1>1, OwedTyped, CountWith DEF OwedOK
<1> QED BY <1>2 DEF OwedUndecided

LEMMA LessUndecided ==
    ASSUME ProfileTypeOK, NEW r \in net, r.type \in UndecidedTypes,
           \A m \in net' :
              m.type \in UndecidedTypes => m \in net /\ m # r
    PROVE  OwedUndecided' <= OwedUndecided - 1
<1>1. Undecided' \subseteq Undecided \ {r} /\ r \in Undecided
  BY DEF Undecided, InFlight, UndecidedTypes
<1>2. Cardinality(Undecided') <= Cardinality(Undecided) - 1
  BY <1>1, OwedTyped, CountWithout DEF OwedOK
<1> QED BY <1>2 DEF OwedUndecided

LEMMA MovedUndecided ==
    ASSUME ProfileTypeOK, NEW r \in net, r.type \in UndecidedTypes, NEW s,
           \A m \in net' :
              m.type \in UndecidedTypes => m = s \/ (m \in net /\ m # r)
    PROVE  OwedUndecided' <= OwedUndecided
<1>1. Undecided' \subseteq (Undecided \ {r}) \cup {s} /\ r \in Undecided
  BY DEF Undecided, InFlight, UndecidedTypes
<1>2. Cardinality(Undecided') <= Cardinality(Undecided)
  BY <1>1, OwedTyped, CountMoved DEF OwedOK
<1> QED BY <1>2 DEF OwedUndecided

LEMMA SameOwed ==
    ASSUME ProfileTypeOK
    PROVE  /\ UNCHANGED due => OwedDue' = OwedDue
           /\ UNCHANGED pending_avatar_writes => OwedPending' = OwedPending
           /\ \A p \in pending_avatar_writes :
                 pending_avatar_writes' = pending_avatar_writes \ {p}
                    => OwedPending' <= OwedPending - 1
           /\ \A p :
                 pending_avatar_writes' = pending_avatar_writes \cup {p}
                    => OwedPending' <= OwedPending + 1
           /\ \A p \in pending_avatar_writes : \A q :
                 pending_avatar_writes'
                    = (pending_avatar_writes \ {p}) \cup {q}
                 => OwedPending' <= OwedPending
<1>1. IsFiniteSet(pending_avatar_writes)
  BY OwedTyped DEF OwedOK
<1>2. UNCHANGED due => OwedDue' = OwedDue
  BY DEF OwedDue
<1>3. UNCHANGED pending_avatar_writes => OwedPending' = OwedPending
  BY DEF OwedPending
<1>4. ASSUME NEW p \in pending_avatar_writes,
             pending_avatar_writes' = pending_avatar_writes \ {p}
      PROVE  OwedPending' <= OwedPending - 1
  <2>1. pending_avatar_writes' \subseteq pending_avatar_writes \ {p}
    BY <1>4
  <2> QED BY <1>1, <2>1, CountWithout DEF OwedPending
<1>5. ASSUME NEW p, pending_avatar_writes' = pending_avatar_writes \cup {p}
      PROVE  OwedPending' <= OwedPending + 1
  <2>1. pending_avatar_writes' \subseteq pending_avatar_writes \cup {p}
    BY <1>5
  <2> QED BY <1>1, <2>1, CountWith DEF OwedPending
<1>6. ASSUME NEW p \in pending_avatar_writes, NEW q,
             pending_avatar_writes' = (pending_avatar_writes \ {p}) \cup {q}
      PROVE  OwedPending' <= OwedPending
  <2>1. pending_avatar_writes'
           \subseteq (pending_avatar_writes \ {p}) \cup {q}
    BY <1>6
  <2> QED BY <1>1, <2>1, CountMoved DEF OwedPending
<1> QED BY <1>2, <1>3, <1>4, <1>5, <1>6

(* The steps that owe nothing more.                                        *)
LEMMA CoveredStays ==
    ASSUME ProfileTypeOK, ProfileTypeOK', PaymentsCovered,
           balance' >= balance, UNCHANGED due,
           OwedPending' <= OwedPending,
           pending_flushes' \subseteq pending_flushes,
           \A m \in net' : m.type \in OwingTypes => m \in net
    PROVE  PaymentsCovered'
<1>1. OwedFlushed' <= OwedFlushed /\ OwedUndecided' <= OwedUndecided
  BY NoMoreOwed, NoMoreUndecided DEF OwingTypes
<1>2. /\ balance \in Nat /\ OwedFlushed \in Nat /\ OwedPending \in Nat
      /\ OwedUndecided \in Nat /\ OwedDue \in Nat
  BY OwedTyped DEF OwedOK
<1>3. OwedDue' = OwedDue
  BY SameOwed
<1>4. /\ balance' >= balance + 0 /\ OwedDue' = OwedDue + 0
      /\ OwedFlushed' <= OwedFlushed + 0 /\ OwedPending' <= OwedPending + 0
      /\ OwedUndecided' <= OwedUndecided + 0
  BY <1>1, <1>2, <1>3
<1>5. 0 \in Int /\ 0 >= 0 + 0 + 2 * 0 + 2 * 0
  OBVIOUS
<1> QED BY <1>4, <1>5, CoveredStep

LEMMA PayCovered ==
    ASSUME ProfileTypeOK, ProfileTypeOK', PaymentsCovered,
           NEW u \in Users, NEW q \in QueryIds, NEW a \in Avatars,
           Pay(u, q, a)
    PROVE  PaymentsCovered'
<1> DEFINE r == [type |-> "notify", qid |-> q, payer |-> u, avatar |-> a,
                 sent |-> now]
<1>1. /\ net' = net \cup {r} /\ r.type = "notify"
      /\ balance' = balance + 2
      /\ UNCHANGED <<pending_avatar_writes, due, pending_flushes>>
  BY DEF Pay, Price, writeVars, flushVars
<1> HIDE DEF r
<1>2. OwedUndecided' <= OwedUndecided + 1
  BY <1>1, MoreUndecided
<1>3. OwedFlushed' <= OwedFlushed
  BY <1>1, NoMoreOwed DEF UnflushedTypes
<1>4. OwedDue' = OwedDue /\ OwedPending' = OwedPending
  BY <1>1, SameOwed
<1>5. OwedOK
  BY OwedTyped
<1>6. /\ balance' >= balance + 2 /\ OwedDue' = OwedDue + 0
      /\ OwedFlushed' <= OwedFlushed + 0 /\ OwedPending' <= OwedPending + 0
  BY <1>1, <1>3, <1>4, <1>5 DEF OwedOK
<1>7. 2 >= 0 + 0 + 2 * 0 + 2 * 1
  OBVIOUS
<1> QED BY <1>2, <1>6, <1>7, CoveredStep

(* A payment that is accepted, sent back, or was made and is acknowledged  *)
(* moves from one part of what is owed to another.                         *)
LEMMA AcceptCovered ==
    ASSUME ProfileTypeOK, ProfileTypeOK', PaymentsCovered,
           NEW m \in InFlight("notify"), AcceptAvatarPayment(m)
    PROVE  PaymentsCovered'
<1> DEFINE p == [id |-> next_write_id, qid |-> m.qid, owner |-> m.payer,
                 created_at |-> now]
           r == [type |-> "write", id |-> next_write_id, owner |-> m.payer,
                 avatar |-> m.avatar, sent |-> now]
<1>1. /\ net' = (net \ {m}) \cup {r} /\ r.type = "write"
      /\ pending_avatar_writes' = pending_avatar_writes \cup {p}
      /\ UNCHANGED <<balance, due, pending_flushes>>
  BY DEF AcceptAvatarPayment, Answer, walletVars, flushVars
<1>2. m \in net /\ m.type = "notify"
  BY DEF InFlight
<1> HIDE DEF p, r
<1>3. OwedUndecided' <= OwedUndecided - 1
  BY <1>1, <1>2, LessUndecided DEF UndecidedTypes
<1>4. OwedFlushed' <= OwedFlushed
  BY <1>1, NoMoreOwed DEF UnflushedTypes
<1>5. OwedDue' = OwedDue /\ OwedPending' <= OwedPending + 1
  BY <1>1, SameOwed
<1>6. OwedOK
  BY OwedTyped
<1>7. /\ balance' >= balance + 0 /\ OwedDue' = OwedDue + 0
      /\ OwedFlushed' <= OwedFlushed + 0
      /\ OwedUndecided' <= OwedUndecided + (-1)
  BY <1>1, <1>3, <1>4, <1>5, <1>6 DEF OwedOK
<1>8. 0 >= 0 + 0 + 2 * 1 + 2 * (-1) /\ -1 \in Int
  OBVIOUS
<1> QED BY <1>5, <1>7, <1>8, CoveredStep

LEMMA RefuseCovered ==
    ASSUME ProfileTypeOK, ProfileTypeOK', PaymentsCovered,
           NEW m \in InFlight("notify"), RefuseAvatarPayment(m)
    PROVE  PaymentsCovered'
<1> DEFINE r == Bounced(m, "notifyBounce")
<1>1. m \in net /\ m.type = "notify" /\ m \in Messages
  BY NetTyped DEF InFlight
<1>2. r.type = "notifyBounce"
  BY <1>1, BouncedFields
<1>3. /\ net' = (net \ {m}) \cup {r}
      /\ UNCHANGED <<pending_avatar_writes, balance, due, pending_flushes>>
  BY DEF RefuseAvatarPayment, Bounce, Answer, Bounced, walletVars, flushVars,
         writeVars
<1> HIDE DEF r
<1>4. OwedUndecided' <= OwedUndecided
  BY <1>1, <1>3, MovedUndecided DEF UndecidedTypes
<1>5. OwedFlushed' <= OwedFlushed
  BY <1>2, <1>3, NoMoreOwed DEF UnflushedTypes
<1>6. OwedDue' = OwedDue /\ OwedPending' = OwedPending
  BY <1>3, SameOwed
<1>7. OwedOK
  BY OwedTyped
<1>8. /\ balance' >= balance + 0 /\ OwedDue' = OwedDue + 0
      /\ OwedFlushed' <= OwedFlushed + 0
      /\ OwedPending' <= OwedPending + 0
      /\ OwedUndecided' <= OwedUndecided + 0
  BY <1>3, <1>4, <1>5, <1>6, <1>7 DEF OwedOK
<1>9. 0 >= 0 + 0 + 2 * 0 + 2 * 0
  OBVIOUS
<1> QED BY <1>8, <1>9, CoveredStep

LEMMA AckCovered ==
    ASSUME ProfileTypeOK, ProfileTypeOK', PaymentsCovered,
           NEW m \in InFlight("ack"), AvatarPointerAck(m)
    PROVE  PaymentsCovered'
<1>1. PICK p \in Write(m.id) :
         /\ pending_avatar_writes' = pending_avatar_writes \ {p}
         /\ due' = [k \in Kinds |-> due[k] + 1]
         /\ net' = (net \ {m}) \cup {NoteAckOf(p)}
         /\ UNCHANGED <<pending_flushes, balance>>
  BY DEF AvatarPointerAck, Answer, NoteAckOf, walletVars
<1>2. p \in pending_avatar_writes /\ NoteAckOf(p).type = "noteAck"
  BY DEF Write, NoteAckOf
<1>3. OwedFlushed' <= OwedFlushed /\ OwedUndecided' <= OwedUndecided
  BY <1>1, <1>2, NoMoreOwed, NoMoreUndecided
     DEF UnflushedTypes, UndecidedTypes
<1>4. OwedPending' <= OwedPending - 1
  BY <1>1, <1>2, SameOwed
<1>5. OwedDue' = OwedDue + 2
  <2>1. due.treasury \in Nat /\ due.burn \in Nat
    BY DEF ProfileTypeOK, RegistryTyped, Kinds
  <2>2. due'.treasury = due.treasury + 1 /\ due'.burn = due.burn + 1
    BY <1>1 DEF Kinds
  <2> QED BY <2>1, <2>2 DEF OwedDue
<1>6. OwedOK
  BY OwedTyped
<1>7. /\ balance' >= balance + 0
      /\ OwedFlushed' <= OwedFlushed + 0
      /\ OwedPending' <= OwedPending + (-1)
      /\ OwedUndecided' <= OwedUndecided + 0
  BY <1>1, <1>3, <1>4, <1>6 DEF OwedOK
<1>8. 0 >= 2 + 0 + 2 * (-1) + 2 * 0 /\ -1 \in Int
  OBVIOUS
<1> QED BY <1>5, <1>7, <1>8, CoveredStep

LEMMA AbandonCovered ==
    ASSUME ProfileTypeOK, ProfileTypeOK', PaymentsCovered,
           NEW p \in pending_avatar_writes, Abandon(p),
           \/ net' = net \cup {NoteRefund(p)}
           \/ \E m : Answer(m, NoteRefund(p))
    PROVE  PaymentsCovered'
<1>1. /\ pending_avatar_writes' = pending_avatar_writes \ {p}
      /\ UNCHANGED <<due, pending_flushes, balance>>
      /\ \A n \in net' : n \in net \/ n = NoteRefund(p)
  BY DEF Abandon, Answer, walletVars, flushVars
<1>2. NoteRefund(p).type = "noteRefund"
  BY DEF NoteRefund
<1>3. OwedFlushed' <= OwedFlushed
  BY <1>1, <1>2, NoMoreOwed DEF UnflushedTypes
<1>4. OwedUndecided' <= OwedUndecided + 1
  BY <1>1, MoreUndecided
<1>5. OwedPending' <= OwedPending - 1 /\ OwedDue' = OwedDue
  BY <1>1, SameOwed
<1>6. OwedOK
  BY OwedTyped
<1>7. /\ balance' >= balance + 0 /\ OwedDue' = OwedDue + 0
      /\ OwedFlushed' <= OwedFlushed + 0
      /\ OwedPending' <= OwedPending + (-1)
  BY <1>1, <1>3, <1>5, <1>6 DEF OwedOK
<1>8. 0 >= 0 + 0 + 2 * (-1) + 2 * 1 /\ -1 \in Int
  OBVIOUS
<1> QED BY <1>4, <1>7, <1>8, CoveredStep

LEMMA RefundCovered ==
    ASSUME ProfileTypeOK, ProfileTypeOK', PaymentsCovered,
           NEW m \in net, m.type \in UndecidedTypes, RefundNotification(m)
    PROVE  PaymentsCovered'
<1>1. /\ balance >= 2 /\ balance' = balance - 2
      /\ net' = net \ {m}
      /\ UNCHANGED <<pending_avatar_writes, due, pending_flushes>>
  BY DEF RefundNotification, Consume, Price, writeVars, flushVars
<1>2. OwedUndecided' <= OwedUndecided - 1
  BY <1>1, LessUndecided
<1>3. OwedFlushed' <= OwedFlushed
  BY <1>1, NoMoreOwed
<1>4. OwedDue' = OwedDue /\ OwedPending' = OwedPending
  BY <1>1, SameOwed
<1>5. OwedOK
  BY OwedTyped
<1>6. /\ balance' >= balance + (-2) /\ OwedDue' = OwedDue + 0
      /\ OwedFlushed' <= OwedFlushed + 0
      /\ OwedPending' <= OwedPending + 0
      /\ OwedUndecided' <= OwedUndecided + (-1)
  BY <1>1, <1>2, <1>3, <1>4, <1>5 DEF OwedOK
<1>7. -2 >= 0 + 0 + 2 * 0 + 2 * (-1) /\ -1 \in Int /\ -2 \in Int
  OBVIOUS
<1> QED BY <1>6, <1>7, CoveredStep

(* A flush takes what is due of one kind along, in a message.              *)
LEMMA DueChanges ==
    ASSUME ProfileTypeOK, NEW k \in Kinds, NEW v \in Nat,
           due' = [due EXCEPT ![k] = v]
    PROVE  due[k] \in Nat /\ OwedDue' = OwedDue + (v - due[k])
<1>1. due.treasury \in Nat /\ due.burn \in Nat
  BY DEF ProfileTypeOK, RegistryTyped, Kinds
<1>2. DOMAIN due = Kinds
  BY DEF ProfileTypeOK, RegistryTyped
<1>3. CASE k = "treasury"
  <2>1. due'.treasury = v /\ due'.burn = due.burn
    BY <1>2, <1>3 DEF Kinds
  <2> QED BY <1>1, <1>3, <2>1 DEF OwedDue
<1>4. CASE k = "burn"
  <2>1. due'.burn = v /\ due'.treasury = due.treasury
    BY <1>2, <1>4 DEF Kinds
  <2> QED BY <1>1, <1>4, <2>1 DEF OwedDue
<1> QED BY <1>3, <1>4 DEF Kinds

LEMMA FlushDueCovered ==
    ASSUME ProfileTypeOK, ProfileTypeOK', PaymentsCovered, Tracked,
           NEW k \in Kinds, FlushDue(k)
    PROVE  PaymentsCovered'
<1> DEFINE r == RequestOf(k)
           f == FlushOf(k)
           a == due[k]
<1>1. /\ r.type = "request" /\ r.amount = a
      /\ f.id = next_write_id
  BY DEF RequestOf, FlushOf
<1>2. /\ net' = net \cup {r}
      /\ pending_flushes' = pending_flushes \cup {f}
      /\ due' = [due EXCEPT ![k] = 0]
      /\ UNCHANGED <<pending_avatar_writes, balance>>
  BY DEF FlushDue, RequestOf, FlushOf, walletVars
<1>3. a \in Nat /\ OwedDue' = OwedDue + (0 - a)
  BY <1>2, DueChanges
<1> HIDE DEF r, f, a
<1>4. \A m \in net : m.type = "failed" => m.id # next_write_id
  <2>1. \A m \in net : m.type = "failed" =>
           m.id \in Nat /\ m.id < next_write_id
    BY IdsTyped DEF Tracked, IdsUsed, FlushTypes
  <2> QED BY <2>1, IdsTyped
<1>5. Unflushed' \subseteq Unflushed \cup {r}
  BY <1>1, <1>2, <1>4 DEF Unflushed, InFlight, Flush
<1>6. TotalAmount(Unflushed') <= TotalAmount(Unflushed) + r.amount
  BY <1>1, <1>3, <1>5, OwedTyped, TotalWith DEF OwedOK
<1>7. OwedFlushed' <= OwedFlushed + a
  BY <1>1, <1>6 DEF OwedFlushed
<1>8. OwedUndecided' <= OwedUndecided
  BY <1>1, <1>2, NoMoreUndecided DEF UndecidedTypes
<1>9. OwedPending' = OwedPending
  BY <1>2, SameOwed
<1>10. OwedOK
  BY OwedTyped
<1>11. /\ balance' >= balance + 0
       /\ OwedPending' <= OwedPending + 0
       /\ OwedUndecided' <= OwedUndecided + 0
  BY <1>2, <1>8, <1>9, <1>10 DEF OwedOK
<1>12. 0 >= (0 - a) + a + 2 * 0 + 2 * 0 /\ 0 - a \in Int
  BY <1>3
<1> QED BY <1>3, <1>7, <1>11, <1>12, CoveredStep

LEMMA FlushRequestCovered ==
    ASSUME ProfileTypeOK, ProfileTypeOK', PaymentsCovered,
           NEW m \in InFlight("request"), FlushRequest(m)
    PROVE  PaymentsCovered'
<1> DEFINE a == m.amount
<1>1. m \in net /\ m.type = "request"
  BY DEF InFlight
<1>2. a \in Nat
  BY <1>1, NetTyped, MessageKinds DEF Flushes, FlushTypes
<1>3. /\ balance >= a /\ balance' = balance - a
      /\ net' = net \ {m}
      /\ UNCHANGED <<pending_avatar_writes, due, pending_flushes>>
  BY DEF FlushRequest, Consume, writeVars, flushVars
<1>4. m \in Unflushed /\ Unflushed' \subseteq Unflushed \ {m}
  BY <1>1, <1>3 DEF Unflushed, InFlight, Flush
<1>5. TotalAmount(Unflushed') <= TotalAmount(Unflushed) - a
  BY <1>4, OwedTyped, TotalWithout DEF OwedOK
<1>6. OwedFlushed' <= OwedFlushed - a
  BY <1>5 DEF OwedFlushed
<1>7. OwedUndecided' <= OwedUndecided
  BY <1>3, NoMoreUndecided
<1>8. OwedDue' = OwedDue /\ OwedPending' = OwedPending
  BY <1>3, SameOwed
<1>9. OwedOK
  BY OwedTyped
<1> HIDE DEF a
<1>10. /\ balance' >= balance + (0 - a) /\ OwedDue' = OwedDue + 0
       /\ OwedFlushed' <= OwedFlushed + (0 - a)
       /\ OwedPending' <= OwedPending + 0
       /\ OwedUndecided' <= OwedUndecided + 0
  BY <1>2, <1>3, <1>6, <1>7, <1>8, <1>9 DEF OwedOK
<1>11. 0 - a >= 0 + (0 - a) + 2 * 0 + 2 * 0 /\ 0 - a \in Int
  BY <1>2
<1> QED BY <1>10, <1>11, CoveredStep

LEMMA RefuseFlushCovered ==
    ASSUME ProfileTypeOK, ProfileTypeOK', PaymentsCovered,
           NEW m \in InFlight("request"), RefuseFlush(m)
    PROVE  PaymentsCovered'
<1> DEFINE r == Bounced(m, "failed")
<1>1. m \in net /\ m.type = "request" /\ m \in Messages
  BY NetTyped DEF InFlight
<1>2. r.type = "failed" /\ r.amount = m.amount
  BY <1>1, BouncedFields DEF FlushTypes
<1>3. /\ net' = (net \ {m}) \cup {r}
      /\ UNCHANGED <<pending_avatar_writes, balance, due, pending_flushes>>
  BY DEF RefuseFlush, Bounce, Answer, Bounced, walletVars, flushVars,
         writeVars
<1> HIDE DEF r
<1>4. m \in Unflushed /\ Unflushed' \subseteq (Unflushed \ {m}) \cup {r}
  BY <1>1, <1>3 DEF Unflushed, InFlight, Flush
<1>5. TotalAmount(Unflushed') <= TotalAmount(Unflushed)
  BY <1>2, <1>4, OwedTyped, TotalMoved DEF OwedOK
<1>6. OwedFlushed' <= OwedFlushed
  BY <1>5 DEF OwedFlushed
<1>7. OwedUndecided' <= OwedUndecided
  BY <1>2, <1>3, NoMoreUndecided DEF UndecidedTypes
<1>8. OwedDue' = OwedDue /\ OwedPending' = OwedPending
  BY <1>3, SameOwed
<1>9. OwedOK
  BY OwedTyped
<1>10. /\ balance' >= balance + 0 /\ OwedDue' = OwedDue + 0
       /\ OwedFlushed' <= OwedFlushed + 0
       /\ OwedPending' <= OwedPending + 0
       /\ OwedUndecided' <= OwedUndecided + 0
  BY <1>3, <1>6, <1>7, <1>8, <1>9 DEF OwedOK
<1>11. 0 >= 0 + 0 + 2 * 0 + 2 * 0
  OBVIOUS
<1> QED BY <1>10, <1>11, CoveredStep

(* What is taken back is in the wallet again, and owed again if its flush  *)
(* was not given up.                                                       *)
LEMMA TakeBackCovered ==
    ASSUME ProfileTypeOK, ProfileTypeOK', PaymentsCovered,
           NEW t \in leaving, TakeBack(t)
    PROVE  PaymentsCovered'
<1> DEFINE a == t.amount
<1>1. a \in Nat
  BY LeavingTyped
<1>2. /\ balance' = balance + a
      /\ UNCHANGED <<pending_avatar_writes, due, pending_flushes>>
  BY DEF TakeBack, writeVars, flushVars
<1>3. OwedDue' = OwedDue /\ OwedPending' = OwedPending
  BY <1>2, SameOwed
<1>4. OwedOK
  BY OwedTyped
<1>5. OwedFlushed' <= OwedFlushed + a /\ OwedUndecided' <= OwedUndecided
  <2>1. CASE t.kind = "refund"
    <3>1. net' = net
      BY <2>1 DEF TakeBack
    <3>2. OwedFlushed' <= OwedFlushed /\ OwedUndecided' <= OwedUndecided
      BY <1>2, <3>1, NoMoreOwed, NoMoreUndecided
    <3>3. Unflushed' = Unflushed
      BY <1>2, <3>1 DEF Unflushed, InFlight, Flush
    <3>4. OwedFlushed' = OwedFlushed
      BY <3>3 DEF OwedFlushed
    <3> HIDE DEF a
    <3> QED BY <1>1, <1>4, <3>2, <3>4 DEF OwedOK
  <2>2. CASE t.kind # "refund"
    <3> DEFINE r == OutcomeOf("failed", t)
    <3>1. r.type = "failed" /\ r.amount = a
      BY DEF OutcomeOf
    <3>2. net' = net \cup {r}
      BY <2>2 DEF TakeBack, OutcomeOf
    <3> HIDE DEF r
    <3>3. Unflushed' \subseteq Unflushed \cup {r}
      BY <1>2, <3>2 DEF Unflushed, InFlight, Flush
    <3>4. TotalAmount(Unflushed') <= TotalAmount(Unflushed) + r.amount
      BY <1>1, <1>4, <3>1, <3>3, TotalWith DEF OwedOK
    <3>5. OwedFlushed' <= OwedFlushed + a
      BY <3>1, <3>4 DEF OwedFlushed
    <3>6. OwedUndecided' <= OwedUndecided
      BY <3>1, <3>2, NoMoreUndecided DEF UndecidedTypes
    <3> QED BY <3>5, <3>6
  <2> QED BY <2>1, <2>2
<1> HIDE DEF a
<1>6. /\ balance' >= balance + a /\ OwedDue' = OwedDue + 0
      /\ OwedPending' <= OwedPending + 0
      /\ OwedUndecided' <= OwedUndecided + 0
  BY <1>1, <1>2, <1>3, <1>4, <1>5 DEF OwedOK
<1>7. a >= 0 + a + 2 * 0 + 2 * 0
  BY <1>1
<1> QED BY <1>1, <1>5, <1>6, <1>7, CoveredStep

LEMMA FlushFailedCovered ==
    ASSUME ProfileTypeOK, ProfileTypeOK', PaymentsCovered, Tracked,
           NEW m \in InFlight("failed"), FlushFailed(m)
    PROVE  PaymentsCovered'
<1> DEFINE a == m.amount
<1>1. m \in net /\ m.type = "failed"
  BY DEF InFlight
<1>2. a \in Nat /\ m.kind \in Kinds
  BY <1>1, NetTyped, MessageKinds DEF Flushes, FlushTypes
<1>3. PICK f \in Flush(m.id) :
         /\ due' = [due EXCEPT ![m.kind] = due[m.kind] + f.amount]
         /\ pending_flushes' = pending_flushes \ {f}
         /\ net' = net \ {m}
         /\ UNCHANGED <<pending_avatar_writes, balance>>
  BY DEF FlushFailed, Consume, writeVars, walletVars
<1>4. f \in pending_flushes /\ f.id = m.id
  BY DEF Flush
<1>5. f.amount = a
  BY <1>1, <1>4 DEF Tracked, FlushesMatch, FlushTypes
<1>6. OwedDue' = OwedDue + a
  <2> DEFINE v == due[m.kind] + a
  <2>1. due[m.kind] \in Nat
    BY <1>2 DEF ProfileTypeOK, RegistryTyped
  <2>2. v \in Nat /\ due' = [due EXCEPT ![m.kind] = v]
    BY <1>2, <1>3, <1>5, <2>1
  <2> HIDE DEF v
  <2>3. OwedDue' = OwedDue + (v - due[m.kind])
    BY <1>2, <2>2, DueChanges
  <2>4. v - due[m.kind] = a
    BY <1>2, <2>1 DEF v
  <2> QED BY <2>3, <2>4
<1>7. m \in Unflushed /\ Unflushed' \subseteq Unflushed \ {m}
  BY <1>1, <1>3, <1>4 DEF Unflushed, InFlight, Flush
<1>8. TotalAmount(Unflushed') <= TotalAmount(Unflushed) - a
  BY <1>7, OwedTyped, TotalWithout DEF OwedOK
<1>9. OwedFlushed' <= OwedFlushed - a
  BY <1>8 DEF OwedFlushed
<1>10. OwedUndecided' <= OwedUndecided
  BY <1>3, NoMoreUndecided
<1>11. OwedPending' = OwedPending
  BY <1>3, SameOwed
<1>12. OwedOK
  BY OwedTyped
<1> HIDE DEF a
<1>13. /\ balance' >= balance + 0
       /\ OwedFlushed' <= OwedFlushed + (0 - a)
       /\ OwedPending' <= OwedPending + 0
       /\ OwedUndecided' <= OwedUndecided + 0
  BY <1>2, <1>3, <1>9, <1>10, <1>11, <1>12 DEF OwedOK
<1>14. 0 >= a + (0 - a) + 2 * 0 + 2 * 0 /\ 0 - a \in Int /\ a \in Int
  BY <1>2
<1> QED BY <1>6, <1>13, <1>14, CoveredStep

(* The steps that only receive a message, or lose it.                      *)
Receives(m) ==
    /\ Consume(m)
    /\ UNCHANGED <<shardVars, writeVars, flushVars, walletVars, pastVars, now>>

LEMMA OnlyReceives ==
    ASSUME ProfileTypeOK, NEW m
    PROVE  StaleAnswer(m) \/ RefundFails(m) \/ StaleFailure(m) \/ Lose(m)
              => Receives(m)
BY DEF StaleAnswer, RefundFails, StaleFailure, Lose, Receives

LEMMA ReceivesCovered ==
    ASSUME ProfileTypeOK, NEW m, Receives(m)
    PROVE  ProfileTypeOK' /\ (PaymentsCovered => PaymentsCovered')
<1>1. ProfileTypeOK'
  BY ConsumeTypes DEF Receives
<1>2. /\ net' \subseteq net
      /\ UNCHANGED <<balance, due, pending_flushes, pending_avatar_writes>>
  BY DEF Receives, Consume, walletVars, flushVars, writeVars
<1>3. OwedPending' = OwedPending /\ OwedOK
  BY <1>2, SameOwed, OwedTyped
<1>4. OwedPending' <= OwedPending /\ balance' >= balance
  BY <1>2, <1>3 DEF OwedOK
<1>5. PaymentsCovered => PaymentsCovered'
  BY <1>1, <1>2, <1>4, CoveredStays
<1> QED BY <1>1, <1>5

(* The steps that leave the balance, what is due and what is pending, and  *)
(* send nothing that is owed.                                              *)
OwesNoMore ==
    /\ UNCHANGED <<balance, due, pending_avatar_writes>>
    /\ pending_flushes' \subseteq pending_flushes
    /\ \A m \in net' : m.type \in OwingTypes => m \in net

LEMMA OwesNoMoreCovered ==
    ASSUME ProfileTypeOK, ProfileTypeOK', PaymentsCovered, OwesNoMore
    PROVE  PaymentsCovered'
<1>1. OwedPending' = OwedPending /\ OwedOK
  BY SameOwed, OwedTyped DEF OwesNoMore
<1>2. OwedPending' <= OwedPending /\ balance' >= balance
  BY <1>1 DEF OwedOK, OwesNoMore
<1> QED BY <1>2, CoveredStays DEF OwesNoMore

LEMMA ShortCovered ==
    ASSUME ProfileTypeOK, ProfileTypeOK', PaymentsCovered,
           NEW m, BouncedAvatarPointerShort(m)
    PROVE  PaymentsCovered'
<1>1. PICK p \in Write(m.id) :
         /\ pending_avatar_writes' =
               (pending_avatar_writes \ {p}) \cup {[p EXCEPT !.created_at = 0]}
         /\ net' = net \ {m}
         /\ UNCHANGED <<due, pending_flushes, balance>>
  BY DEF BouncedAvatarPointerShort, Consume, flushVars, walletVars
<1>2. p \in pending_avatar_writes
  BY DEF Write
<1>3. OwedPending' <= OwedPending
  BY <1>1, <1>2, SameOwed
<1>4. balance' >= balance
  BY <1>1, OwedTyped DEF OwedOK
<1> QED BY <1>1, <1>3, <1>4, CoveredStays

(* The payment and the write, the notification, and the flushes.           *)
Kept == ProfileTypeOK' /\ (PaymentsCovered => PaymentsCovered')

LEMMA PayKeeps ==
    ASSUME ProfileTypeOK, NEW u \in Users, NEW q \in QueryIds,
           NEW a \in Avatars, Pay(u, q, a)
    PROVE  Kept
<1>1. ProfileTypeOK'
  BY PayTypes
<1> QED BY <1>1, PayCovered DEF Kept

LEMMA WriteStepKeeps ==
    ASSUME ProfileTypeOK, WriteStep
    PROVE  Kept
<1>1. ASSUME NEW m \in InFlight("notify"), AcceptAvatarPayment(m)
      PROVE  Kept
  <2>1. ProfileTypeOK'
    BY <1>1, AcceptTypes
  <2> QED BY <1>1, <2>1, AcceptCovered DEF Kept
<1>2. ASSUME NEW m \in InFlight("notify"), RefuseAvatarPayment(m)
      PROVE  Kept
  <2>1. ProfileTypeOK'
    BY <1>2, RefusePaymentTypes
  <2> QED BY <1>2, <2>1, RefuseCovered DEF Kept
<1>3. ASSUME NEW m \in InFlight("write"), SetAvatarPointer(m)
      PROVE  Kept
  <2>1. ProfileTypeOK'
    BY <1>3, SetAvatarTypes
  <2>2. AckOf(m).type = "ack"
    BY DEF AckOf
  <2>3. net' = (net \ {m}) \cup {AckOf(m)}
    BY <1>3, SetAvatarTypes DEF Answer
  <2>4. OwesNoMore
    BY <1>3, <2>2, <2>3
       DEF OwesNoMore, SetAvatarPointer, OwingTypes, UndecidedTypes,
           UnflushedTypes, writeVars, flushVars, walletVars
  <2> QED BY <2>1, <2>4, OwesNoMoreCovered DEF Kept
<1>4. ASSUME NEW m \in InFlight("write"), RefuseAvatarPointer(m)
      PROVE  Kept
  <2>1. ProfileTypeOK'
    BY <1>4, RefuseWriteTypes
  <2> DEFINE r == Bounced(m, "writeBounce")
  <2>2. m \in Messages
    BY NetTyped DEF InFlight
  <2>3. r.type = "writeBounce"
    BY <2>2, BouncedFields
  <2>4. /\ net' = (net \ {m}) \cup {r}
        /\ UNCHANGED <<pending_avatar_writes, balance, due, pending_flushes>>
    BY <1>4 DEF RefuseAvatarPointer, Bounce, Answer, Bounced, walletVars,
                flushVars, writeVars
  <2> HIDE DEF r
  <2>5. OwesNoMore
    BY <2>3, <2>4
       DEF OwesNoMore, OwingTypes, UndecidedTypes, UnflushedTypes
  <2> QED BY <2>1, <2>5, OwesNoMoreCovered DEF Kept
<1>5. ASSUME NEW m \in InFlight("ack"), AvatarPointerAck(m) PROVE Kept
  <2>1. ProfileTypeOK'
    BY <1>5, AckTypes
  <2> QED BY <1>5, <2>1, AckCovered DEF Kept
<1>6. ASSUME NEW m, StaleAnswer(m) PROVE Kept
  BY <1>6, OnlyReceives, ReceivesCovered DEF Kept
<1>7. ASSUME NEW m \in InFlight("writeBounce"), BouncedAvatarPointer(m)
      PROVE  Kept
  <2>1. PICK p \in Write(m.id) : Abandon(p) /\ Answer(m, NoteRefund(p))
    BY <1>7 DEF BouncedAvatarPointer
  <2>2. p \in pending_avatar_writes
    BY DEF Write
  <2>3. ProfileTypeOK'
    BY <2>1, <2>2, AbandonTypes
  <2> QED BY <2>1, <2>2, <2>3, AbandonCovered DEF Kept
<1>8. ASSUME NEW m \in InFlight("writeBounce"), BouncedAvatarPointerShort(m)
      PROVE  Kept
  <2>1. ProfileTypeOK'
    BY <1>8, ShortTypes
  <2> QED BY <1>8, <2>1, ShortCovered DEF Kept
<1>9. ASSUME NEW p \in pending_avatar_writes, PruneStaleAvatarWrite(p)
      PROVE  Kept
  <2>1. Abandon(p) /\ net' = net \cup {NoteRefund(p)}
    BY <1>9 DEF PruneStaleAvatarWrite
  <2>2. ProfileTypeOK'
    BY <2>1, AbandonTypes
  <2> QED BY <2>1, <2>2, AbandonCovered DEF Kept
<1> QED BY <1>1, <1>2, <1>3, <1>4, <1>5, <1>6, <1>7, <1>8, <1>9
        DEF WriteStep

LEMMA NoteStepKeeps ==
    ASSUME ProfileTypeOK, NoteStep
    PROVE  Kept
<1>1. ASSUME NetOK(net'), net' \subseteq net,
             notifications' \subseteq notifications,
             UNCHANGED <<shardVars, writeVars, flushVars, balance, leaving,
                         purse, pastVars, now>>
      PROVE  Kept
  <2>1. ProfileTypeOK'
    BY <1>1, NotificationTypes
  <2>2. OwesNoMore
    BY <1>1 DEF OwesNoMore, writeVars, flushVars
  <2> QED BY <2>1, <2>2, OwesNoMoreCovered DEF Kept
<1>2. ASSUME NEW m, NotificationAck(m) PROVE Kept
  <2>1. NetOK(net') /\ net' \subseteq net
    BY <1>2, NetTyped DEF NotificationAck, Consume
  <2> QED BY <1>1, <1>2, <2>1 DEF NotificationAck
<1>3. ASSUME NEW n, PruneStaleNotification(n) PROVE Kept
  <2>1. NetOK(net') /\ net' \subseteq net
    BY <1>3, NetTyped DEF PruneStaleNotification
  <2> QED BY <1>1, <1>3, <2>1 DEF PruneStaleNotification
<1>4. ASSUME NEW m, RefundFails(m) PROVE Kept
  BY <1>4, OnlyReceives, ReceivesCovered DEF Kept
<1>5. ASSUME NEW m \in InFlight("notifyBounce") \cup InFlight("noteRefund"),
             RefundNotification(m)
      PROVE  Kept
  <2>1. m \in net /\ m.type \in UndecidedTypes /\ m.type \in NoteTypes
    BY DEF InFlight, UndecidedTypes, NoteTypes
  <2>2. ProfileTypeOK'
    BY <1>5, <2>1, RefundTypes
  <2> QED BY <1>5, <2>1, <2>2, RefundCovered DEF Kept
<1> QED BY <1>2, <1>3, <1>4, <1>5 DEF NoteStep

LEMMA FlushStepKeeps ==
    ASSUME ProfileTypeOK, Tracked, FlushStep
    PROVE  Kept
<1>1. ASSUME NEW k \in Kinds, FlushDue(k) PROVE Kept
  <2>1. ProfileTypeOK'
    BY <1>1, FlushDueTypes
  <2> QED BY <1>1, <2>1, FlushDueCovered DEF Kept
<1>2. ASSUME NEW m \in InFlight("request"), FlushRequest(m) PROVE Kept
  <2>1. ProfileTypeOK'
    BY <1>2, FlushRequestTypes
  <2> QED BY <1>2, <2>1, FlushRequestCovered DEF Kept
<1>3. ASSUME NEW m \in InFlight("request"), RefuseFlush(m) PROVE Kept
  <2>1. ProfileTypeOK'
    BY <1>3, RefuseFlushTypes
  <2> QED BY <1>3, <2>1, RefuseFlushCovered DEF Kept
<1>4. ASSUME NetOK(net'), net' \subseteq net,
             pending_flushes' \subseteq pending_flushes,
             UNCHANGED <<shardVars, writeVars, due, walletVars, pastVars, now>>
      PROVE  Kept
  <2>1. ProfileTypeOK'
    BY <1>4, FlushDoneTypes
  <2>2. OwesNoMore
    BY <1>4 DEF OwesNoMore, writeVars, walletVars
  <2> QED BY <2>1, <2>2, OwesNoMoreCovered DEF Kept
<1>5. ASSUME NEW m, FlushDone(m) PROVE Kept
  <2>1. NetOK(net') /\ net' \subseteq net
    BY <1>5, NetTyped DEF FlushDone, Consume
  <2>2. pending_flushes' \subseteq pending_flushes
    BY <1>5 DEF FlushDone
  <2> QED BY <1>4, <1>5, <2>1, <2>2 DEF FlushDone
<1>6. ASSUME NEW f, PruneStaleDueFlush(f) PROVE Kept
  <2>1. NetOK(net') /\ net' \subseteq net
    BY <1>6, NetTyped DEF PruneStaleDueFlush
  <2>2. pending_flushes' \subseteq pending_flushes
    BY <1>6 DEF PruneStaleDueFlush
  <2> QED BY <1>4, <1>6, <2>1, <2>2 DEF PruneStaleDueFlush
<1>7. ASSUME NEW m \in InFlight("failed"), FlushFailed(m) PROVE Kept
  <2>1. ProfileTypeOK'
    BY <1>7, FlushFailedTypes
  <2> QED BY <1>7, <2>1, FlushFailedCovered DEF Kept
<1>8. ASSUME NEW m, StaleFailure(m) PROVE Kept
  BY <1>8, OnlyReceives, ReceivesCovered DEF Kept
<1>9. ASSUME NEW t \in leaving, Arrive(t) PROVE Kept
  <2>1. ProfileTypeOK'
    BY <1>9, ArriveTypes
  <2>2. OwesNoMore
    BY <1>9 DEF OwesNoMore, Arrive, OwingTypes, UndecidedTypes,
                UnflushedTypes, writeVars, flushVars
  <2> QED BY <2>1, <2>2, OwesNoMoreCovered DEF Kept
<1>10. ASSUME NEW t \in leaving, TakeBack(t) PROVE Kept
  <2>1. ProfileTypeOK'
    BY <1>10, TakeBackTypes
  <2> QED BY <1>10, <2>1, TakeBackCovered DEF Kept
<1> QED BY <1>1, <1>2, <1>3, <1>5, <1>6, <1>7, <1>8, <1>9, <1>10
        DEF FlushStep

LEMMA NextKeeps ==
    ASSUME ProfileTypeOK, ShardsDated, Tracked, Next
    PROVE  Kept
<1>1. ASSUME ProfileTypeOK',
             UNCHANGED <<writeVars, flushVars, walletVars, net>>
      PROVE  Kept
  <2>1. OwesNoMore
    BY <1>1 DEF OwesNoMore, writeVars, flushVars, walletVars
  <2> QED BY <1>1, <2>1, OwesNoMoreCovered DEF Kept
<1>2. CASE /\ Identity
           /\ UNCHANGED <<writeVars, flushVars, walletVars, pastVars, net>>
  <2>1. ShardsTyped'
    BY <1>2, IdentityMoves DEF ProfileTypeOK
  <2>2. ProfileTypeOK'
    BY <1>2, <2>1 DEF ProfileTypeOK, RegistryTyped, WalletTyped, writeVars,
                      flushVars, walletVars, pastVars
  <2> QED BY <1>1, <1>2, <2>2
<1>3. CASE Tick
  <2>1. ProfileTypeOK'
    BY <1>3, TickTypes
  <2> QED BY <1>1, <1>3, <2>1 DEF Tick
<1>4. ASSUME NEW m \in net, Lose(m) PROVE Kept
  BY <1>4, OnlyReceives, ReceivesCovered DEF Kept
<1> QED BY <1>2, <1>3, <1>4, PayKeeps, WriteStepKeeps, NoteStepKeeps,
           FlushStepKeeps DEF Next

-----------------------------------------------------------------------------
(* All of it together.                                                     *)

LEMMA ProfileInit == Init => ProfileInv
<1> SUFFICES ASSUME Init PROVE ProfileInv
  OBVIOUS
<1>1. ProfileTypeOK
  BY ProfileInitTypes
<1>2. /\ net = {} /\ pending_avatar_writes = {} /\ pending_flushes = {}
      /\ leaving = {} /\ applied = {} /\ abandoned = {} /\ proofs = {}
      /\ due = [k \in Kinds |-> 0] /\ balance = 0
  BY DEF Init, ShardInit
<1>3. Dated
  <2>1. \A u \in Users :
           shard[u].updated_at = 0 /\ old[u].updated_at = 0
    <3>1. Unregistered.updated_at = 0 /\ Registered.updated_at = 0
      BY DEF Unregistered, Registered
    <3>2. \A u \in Users : shard[u] = Unregistered /\ old[u] = Registered
      BY DEF Init, ShardInit
    <3> QED BY <3>1, <3>2
  <2>2. now \in Nat
    BY <1>1 DEF ProfileTypeOK, ShardsTyped
  <2> QED BY <1>2, <2>1, <2>2 DEF Dated, ShardsDated, MessagesDated
<1>4. IdsUsed
  BY <1>2 DEF IdsUsed
<1>5. WritesTracked
  BY <1>2 DEF WritesTracked, OnePending, NotGivenUp, OneMessage,
              WritesAnswered, AppliedAnswered, AppliedIsPaid
<1>6. FlushesMatch
  BY <1>2 DEF FlushesMatch
<1>7. PaymentsCovered
  <2>1. Unflushed = {} /\ Undecided = {}
    BY <1>2 DEF Unflushed, Undecided, InFlight
  <2>2. OwedFlushed = 0
    BY <2>1, NoAmounts DEF OwedFlushed
  <2>3. OwedPending = 0 /\ OwedUndecided = 0
    BY <1>2, <2>1, FS_EmptySet DEF OwedPending, OwedUndecided
  <2>4. OwedDue = 0
    BY <1>2 DEF OwedDue, Kinds
  <2>5. OwedCovered
    BY <1>2, <2>2, <2>3, <2>4 DEF OwedCovered
  <2> QED BY <2>5, CoveredIs
<1> QED BY <1>1, <1>3, <1>4, <1>5, <1>6, <1>7 DEF ProfileInv

LEMMA ProfileNext == ProfileInv /\ [Next]_vars => ProfileInv'
<1> SUFFICES ASSUME ProfileInv, [Next]_vars PROVE ProfileInv'
  OBVIOUS
<1>1. /\ ProfileTypeOK /\ ShardsDated /\ MessagesDated /\ Tracked
      /\ PaymentsCovered
  BY DEF ProfileInv, Dated, Tracked
<1>2. CASE Next
  <2>1. Kept
    BY <1>1, <1>2, NextKeeps
  <2>2. ShardsDated' /\ MessagesDated' /\ Tracked'
    BY <1>1, <1>2, NextMovesForward, MessagesStayDated, NextTracked
  <2> QED BY <1>1, <2>1, <2>2 DEF Kept, ProfileInv, Dated, Tracked
<1>3. CASE UNCHANGED vars
  BY <1>3 DEF vars, shardVars, writeVars, flushVars, walletVars, pastVars,
       ProfileInv, ProfileTypeOK, ShardsTyped, RegistryTyped, WalletTyped,
       Dated, ShardsDated, MessagesDated, IdsUsed, WritesTracked, OnePending,
       NotGivenUp, OneMessage, WritesAnswered, AppliedAnswered,
       AppliedIsPaid, FlushesMatch, PaymentsCovered, Unflushed, Undecided,
       InFlight, Flush
<1> QED BY <1>2, <1>3

(* ProfileRegistry, its wallet and the KeyShards keep the inductive        *)
(* invariant: ids are given out once, a write has one message on its way   *)
(* at most, and that no older than the network allows.                     *)
THEOREM ProfileInvariant == Spec => []ProfileInv
BY ProfileInit, ProfileNext, PTL DEF Spec

(* An avatar that a shard shows was paid for, whoever gives a write up     *)
(* (receive(PruneStaleAvatarWrite)) and however late its acknowledgement   *)
(* is; and what the registry owes is in its official wallet.               *)
THEOREM AvatarsArePaid == Spec => []AvatarsPaid
<1>1. ProfileInv => AvatarsPaid
  BY DEF ProfileInv, WritesTracked, AvatarsPaid
<1> QED BY <1>1, ProfileInvariant, PTL

(* A KeyShard never shows an older avatar or older keys than before,       *)
(* whatever proofs of the old generation arrive late, and in what order    *)
(* (receive(KeyShardAdoptIdentity)).                                       *)
THEOREM NeverShowsOlder == Spec => NeverOlder
<1>1. ProfileInv /\ [Next]_vars => (Forward \/ UNCHANGED vars)
  BY NextMovesForward DEF ProfileInv, Dated
<1>2. ProfileInv /\ [Next]_vars =>
         [\A u \in Users :
             LET s == shard[u]  t == shard'[u]
             IN  /\ <<s.avatar, s.version>> # <<t.avatar, t.version>> =>
                       t.version > s.version /\ t.updated_at >= s.updated_at
                 /\ (s.registered /\ s.keys # t.keys) =>
                       t.keys = s.keys + 1 /\ t.created_at = now]_vars
  BY <1>1 DEF Forward
<1> QED BY <1>2, ProfileInvariant, PTL DEF Spec, NeverOlder

=============================================================================
