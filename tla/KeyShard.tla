------------------------------ MODULE KeyShard ------------------------------
(***************************************************************************)
(* The KeyShard of each wallet, in this generation of the contracts and in *)
(* the one before (contracts18/contracts/KeyShard.tact): the keys a wallet *)
(* registered, the pointer to its avatar, and how the new shard adopts     *)
(* both from a proof of the old one.                                       *)
(*                                                                         *)
(* Anybody has the old shard prove what it holds, as often as they like;   *)
(* the proof is a copy, passed on by the ProfileRegistry, which may arrive *)
(* long after and in any order, or be refused for lack of TON.  The old    *)
(* shard goes on living: its owner may change its keys and its avatar.     *)
(*                                                                         *)
(* Abstractions.  Keys are counted (key_generation), an avatar is a model  *)
(* value.  Signatures and the encoding of keys are taken as valid.         *)
(***************************************************************************)
EXTENDS Naturals

CONSTANTS
    Users,
    Avatars,         \* what a pointer names: hash, stream, entry and format
    WrittenBefore,   \* KS_ADOPT_BUNDLE_WRITTEN_BEFORE
    MaxKeys,         \* bound of the model on key_generation
    MaxOldAvatars    \* bound of the model on avatars of the old generation

VARIABLES
    shard,    \* of each user, in this generation
    old,      \* of each user, in the generation before: always registered
    proofs,   \* KeyShardOwnershipProof and KeyShardAdoptIdentity in flight
    now

NoAvatar == "none"
Unregistered ==
    [registered |-> FALSE, keys |-> 0, created_at |-> 0,
     version |-> 0, avatar |-> NoAvatar, updated_at |-> 0]
Registered == [Unregistered EXCEPT !.registered = TRUE]

ShardInit ==
    /\ shard = [u \in Users |-> Unregistered]
    /\ old = [u \in Users |-> Registered]
    /\ proofs = {}

(* writeBundle                                                             *)
WithKeys(s, keys, time) ==
    [s EXCEPT !.registered = TRUE, !.keys = keys, !.created_at = time]

(* receive(KeyShardRegisterKeys), from the owner                           *)
Rotated(s) == WithKeys(s, IF s.registered THEN s.keys + 1 ELSE 0, now)

RegisterKeys(u) ==
    /\ shard[u].keys < MaxKeys
    /\ shard' = [shard EXCEPT ![u] = Rotated(@)]
    /\ UNCHANGED <<old, proofs, now>>

RegisterOldKeys(u) ==
    /\ old[u].keys < MaxKeys
    /\ old' = [old EXCEPT ![u] = Rotated(@)]
    /\ UNCHANGED <<shard, proofs, now>>

(* receive(KeyShardSetAvatarPointer), guards                               *)
AvatarAccepted(s, a) == s.registered /\ (s.version > 0 => s.avatar # a)

(* receive(KeyShardSetAvatarPointer)                                       *)
WithAvatar(s, a) ==
    [s EXCEPT !.version = @ + 1, !.avatar = a, !.updated_at = now]

(* the same in the old generation, paid for there                          *)
SetOldAvatar(u, a) ==
    /\ old[u].version < MaxOldAvatars
    /\ AvatarAccepted(old[u], a)
    /\ old' = [old EXCEPT ![u] = WithAvatar(@, a)]
    /\ UNCHANGED <<shard, proofs, now>>

(* receive(KeyShardProveOwnership), which anybody may send                 *)
ProveOwnership(u) ==
    /\ proofs' = proofs \cup {[owner |-> u, of |-> old[u]]}
    /\ UNCHANGED <<shard, old, now>>

(* mutant: keys already there are replaced                                 *)
AdoptsKeysAlways(s, p) == p.created_at < WrittenBefore

AdoptsKeys(s, p) == ~s.registered /\ p.created_at < WrittenBefore

(* mutant: the time of the avatar adopted is not compared                  *)
AdoptsAvatarAlways(s, p) == p.version > 0

AdoptsAvatar(s, p) == p.version > 0 /\ p.updated_at > s.updated_at

(* mutant: the version adopted is the old one's                            *)
AdoptedVersionBare(s, p) == p.version

AdoptedVersion(s, p) ==
    IF p.version > s.version THEN p.version ELSE s.version + 1

Adopted(s, p) ==
    LET t == IF AdoptsKeys(s, p) THEN WithKeys(s, p.keys, p.created_at)
                                 ELSE s
    IN  IF AdoptsAvatar(s, p)
        THEN [t EXCEPT !.version = AdoptedVersion(s, p),
                       !.avatar = p.avatar, !.updated_at = p.updated_at]
        ELSE t

(* ProfileRegistry receive(KeyShardOwnershipProof), which passes the proof *)
(* on, and receive(KeyShardAdoptIdentity)                                  *)
AdoptIdentity(m) ==
    /\ AdoptsKeys(shard[m.owner], m.of) \/ AdoptsAvatar(shard[m.owner], m.of)
    /\ shard' = [shard EXCEPT ![m.owner] = Adopted(@, m.of)]
    /\ proofs' = proofs \ {m}
    /\ UNCHANGED <<old, now>>

(* a guard of either throws: nobody keeps the proof                        *)
RefuseIdentity(m) ==
    /\ proofs' = proofs \ {m}
    /\ UNCHANGED <<shard, old, now>>

Identity ==
    \/ \E u \in Users :
          RegisterKeys(u) \/ RegisterOldKeys(u) \/ ProveOwnership(u)
    \/ \E u \in Users, a \in Avatars : SetOldAvatar(u, a)
    \/ \E m \in proofs : AdoptIdentity(m) \/ RefuseIdentity(m)

=============================================================================
