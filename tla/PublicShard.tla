---------------------------- MODULE PublicShard ----------------------------
(***************************************************************************)
(* One shard of the public space (contracts18/contracts/PublicShard.tact): *)
(* its entries, which its moderators hide and show, the entry that each    *)
(* beacon of a directory rewrites, and the reactions to entries.           *)
(*                                                                         *)
(* One map (beacon_slot) holds three things: the entry of each publisher   *)
(* of beacons, the list of the hidden entries with the place of each in    *)
(* it, and the counters of reactions, packed several to a number.          *)
(*                                                                         *)
(* Abstractions.  The keys of the map are tuples: the ranges of its keys   *)
(* (PS_HIDDEN_DOMAIN, PS_HIDDEN_KEY_BASE, PS_REACTION_DOMAIN) are disjoint *)
(* and hashes do not collide.  Contents, fees and the reader's pages are   *)
(* left out; a message short of value is refused and changes nothing.      *)
(* Time is only whether the shard is still published to: its retention     *)
(* ends long after.                                                        *)
(***************************************************************************)
EXTENDS Naturals, FiniteSets, Functions

CONSTANTS
    Publishers,
    Owner,         \* whom the key of a channel or an avatar names
    ShardKinds,    \* kinds of shards, among those below
    Emojis,        \* PS_REACTION_EMOJIS
    PerLeaf,       \* PS_REACTION_PER_LEAF: counters packed in one number
    Base,          \* 2^32: one more than PS_REACTION_COUNTER_MAX
    LeafCap,       \* PS_REACTION_LEAF_CAP
    SafeCap,       \* PS_SAFE_CAP
    MaxReactions   \* bound of the model on the reactions sent

ASSUME PublicAssumption ==
    /\ Owner \in Publishers
    /\ ShardKinds \subseteq {"channel", "thread", "beacon", "avatar"}
    /\ {Emojis, LeafCap, SafeCap, MaxReactions} \subseteq Nat
    /\ PerLeaf \in Nat \ {0}
    /\ Base \in Nat \ {0, 1}

VARIABLES
    kind,             \* of the shard: it never changes
    current,          \* whether it is the era of the shard, or next to it
    entries,          \* of 0, 1, ...
    slots,            \* beacon_slot
    hidden_count, reaction_count,
    reacted           \* how often somebody reacted to an entry in each way

publicVars ==
    <<kind, current, entries, slots, hidden_count, reaction_count, reacted>>

Entry(e) == e \in DOMAIN entries
entry_count == Cardinality(DOMAIN entries)

BeaconOf(p) == <<"beacon", p>>
HiddenAt(i) == <<"hidden", i>>
PlaceOf(e) == <<"place", e>>
LeafOf(e, emoji) == <<"reactions", e, emoji \div PerLeaf>>

Put(f, k, v) == [x \in DOMAIN f \cup {k} |-> IF x = k THEN v ELSE f[x]]
Without(f, K) == Restrict(f, DOMAIN f \ K)

Empty == [x \in {} |-> 0]

PublicInit ==
    /\ kind \in ShardKinds
    /\ current = TRUE
    /\ entries = Empty
    /\ slots = Empty
    /\ hidden_count = 0
    /\ reaction_count = 0
    /\ reacted = Empty

-----------------------------------------------------------------------------
(* processPublish: the guards on the era and the key                       *)
MayPublish(p) ==
    /\ current
    /\ kind \in {"channel", "avatar"} => p = Owner

(* processPublish, but for a beacon published again                        *)
PublishEntry(p) ==
    /\ MayPublish(p)
    /\ entry_count < SafeCap
    /\ kind = "beacon" => BeaconOf(p) \notin DOMAIN slots
    /\ entries' = Put(entries, entry_count,
                      [publisher |-> p, hidden |-> FALSE])
    /\ slots' = IF kind = "beacon" THEN Put(slots, BeaconOf(p), entry_count)
                                   ELSE slots
    /\ reacted' = [x \in DOMAIN reacted \cup ({entry_count} \X (0..Emojis - 1))
                     |-> IF x[1] = entry_count THEN 0 ELSE reacted[x]]
    /\ UNCHANGED <<kind, current, hidden_count, reaction_count>>

(* mutant: what is rewritten is shown again                                *)
RewriteBeaconShown(p) ==
    /\ MayPublish(p)
    /\ BeaconOf(p) \in DOMAIN slots
    /\ entries' = Put(entries, slots[BeaconOf(p)],
                      [publisher |-> p, hidden |-> FALSE])
    /\ UNCHANGED <<kind, current, slots, hidden_count, reaction_count>>
    /\ UNCHANGED reacted

(* processPublish, of a publisher whose beacon is there: it stays hidden   *)
RewriteBeacon(p) ==
    /\ MayPublish(p)
    /\ BeaconOf(p) \in DOMAIN slots
    /\ entries' = Put(entries, slots[BeaconOf(p)],
                      [publisher |-> p,
                       hidden |-> entries[slots[BeaconOf(p)]].hidden])
    /\ UNCHANGED <<kind, current, slots, hidden_count, reaction_count>>
    /\ UNCHANGED reacted

-----------------------------------------------------------------------------
(* receive(SetEntryHidden): nothing changes for an entry hidden or shown   *)
(* already                                                                 *)
Kept(e, hidden) ==
    /\ Entry(e)
    /\ entries[e].hidden = hidden
    /\ UNCHANGED publicVars

Marked(e, hidden) == entries' = [entries EXCEPT ![e].hidden = hidden]

HideEntry(e) ==
    /\ Entry(e) /\ ~entries[e].hidden
    /\ Marked(e, TRUE)
    /\ slots' = Put(Put(slots, HiddenAt(hidden_count), e),
                    PlaceOf(e), hidden_count)
    /\ hidden_count' = hidden_count + 1
    /\ UNCHANGED <<kind, current, reaction_count, reacted>>

(* mutant: the keys are deleted before the last entry moves                *)
UnlistedFirst(e) ==
    LET last == hidden_count - 1
        pos == slots[PlaceOf(e)]
        moved == slots[HiddenAt(last)]
    IN  Put(Put(Without(slots, {HiddenAt(last), PlaceOf(e)}),
                HiddenAt(pos), moved), PlaceOf(moved), pos)

(* mutant: the entry moved keeps its old place                             *)
UnlistedInPlace(e) ==
    LET last == hidden_count - 1
        pos == slots[PlaceOf(e)]
        moved == slots[HiddenAt(last)]
    IN  Without(Put(slots, HiddenAt(pos), moved), {HiddenAt(last), PlaceOf(e)})

(* the last of the hidden entries takes the place of e                     *)
Unlisted(e) ==
    LET last == hidden_count - 1
        pos == slots[PlaceOf(e)]
        moved == slots[HiddenAt(last)]
    IN  Without(Put(Put(slots, HiddenAt(pos), moved), PlaceOf(moved), pos),
                {HiddenAt(last), PlaceOf(e)})

ShowEntry(e) ==
    /\ Entry(e) /\ entries[e].hidden
    /\ Marked(e, FALSE)
    /\ slots' = Unlisted(e)
    /\ hidden_count' = hidden_count - 1
    /\ UNCHANGED <<kind, current, reaction_count, reacted>>

-----------------------------------------------------------------------------
Packed(key) == IF key \in DOMAIN slots THEN slots[key] ELSE 0

(* 1 << 32 * n                                                             *)
Power[n \in Nat] == IF n = 0 THEN 1 ELSE Base * Power[n - 1]

Shift(emoji) == Power[emoji % PerLeaf]
CountOf(packed, emoji) == (packed \div Shift(emoji)) % Base

(* mutant: a counter at its limit runs over into the next                  *)
RoomAlways(packed, emoji) == TRUE

Room(packed, emoji) == CountOf(packed, emoji) < Base - 1

(* receive(React)                                                          *)
React(e, emoji) ==
    LET key == LeafOf(e, emoji)
        fresh == key \notin DOMAIN slots
    IN  /\ kind \in {"channel", "thread"}
        /\ Entry(e) /\ ~entries[e].hidden
        /\ fresh => reaction_count < LeafCap
        /\ SumFunction(reacted) < MaxReactions
        /\ reaction_count' = IF fresh THEN reaction_count + 1
                                      ELSE reaction_count
        /\ slots' = IF Room(Packed(key), emoji)
                    THEN Put(slots, key, Packed(key) + Shift(emoji)) ELSE slots
        /\ reacted' = [reacted EXCEPT ![<<e, emoji>>] = @ + 1]
        /\ UNCHANGED <<kind, current, entries, hidden_count>>

(* receive(RetirePublicShard): past the retention of the shard             *)
RetirePublicShard ==
    /\ ~current
    /\ entries' = Empty
    /\ slots' = Empty
    /\ hidden_count' = 0
    /\ reaction_count' = 0
    /\ reacted' = Empty
    /\ UNCHANGED <<kind, current>>

(* now(): the eras in which it is published to are over                    *)
EraEnds ==
    /\ current /\ current' = FALSE
    /\ UNCHANGED <<kind, entries, slots, hidden_count, reaction_count>>
    /\ UNCHANGED reacted

PublicStep ==
    \/ \E p \in Publishers : PublishEntry(p) \/ RewriteBeacon(p)
    \/ \E e \in DOMAIN entries, emoji \in 0..Emojis - 1 : React(e, emoji)
    \/ EraEnds
    \/ RetirePublicShard

-----------------------------------------------------------------------------
Hidden == {e \in DOMAIN entries : entries[e].hidden}

(* The list of hidden entries, which a reader fetches by places without a  *)
(* gap, holds every hidden entry once and no other, however they were      *)
(* hidden, shown and moved in it.                                          *)
IndexExact ==
    /\ hidden_count = Cardinality(Hidden)
    /\ {k \in DOMAIN slots : k[1] = "hidden"} =
           {HiddenAt(i) : i \in 0..hidden_count - 1}
    /\ {k \in DOMAIN slots : k[1] = "place"} = {PlaceOf(e) : e \in Hidden}
    /\ \A e \in Hidden : /\ slots[PlaceOf(e)] < hidden_count
                         /\ slots[HiddenAt(slots[PlaceOf(e)])] = e

(* A counter of reactions is what was sent, up to its limit, whatever its  *)
(* neighbours in the same number are at.                                   *)
ReactionsExact ==
    /\ reaction_count = Cardinality({k \in DOMAIN slots : k[1] = "reactions"})
    /\ \A x \in DOMAIN reacted :
          CountOf(Packed(LeafOf(x[1], x[2])), x[2]) =
              IF reacted[x] < Base THEN reacted[x] ELSE Base - 1

(* In a directory each publisher has one entry, its own.                   *)
BeaconsExact ==
    kind = "beacon" =>
        \A p \in Publishers :
            {e \in DOMAIN entries : entries[e].publisher = p} =
                IF BeaconOf(p) \in DOMAIN slots THEN {slots[BeaconOf(p)]}
                                                ELSE {}

(* The map of PublicShard keeps its three contents apart and each exact.   *)
SlotsExact == IndexExact /\ ReactionsExact /\ BeaconsExact

=============================================================================
