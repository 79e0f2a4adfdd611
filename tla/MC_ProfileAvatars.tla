------------------------- MODULE MC_ProfileAvatars -------------------------
(* A small instance of ProfileAvatars for TLC: one wallet, two avatars.    *)
(* Its behaviours are of three kinds: two payments at a time with all they *)
(* can lead to; a payment after another and the flushes of what they       *)
(* earned; and one payment while the wallet moves from the generation      *)
(* before, its keys and avatars changing in both and two proofs on the way.*)
EXTENDS ProfileAvatars

VARIABLE scene

Bounds ==
    [writes   |-> [net |-> 3, ids |-> 2, qids |-> {1, 2}, time |-> 7],
     flushes  |-> [net |-> 2, ids |-> 3, qids |-> {1}, time |-> 6],
     identity |-> [net |-> 1, ids |-> 1, qids |-> {1}, time |-> 5]]

Scene ==
    LET b == Bounds[scene]
    IN  /\ Cardinality(net') <= b.net
        /\ next_write_id' <= b.ids + 1
        /\ \A n \in notifications' : n.qid \in b.qids
        /\ now' <= b.time
        /\ scene # "flushes" => pending_flushes' = {}
        /\ IF scene = "identity"
           THEN Cardinality(proofs') <= 2 /\ leaving' = {}
           ELSE /\ proofs' = {} /\ old' = old
                /\ \A u \in Users : shard'[u].keys = 0

MCInit == Init /\ scene \in DOMAIN Bounds

MCSpec ==
    /\ MCInit
    /\ [][Next /\ Scene /\ UNCHANGED scene]_<<vars, scene>>
    /\ \A id \in 1..MaxIds :
          /\ WF_vars(WriteDelivered(id))
          /\ WF_vars(\E p \in Write(id) : PruneStaleAvatarWrite(p))

=============================================================================
