------------------------------ MODULE ConvKeys ------------------------------
(***************************************************************************)
(* The keys of one conversation on one device (web/conv-key-store.mjs and  *)
(* web/conv-key-persist.mjs).  Every window, and within a window every     *)
(* opening of the wallet, holds a store: a copy in memory of the one       *)
(* sealed record on disk.  A call changes the copy at once and then waits  *)
(* its turn to merge it with the disk, write the result, and take the      *)
(* result for its copy.  Calls of one store overlap: only the merge and    *)
(* the write are under the lock.                                           *)
(*                                                                         *)
(* An INTRO stands for its nonce and its root; its number is the order of  *)
(* the nonces.  One day of the sequence numbers is modelled.  Left out are *)
(* the wallets of the peer, the scan cursor and the gap floors: writing    *)
(* them is Save.                                                           *)
(***************************************************************************)
EXTENDS Naturals, Sequences, SequencesExt, Functions

CONSTANTS
    Stores,         \* the stores open over one database
    Intros,         \* the INTROs the two sides ever published
    Copies,         \* their copies on the chain, <<intro, at>>; at is 0
                    \* when the time of the copy is not known
    Floors,         \* the highest number read on the chain, as calls see it
    Backups,        \* what recovery backups hold: <<intro, at>>
    MaxReadRoots,   \* CONV_KEY_MAX_READ_ROOTS
    MaxCalls,       \* bound of the model on the calls in flight
    MaxSeq          \* bound of the model on the sequence numbers

ASSUME ConvKeysAssumption ==
    /\ Intros \subseteq Nat \ {0}
    /\ Copies \subseteq Intros \X Nat
    /\ Floors \subseteq Nat
    /\ Backups \subseteq Intros \X Nat
    /\ MaxReadRoots \in Nat \ {0}
    /\ MaxCalls \in Nat
    /\ MaxSeq \in Nat

VARIABLES
    disk,      \* the sealed record
    mem,       \* the record in the memory of each store
    dirty,     \* whether the last write of a store failed
    calls,     \* the calls of each store that wait to be written, in order
    writing,   \* what a store writes under the lock; Blank when it does not
    claims     \* the sequence numbers that were handed out, in order

keyVars == <<disk, mem, dirty, calls, writing, claims>>

Blank == [current |-> 0, at |-> 0, reads |-> <<>>, retired |-> <<>>,
          seq |-> 0]
Exists(record) == record.current # 0
Readable(record) == {record.current} \cup ToSet(record.reads)

Adoption(i) == [op |-> "adopt", intro |-> i, seq |-> 0]
Claiming(n) == [op |-> "claim", intro |-> 0, seq |-> n]
Saving == [op |-> "save", intro |-> 0, seq |-> 0]

KeysInit ==
    /\ disk = Blank
    /\ mem = [s \in Stores |-> Blank]
    /\ dirty = [s \in Stores |-> FALSE]
    /\ calls = [s \in Stores |-> <<>>]
    /\ writing = [s \in Stores |-> Blank]
    /\ claims = <<>>

-----------------------------------------------------------------------------
(* appendReadRoot, appendRetiredNonce: the newest MaxReadRoots are kept    *)
LastOnes(list) ==
    IF Len(list) > MaxReadRoots
    THEN SubSeq(list, Len(list) - MaxReadRoots + 1, Len(list)) ELSE list
AddTo(list, i) == IF Contains(list, i) THEN list ELSE LastOnes(Append(list, i))

(* compareAdoption                                                         *)
Newer(i, at, held) ==
    \/ at > held.at
    \/ at = held.at /\ i > held.current

(* an older copy of the INTRO in use corrects its time                     *)
Older(i, at, held) ==
    /\ i = held.current
    /\ at > 0
    /\ held.at = 0 \/ at < held.at

Known(i, held) ==
    i \in {held.current} \cup ToSet(held.reads) \cup ToSet(held.retired)

(* adoptKRoot                                                              *)
AdoptKRoot(held, i, at) ==
    CASE ~Exists(held) ->
            [outcome |-> "created",
             record |-> [Blank EXCEPT !.current = i, !.at = at]]
      [] Older(i, at, held) ->
            [outcome |-> "resourced", record |-> [held EXCEPT !.at = at]]
      [] Exists(held) /\ Known(i, held) /\ ~Older(i, at, held) ->
            [outcome |-> "replayed", record |-> held]
      [] Exists(held) /\ ~Known(i, held) /\ Newer(i, at, held) ->
            [outcome |-> "adopted",
             record |-> [held EXCEPT
                !.current = i, !.at = at,
                !.reads = AddTo(@, held.current),
                !.retired = AddTo(@, held.current)]]
      [] Exists(held) /\ ~Known(i, held) /\ ~Newer(i, at, held) ->
            [outcome |-> "retained",
             record |-> [held EXCEPT !.reads = AddTo(@, i),
                                     !.retired = AddTo(@, i)]]

Larger(m, n) == IF m > n THEN m ELSE n
Union(mine, theirs) ==
    mine \o SelectSeq(theirs, LAMBDA i : ~Contains(mine, i))

(* mutant: the root in memory always wins over the one on disk             *)
MergeRecordsMine(theirs, mine) ==
    IF ~Exists(mine) THEN theirs
    ELSE IF ~Exists(theirs) THEN mine
    ELSE [mine EXCEPT !.reads = Union(@, theirs.reads),
                      !.retired = LastOnes(Union(@, theirs.retired)),
                      !.seq = Larger(@, theirs.seq)]

(* mergeConvKeyMaps: the roots, nonces and numbers of both, and the newer  *)
(* of the two current roots; the other one is not among those for reading  *)
MergeRecords(theirs, mine) ==
    LET base == IF theirs.at > mine.at THEN theirs ELSE mine
    IN  IF ~Exists(mine) THEN theirs
        ELSE IF ~Exists(theirs) THEN mine
        ELSE [base EXCEPT
                !.reads = Union(mine.reads, theirs.reads),
                !.retired = LastOnes(Union(mine.retired, theirs.retired)),
                !.seq = Larger(mine.seq, theirs.seq)]

-----------------------------------------------------------------------------
CanCall == SumFunction([s \in Stores |-> Len(calls[s])]) < MaxCalls
Begin(s, record, call) ==
    /\ mem' = [mem EXCEPT ![s] = record]
    /\ calls' = [calls EXCEPT ![s] = Append(@, call)]
    /\ UNCHANGED <<disk, dirty, writing, claims>>

(* upsertConversationKRoot: a replay is written only if it brought another *)
(* wallet of the peer (grew), or if an earlier write failed                *)
Upsert(s, i, at, grew) ==
    LET adoption == AdoptKRoot(mem[s], i, at)
        writes == \/ adoption.outcome # "replayed"
                  \/ grew /\ i = mem[s].current
                  \/ dirty[s]
    IN  /\ CanCall
        /\ writes
        /\ Begin(s, adoption.record, IF adoption.outcome = "replayed"
                                     THEN Saving ELSE Adoption(i))

(* nextOutgoingSeq                                                         *)
NextOutgoingSeq(s, floor) ==
    LET next == Larger(mem[s].seq, floor) + 1
    IN  /\ CanCall
        /\ Exists(mem[s])
        /\ next <= MaxSeq /\ disk.seq < MaxSeq
        /\ Begin(s, [mem[s] EXCEPT !.seq = next], Claiming(next))

(* noteConvShardGap, clearConvShardGap, settlePeerWallet, flush, refresh   *)
Save(s) ==
    /\ CanCall
    /\ Exists(mem[s]) \/ Exists(disk)
    /\ Begin(s, mem[s], Saving)

(* importConversations: a backup holds the current root only (the nonces   *)
(* it retired are left out); of two roots of the same time, the one whose  *)
(* bytes are larger stays, whatever the order of their nonces              *)
ImportConversations(s, i, at) ==
    LET held == mem[s]
    IN  /\ CanCall
        /\ i \notin ToSet(held.reads) \cup ToSet(held.retired)
        /\ \/ ~Exists(held)
           \/ at > held.at
           \/ at = held.at /\ i # held.current
        /\ Begin(s, [Blank EXCEPT !.current = i, !.at = at,
                                  !.retired = held.retired], Saving)

-----------------------------------------------------------------------------
(* withAtRestLock: the lock is free, and the first call of s takes it      *)
Turn(s) == calls[s] # <<>> /\ \A t \in Stores : writing[t] = Blank

(* mutant: a number is not compared with what the disk holds               *)
ClaimedUnchecked(s) == Head(calls[s]).seq

(* nextOutgoingSeq, the claim: past what another store wrote meanwhile     *)
Claimed(s) ==
    IF disk.seq >= Head(calls[s]).seq
    THEN disk.seq + 1 ELSE Head(calls[s]).seq

(* persist, up to the write: the disk is read and merged with the memory,  *)
(* with all that overlapping calls have changed in it                      *)
Merge(s) ==
    LET merged == MergeRecords(disk, mem[s])
    IN  /\ Turn(s)
        /\ IF Head(calls[s]).op = "claim"
           THEN /\ writing' = [writing EXCEPT
                                  ![s] = [merged EXCEPT !.seq = Claimed(s)]]
                /\ calls' = [calls EXCEPT ![s][1] = Claiming(Claimed(s))]
           ELSE /\ writing' = [writing EXCEPT ![s] = merged]
                /\ UNCHANGED calls
        /\ UNCHANGED <<disk, mem, dirty, claims>>

(* persist, the write, and persistAndAdopt: the memory becomes what was    *)
(* merged, and the call returns                                            *)
Write(s) ==
    LET call == Head(calls[s])
    IN  /\ writing[s] # Blank
        /\ disk' = writing[s]
        /\ mem' = [mem EXCEPT ![s] = writing[s]]
        /\ dirty' = [dirty EXCEPT ![s] = FALSE]
        /\ calls' = [calls EXCEPT ![s] = Tail(@)]
        /\ writing' = [writing EXCEPT ![s] = Blank]
        /\ claims' = IF call.op = "claim" THEN Append(claims, call.seq)
                                          ELSE claims

(* mutant: a failed write leaves no mark                                   *)
FailUnnoticed(s) ==
    /\ Turn(s) \/ writing[s] # Blank
    /\ calls' = [calls EXCEPT ![s] = Tail(@)]
    /\ writing' = [writing EXCEPT ![s] = Blank]
    /\ UNCHANGED <<disk, mem, dirty, claims>>

(* persistAndAdopt, the catch: the disk could not be read or written       *)
Fail(s) ==
    /\ Turn(s) \/ writing[s] # Blank
    /\ dirty' = [dirty EXCEPT ![s] = TRUE]
    /\ calls' = [calls EXCEPT ![s] = Tail(@)]
    /\ writing' = [writing EXCEPT ![s] = Blank]
    /\ UNCHANGED <<disk, mem, claims>>

(* load: the window is closed, or the wallet locked, and opened again;     *)
(* a write that was under way may have reached the disk                    *)
Reopen(s) ==
    /\ disk' \in {disk} \cup ({writing[s]} \ {Blank})
    /\ mem' = [mem EXCEPT ![s] = disk']
    /\ dirty' = [dirty EXCEPT ![s] = FALSE]
    /\ calls' = [calls EXCEPT ![s] = <<>>]
    /\ writing' = [writing EXCEPT ![s] = Blank]
    /\ UNCHANGED claims

KeysNext ==
    \E s \in Stores :
        \/ \E copy \in Copies, grew \in BOOLEAN :
               Upsert(s, copy[1], copy[2], grew)
        \/ \E floor \in Floors : NextOutgoingSeq(s, floor)
        \/ \E backup \in Backups :
               ImportConversations(s, backup[1], backup[2])
        \/ Save(s)
        \/ Merge(s)
        \/ Write(s)
        \/ Fail(s)
        \/ Reopen(s)

KeysSpec == KeysInit /\ [][KeysNext]_keyVars

-----------------------------------------------------------------------------
(* nextOutgoingSeq hands out no number twice, whichever windows call it,   *)
(* however their calls overlap, fail or are cut off: two messages of one   *)
(* day never take the same place in the conversation.                      *)
SeqOnce == IsInjective(claims)

(* What is on disk never goes back: neither the numbers claimed nor the    *)
(* age of the root the conversation speaks with (mergeConvKeyMaps).        *)
NeverRolledBack == [][disk'.at >= disk.at /\ disk'.seq >= disk.seq]_keyVars

(* isDurable tells the truth: a store that is not dirty and waits for no   *)
(* call holds no root newer than the disk's and no number the disk lacks.  *)
CleanIsSaved ==
    \A s \in Stores :
        calls[s] = <<>> /\ ~dirty[s] =>
            mem[s].at <= disk.at /\ mem[s].seq <= disk.seq

(* When a call that adopted a root returns without an error, as a receiver *)
(* waits for before it lets the INTRO go (keptDurably), the disk has it.   *)
AdoptedKept ==
    [][\A s \in Stores :
          Write(s) /\ Head(calls[s]).op = "adopt" =>
              Head(calls[s]).intro \in Readable(disk')]_keyVars

=============================================================================
