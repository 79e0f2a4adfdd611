---------------------------- MODULE DeviceProofs ----------------------------
(***************************************************************************)
(* Proofs about what a device of a user keeps and writes by itself: the    *)
(* keys of its conversations (ConvKeys), the sends of its wallet           *)
(* (WalletSend) and its record of a private room (GroupRoom).              *)
(***************************************************************************)
EXTENDS ConvKeys, GroupRoom, WalletSend, Sums, SequenceTheorems, TLAPS

-----------------------------------------------------------------------------
(* The keys of a conversation.  No sequence number is handed out twice,    *)
(* what is on disk never goes back, and a store that says it is saved is,  *)
(* for any number of windows, calls and INTROs.                            *)
(*                                                                         *)
(* All three rest on what the lock protects: between the merge and the     *)
(* write of a store nobody else writes, so what is to be written is as new *)
(* as what it will replace, and a number to be claimed is larger.          *)

Fields == {"current", "at", "reads", "retired", "seq"}

(* The lists of a record play no part in what is proved here.              *)
IsRecord(r) ==
    /\ r = [f \in Fields |-> r[f]]
    /\ r.current \in Nat
    /\ r.at \in Nat
    /\ r.seq \in Nat

Calls == [op : {"adopt", "claim", "save"}, intro : Nat, seq : Nat]

KeysTyped ==
    /\ IsRecord(disk)
    /\ mem = [s \in Stores |-> mem[s]]
    /\ \A s \in Stores : IsRecord(mem[s])
    /\ dirty \in [Stores -> BOOLEAN]
    /\ calls \in [Stores -> Seq(Calls)]
    /\ writing = [s \in Stores |-> writing[s]]
    /\ \A s \in Stores : IsRecord(writing[s])
    /\ claims \in Seq(Nat)

IsWriting(s) == writing[s] # Blank

(* There is no record until a store has written one, and none is written   *)
(* unless the store or the disk has it.                                    *)
NothingBefore ==
    /\ ~Exists(disk) => disk.at = 0 /\ disk.seq = 0
    /\ \A s \in Stores : calls[s] # <<>> => Exists(mem[s]) \/ Exists(disk)

(* What is written under the lock is no older than what it replaces, and a *)
(* number that is claimed is larger than the disk's.                       *)
LockHeld ==
    /\ \A s, t \in Stores : IsWriting(s) /\ IsWriting(t) => s = t
    /\ \A s \in Stores : IsWriting(s) =>
          /\ calls[s] # <<>>
          /\ Exists(writing[s])
          /\ writing[s].at >= disk.at
          /\ writing[s].seq >= disk.seq
          /\ Head(calls[s]).op = "claim" =>
                /\ writing[s].seq = Head(calls[s]).seq
                /\ Head(calls[s]).seq > disk.seq

ClaimsOnDisk ==
    /\ \A i \in DOMAIN claims : claims[i] <= disk.seq
    /\ \A i, j \in DOMAIN claims : claims[i] = claims[j] => i = j

ConvInv ==
    KeysTyped /\ NothingBefore /\ LockHeld /\ ClaimsOnDisk /\ CleanIsSaved

-----------------------------------------------------------------------------
(* Records                                                                 *)

LEMMA BlankIsRecord == IsRecord(Blank) /\ ~Exists(Blank)
BY DEF IsRecord, Blank, Fields, Exists

(* Adopting an INTRO leaves a record that exists, with the same number.    *)
LEMMA AdoptionIsRecord ==
    ASSUME NEW held, IsRecord(held),
           NEW i \in Nat \ {0}, NEW at \in Nat
    PROVE  /\ IsRecord(AdoptKRoot(held, i, at).record)
           /\ Exists(AdoptKRoot(held, i, at).record)
<1> DEFINE adopted == AdoptKRoot(held, i, at).record
<1>1. CASE ~Exists(held)
  <2>1. adopted = [Blank EXCEPT !.current = i, !.at = at]
    BY <1>1 DEF AdoptKRoot, Older, Exists
  <2> HIDE DEF adopted
  <2>2. IsRecord(adopted) /\ adopted.current = i
    BY <2>1, BlankIsRecord DEF Blank, IsRecord, Fields
  <2>3. QED
    BY <2>2 DEF Exists, adopted
<1>2. CASE Exists(held) /\ Older(i, at, held)
  <2>1. adopted = [held EXCEPT !.at = at]
    BY <1>2 DEF AdoptKRoot, Older, Known
  <2> HIDE DEF adopted
  <2>2. IsRecord(adopted) /\ adopted.current = held.current
    BY <2>1 DEF IsRecord, Fields
  <2>3. QED
    BY <1>2, <2>2 DEF Exists, adopted
<1>3. CASE Exists(held) /\ ~Older(i, at, held) /\ Known(i, held)
  BY <1>3 DEF AdoptKRoot
<1>4. CASE Exists(held) /\ ~Older(i, at, held) /\ ~Known(i, held)
           /\ Newer(i, at, held)
  <2> DEFINE reads == AddTo(held.reads, held.current)
             retired == AddTo(held.retired, held.current)
  <2>1. adopted = [held EXCEPT !.current = i, !.at = at,
                               !.reads = reads, !.retired = retired]
    BY <1>4 DEF AdoptKRoot, IsRecord, Fields
  <2> HIDE DEF reads, retired, adopted
  <2>2. IsRecord(adopted) /\ adopted.current = i
    BY <2>1 DEF IsRecord, Fields
  <2>3. QED
    BY <2>2 DEF Exists, adopted
<1>5. CASE Exists(held) /\ ~Older(i, at, held) /\ ~Known(i, held)
           /\ ~Newer(i, at, held)
  <2> DEFINE reads == AddTo(held.reads, i)
             retired == AddTo(held.retired, i)
  <2>1. adopted = [held EXCEPT !.reads = reads, !.retired = retired]
    BY <1>5 DEF AdoptKRoot, IsRecord, Fields
  <2> HIDE DEF reads, retired, adopted
  <2>2. IsRecord(adopted) /\ adopted.current = held.current
    BY <2>1 DEF IsRecord, Fields
  <2>3. QED
    BY <1>5, <2>2 DEF Exists, adopted
<1>6. QED
  BY <1>1, <1>2, <1>3, <1>4, <1>5

LEMMA LargerIsLarger ==
    ASSUME NEW m \in Nat, NEW n \in Nat
    PROVE  Larger(m, n) \in Nat /\ Larger(m, n) >= m /\ Larger(m, n) >= n
BY DEF Larger

(* A merge is as new as what was on disk, in its root and its number.      *)
LEMMA MergeIsNewer ==
    ASSUME NEW theirs, IsRecord(theirs), NEW mine, IsRecord(mine),
           ~Exists(theirs) => theirs.at = 0 /\ theirs.seq = 0
    PROVE  /\ IsRecord(MergeRecords(theirs, mine))
           /\ Exists(mine) \/ Exists(theirs)
                 => Exists(MergeRecords(theirs, mine))
           /\ MergeRecords(theirs, mine).at >= theirs.at
           /\ MergeRecords(theirs, mine).seq >= theirs.seq
<1> DEFINE merged == MergeRecords(theirs, mine)
<1>1. CASE ~Exists(mine)
  <2>1. merged = theirs
    BY <1>1 DEF MergeRecords
  <2>2. QED
    BY <1>1, <2>1 DEF IsRecord
<1>2. CASE Exists(mine) /\ ~Exists(theirs)
  <2>1. merged = mine
    BY <1>2 DEF MergeRecords
  <2>2. QED
    BY <1>2, <2>1 DEF IsRecord
<1>3. CASE Exists(mine) /\ Exists(theirs)
  <2> DEFINE base == IF theirs.at > mine.at THEN theirs ELSE mine
             reads == Union(mine.reads, theirs.reads)
             retired == LastOnes(Union(mine.retired, theirs.retired))
             seq == Larger(mine.seq, theirs.seq)
  <2>1. merged = [base EXCEPT !.reads = reads, !.retired = retired,
                              !.seq = seq]
    BY <1>3 DEF MergeRecords
  <2>2. IsRecord(base) /\ Exists(base) /\ base.at >= theirs.at
    BY <1>3 DEF IsRecord
  <2>3. seq \in Nat /\ seq >= theirs.seq
    BY LargerIsLarger DEF IsRecord
  <2> HIDE DEF base, reads, retired, seq, merged
  <2>4. IsRecord(merged) /\ merged.current = base.current
        /\ merged.at = base.at /\ merged.seq = seq
    BY <2>1, <2>2, <2>3 DEF IsRecord, Fields
  <2>5. QED
    BY <2>2, <2>3, <2>4 DEF Exists, merged
<1>4. QED
  BY <1>1, <1>2, <1>3

-----------------------------------------------------------------------------
(* Calls                                                                   *)

LEMMA CallsTyped ==
    /\ \A i \in Nat : Adoption(i) \in Calls
    /\ \A n \in Nat : Claiming(n) \in Calls
    /\ Saving \in Calls
BY DEF Adoption, Claiming, Saving, Calls

LEMMA QueueGrows ==
    ASSUME NEW queue \in Seq(Calls), NEW one \in Calls
    PROVE  /\ Append(queue, one) \in Seq(Calls)
           /\ Append(queue, one) # <<>>
           /\ queue # <<>> => Head(Append(queue, one)) = Head(queue)
BY AppendProperties, HeadTailAppend

(* A call changes what its store holds in memory, and then waits.          *)
LEMMA BeginKeeps ==
    ASSUME ConvInv, NEW s \in Stores, NEW rec, NEW one \in Calls,
           IsRecord(rec), Exists(rec) \/ Exists(disk),
           Begin(s, rec, one)
    PROVE  ConvInv'
<1> USE DEF ConvInv
<1>1. /\ mem' = [mem EXCEPT ![s] = rec]
      /\ calls' = [calls EXCEPT ![s] = Append(calls[s], one)]
      /\ UNCHANGED <<disk, dirty, writing, claims>>
  BY DEF Begin
<1>2. calls[s] \in Seq(Calls)
  BY DEF KeysTyped
<1>3. /\ calls'[s] \in Seq(Calls) /\ calls'[s] # <<>>
      /\ calls[s] # <<>> => Head(calls'[s]) = Head(calls[s])
  BY <1>1, <1>2, QueueGrows DEF KeysTyped
<1>4. \A t \in Stores : t # s => calls'[t] = calls[t] /\ mem'[t] = mem[t]
  BY <1>1 DEF KeysTyped
<1>5. mem'[s] = rec
  BY <1>1 DEF KeysTyped
<1>6. KeysTyped'
  BY <1>1, <1>3, <1>4, <1>5 DEF KeysTyped
<1>7. NothingBefore'
  BY <1>1, <1>4, <1>5 DEF NothingBefore
<1>8. LockHeld'
  BY <1>1, <1>3, <1>4 DEF LockHeld, IsWriting
<1>9. ClaimsOnDisk'
  BY <1>1 DEF ClaimsOnDisk
<1>10. CleanIsSaved'
  BY <1>1, <1>3, <1>4 DEF CleanIsSaved
<1>11. QED
  BY <1>6, <1>7, <1>8, <1>9, <1>10

LEMMA UpsertKeeps ==
    ASSUME ConvInv, NEW s \in Stores, NEW copy \in Copies,
           NEW grew \in BOOLEAN, Upsert(s, copy[1], copy[2], grew)
    PROVE  ConvInv'
<1> DEFINE adoption == AdoptKRoot(mem[s], copy[1], copy[2])
<1>1. copy[1] \in Nat \ {0} /\ copy[2] \in Nat
  BY ConvKeysAssumption
<1>2. IsRecord(adoption.record) /\ Exists(adoption.record)
  BY <1>1, AdoptionIsRecord DEF ConvInv, KeysTyped
<1>3. PICK one \in Calls : Begin(s, adoption.record, one)
  BY <1>1, CallsTyped DEF Upsert
<1>4. QED
  BY <1>2, <1>3, BeginKeeps

LEMMA NextOutgoingSeqKeeps ==
    ASSUME ConvInv, NEW s \in Stores, NEW least \in Floors,
           NextOutgoingSeq(s, least)
    PROVE  ConvInv'
<1> DEFINE next == Larger(mem[s].seq, least) + 1
           rec == [mem[s] EXCEPT !.seq = next]
<1>1. IsRecord(mem[s]) /\ Exists(mem[s])
  BY DEF ConvInv, KeysTyped, NextOutgoingSeq
<1>2. next \in Nat
  <2>1. mem[s].seq \in Nat /\ least \in Nat
    BY <1>1, ConvKeysAssumption DEF IsRecord
  <2>2. QED
    BY <2>1 DEF Larger
<1>3. Begin(s, rec, Claiming(next))
  BY DEF NextOutgoingSeq
<1> HIDE DEF next
<1>4. IsRecord(rec) /\ rec.current = mem[s].current
  BY <1>1, <1>2 DEF IsRecord, Fields
<1>5. QED
  BY <1>1, <1>2, <1>3, <1>4, CallsTyped, BeginKeeps DEF Exists

LEMMA SaveKeeps ==
    ASSUME ConvInv, NEW s \in Stores, Save(s)
    PROVE  ConvInv'
<1>1. IsRecord(mem[s])
  BY DEF ConvInv, KeysTyped
<1>2. QED
  BY <1>1, CallsTyped, BeginKeeps DEF Save

LEMMA ImportConversationsKeeps ==
    ASSUME ConvInv, NEW s \in Stores, NEW backup \in Backups,
           ImportConversations(s, backup[1], backup[2])
    PROVE  ConvInv'
<1> DEFINE retired == mem[s].retired
           rec == [Blank EXCEPT !.current = backup[1], !.at = backup[2],
                                   !.retired = retired]
<1>1. backup[1] \in Nat \ {0} /\ backup[2] \in Nat
  BY ConvKeysAssumption
<1>2. Begin(s, rec, Saving)
  BY DEF ImportConversations
<1> HIDE DEF retired
<1>3. IsRecord(rec) /\ rec.current = backup[1]
  BY <1>1, BlankIsRecord DEF IsRecord, Fields, Blank
<1>4. Exists(rec)
  BY <1>1, <1>3 DEF Exists
<1>5. QED
  BY <1>2, <1>3, <1>4, CallsTyped, BeginKeeps

-----------------------------------------------------------------------------
(* Under the lock                                                          *)

LEMMA MergeKeeps ==
    ASSUME ConvInv, NEW s \in Stores, Merge(s)
    PROVE  ConvInv'
<1> DEFINE merged == MergeRecords(disk, mem[s])
           head == Head(calls[s])
<1> USE DEF ConvInv
<1>1. /\ calls[s] # <<>> /\ calls[s] \in Seq(Calls)
      /\ \A t \in Stores : ~IsWriting(t)
      /\ UNCHANGED <<disk, mem, dirty, claims>>
  BY DEF Merge, Turn, IsWriting, KeysTyped
<1>2. head \in Calls
  BY <1>1
<1>3. IsRecord(disk) /\ IsRecord(mem[s])
  BY DEF KeysTyped
<1>4. /\ IsRecord(merged) /\ Exists(merged)
      /\ merged.at >= disk.at /\ merged.seq >= disk.seq
  BY <1>1, <1>3, MergeIsNewer DEF NothingBefore
<1>5. CASE head.op = "claim"
  <2> DEFINE rec == [merged EXCEPT !.seq = Claimed(s)]
  <2>1. /\ writing' = [writing EXCEPT ![s] = rec]
        /\ calls' = [calls EXCEPT ![s] =
                        [calls[s] EXCEPT ![1] = Claiming(Claimed(s))]]
    BY <1>5 DEF Merge
  <2>2. Claimed(s) \in Nat /\ Claimed(s) > disk.seq
    BY <1>2, <1>3 DEF Claimed, Calls, IsRecord
  <2>3. Claiming(Claimed(s)) \in Calls
    BY <2>2, CallsTyped
  <2>4. /\ calls'[s] \in Seq(Calls) /\ calls'[s] # <<>>
        /\ Head(calls'[s]) = Claiming(Claimed(s))
    <3>1. calls'[s] = [calls[s] EXCEPT ![1] = Claiming(Claimed(s))]
      BY <2>1 DEF KeysTyped
    <3>2. QED
      BY <1>1, <2>3, <3>1
  <2>5. \A t \in Stores : t # s =>
            calls'[t] = calls[t] /\ writing'[t] = writing[t]
    BY <2>1 DEF KeysTyped
  <2>6. writing'[s] = rec
    BY <2>1 DEF KeysTyped
  <2> HIDE DEF merged
  <2>7. /\ IsRecord(rec) /\ rec.current = merged.current
        /\ rec.at = merged.at /\ rec.seq = Claimed(s)
    BY <1>4, <2>2 DEF IsRecord, Fields
  <2>8. Exists(rec)
    BY <1>4, <2>7 DEF Exists
  <2> HIDE DEF rec
  <2>9. KeysTyped'
    BY <1>1, <2>1, <2>4, <2>5, <2>6, <2>7 DEF KeysTyped
  <2>10. NothingBefore'
    BY <1>1, <2>4, <2>5 DEF NothingBefore
  <2>11. LockHeld'
    <3>1. \A t \in Stores : (IsWriting(t))' => t = s
      BY <1>1, <2>5 DEF IsWriting
    <3>2. Head(calls'[s]).seq = Claimed(s)
      BY <2>4 DEF Claiming
    <3>3. /\ writing'[s].at >= disk'.at
          /\ writing'[s].seq = Claimed(s) /\ Claimed(s) > disk'.seq
      BY <1>1, <1>4, <2>2, <2>6, <2>7
    <3>4. writing'[s].seq >= disk'.seq
      BY <1>1, <1>3, <2>2, <3>3 DEF IsRecord
    <3>5. QED
      BY <2>4, <2>6, <2>8, <3>1, <3>2, <3>3, <3>4 DEF LockHeld
  <2>12. ClaimsOnDisk' /\ CleanIsSaved'
    BY <1>1, <2>4, <2>5 DEF ClaimsOnDisk, CleanIsSaved
  <2>13. QED
    BY <2>9, <2>10, <2>11, <2>12
<1>6. CASE head.op # "claim"
  <2>1. /\ writing' = [writing EXCEPT ![s] = merged]
        /\ UNCHANGED calls
    BY <1>6 DEF Merge
  <2>2. /\ writing'[s] = merged
        /\ \A t \in Stores : t # s => writing'[t] = writing[t]
    BY <2>1 DEF KeysTyped
  <2> HIDE DEF merged
  <2>3. KeysTyped'
    BY <1>1, <1>4, <2>1, <2>2 DEF KeysTyped
  <2>4. NothingBefore' /\ ClaimsOnDisk' /\ CleanIsSaved'
    BY <1>1, <2>1 DEF NothingBefore, ClaimsOnDisk, CleanIsSaved
  <2>5. LockHeld'
    BY <1>1, <1>4, <1>6, <2>1, <2>2 DEF LockHeld, IsWriting
  <2>6. QED
    BY <2>3, <2>4, <2>5
<1>7. QED
  BY <1>5, <1>6

(* What is written was merged with this very disk: nobody wrote since.     *)
LEMMA WriteKeeps ==
    ASSUME ConvInv, NEW s \in Stores, Write(s)
    PROVE  ConvInv'
<1> USE DEF ConvInv
<1>1. IsWriting(s)
  BY DEF Write, IsWriting
<1>2. \A t \in Stores : t # s => ~IsWriting(t)
  BY <1>1 DEF LockHeld
<1>3. /\ calls[s] # <<>> /\ calls[s] \in Seq(Calls)
      /\ Exists(writing[s])
      /\ writing[s].at >= disk.at /\ writing[s].seq >= disk.seq
      /\ IsRecord(disk) /\ IsRecord(writing[s])
  BY <1>1 DEF LockHeld, KeysTyped
<1>4. /\ disk' = writing[s]
      /\ mem' = [mem EXCEPT ![s] = writing[s]]
      /\ dirty' = [dirty EXCEPT ![s] = FALSE]
      /\ calls' = [calls EXCEPT ![s] = Tail(calls[s])]
      /\ writing' = [writing EXCEPT ![s] = Blank]
  BY DEF Write
<1>5. /\ disk.at \in Nat /\ disk.seq \in Nat
      /\ disk'.at \in Nat /\ disk'.seq \in Nat
      /\ disk'.at >= disk.at /\ disk'.seq >= disk.seq
  BY <1>3, <1>4 DEF IsRecord
<1>6. \A t \in Stores : t # s =>
          calls'[t] = calls[t] /\ mem'[t] = mem[t] /\ dirty'[t] = dirty[t]
          /\ writing'[t] = writing[t]
  BY <1>4 DEF KeysTyped
<1>7. mem'[s] = disk' /\ writing'[s] = Blank
  BY <1>4 DEF KeysTyped
<1>8. Tail(calls[s]) \in Seq(Calls) /\ Head(calls[s]) \in Calls
  BY <1>3
<1>9. /\ claims' \in Seq(Nat)
      /\ \/ claims' = claims
         \/ /\ Head(calls[s]).op = "claim"
            /\ claims' = Append(claims, Head(calls[s]).seq)
  BY <1>8 DEF Write, KeysTyped, Calls
<1>10. KeysTyped'
  BY <1>3, <1>4, <1>6, <1>7, <1>8, <1>9, BlankIsRecord DEF KeysTyped
<1>11. NothingBefore'
  BY <1>3, <1>4 DEF NothingBefore
<1>12. LockHeld'
  BY <1>2, <1>6, <1>7 DEF LockHeld, IsWriting
<1>13. ClaimsOnDisk'
  <2>1. CASE claims' = claims
    BY <1>5, <2>1 DEF ClaimsOnDisk, KeysTyped
  <2>2. CASE /\ Head(calls[s]).op = "claim"
             /\ claims' = Append(claims, Head(calls[s]).seq)
    <3> DEFINE n == Head(calls[s]).seq
    <3>1. n = disk'.seq /\ n > disk.seq
      BY <1>1, <1>4, <2>2 DEF LockHeld
    <3>2. claims \in Seq(Nat)
      BY DEF KeysTyped
    <3>3. /\ DOMAIN claims' = 1..Len(claims) + 1
          /\ DOMAIN claims = 1..Len(claims)
          /\ claims'[Len(claims) + 1] = n
          /\ \A i \in DOMAIN claims : claims'[i] = claims[i]
      BY <2>2, <3>2
    <3>4. \A i \in DOMAIN claims : claims[i] < n
      BY <1>5, <3>1, <3>2 DEF ClaimsOnDisk
    <3> HIDE DEF n
    <3>5. \A i \in DOMAIN claims' :
              i \in DOMAIN claims \/ i = Len(claims) + 1
      BY <3>2, <3>3
    <3>6. \A i \in DOMAIN claims' : claims'[i] <= disk'.seq
      BY <1>5, <3>1, <3>2, <3>3, <3>4, <3>5
    <3>7. \A i, j \in DOMAIN claims' : claims'[i] = claims'[j] => i = j
      BY <1>5, <3>1, <3>2, <3>3, <3>4, <3>5 DEF ClaimsOnDisk
    <3>8. QED
      BY <3>6, <3>7 DEF ClaimsOnDisk
  <2>3. QED
    BY <1>9, <2>1, <2>2
<1>14. CleanIsSaved'
  <2>1. SUFFICES ASSUME NEW t \in Stores, calls'[t] = <<>> /\ ~dirty'[t]
                 PROVE  mem'[t].at <= disk'.at /\ mem'[t].seq <= disk'.seq
    BY DEF CleanIsSaved
  <2>2. CASE t = s
    BY <1>5, <1>7, <2>2
  <2>3. CASE t # s
    <3>1. mem'[t] = mem[t] /\ mem[t].at <= disk.at /\ mem[t].seq <= disk.seq
      BY <1>6, <2>1, <2>3 DEF CleanIsSaved
    <3>2. mem[t].at \in Nat /\ mem[t].seq \in Nat
      BY DEF KeysTyped, IsRecord
    <3>3. QED
      BY <1>5, <3>1, <3>2
  <2>4. QED
    BY <2>2, <2>3
<1>15. QED
  BY <1>10, <1>11, <1>12, <1>13, <1>14

LEMMA FailKeeps ==
    ASSUME ConvInv, NEW s \in Stores, Fail(s)
    PROVE  ConvInv'
<1> USE DEF ConvInv
<1>1. /\ calls[s] # <<>> /\ calls[s] \in Seq(Calls)
      /\ \A t \in Stores : t # s => ~IsWriting(t)
  BY DEF Fail, Turn, LockHeld, IsWriting, KeysTyped
<1>2. /\ dirty' = [dirty EXCEPT ![s] = TRUE]
      /\ calls' = [calls EXCEPT ![s] = Tail(calls[s])]
      /\ writing' = [writing EXCEPT ![s] = Blank]
      /\ UNCHANGED <<disk, mem, claims>>
  BY DEF Fail
<1>3. Tail(calls[s]) \in Seq(Calls)
  BY <1>1
<1>4. \A t \in Stores : t # s =>
          calls'[t] = calls[t] /\ dirty'[t] = dirty[t]
          /\ writing'[t] = writing[t]
  BY <1>2 DEF KeysTyped
<1>5. writing'[s] = Blank /\ dirty'[s] = TRUE
  BY <1>2 DEF KeysTyped
<1>6. KeysTyped'
  BY <1>2, <1>3, <1>4, <1>5, BlankIsRecord DEF KeysTyped
<1>7. NothingBefore'
  BY <1>1, <1>2, <1>4 DEF NothingBefore
<1>8. LockHeld'
  BY <1>1, <1>4, <1>5 DEF LockHeld, IsWriting
<1>9. ClaimsOnDisk' /\ CleanIsSaved'
  BY <1>2, <1>4, <1>5 DEF ClaimsOnDisk, CleanIsSaved
<1>10. QED
  BY <1>6, <1>7, <1>8, <1>9

(* A window closed under the lock leaves the disk as it was or as merged.  *)
LEMMA ReloadKeeps ==
    ASSUME ConvInv, NEW s \in Stores, Reopen(s)
    PROVE  ConvInv'
<1> USE DEF ConvInv
<1>1. /\ disk' = disk \/ (disk' = writing[s] /\ IsWriting(s))
      /\ mem' = [mem EXCEPT ![s] = disk']
      /\ dirty' = [dirty EXCEPT ![s] = FALSE]
      /\ calls' = [calls EXCEPT ![s] = <<>>]
      /\ writing' = [writing EXCEPT ![s] = Blank]
      /\ UNCHANGED claims
  BY DEF Reopen, IsWriting
<1>2. /\ IsRecord(disk')
      /\ Exists(disk) \/ disk' # disk => Exists(disk')
      /\ disk'.at >= disk.at /\ disk'.seq >= disk.seq
      /\ disk' = disk \/ \A t \in Stores : t # s => ~IsWriting(t)
  <2>1. CASE disk' = disk
    BY <2>1 DEF KeysTyped, IsRecord
  <2>2. CASE disk' = writing[s] /\ IsWriting(s)
    BY <2>2 DEF KeysTyped, LockHeld
  <2>3. QED
    BY <1>1, <2>1, <2>2
<1>3. /\ disk.at \in Nat /\ disk.seq \in Nat
      /\ disk'.at \in Nat /\ disk'.seq \in Nat
  BY <1>2 DEF KeysTyped, IsRecord
<1>4. \A t \in Stores : t # s =>
          calls'[t] = calls[t] /\ mem'[t] = mem[t] /\ dirty'[t] = dirty[t]
          /\ writing'[t] = writing[t]
  BY <1>1 DEF KeysTyped
<1>5. mem'[s] = disk' /\ writing'[s] = Blank /\ calls'[s] = <<>>
  BY <1>1 DEF KeysTyped
<1>6. KeysTyped'
  <2>1. calls' \in [Stores -> Seq(Calls)]
    BY <1>1 DEF KeysTyped
  <2>2. QED
    BY <1>1, <1>2, <1>4, <1>5, <2>1, BlankIsRecord DEF KeysTyped
<1>7. NothingBefore'
  BY <1>1, <1>2, <1>4, <1>5 DEF NothingBefore
<1>8. LockHeld'
  BY <1>2, <1>4, <1>5 DEF LockHeld, IsWriting
<1>9. ClaimsOnDisk'
  BY <1>1, <1>2, <1>3 DEF ClaimsOnDisk, KeysTyped
<1>10. CleanIsSaved'
  <2>1. SUFFICES ASSUME NEW t \in Stores, calls'[t] = <<>> /\ ~dirty'[t]
                 PROVE  mem'[t].at <= disk'.at /\ mem'[t].seq <= disk'.seq
    BY DEF CleanIsSaved
  <2>2. CASE t = s
    BY <1>3, <1>5, <2>2
  <2>3. CASE t # s
    <3>1. mem'[t] = mem[t] /\ mem[t].at <= disk.at /\ mem[t].seq <= disk.seq
      BY <1>4, <2>1, <2>3 DEF CleanIsSaved
    <3>2. mem[t].at \in Nat /\ mem[t].seq \in Nat
      BY DEF KeysTyped, IsRecord
    <3>3. QED
      BY <1>2, <1>3, <3>1, <3>2
  <2>4. QED
    BY <2>2, <2>3
<1>11. QED
  BY <1>6, <1>7, <1>8, <1>9, <1>10

-----------------------------------------------------------------------------
LEMMA ConvInit == KeysInit => ConvInv
<1> SUFFICES ASSUME KeysInit
             PROVE  ConvInv
  OBVIOUS
<1>1. KeysTyped
  BY BlankIsRecord DEF KeysInit, KeysTyped
<1>2. NothingBefore
  BY DEF KeysInit, NothingBefore, Blank
<1>3. LockHeld /\ ClaimsOnDisk /\ CleanIsSaved
  BY DEF KeysInit, LockHeld, IsWriting, ClaimsOnDisk, CleanIsSaved, Blank
<1>4. QED
  BY <1>1, <1>2, <1>3 DEF ConvInv

LEMMA ConvNext == ConvInv /\ [KeysNext]_keyVars => ConvInv'
<1> SUFFICES ASSUME ConvInv, [KeysNext]_keyVars
             PROVE  ConvInv'
  OBVIOUS
<1>1. CASE KeysNext
  BY <1>1, UpsertKeeps, NextOutgoingSeqKeeps, ImportConversationsKeeps,
     SaveKeeps, MergeKeeps, WriteKeeps, FailKeeps, ReloadKeeps DEF KeysNext
<1>2. CASE UNCHANGED keyVars
  BY <1>2 DEF keyVars, ConvInv, KeysTyped, NothingBefore, LockHeld, IsWriting,
              ClaimsOnDisk, CleanIsSaved
<1>3. QED
  BY <1>1, <1>2

(* nextOutgoingSeq hands out no number twice, whatever windows and calls   *)
(* overlap, fail or are cut off.                                           *)
THEOREM ClaimedOnce == KeysSpec => []SeqOnce
<1>1. ConvInv => SeqOnce
  BY DEF ConvInv, ClaimsOnDisk, SeqOnce, IsInjective
<1>2. QED
  BY <1>1, ConvInit, ConvNext, PTL DEF KeysSpec

(* A store that reports itself durable (isDurable) has nothing to lose.    *)
THEOREM SavedWhenClean == KeysSpec => []CleanIsSaved
<1>1. ConvInv => CleanIsSaved
  BY DEF ConvInv
<1>2. QED
  BY <1>1, ConvInit, ConvNext, PTL DEF KeysSpec

LEMMA StepForward ==
    ConvInv /\ [KeysNext]_keyVars
        => [disk'.at >= disk.at /\ disk'.seq >= disk.seq]_keyVars
<1> SUFFICES ASSUME ConvInv, KeysNext
             PROVE  disk'.at >= disk.at /\ disk'.seq >= disk.seq
  OBVIOUS
<1>1. disk.at \in Nat /\ disk.seq \in Nat
  BY DEF ConvInv, KeysTyped, IsRecord
<1>2. PICK s \in Stores :
          \/ disk' = disk
          \/ disk' = writing[s] /\ IsWriting(s)
  BY DEF KeysNext, Upsert, NextOutgoingSeq, ImportConversations, Save, Begin,
         Merge, Write, Fail, Reopen, IsWriting
<1>3. QED
  BY <1>1, <1>2 DEF ConvInv, LockHeld

(* What is on disk never goes back (persist, mergeConvKeyMaps).            *)
THEOREM DiskMovesForward == KeysSpec => NeverRolledBack
BY ConvInit, ConvNext, StepForward, PTL DEF KeysSpec, NeverRolledBack

-----------------------------------------------------------------------------
(* The rooms of a device.  Of two claims on one generation of the key a    *)
(* device holds the earliest it has read; a write that reached the chain   *)
(* is never taken back; and what is written during a pass is not undone by *)
(* it: for any number of admins, people and writes, whatever is lost and   *)
(* whenever pages are loaded again.                                        *)
(*                                                                         *)
(* The record of a device rests on what is written and what has landed,    *)
(* and both only grow: what is said of a record here has them as           *)
(* parameters, so that a step of another device leaves it true.            *)

(* Rows, what a device holds of them, and its record.                      *)
Rows == [kind : {"admit", "remove"}, by : Admins, gen : Nat, key : Nat,
         who : People, to : SUBSET (Admins \cup People)]
Entries == [id : Nat, at : Nat, seated : BOOLEAN]
RoomKeys == [key : Nat, stamp : Nat]
EpochMaps == UNION {[gens -> RoomKeys] : gens \in SUBSET Nat}
RoomRecords == [members : SUBSET People, epochs : EpochMaps,
                log : SUBSET Nat, pending : SUBSET Entries]

IdsOf(entries) == {e.id : e \in entries}

RecordOK(r) ==
    /\ r \in RoomRecords
    /\ IsFiniteSet(r.pending)
    /\ IsFiniteSet(DOMAIN r.epochs)
    /\ 0 \in DOMAIN r.epochs

(* The stamp of every row that landed.                                     *)
StampIn(c, id) == CHOOSE i \in DOMAIN c : c[i] = id
StampsOf(c) == [id \in Range(c) |-> StampIn(c, id)]

LaneIn(w, id) == RosterLane(w[id].by, w[id].gen, w[id].key)

ChainOK(c) ==
    c \in Seq(Nat) /\ \A i, j \in DOMAIN c : c[i] = c[j] => i = j

(* No row is on its way that has landed.                                   *)
WorldInv(w, fl, st) ==
    /\ w \in Seq(Rows)
    /\ fl \subseteq DOMAIN w
    /\ st \in [DOMAIN st -> Nat \ {0}]
    /\ DOMAIN st \subseteq DOMAIN w
    /\ fl \cap DOMAIN st = {}

(* What is pending was written by the device itself, and is not in its log *)
(* yet; what is in the log has landed.                                     *)
PendingOwn(d, r, w, st) ==
    /\ r.log \subseteq DOMAIN st
    /\ \A e \in r.pending :
          e.id \in DOMAIN w /\ w[e.id].by = d /\ e.id \notin r.log
    /\ \A e, f \in r.pending : e.id = f.id => e = f

(* A key that is held was read from a row in the log, or is of the device  *)
(* itself and was not read back yet; the founding's is never replaced.     *)
KeysHeld(r, st) ==
    /\ r.epochs[0] = [key |-> 0, stamp |-> Speculative]
    /\ \A gen \in DOMAIN r.epochs :
          r.epochs[gen].stamp # Speculative =>
              /\ r.epochs[gen].key \in r.log
              /\ r.epochs[gen].stamp = st[r.epochs[gen].key]

(* The key that is held is the earliest of those whose rows were read.     *)
EarliestOf(d, r, ids, w, st) ==
    \A id \in ids : d \in w[id].to =>
        /\ w[id].gen + 1 \in DOMAIN r.epochs
        /\ r.epochs[w[id].gen + 1].stamp # Speculative
        /\ r.epochs[w[id].gen + 1].stamp <= st[id]

RecordInv(d, r, w, st) ==
    /\ RecordOK(r)
    /\ PendingOwn(d, r, w, st)
    /\ KeysHeld(r, st)
    /\ EarliestOf(d, r, r.log, w, st)

(* The last write about a person that was made during a pass is what the   *)
(* record says.                                                            *)
LastSaid(r, e, w) ==
    \A f \in r.pending : w[f.id].who = w[e.id].who => f.id <= e.id

SaidDuring(r, before, w) ==
    \A e \in r.pending : e.id \notin before /\ LastSaid(r, e, w) =>
        (w[e.id].who \in r.members <=> w[e.id].kind = "admit")

(* What was overdue when a pass began is not on its way any more; if it    *)
(* had landed and its lane answered, it is marked, or that lane was read,  *)
(* or is still to be read.                                                 *)
OverdueRead(marked, pass, w, fl, st) ==
    \A id \in pass.overdue :
        /\ id \in DOMAIN w /\ id \notin fl
        /\ id \in DOMAIN st /\ LaneIn(w, id) \in pass.heard
              => id \in pass.rows \cup marked \/ LaneIn(w, id) \in pass.left

PassShaped(pass) ==
    pass = [heard   |-> pass.heard,  probed  |-> pass.probed,
            left    |-> pass.left,   rows    |-> pass.rows,
            before  |-> pass.before, overdue |-> pass.overdue]

PassOK(r, marked, pass, w, fl, st) ==
    /\ PassShaped(pass)
    /\ pass.rows \subseteq DOMAIN st /\ pass.probed \subseteq DOMAIN st
    /\ OverdueRead(marked, pass, w, fl, st)
    /\ SaidDuring(r, pass.before, w)

(* What a device marks as read is in its log, and so no longer pending.    *)
DeviceInv(d, r, marked, passes, w, fl, st) ==
    /\ RecordInv(d, r, w, st)
    /\ marked \subseteq r.log
    /\ \A pass \in passes : PassOK(r, marked, pass, w, fl, st)

SceneOK(still) ==
    /\ still = [wishes |-> still.wishes, losses |-> still.losses,
                failures |-> still.failures, restarts |-> still.restarts]
    /\ still.restarts \in Nat

RoomTyped ==
    /\ record = [d \in Admins |-> record[d]]
    /\ marks = [d \in Admins |-> marks[d]]
    /\ reading = [d \in Admins |-> reading[d]]
    /\ SceneOK(scene)

RoomInv ==
    /\ RoomTyped /\ ChainOK(chain)
    /\ WorldInv(writes, flying, StampsOf(chain))
    /\ \A d \in Admins :
          DeviceInv(d, record[d], marks[d], reading[d], writes, flying,
                    StampsOf(chain))

-----------------------------------------------------------------------------
(* What is said of a record stays true.                                    *)

Extends(w, more) ==
    DOMAIN w \subseteq DOMAIN more /\ \A i \in DOMAIN w : more[i] = w[i]

LEMMA RecordKept ==
    ASSUME NEW d, NEW r, NEW w, NEW st, RecordInv(d, r, w, st),
           DOMAIN st \subseteq DOMAIN w,
           NEW w1, Extends(w, w1), NEW st1, Extends(st, st1)
    PROVE  RecordInv(d, r, w1, st1)
<1>1. PendingOwn(d, r, w1, st1)
  BY DEF RecordInv, PendingOwn, Extends
<1>2. KeysHeld(r, st1)
  BY DEF RecordInv, PendingOwn, KeysHeld, Extends
<1>3. EarliestOf(d, r, r.log, w1, st1)
  <2>1. \A id \in r.log : w1[id] = w[id] /\ st1[id] = st[id]
    BY DEF RecordInv, PendingOwn, Extends
  <2> QED BY <2>1 DEF RecordInv, EarliestOf
<1> QED BY <1>1, <1>2, <1>3 DEF RecordInv

LEMMA DeviceKept ==
    ASSUME NEW d, NEW r, NEW marked, NEW passes, NEW w, NEW fl, NEW st,
           WorldInv(w, fl, st),
           DeviceInv(d, r, marked, passes, w, fl, st),
           NEW w1, Extends(w, w1), NEW st1, Extends(st, st1),
           DOMAIN st1 \subseteq DOMAIN st \cup fl,
           NEW fl1, \A id \in fl1 : id \in fl \/ id \notin DOMAIN w
    PROVE  DeviceInv(d, r, marked, passes, w1, fl1, st1)
<1>1. RecordInv(d, r, w1, st1)
  BY RecordKept DEF DeviceInv, WorldInv
<1>2. \A e \in r.pending : w1[e.id] = w[e.id]
  BY DEF DeviceInv, RecordInv, PendingOwn, Extends
<1>3. ASSUME NEW pass \in passes
      PROVE  PassOK(r, marked, pass, w1, fl1, st1)
  <2>1. PassOK(r, marked, pass, w, fl, st)
    BY DEF DeviceInv
  <2>2. OverdueRead(marked, pass, w1, fl1, st1)
    <3>1. ASSUME NEW id \in pass.overdue
          PROVE  /\ id \in DOMAIN w1 /\ id \notin fl1
                 /\ id \in DOMAIN st1 /\ LaneIn(w1, id) \in pass.heard
                       => \/ id \in pass.rows \cup marked
                          \/ LaneIn(w1, id) \in pass.left
      <4>1. /\ id \in DOMAIN w /\ id \notin fl
            /\ id \in DOMAIN st /\ LaneIn(w, id) \in pass.heard
                  => \/ id \in pass.rows \cup marked
                     \/ LaneIn(w, id) \in pass.left
        BY <2>1 DEF PassOK, OverdueRead
      <4>2. LaneIn(w1, id) = LaneIn(w, id)
        BY <4>1 DEF LaneIn, Extends
      <4>3. id \in DOMAIN w1 /\ id \notin fl1
        BY <4>1 DEF Extends
      <4>4. id \in DOMAIN st1 => id \in DOMAIN st
        BY <4>1
      <4> QED BY <4>1, <4>2, <4>3, <4>4
    <3> QED BY <3>1 DEF OverdueRead
  <2>3. SaidDuring(r, pass.before, w1)
    <3>1. SaidDuring(r, pass.before, w)
      BY <2>1 DEF PassOK
    <3>2. \A e \in r.pending : LastSaid(r, e, w1) => LastSaid(r, e, w)
      BY <1>2 DEF LastSaid
    <3> QED BY <1>2, <3>1, <3>2 DEF SaidDuring
  <2>4. pass.rows \subseteq DOMAIN st1 /\ pass.probed \subseteq DOMAIN st1
    BY <2>1 DEF PassOK, Extends
  <2> QED BY <2>1, <2>2, <2>3, <2>4 DEF PassOK
<1> QED BY <1>1, <1>3 DEF DeviceInv

-----------------------------------------------------------------------------
(* Stamps and generations.                                                 *)

LEMMA MaxIsLargest ==
    ASSUME NEW S \in SUBSET Nat, IsFiniteSet(S), S # {}
    PROVE  Max(S) \in S /\ \A n \in S : n <= Max(S)
<1> DEFINE F == {A \in SUBSET S :
                    A # {} => \E m \in A : \A n \in A : n <= m}
<1>1. ASSUME NEW A \in SUBSET S, \A B \in SUBSET A : B # A => B \in F
      PROVE  A \in F
  <2>1. ASSUME NEW a \in A PROVE \E m \in A : \A n \in A : n <= m
    <3>1. CASE A \ {a} = {}
      <4>1. \A n \in A : n <= a
        BY <3>1
      <4> QED BY <4>1
    <3>2. CASE A \ {a} # {}
      <4>1. A \ {a} \in F
        BY <1>1
      <4>2. PICK m \in A \ {a} : \A n \in A \ {a} : n <= m
        BY <3>2, <4>1
      <4>3. a \in Nat /\ m \in Nat /\ m \in A
        OBVIOUS
      <4>4. CASE a <= m
        <5>1. \A n \in A : n <= m
          BY <4>2, <4>4
        <5> QED BY <4>3, <5>1
      <4>5. CASE m <= a
        <5>1. \A n \in A : n \in Nat /\ n <= a
          BY <4>2, <4>3, <4>5
        <5> QED BY <5>1
      <4> QED BY <4>3, <4>4, <4>5
    <3> QED BY <3>1, <3>2
  <2> QED BY <2>1
<1>2. F = SUBSET S
  <2> HIDE DEF F
  <2>1. F \in SUBSET SUBSET S
    BY DEF F
  <2> QED BY <1>1, <2>1, SubsetsUp
<1>3. \E m \in S : \A n \in S : n <= m
  BY <1>2
<1>4. \E m \in S : \A n \in S : m >= n
  BY <1>3
<1>5. Max(S) \in S /\ \A n \in S : Max(S) >= n
  BY <1>4 DEF Max
<1> QED BY <1>5

LEMMA StampsTyped ==
    ASSUME NEW c, ChainOK(c)
    PROVE  /\ StampsOf(c) \in [Range(c) -> Nat \ {0}]
           /\ \A i \in DOMAIN c : StampsOf(c)[c[i]] = i
<1>1. \A i \in DOMAIN c : i \in Nat \ {0}
  BY DEF ChainOK
<1>2. ASSUME NEW i \in DOMAIN c PROVE StampIn(c, c[i]) = i
  BY DEF StampIn, ChainOK
<1>3. \A i \in DOMAIN c : c[i] \in Range(c)
  BY DEF Range
<1>4. \A id \in Range(c) : \E i \in DOMAIN c : c[i] = id
  BY DEF Range
<1>5. \A id \in Range(c) : StampIn(c, id) \in Nat \ {0}
  BY <1>1, <1>2, <1>4
<1> QED BY <1>2, <1>3, <1>5 DEF StampsOf

LEMMA StampsAre ==
    ASSUME ChainOK(chain)
    PROVE  /\ DOMAIN StampsOf(chain) = Landed
           /\ \A id \in Landed : Stamp(id) = StampsOf(chain)[id]
BY DEF StampsOf, Landed, Stamp, StampIn

LEMMA LandedOnce ==
    ASSUME NEW c, ChainOK(c), NEW id \in Nat, id \notin Range(c)
    PROVE  LET c1 == Append(c, id)
           IN  /\ ChainOK(c1)
               /\ Range(c1) = Range(c) \cup {id}
               /\ Extends(StampsOf(c), StampsOf(c1))
<1> DEFINE c1 == Append(c, id)
           n == Len(c)
<1>1. /\ c \in Seq(Nat) /\ n \in Nat /\ DOMAIN c = 1..n
      /\ c1 \in Seq(Nat) /\ DOMAIN c1 = 1..(n + 1)
      /\ c1[n + 1] = id /\ \A i \in 1..n : c1[i] = c[i]
  BY DEF ChainOK
<1> HIDE DEF c1, n
<1>2. DOMAIN c1 = DOMAIN c \cup {n + 1} /\ n + 1 \notin DOMAIN c
  BY <1>1
<1>3. \A i \in DOMAIN c : c[i] # id
  BY DEF Range
<1>4. ChainOK(c1)
  BY <1>1, <1>2, <1>3 DEF ChainOK
<1>5. Range(c1) = Range(c) \cup {id}
  BY <1>1, <1>2 DEF Range
<1>6. /\ DOMAIN StampsOf(c) = Range(c) /\ DOMAIN StampsOf(c1) = Range(c1)
      /\ \A i \in DOMAIN c : StampsOf(c)[c[i]] = i /\ StampsOf(c1)[c[i]] = i
  BY <1>1, <1>2, <1>4, StampsTyped
<1>7. Extends(StampsOf(c), StampsOf(c1))
  BY <1>5, <1>6 DEF Extends, Range
<1> QED BY <1>4, <1>5, <1>7 DEF c1

(* The newest generation of a record.                                      *)
LEMMA CurrentTyped ==
    ASSUME NEW r, RecordOK(r)
    PROVE  /\ DOMAIN r.epochs \in SUBSET Nat
           /\ r.epochs \in [DOMAIN r.epochs -> RoomKeys]
           /\ Current(r) \in DOMAIN r.epochs /\ Current(r) \in Nat
           /\ Current(r) + 1 \notin DOMAIN r.epochs
           /\ CurrentKey(r) \in Nat
<1>1. r.epochs \in EpochMaps
  BY DEF RecordOK, RoomRecords
<1>2. /\ DOMAIN r.epochs \in SUBSET Nat
      /\ r.epochs \in [DOMAIN r.epochs -> RoomKeys]
  BY <1>1 DEF EpochMaps
<1>3. /\ Current(r) \in DOMAIN r.epochs
      /\ \A gen \in DOMAIN r.epochs : gen <= Current(r)
  BY <1>2, MaxIsLargest DEF RecordOK, Current
<1>4. Current(r) + 1 \notin DOMAIN r.epochs
  BY <1>2, <1>3
<1>5. CurrentKey(r) \in Nat
  BY <1>2, <1>3 DEF CurrentKey, RoomKeys
<1> QED BY <1>2, <1>3, <1>4, <1>5

-----------------------------------------------------------------------------
(* A row is written.                                                       *)

(* What a device makes of the rows, and of its record, when it writes.     *)
AddsRow(s, t, d, kind, who) ==
    \E row \in Rows, e \in Entries :
        /\ row.by = d /\ row.kind = kind /\ row.who = who
        /\ row.gen = Current(s.record) /\ row.key = CurrentKey(s.record)
        /\ row.to # {} => Admins \subseteq row.to
        /\ row.who \notin row.to
        /\ e.id = Len(s.writes) + 1
        /\ t = [writes |-> Append(s.writes, row),
                flying |-> s.flying \cup {e.id},
                record |->
                    [members |-> IF kind = "admit"
                                 THEN s.record.members \cup {who}
                                 ELSE s.record.members \ {who},
                     epochs  |-> t.record.epochs,
                     log     |-> s.record.log,
                     pending |-> s.record.pending \cup {e}]]
        /\ \/ t.record.epochs = s.record.epochs
           \/ /\ row.to # {}
              /\ t.record.epochs =
                    Holding(s.record.epochs, Current(s.record) + 1,
                            [key |-> e.id, stamp |-> Speculative])

(* What is true of the rows and of the record of a device, when it writes  *)
(* to what is called old here.                                             *)
StateInv(s, d, old, st) ==
    /\ s = [writes |-> s.writes, flying |-> s.flying, record |-> s.record]
    /\ s.writes \in Seq(Rows)
    /\ Extends(writes, s.writes)
    /\ s.flying \subseteq DOMAIN s.writes
    /\ \A id \in s.flying : id \in flying \/ id \notin DOMAIN writes
    /\ RecordInv(d, s.record, s.writes, st)
    /\ \A e \in s.record.pending : e \in old \/ e.id \notin DOMAIN writes

LEMMA AdmitAdds ==
    ASSUME NEW s, NEW d \in Admins, NEW who \in People, NEW old, NEW st,
           StateInv(s, d, old, st), chain \in Seq(Nat)
    PROVE  AddsRow(s, AdmitOf(s, d, who), d, "admit", who)
<1> DEFINE r == s.record
           row == [kind |-> "admit", by |-> d, gen |-> Current(r),
                   key |-> CurrentKey(r), who |-> who, to |-> {}]
           e == [id |-> Len(s.writes) + 1, at |-> Len(chain),
                 seated |-> who \in r.members]
           t == AdmitOf(s, d, who)
<1>1. RecordOK(r) /\ r \in RoomRecords
  BY DEF StateInv, RecordInv, RecordOK
<1>2. row \in Rows
  BY <1>1, CurrentTyped DEF Rows
<1>3. e \in Entries
  BY DEF StateInv, Entries
<1>4. r = [members |-> r.members, epochs |-> r.epochs, log |-> r.log,
           pending |-> r.pending]
  BY <1>1 DEF RoomRecords
<1>5. t = [writes |-> Append(s.writes, row),
           flying |-> s.flying \cup {e.id},
           record |-> [members |-> r.members \cup {who},
                       epochs  |-> r.epochs,
                       log     |-> r.log,
                       pending |-> r.pending \cup {e}]]
  <2> DEFINE sent == Publish(s, d, "admit", who, {})
  <2>1. sent = [writes |-> Append(s.writes, row),
                flying |-> s.flying \cup {e.id},
                record |-> [r EXCEPT !.pending = @ \cup {e}]]
    BY DEF Publish
  <2>2. t = [sent EXCEPT !.record.members = @ \cup {who}]
    BY DEF AdmitOf
  <2> HIDE DEF sent, t, e, row
  <2> QED BY <1>4, <2>1, <2>2
<1>6. t.record.epochs = r.epochs
  BY <1>5
<1>7. /\ row.by = d /\ row.kind = "admit" /\ row.who = who
      /\ row.gen = Current(s.record) /\ row.key = CurrentKey(s.record)
      /\ row.to = {}
      /\ e.id = Len(s.writes) + 1
  OBVIOUS
<1> HIDE DEF row, e, t
<1> QED BY <1>2, <1>3, <1>5, <1>6, <1>7 DEF AddsRow, t

LEMMA RemoveAdds ==
    ASSUME NEW s, NEW d \in Admins, NEW who \in People, NEW old, NEW st,
           StateInv(s, d, old, st), chain \in Seq(Nat), NEW cut \in BOOLEAN
    PROVE  AddsRow(s, RemoveOf(s, d, who, cut), d, "remove", who)
<1> DEFINE r == s.record
           to == IF cut THEN Admins \cup (r.members \ {who}) ELSE {}
           row == [kind |-> "remove", by |-> d, gen |-> Current(r),
                   key |-> CurrentKey(r), who |-> who, to |-> to]
           e == [id |-> Len(s.writes) + 1, at |-> Len(chain),
                 seated |-> who \in r.members]
           t == RemoveOf(s, d, who, cut)
           more == Holding(r.epochs, Current(r) + 1,
                           [key |-> e.id, stamp |-> Speculative])
<1>1. RecordOK(r) /\ r \in RoomRecords
  BY DEF StateInv, RecordInv, RecordOK
<1>2. row \in Rows
  <2>1. to \in SUBSET (Admins \cup People)
    BY <1>1 DEF RoomRecords
  <2> HIDE DEF to
  <2> QED BY <1>1, <2>1, CurrentTyped DEF Rows
<1>3. e \in Entries
  BY DEF StateInv, Entries
<1>4. r = [members |-> r.members, epochs |-> r.epochs, log |-> r.log,
           pending |-> r.pending]
  BY <1>1 DEF RoomRecords
<1>5. Len(Append(s.writes, row)) = e.id
  BY <1>2 DEF StateInv
<1> HIDE DEF row
<1>6. t = [writes |-> Append(s.writes, row),
           flying |-> s.flying \cup {e.id},
           record |-> [members |-> r.members \ {who},
                       epochs  |-> IF cut THEN more ELSE r.epochs,
                       log     |-> r.log,
                       pending |-> r.pending \cup {e}]]
  <2> DEFINE sent == Publish(s, d, "remove", who, to)
             key == [key |-> Len(sent.writes), stamp |-> Speculative]
  <2>1. sent = [writes |-> Append(s.writes, row),
                flying |-> s.flying \cup {e.id},
                record |-> [r EXCEPT !.pending = @ \cup {e}]]
    BY DEF Publish, row
  <2>2. more = Holding(r.epochs, Current(r) + 1, key)
    BY <1>5, <2>1
  <2>3. t = [sent EXCEPT
                !.record.members = r.members \ {who},
                !.record.epochs = IF cut
                                  THEN Holding(@, Current(r) + 1, key)
                                  ELSE @]
    BY DEF RemoveOf
  <2> HIDE DEF sent, t, e, key, more
  <2>4. sent.record.epochs = r.epochs
    BY <1>4, <2>1
  <2>5. t = [sent EXCEPT
                !.record.members = r.members \ {who},
                !.record.epochs = IF cut THEN more ELSE @]
    BY <1>4, <2>1, <2>2, <2>3, <2>4
  <2> HIDE DEF r
  <2> QED BY <1>4, <2>1, <2>5
<1> HIDE DEF e, t, more
<1>7. \/ t.record.epochs = r.epochs
      \/ row.to # {} /\ t.record.epochs = more
  BY <1>6 DEF row
<1>8. /\ row.by = d /\ row.kind = "remove" /\ row.who = who
      /\ row.gen = Current(s.record) /\ row.key = CurrentKey(s.record)
      /\ row.to # {} => Admins \subseteq row.to
      /\ e.id = Len(s.writes) + 1
  BY DEF row, e
<1>9. row.who \notin row.to
  BY GroupRoomAssumption DEF row
<1>10. t = [writes |-> Append(s.writes, row),
            flying |-> s.flying \cup {e.id},
            record |-> [members |-> r.members \ {who},
                        epochs  |-> t.record.epochs,
                        log     |-> r.log,
                        pending |-> r.pending \cup {e}]]
  BY <1>6
<1> QED BY <1>2, <1>3, <1>7, <1>8, <1>9, <1>10 DEF AddsRow, t, more

LEMMA RowKeeps ==
    ASSUME NEW s, NEW d \in Admins, NEW who \in People, NEW old, NEW st,
           StateInv(s, d, old, st), DOMAIN st \subseteq DOMAIN writes,
           writes \in Seq(Rows),
           NEW kind \in {"admit", "remove"},
           NEW t, AddsRow(s, t, d, kind, who)
    PROVE  /\ StateInv(t, d, old, st)
           /\ Len(s.writes) \in Nat /\ Len(t.writes) = Len(s.writes) + 1
<1> DEFINE r == s.record
           w == s.writes
           w1 == t.writes
           r1 == t.record
<1>1. PICK row \in Rows, e \in Entries :
        /\ row.by = d /\ row.kind = kind /\ row.who = who
        /\ e.id = Len(w) + 1
        /\ t = [writes |-> Append(w, row),
                flying |-> s.flying \cup {e.id},
                record |->
                    [members |-> IF kind = "admit"
                                 THEN s.record.members \cup {who}
                                 ELSE s.record.members \ {who},
                     epochs  |-> t.record.epochs,
                     log     |-> s.record.log,
                     pending |-> s.record.pending \cup {e}]]
        /\ \/ r1.epochs = s.record.epochs
           \/ r1.epochs =
                 Holding(s.record.epochs, Current(s.record) + 1,
                         [key |-> e.id, stamp |-> Speculative])
  BY DEF AddsRow
<1>2. /\ w \in Seq(Rows) /\ Extends(writes, w)
      /\ s.flying \subseteq DOMAIN w
      /\ \A id \in s.flying : id \in flying \/ id \notin DOMAIN writes
      /\ RecordInv(d, r, w, st)
      /\ \A f \in r.pending : f \in old \/ f.id \notin DOMAIN writes
  BY DEF StateInv
<1>3. /\ w1 = Append(w, row) /\ t.flying = s.flying \cup {e.id}
      /\ r1.log = r.log /\ r1.pending = r.pending \cup {e}
      /\ r1 = [members |-> r1.members, epochs |-> r1.epochs,
               log |-> r1.log, pending |-> r1.pending]
      /\ t = [writes |-> t.writes, flying |-> t.flying, record |-> t.record]
      /\ r1.members = IF kind = "admit" THEN r.members \cup {who}
                                        ELSE r.members \ {who}
  <2> DEFINE M == IF kind = "admit" THEN r.members \cup {who}
                                    ELSE r.members \ {who}
             W == Append(w, row)
             F == s.flying \cup {e.id}
             P == r.pending \cup {e}
             E == r1.epochs
             L == r.log
  <2>1. t = [writes |-> W, flying |-> F,
             record |-> [members |-> M, epochs |-> E, log |-> L,
                         pending |-> P]]
    BY <1>1
  <2> HIDE DEF M, W, F, P, E, L
  <2>2. /\ w1 = W /\ t.flying = F
        /\ r1 = [members |-> M, epochs |-> E, log |-> L, pending |-> P]
        /\ t = [writes |-> t.writes, flying |-> t.flying, record |-> t.record]
    BY <2>1
  <2>3. r1.members = M /\ r1.log = L /\ r1.pending = P
    BY <2>2
  <2>4. r1 = [members |-> r1.members, epochs |-> r1.epochs,
              log |-> r1.log, pending |-> r1.pending]
    BY <2>2
  <2> QED BY <2>2, <2>3, <2>4 DEF M, W, F, P, L
<1>4. /\ Len(w) \in Nat /\ DOMAIN w = 1..Len(w)
      /\ w1 \in Seq(Rows) /\ Len(w1) = Len(w) + 1
      /\ DOMAIN w1 = DOMAIN w \cup {e.id} /\ e.id \notin DOMAIN w
      /\ w1[e.id] = row /\ \A i \in DOMAIN w : w1[i] = w[i]
      /\ e.id \in Nat \ {0}
  BY <1>1, <1>2, <1>3
<1> HIDE DEF w, w1, r, r1
<1>5. Extends(w, w1) /\ Extends(writes, w1)
  BY <1>2, <1>4 DEF Extends
<1>6. e.id \notin DOMAIN writes
  BY <1>2, <1>4 DEF Extends
<1>7. RecordOK(r) /\ r \in RoomRecords
  BY <1>2 DEF RecordInv, RecordOK
<1>8. /\ r.epochs \in [DOMAIN r.epochs -> RoomKeys]
      /\ DOMAIN r.epochs \in SUBSET Nat
      /\ Current(r) \in Nat /\ Current(r) + 1 \notin DOMAIN r.epochs
      /\ 0 \in DOMAIN r.epochs /\ IsFiniteSet(DOMAIN r.epochs)
  BY <1>7, CurrentTyped DEF RecordOK
<1>9. \/ r1.epochs = r.epochs
      \/ /\ DOMAIN r1.epochs = DOMAIN r.epochs \cup {Current(r) + 1}
         /\ r1.epochs = [gen \in DOMAIN r1.epochs |-> r1.epochs[gen]]
         /\ r1.epochs[Current(r) + 1] = [key |-> e.id, stamp |-> Speculative]
         /\ \A gen \in DOMAIN r.epochs : r1.epochs[gen] = r.epochs[gen]
  <2> DEFINE key == [key |-> e.id, stamp |-> Speculative]
             more == Holding(r.epochs, Current(r) + 1, key)
  <2>1. r1.epochs = r.epochs \/ r1.epochs = more
    BY <1>1 DEF r, r1
  <2>2. /\ more = [x \in DOMAIN r.epochs \cup {Current(r) + 1} |-> more[x]]
        /\ more[Current(r) + 1] = key
        /\ \A gen \in DOMAIN r.epochs : more[gen] = r.epochs[gen]
    BY <1>8 DEF Holding
  <2> HIDE DEF more, key
  <2>3. DOMAIN more = DOMAIN r.epochs \cup {Current(r) + 1}
    BY <2>2
  <2> QED BY <2>1, <2>2, <2>3 DEF key
<1>10. /\ DOMAIN r.epochs \subseteq DOMAIN r1.epochs
       /\ \A gen \in DOMAIN r.epochs : r1.epochs[gen] = r.epochs[gen]
       /\ \A gen \in DOMAIN r1.epochs :
             gen \in DOMAIN r.epochs \/ r1.epochs[gen].stamp = Speculative
  BY <1>9
<1>11. r1.epochs \in EpochMaps /\ IsFiniteSet(DOMAIN r1.epochs)
  <2>1. CASE r1.epochs = r.epochs
    BY <1>8, <2>1 DEF EpochMaps
  <2>2. CASE r1.epochs # r.epochs
    <3>1. [key |-> e.id, stamp |-> Speculative] \in RoomKeys
      BY <1>4 DEF RoomKeys, Speculative
    <3>2. r1.epochs \in [DOMAIN r1.epochs -> RoomKeys]
      BY <1>8, <1>9, <2>2, <3>1
    <3>3. DOMAIN r1.epochs \in SUBSET Nat /\ IsFiniteSet(DOMAIN r1.epochs)
      BY <1>8, <1>9, <2>2, FS_AddElement
    <3> QED BY <3>2, <3>3 DEF EpochMaps
  <2> QED BY <2>1, <2>2
<1>12. RecordOK(r1)
  <2>1. /\ r.members \in SUBSET People /\ r.log \in SUBSET Nat
        /\ r.pending \in SUBSET Entries /\ IsFiniteSet(r.pending)
    BY <1>7 DEF RecordOK, RoomRecords
  <2>2. r1.members \in SUBSET People /\ r1.log \in SUBSET Nat
        /\ r1.pending \in SUBSET Entries
    BY <1>3, <2>1
  <2>3. IsFiniteSet(r1.pending)
    <3>1. IsFiniteSet(r.pending \cup {e})
      BY <2>1, FS_AddElement
    <3> QED BY <1>3, <3>1
  <2>4. r1 \in RoomRecords
    BY <1>3, <1>11, <2>2 DEF RoomRecords
  <2> QED BY <1>8, <1>10, <1>11, <2>3, <2>4 DEF RecordOK
<1>13. RecordInv(d, r, w1, st)
  <2>1. DOMAIN st \subseteq DOMAIN w
    BY <1>2 DEF Extends
  <2>2. Extends(st, st)
    BY DEF Extends
  <2> QED BY <1>2, <1>5, <2>1, <2>2, RecordKept
<1>14. PendingOwn(d, r1, w1, st)
  <2>1. /\ r.log \subseteq DOMAIN st
        /\ \A f \in r.pending :
              f.id \in DOMAIN w /\ w1[f.id].by = d /\ f.id \notin r.log
        /\ \A f, g \in r.pending : f.id = g.id => f = g
    BY <1>2, <1>13 DEF RecordInv, PendingOwn
  <2>2. e.id \notin r.log
    BY <1>6, <2>1
  <2>3. w1[e.id].by = d
    BY <1>1, <1>4
  <2>4. \A f \in r.pending : f.id # e.id
    BY <1>4, <2>1
  <2> QED BY <1>3, <1>4, <2>1, <2>2, <2>3, <2>4 DEF PendingOwn
<1>15. KeysHeld(r1, st)
  BY <1>3, <1>8, <1>10, <1>13 DEF RecordInv, KeysHeld
<1>16. EarliestOf(d, r1, r1.log, w1, st)
  BY <1>3, <1>10, <1>13 DEF RecordInv, EarliestOf
<1>17. RecordInv(d, r1, w1, st)
  BY <1>12, <1>14, <1>15, <1>16 DEF RecordInv
<1>18. \A f \in r1.pending : f \in old \/ f.id \notin DOMAIN writes
  BY <1>2, <1>3, <1>6
<1>19. /\ t.flying \subseteq DOMAIN w1
       /\ \A id \in t.flying : id \in flying \/ id \notin DOMAIN writes
  BY <1>2, <1>3, <1>4, <1>6
<1>20. StateInv(t, d, old, st)
  BY <1>3, <1>4, <1>5, <1>17, <1>18, <1>19 DEF StateInv, w1, r1
<1> QED BY <1>4, <1>20 DEF w, w1

(* Every key that is held but the founding's is carried by a row of the    *)
(* generation before, wrapped for all admins; and without a stamp it is    *)
(* that of a removal that is pending.                                      *)
KeysFrom(r, w) ==
    \A gen \in DOMAIN r.epochs : gen # 0 =>
        LET key == r.epochs[gen].key
        IN  /\ key \in DOMAIN w /\ w[key].to # {} /\ w[key].gen + 1 = gen
            /\ r.epochs[gen].stamp = Speculative => key \in IdsOf(r.pending)

(* A key is wrapped for all admins, and not for whom the row removes; and  *)
(* a row names the key of its generation.                                  *)
RowsFit(w) ==
    \A id \in DOMAIN w :
        /\ w[id].to # {} => Admins \subseteq w[id].to
        /\ w[id].who \notin w[id].to
        /\ w[id].key # 0 => /\ w[id].key \in DOMAIN w
                           /\ w[w[id].key].gen + 1 = w[id].gen

KeysOK(s) == RowsFit(s.writes) /\ KeysFrom(s.record, s.writes)

LEMMA RowKeysKept ==
    ASSUME NEW s, NEW d \in Admins, NEW who, NEW old, NEW st,
           StateInv(s, d, old, st), KeysOK(s), NEW kind,
           NEW t, AddsRow(s, t, d, kind, who)
    PROVE  KeysOK(t)
<1> DEFINE r == s.record
           w == s.writes
           w1 == t.writes
           r1 == t.record
<1>1. PICK row \in Rows, e \in Entries :
        /\ row.gen = Current(r) /\ row.key = CurrentKey(r)
        /\ row.to # {} => Admins \subseteq row.to
        /\ row.who \notin row.to
        /\ e.id = Len(w) + 1
        /\ t = [writes |-> Append(w, row),
                flying |-> s.flying \cup {e.id},
                record |->
                    [members |-> IF kind = "admit"
                                 THEN r.members \cup {who}
                                 ELSE r.members \ {who},
                     epochs  |-> r1.epochs,
                     log     |-> r.log,
                     pending |-> r.pending \cup {e}]]
        /\ \/ r1.epochs = r.epochs
           \/ /\ row.to # {}
              /\ r1.epochs = Holding(r.epochs, Current(r) + 1,
                                     [key |-> e.id, stamp |-> Speculative])
  BY DEF AddsRow
<1>2. w1 = Append(w, row) /\ r1.pending = r.pending \cup {e}
  <2> DEFINE M == IF kind = "admit" THEN r.members \cup {who}
                                    ELSE r.members \ {who}
             W == Append(w, row)
             F == s.flying \cup {e.id}
             P == r.pending \cup {e}
             E == r1.epochs
             L == r.log
  <2>1. t = [writes |-> W, flying |-> F,
             record |-> [members |-> M, epochs |-> E, log |-> L,
                         pending |-> P]]
    BY <1>1
  <2> HIDE DEF M, W, F, P, E, L
  <2>2. t.writes = W /\ t.record.pending = P
    BY <2>1
  <2> QED BY <2>2 DEF W, P
<1>3. /\ w \in Seq(Rows) /\ RecordOK(r) /\ r.epochs[0].key = 0
      /\ RowsFit(w) /\ KeysFrom(r, w)
  BY DEF StateInv, RecordInv, KeysHeld, KeysOK
<1>4. Current(r) \in Nat /\ Current(r) \in DOMAIN r.epochs
  BY <1>3, CurrentTyped
<1> HIDE DEF r, w, w1, r1
<1>5. /\ DOMAIN w1 = DOMAIN w \cup {e.id}
      /\ w1[e.id] = row /\ \A id \in DOMAIN w : w1[id] = w[id]
  BY <1>1, <1>2, <1>3
<1>6. RowsFit(w1)
  <2>1. row.key # 0 => row.key \in DOMAIN w /\ w[row.key].gen + 1 = row.gen
    BY <1>1, <1>3, <1>4 DEF KeysFrom, CurrentKey, r
  <2>2. ASSUME NEW id \in DOMAIN w1
        PROVE  /\ w1[id].to # {} => Admins \subseteq w1[id].to
               /\ w1[id].who \notin w1[id].to
               /\ w1[id].key # 0 => /\ w1[id].key \in DOMAIN w
                                   /\ w[w1[id].key].gen + 1 = w1[id].gen
    <3>1. CASE id \in DOMAIN w
      BY <1>3, <1>5, <3>1 DEF RowsFit
    <3>2. CASE id = e.id
      BY <1>1, <1>5, <2>1, <3>2
    <3> QED BY <1>5, <3>1, <3>2
  <2> QED BY <1>5, <2>2 DEF RowsFit
<1>7. /\ e.id \in IdsOf(r1.pending)
      /\ IdsOf(r.pending) \subseteq IdsOf(r1.pending)
  BY <1>2 DEF IdsOf
<1>8. ASSUME NEW gen \in DOMAIN r1.epochs, gen # 0
      PROVE  LET key == r1.epochs[gen].key
             IN  /\ key \in DOMAIN w1 /\ w1[key].to # {}
                 /\ w1[key].gen + 1 = gen
                 /\ r1.epochs[gen].stamp = Speculative
                       => key \in IdsOf(r1.pending)
  <2>1. CASE gen \in DOMAIN r.epochs /\ r1.epochs[gen] = r.epochs[gen]
    BY <1>3, <1>5, <1>7, <1>8, <2>1 DEF KeysFrom
  <2>2. CASE /\ row.to # {} /\ gen = Current(r) + 1
             /\ r1.epochs[gen] = [key |-> e.id, stamp |-> Speculative]
    <3>1. r1.epochs[gen].key = e.id
      BY <2>2
    <3>2. w1[e.id].to # {} /\ w1[e.id].gen + 1 = gen
      BY <1>1, <1>5, <2>2 DEF r
    <3> QED BY <1>5, <1>7, <3>1, <3>2
  <2> QED BY <1>1, <1>8, <2>1, <2>2 DEF Holding
<1> QED BY <1>6, <1>8 DEF KeysOK, KeysFrom, w1, r1

-----------------------------------------------------------------------------
(* The victims of removals whose key lost are removed again.               *)

(* g gives what is made of s by the removals of every subset of ids.       *)
RemovesUp(g, s, d, ids) ==
    g = [some \in SUBSET ids |->
            IF some = {}
            THEN s
            ELSE RemoveOf(g[some \ {Max(some)}], d,
                          writes[Max(some)].who, TRUE)]

LEMMA RemovesExist ==
    ASSUME NEW s, NEW d, NEW ids \in SUBSET Nat, IsFiniteSet(ids)
    PROVE  \E g : RemovesUp(g, s, d, ids)
<1> DEFINE Small(n) == {A \in SUBSET ids : Cardinality(A) <= n}
           Of(g, A) == IF A = {}
                       THEN s
                       ELSE RemoveOf(g[A \ {Max(A)}], d,
                                     writes[Max(A)].who, TRUE)
           Made(g, n) == g = [A \in Small(n) |-> Of(g, A)]
           N == {n \in Nat : \E g : Made(g, n)}
<1>1. \A A \in SUBSET ids : IsFiniteSet(A) /\ Cardinality(A) \in Nat
  BY FS_Subset, FS_CardinalityType
<1>2. 0 \in N
  <2> DEFINE g == [A \in Small(0) |-> s]
  <2>1. ASSUME NEW A \in Small(0) PROVE A = {}
    <3>1. IsFiniteSet(A) /\ Cardinality(A) = 0
      BY <1>1
    <3> QED BY <3>1, FS_EmptySet
  <2>2. g = [A \in Small(0) |-> Of(g, A)]
    BY <2>1
  <2> HIDE DEF g, Of
  <2>3. \E x : Made(x, 0)
    BY <2>2
  <2> HIDE DEF Made
  <2> QED BY <2>3
<1>3. ASSUME NEW n \in N PROVE n + 1 \in N
  <2>1. PICK g : Made(g, n)
    OBVIOUS
  <2> DEFINE h == [A \in Small(n + 1) |-> Of(g, A)]
  <2>2. \A A \in Small(n) : A \in Small(n + 1)
    BY <1>1
  <2>3. \A A \in Small(n) : h[A] = g[A]
    <3> HIDE DEF Of, Small
    <3> QED BY <2>1, <2>2
  <2>4. ASSUME NEW A \in Small(n + 1), A # {}
        PROVE  Max(A) \in A /\ A \ {Max(A)} \in Small(n)
    <3>1. IsFiniteSet(A) /\ Cardinality(A) \in Nat /\ A \in SUBSET Nat
      BY <1>1
    <3>2. Max(A) \in A
      BY <2>4, <3>1, MaxIsLargest
    <3>3. Cardinality(A \ {Max(A)}) = Cardinality(A) - 1
      BY <3>1, <3>2, FS_RemoveElement
    <3>4. Cardinality(A) <= n + 1 /\ n \in Nat
      OBVIOUS
    <3>5. Cardinality(A \ {Max(A)}) <= n
      BY <3>1, <3>3, <3>4
    <3> QED BY <3>2, <3>5
  <2> HIDE DEF Small
  <2>5. ASSUME NEW A \in Small(n + 1) PROVE Of(h, A) = Of(g, A)
    <3>1. A # {} => h[A \ {Max(A)}] = g[A \ {Max(A)}]
      BY <2>3, <2>4
    <3> HIDE DEF h
    <3> QED BY <3>1
  <2>6. h = [A \in Small(n + 1) |-> Of(h, A)]
    BY <2>5, Zenon
  <2>7. \E x : Made(x, n + 1)
    BY <2>6
  <2> HIDE DEF Made
  <2>8. n + 1 \in Nat
    OBVIOUS
  <2> QED BY <2>7, <2>8
<1>4. N = Nat
  <2> HIDE DEF N
  <2>1. N \in SUBSET Nat
    BY DEF N
  <2> QED BY <1>2, <1>3, <2>1, CountUp
<1>5. Cardinality(ids) \in N
  BY <1>4, FS_CardinalityType
<1>6. PICK g : Made(g, Cardinality(ids))
  BY <1>5
<1>7. Small(Cardinality(ids)) = SUBSET ids
  BY FS_Subset
<1>8. RemovesUp(g, s, d, ids)
  BY <1>6, <1>7 DEF RemovesUp
<1> QED BY <1>8

LEMMA RowKeepsLog ==
    ASSUME NEW s, NEW t, NEW d, NEW kind, NEW who, AddsRow(s, t, d, kind, who)
    PROVE  t.record.log = s.record.log
<1>1. \E W, F, M, P :
         t = [writes |-> W, flying |-> F,
              record |-> [members |-> M, epochs |-> t.record.epochs,
                          log |-> s.record.log, pending |-> P]]
  BY Zenon DEF AddsRow
<1> QED BY <1>1

(* Each removal made again is one more row.                                *)
LEMMA RemovedAgain ==
    ASSUME NEW s, NEW d \in Admins, NEW old, NEW st,
           StateInv(s, d, old, st), DOMAIN st \subseteq DOMAIN writes,
           writes \in Seq(Rows), chain \in Seq(Nat),
           NEW entries, IsFiniteSet(entries),
           IdsOf(entries) \subseteq DOMAIN writes
    PROVE  LET t == RemoveAgain(s, d, entries)
           IN  /\ StateInv(t, d, old, st)
               /\ t.record.log = s.record.log
               /\ KeysOK(s) => KeysOK(t)
               /\ entries = {} => t = s
               /\ entries # {} => Len(t.writes) > Len(s.writes)
<1> DEFINE ids == IdsOf(entries)
           t == RemoveAgain(s, d, entries)
           g == CHOOSE x : RemovesUp(x, s, d, ids)
           Fits(x, some) ==
              /\ StateInv(x, d, old, st)
              /\ x.record.log = s.record.log
              /\ KeysOK(s) => KeysOK(x)
              /\ Len(x.writes) \in Nat
              /\ some = {} => x = s
              /\ some # {} => Len(x.writes) > Len(s.writes)
           F == {some \in SUBSET ids : Fits(g[some], some)}
<1>1. t = g[ids]
  BY Zenon DEF RemoveAgain, RemovesUp, IdsOf
<1>2. ids \in SUBSET Nat /\ \A id \in ids : writes[id].who \in People
  <2>1. \A id \in DOMAIN writes : id \in Nat /\ writes[id] \in Rows
    OBVIOUS
  <2> HIDE DEF ids
  <2>2. ids \subseteq DOMAIN writes
    BY DEF ids
  <2> QED BY <2>1, <2>2 DEF Rows
<1>3. IsFiniteSet(ids)
  <2> DEFINE f == [e \in entries |-> e.id]
  <2>1. f \in Surjection(entries, ids)
    BY DEF Surjection, IdsOf
  <2> QED BY <2>1, FS_Surjection
<1>4. RemovesUp(g, s, d, ids)
  BY <1>2, <1>3, RemovesExist
<1> HIDE DEF g, t
<1>5. Len(s.writes) \in Nat
  BY DEF StateInv
<1>6. ASSUME NEW some \in SUBSET ids,
             \A B \in SUBSET some : B # some => B \in F
      PROVE  some \in F
  <2>1. CASE some = {}
    <3>1. g[some] = s
      BY <1>4, <2>1 DEF RemovesUp
    <3> QED BY <1>5, <2>1, <3>1
  <2>2. CASE some # {}
    <3> DEFINE m == Max(some)
               x == g[some \ {m}]
               y == g[some]
    <3>1. m \in some /\ writes[m].who \in People
      <4>1. some \in SUBSET Nat /\ IsFiniteSet(some)
        BY <1>2, <1>3, FS_Subset
      <4> QED BY <1>2, <2>2, <4>1, MaxIsLargest
    <3> HIDE DEF m
    <3>2. some \ {m} \in F
      BY <1>6, <3>1
    <3>3. y = RemoveOf(x, d, writes[m].who, TRUE)
      BY <1>4, <2>2 DEF RemovesUp, m
    <3>4. /\ StateInv(x, d, old, st) /\ Len(x.writes) \in Nat
          /\ x.record.log = s.record.log
          /\ KeysOK(s) => KeysOK(x)
          /\ x = s \/ Len(x.writes) > Len(s.writes)
      BY <3>2
    <3> HIDE DEF F, x, y
    <3>5. AddsRow(x, y, d, "remove", writes[m].who)
      BY <3>1, <3>3, <3>4, RemoveAdds
    <3>6. StateInv(y, d, old, st) /\ Len(y.writes) = Len(x.writes) + 1
      BY <3>1, <3>4, <3>5, RowKeeps
    <3>7. Len(y.writes) \in Nat /\ Len(y.writes) > Len(s.writes)
      BY <1>5, <3>4, <3>6
    <3>8. KeysOK(s) => KeysOK(y)
      BY <3>4, <3>5, RowKeysKept
    <3>9. y.record.log = s.record.log
      BY <3>4, <3>5, RowKeepsLog
    <3>10. Fits(y, some)
      BY <2>2, <3>6, <3>7, <3>8, <3>9
    <3> QED BY <3>10 DEF F, y
  <2> QED BY <2>1, <2>2
<1>7. F = SUBSET ids
  <2> HIDE DEF F
  <2>1. F \in SUBSET SUBSET ids
    BY DEF F
  <2> QED BY <1>3, <1>6, <2>1, SubsetsUp
<1>8. Fits(t, ids)
  BY <1>1, <1>7
<1>9. ids = {} <=> entries = {}
  BY DEF IdsOf
<1> QED BY <1>8, <1>9 DEF t

-----------------------------------------------------------------------------
(* What a pass makes of a record: the rows are applied, entries are        *)
(* settled and taken back, and what was written meanwhile stands.          *)

TakenBack(d, r, pass, rows, used) ==
    Reverted(d, ApplyGroupRows(r, rows), pass, rows, used)

StillPending(d, r, pass, rows, used) ==
    r.pending \ ({e \in r.pending : e.id \in rows}
                    \cup TakenBack(d, r, pass, rows, used))

FoldedOf(d, r, pass, rows, used) ==
    [RevertControl(d, ApplyGroupRows(r, rows),
                   TakenBack(d, r, pass, rows, used)) EXCEPT
        !.pending = StillPending(d, r, pass, rows, used)]

Meanwhile(d, r, pass, rows, used) ==
    {e \in StillPending(d, r, pass, rows, used) : e.id \notin pass.before}

KeptGens(r, entries) ==
    {gen \in DOMAIN r.epochs :
        r.epochs[gen].key \notin Rekeys({e.id : e \in entries})}

RecordShaped(r) ==
    r = [members |-> r.members, epochs |-> r.epochs, log |-> r.log,
         pending |-> r.pending]

LEMMA AppliedIs ==
    ASSUME NEW r \in RoomRecords, NEW rows
    PROVE  /\ RecordShaped(r)
           /\ ApplyGroupRows(r, rows) =
                 [members |-> AppliedMembers(r, rows), epochs |-> r.epochs,
                  log |-> r.log \cup rows, pending |-> r.pending]
<1>1. r = [members |-> r.members, epochs |-> r.epochs, log |-> r.log,
           pending |-> r.pending]
  BY DEF RoomRecords
<1> DEFINE M == AppliedMembers(r, rows)
<1> HIDE DEF M
<1>2. ApplyGroupRows(r, rows) = [r EXCEPT !.members = M, !.log = @ \cup rows]
  BY DEF ApplyGroupRows, M
<1>3. ApplyGroupRows(r, rows) =
         [members |-> M, epochs |-> r.epochs, log |-> r.log \cup rows,
          pending |-> r.pending]
  BY <1>1, <1>2
<1> QED BY <1>1, <1>3 DEF RecordShaped, M

LEMMA TakenBackAre ==
    ASSUME NEW d, NEW r \in RoomRecords, NEW pass, NEW rows, NEW used
    PROVE  TakenBack(d, r, pass, rows, used) =
              {e \in r.pending :
                  /\ e.id \notin rows
                  /\ e.id \in pass.overdue
                  /\ writes[e.id].gen \in DOMAIN r.epochs
                       => RosterLane(d, writes[e.id].gen,
                                     r.epochs[writes[e.id].gen].key) \in used}
<1> DEFINE applied == ApplyGroupRows(r, rows)
<1>1. applied.pending = r.pending /\ applied.epochs = r.epochs
  BY AppliedIs
<1> HIDE DEF applied
<1>2. Reverted(d, applied, pass, rows, used) =
              {e \in r.pending :
                  /\ e.id \notin rows
                  /\ e.id \in pass.overdue
                  /\ writes[e.id].gen \in DOMAIN r.epochs
                       => RosterLane(d, writes[e.id].gen,
                                     r.epochs[writes[e.id].gen].key) \in used}
  BY <1>1 DEF Reverted
<1> QED BY <1>2 DEF TakenBack, applied

FoldedAs(r, x, rows, taken, left) ==
    /\ RecordShaped(x) /\ x.members \subseteq People
    /\ x.epochs = Restrict(r.epochs, KeptGens(r, taken))
    /\ x.log = r.log \cup rows
    /\ x.pending = left

LEMMA FoldedIs ==
    ASSUME NEW d, NEW r \in RoomRecords, NEW pass, NEW rows, NEW used
    PROVE  FoldedAs(r, FoldedOf(d, r, pass, rows, used), rows,
                    TakenBack(d, r, pass, rows, used),
                    StillPending(d, r, pass, rows, used))
<1> DEFINE applied == ApplyGroupRows(r, rows)
           taken == TakenBack(d, r, pass, rows, used)
           y == RevertControl(d, applied, taken)
           kept == KeptGens(r, taken)
           P == StillPending(d, r, pass, rows, used)
           x == FoldedOf(d, r, pass, rows, used)
<1>1. applied = [members |-> applied.members, epochs |-> r.epochs,
                 log |-> r.log \cup rows, pending |-> r.pending]
  BY AppliedIs
<1> HIDE DEF applied, taken
<1>2. KeptGens(applied, taken) = kept
  BY <1>1 DEF KeptGens
<1>3. \E M \in SUBSET People :
         y = [applied EXCEPT !.members = M,
                             !.epochs = Restrict(@, KeptGens(applied, taken))]
  <2> DEFINE Undone(w) == {e.id : e \in {f \in taken :
                 writes[f.id].who = w /\ Undoes(d, applied, f)}}
             M == {w \in People :
                      IF Undone(w) = {}
                      THEN w \in applied.members
                      ELSE writes[Max(Undone(w))].kind = "remove"}
  <2>1. y = [applied EXCEPT !.members = M,
                            !.epochs = Restrict(@, KeptGens(applied, taken))]
    BY DEF RevertControl, KeptGens
  <2>2. M \in SUBSET People
    OBVIOUS
  <2> HIDE DEF M, y
  <2> QED BY <2>1, <2>2
<1>4. PICK M \in SUBSET People :
         y = [applied EXCEPT !.members = M,
                             !.epochs = Restrict(@, kept)]
  BY <1>2, <1>3
<1> HIDE DEF kept, y
<1>5. y = [members |-> M, epochs |-> Restrict(r.epochs, kept),
           log |-> r.log \cup rows, pending |-> r.pending]
  <2> DEFINE E == Restrict(applied.epochs, kept)
  <2>1. applied.epochs = r.epochs
    BY <1>1
  <2>2. E = Restrict(r.epochs, kept)
    BY <2>1
  <2>3. y = [applied EXCEPT !.members = M, !.epochs = E]
    BY <1>4
  <2> DEFINE A == applied.members
             L == r.log \cup rows
             P1 == r.pending
             E1 == r.epochs
  <2> HIDE DEF E, A, L, P1, E1
  <2>4. applied = [members |-> A, epochs |-> E1, log |-> L, pending |-> P1]
    BY <1>1 DEF A, L, P1, E1
  <2>5. y = [members |-> M, epochs |-> E, log |-> L, pending |-> P1]
    BY <2>3, <2>4
  <2>6. y = [members |-> M, epochs |-> E, log |-> r.log \cup rows,
             pending |-> r.pending]
    BY <2>5 DEF L, P1
  <2> QED BY <2>2, <2>6
<1>6. x = [y EXCEPT !.pending = P]
  BY DEF FoldedOf, y, applied, taken
<1> HIDE DEF x, P
<1>7. x = [members |-> M, epochs |-> Restrict(r.epochs, kept),
           log |-> r.log \cup rows, pending |-> P]
  BY <1>5, <1>6
<1>8. RecordShaped(x)
  BY <1>7 DEF RecordShaped
<1>9. /\ x.members \subseteq People /\ x.epochs = Restrict(r.epochs, kept)
      /\ x.log = r.log \cup rows /\ x.pending = P
  BY <1>7
<1> QED BY <1>8, <1>9 DEF FoldedAs, x, P, kept, taken

LEMMA WalkedIs ==
    ASSUME NEW d, NEW r \in RoomRecords, NEW pass, NEW rows, NEW used
    PROVE  Walked(d, r, pass, rows, used) =
              KeepWrites(r, FoldedOf(d, r, pass, rows, used),
                         Meanwhile(d, r, pass, rows, used))
<1>1. ApplyGroupRows(r, rows).pending = r.pending
  BY AppliedIs
<1> QED BY <1>1, Zenon DEF Walked, FoldedOf, Meanwhile, StillPending,
                           TakenBack, Settled

(* What was written meanwhile changes who is a member, and nothing else.   *)
LEMMA KeepWritesShape ==
    ASSUME NEW r, NEW x, NEW entries, RecordShaped(x),
           r.members \subseteq People, x.members \subseteq People
    PROVE  LET y == KeepWrites(r, x, entries)
           IN  /\ RecordShaped(y) /\ y.members \subseteq People
               /\ y.epochs = x.epochs /\ y.log = x.log
               /\ y.pending = x.pending
<1> DEFINE y == KeepWrites(r, x, entries)
<1>1. \E A, B : y = [x EXCEPT !.members = (@ \cup (A \cap r.members)) \ B]
  BY Zenon DEF KeepWrites
<1>2. PICK A, B : y = [x EXCEPT !.members = (@ \cup (A \cap r.members)) \ B]
  BY <1>1
<1> HIDE DEF y
<1> DEFINE M == (x.members \cup (A \cap r.members)) \ B
<1>3. y = [members |-> M, epochs |-> x.epochs, log |-> x.log,
           pending |-> x.pending]
  BY <1>2 DEF RecordShaped
<1>4. M \subseteq People
  OBVIOUS
<1> HIDE DEF M
<1> QED BY <1>3, <1>4 DEF RecordShaped, y

(* A write of the pass stands, unless a row that was learned is later.     *)
LEMMA KeepWritesStand ==
    ASSUME NEW r, NEW x, NEW entries, RecordShaped(x),
           NEW e \in entries,
           writes[e.id].kind \in {"admit", "remove"},
           writes[e.id].who \in r.members <=> writes[e.id].kind = "admit"
    PROVE  \/ writes[e.id].who \in KeepWrites(r, x, entries).members
                 <=> writes[e.id].who \in r.members
           \/ \E id \in x.log \ r.log :
                 writes[id].who = writes[e.id].who /\ ~(Stamp(id) <= e.at)
<1> DEFINE who == writes[e.id].who
           learned == x.log \ r.log
           Stands(f, against) ==
               \A id \in About(learned, against, writes[f.id].who) :
                   Stamp(id) <= f.at
           Said(kind, against) ==
               {writes[f.id].who : f \in {g \in entries :
                   writes[g.id].kind = kind /\ Stands(g, against)}}
           M == (x.members \cup (Said("admit", "remove") \cap r.members))
                   \ (Said("remove", "admit") \ r.members)
<1>1. KeepWrites(r, x, entries) = [x EXCEPT !.members = M]
  BY Zenon DEF KeepWrites
<1>2. KeepWrites(r, x, entries).members = M
  BY <1>1 DEF RecordShaped
<1>3. CASE \E id \in learned : writes[id].who = who /\ ~(Stamp(id) <= e.at)
  BY <1>3
<1>4. CASE \A id \in learned : writes[id].who = who => Stamp(id) <= e.at
  <2>1. Stands(e, "admit") /\ Stands(e, "remove")
    BY <1>4 DEF About
  <2>2. CASE writes[e.id].kind = "admit"
    <3>1. who \in Said("admit", "remove")
      BY <2>1, <2>2
    <3> HIDE DEF Said, Stands
    <3>2. who \in M
      BY <2>2, <3>1
    <3> QED BY <1>2, <2>2, <3>2
  <2>3. CASE writes[e.id].kind = "remove"
    <3>1. who \in Said("remove", "admit")
      BY <2>1, <2>3
    <3> HIDE DEF Said, Stands
    <3>2. who \notin M
      BY <2>3, <3>1
    <3> QED BY <1>2, <2>3, <3>2
  <2> QED BY <2>2, <2>3
<1> QED BY <1>3, <1>4

-----------------------------------------------------------------------------
(* The keys that are read are adopted.                                     *)

(* What is held of x came from r and from the rows; a key that was read is *)
(* not taken back with a write.                                            *)
WalkedFrom(r, x, rows) ==
    /\ RecordShaped(x) /\ x.members \subseteq People
    /\ x.log = r.log \cup rows
    /\ x.pending \subseteq r.pending
    /\ \A e \in x.pending : e.id \notin rows
    /\ DOMAIN x.epochs \subseteq DOMAIN r.epochs
    /\ x.epochs = [gen \in DOMAIN x.epochs |-> r.epochs[gen]]
    /\ \A gen \in DOMAIN r.epochs :
          gen = 0 \/ r.epochs[gen].stamp # Speculative
             => gen \in DOMAIN x.epochs
    /\ \A gen \in DOMAIN x.epochs, e \in r.pending :
          e.id = x.epochs[gen].key /\ writes[e.id].to # {}
             => e \in x.pending \/ e.id \in rows

LEMMA WalkFits ==
    ASSUME NEW d, NEW r, NEW st, RecordInv(d, r, writes, st),
           NEW pass, NEW rows, NEW used, writes \in Seq(Rows)
    PROVE  WalkedFrom(r, Walked(d, r, pass, rows, used), rows)
<1> DEFINE taken == TakenBack(d, r, pass, rows, used)
           kept == KeptGens(r, taken)
           P == StillPending(d, r, pass, rows, used)
           y == FoldedOf(d, r, pass, rows, used)
           x == Walked(d, r, pass, rows, used)
<1>1. r \in RoomRecords /\ 0 \in DOMAIN r.epochs
  BY DEF RecordInv, RecordOK
<1>2. /\ RecordShaped(y) /\ y.members \subseteq People
      /\ y.epochs = Restrict(r.epochs, kept)
      /\ y.log = r.log \cup rows /\ y.pending = P
  <2> HIDE DEF taken, kept, P, y
  <2>1. FoldedAs(r, y, rows, taken, P)
    BY <1>1, FoldedIs, Zenon DEF taken, P, y
  <2> QED BY <2>1 DEF FoldedAs, kept
<1>3. x = KeepWrites(r, y, Meanwhile(d, r, pass, rows, used))
  BY <1>1, WalkedIs
<1>4. r.members \subseteq People
  BY <1>1 DEF RoomRecords
<1> HIDE DEF x, y, P, kept
<1>5. /\ RecordShaped(x) /\ x.members \subseteq People
      /\ x.epochs = Restrict(r.epochs, kept)
      /\ x.log = r.log \cup rows /\ x.pending = P
  BY <1>2, <1>3, <1>4, KeepWritesShape
<1>6. P \subseteq r.pending /\ \A e \in P : e.id \notin rows
  BY DEF P, StillPending
<1>7. \A e \in taken : e \in r.pending
  BY <1>1, TakenBackAre
<1>8. x.epochs = [gen \in kept |-> r.epochs[gen]]
  BY <1>5 DEF Restrict
<1>9. kept \subseteq DOMAIN r.epochs
  BY DEF kept, KeptGens
<1>10. ASSUME NEW gen \in DOMAIN r.epochs,
              gen = 0 \/ r.epochs[gen].stamp # Speculative
       PROVE  gen \in kept
  <2>1. ASSUME NEW e \in taken PROVE r.epochs[gen].key # e.id
    <3>1. e.id \in DOMAIN writes /\ e.id \notin r.log
      BY <1>7 DEF RecordInv, PendingOwn
    <3>2. CASE gen = 0
      <4>1. r.epochs[gen].key = 0
        BY <3>2 DEF RecordInv, KeysHeld
      <4>2. e.id # 0
        BY <3>1
      <4> QED BY <4>1, <4>2
    <3>3. CASE r.epochs[gen].stamp # Speculative
      BY <3>1, <3>3 DEF RecordInv, KeysHeld
    <3> QED BY <1>10, <3>2, <3>3
  <2> HIDE DEF taken
  <2>2. r.epochs[gen].key \notin Rekeys({e.id : e \in taken})
    BY <2>1 DEF Rekeys
  <2> QED BY <2>2 DEF kept, KeptGens
<1>11. /\ DOMAIN x.epochs = kept
       /\ x.epochs = [gen \in DOMAIN x.epochs |-> r.epochs[gen]]
  BY <1>8
<1>12. ASSUME NEW gen \in kept, NEW e \in r.pending,
              e.id = r.epochs[gen].key, writes[e.id].to # {}
       PROVE  e \in P \/ e.id \in rows
  <2>1. e \notin taken
    BY <1>12 DEF kept, KeptGens, Rekeys
  <2> QED BY <2>1, Zenon DEF P, StillPending, taken
<1> HIDE DEF taken
<1>13. \A gen \in DOMAIN x.epochs, e \in r.pending :
          e.id = x.epochs[gen].key /\ writes[e.id].to # {}
             => e \in x.pending \/ e.id \in rows
  BY <1>5, <1>8, <1>12
<1> QED BY <1>5, <1>6, <1>9, <1>10, <1>11, <1>13 DEF WalkedFrom, x

(* Of claims with stamps there is an earliest.                             *)
Earliest(C) == CHOOSE c \in C : \A other \in C : c.stamp <= other.stamp

LEMMA EarliestClaim ==
    ASSUME NEW C, C # {}, \A c \in C : c.stamp \in Nat
    PROVE  Earliest(C) \in C
           /\ \A other \in C : Earliest(C).stamp <= other.stamp
<1> DEFINE T == {c.stamp : c \in C}
<1>1. T \in SUBSET Nat /\ T # {}
  OBVIOUS
<1> HIDE DEF T
<1>2. PICK m \in T : \A n \in T : m <= n
  BY <1>1, LeastNumber
<1>3. \E c \in C : \A other \in C : c.stamp <= other.stamp
  BY <1>2 DEF T
<1> QED BY <1>3 DEF Earliest

LEMMA ClaimsFit ==
    ASSUME NEW d, NEW r, RecordInv(d, r, writes, StampsOf(chain)),
           ChainOK(chain), WorldInv(writes, flying, StampsOf(chain)),
           NEW rows, rows \subseteq Landed,
           NEW x, WalkedFrom(r, x, rows),
           NEW gen, NEW c \in Claims(d, x, rows, gen)
    PROVE  /\ gen \in Nat \ {0} /\ c \in RoomKeys /\ c.stamp # Speculative
           /\ c.key \in r.log \cup rows
           /\ c.stamp = StampsOf(chain)[c.key]
<1> DEFINE st == StampsOf(chain)
<1>1. /\ DOMAIN st = Landed /\ \A id \in Landed : Stamp(id) = st[id]
  BY StampsAre
<1>2. /\ st \in [DOMAIN st -> Nat \ {0}] /\ DOMAIN st \subseteq DOMAIN writes
      /\ writes \in Seq(Rows)
  BY DEF WorldInv
<1> HIDE DEF st
<1>3. \/ \E id \in rows : /\ Generation(id) = gen
                          /\ c = [key |-> id, stamp |-> Stamp(id)]
      \/ /\ gen \in DOMAIN x.epochs /\ c = x.epochs[gen]
         /\ x.epochs[gen].stamp # Speculative
  BY DEF Claims, Rekeys
<1>4. CASE \E id \in rows : /\ Generation(id) = gen
                            /\ c = [key |-> id, stamp |-> Stamp(id)]
  <2>1. PICK id \in rows : /\ Generation(id) = gen
                           /\ c = [key |-> id, stamp |-> Stamp(id)]
    BY <1>4
  <2>2. id \in Landed /\ id \in DOMAIN writes /\ id \in Nat
    BY <1>1, <1>2
  <2>3. Stamp(id) = st[id] /\ st[id] \in Nat \ {0}
    BY <1>1, <1>2, <2>2
  <2>4. writes[id].gen \in Nat
    <3>1. writes[id] \in Rows
      BY <1>2, <2>2
    <3> QED BY <3>1 DEF Rows
  <2>5. gen \in Nat \ {0}
    BY <2>1, <2>4 DEF Generation
  <2>6. c \in RoomKeys /\ c.key = id /\ c.stamp = st[id]
    BY <2>1, <2>2, <2>3 DEF RoomKeys
  <2>7. c.stamp # Speculative
    BY <2>3, <2>6 DEF Speculative
  <2> QED BY <2>5, <2>6, <2>7 DEF st
<1>5. CASE /\ gen \in DOMAIN x.epochs /\ c = x.epochs[gen]
           /\ x.epochs[gen].stamp # Speculative
  <2>1. gen \in DOMAIN r.epochs /\ c = r.epochs[gen]
    BY <1>5 DEF WalkedFrom
  <2>2. RecordOK(r) /\ KeysHeld(r, st)
    BY DEF RecordInv, st
  <2>3. gen \in Nat /\ c \in RoomKeys
    BY <2>1, <2>2, CurrentTyped
  <2>4. gen # 0 /\ c.key \in r.log /\ c.stamp = st[c.key]
    BY <1>5, <2>1, <2>2 DEF KeysHeld
  <2> QED BY <1>5, <2>3, <2>4 DEF st
<1> QED BY <1>3, <1>4, <1>5

(* What is held of y is the claim that won, or what was held of x when     *)
(* nothing was claimed.                                                    *)
AdoptedFrom(d, x, y, rows) ==
    \A gen \in DOMAIN y.epochs :
        \/ y.epochs[gen] \in Claims(d, x, rows, gen)
        \/ /\ Claims(d, x, rows, gen) = {}
           /\ gen \in DOMAIN x.epochs /\ y.epochs[gen] = x.epochs[gen]

LEMMA AdoptFits ==
    ASSUME NEW d, NEW r, RecordInv(d, r, writes, StampsOf(chain)),
           ChainOK(chain), WorldInv(writes, flying, StampsOf(chain)),
           NEW rows, rows \subseteq Landed, IsFiniteSet(rows),
           NEW x, WalkedFrom(r, x, rows)
    PROVE  LET y == Adopt(d, x, rows)
           IN  /\ RecordInv(d, y, writes, StampsOf(chain))
               /\ RecordShaped(y) /\ y.members = x.members
               /\ y.log = x.log /\ y.pending = x.pending
               /\ AdoptedFrom(d, x, y, rows)
<1> DEFINE y == Adopt(d, x, rows)
           st == StampsOf(chain)
           C(gen) == Claims(d, x, rows, gen)
           carried == {g \in {Generation(id) : id \in Rekeys(rows)} :
                          C(g) # {}}
           gens == DOMAIN x.epochs \cup carried
           E == [gen \in gens |->
                    IF C(gen) = {} THEN x.epochs[gen] ELSE Earliest(C(gen))]
<1>1. /\ DOMAIN st = Landed /\ \A id \in Landed : Stamp(id) = st[id]
  BY StampsAre
<1>2. /\ st \in [DOMAIN st -> Nat \ {0}] /\ DOMAIN st \subseteq DOMAIN writes
      /\ writes \in Seq(Rows)
  BY DEF WorldInv
<1>3. y = [x EXCEPT !.epochs = E]
  BY Zenon DEF Adopt, Earliest
<1>4. RecordShaped(x) /\ x.members \subseteq People
  BY DEF WalkedFrom
<1> HIDE DEF y, E
<1>5. y = [members |-> x.members, epochs |-> E, log |-> x.log,
           pending |-> x.pending]
  BY <1>3, <1>4 DEF RecordShaped
<1>6. /\ y.members = x.members /\ y.epochs = E /\ y.log = x.log
      /\ y.pending = x.pending /\ RecordShaped(y)
  BY <1>5 DEF RecordShaped
<1>7. ASSUME NEW gen, NEW c \in C(gen)
      PROVE  /\ gen \in Nat \ {0} /\ c \in RoomKeys /\ c.stamp # Speculative
             /\ c.key \in y.log /\ c.stamp = st[c.key] /\ c.stamp \in Nat
  <2>1. /\ gen \in Nat \ {0} /\ c \in RoomKeys /\ c.stamp # Speculative
        /\ c.key \in r.log \cup rows /\ c.stamp = StampsOf(chain)[c.key]
    BY ClaimsFit
  <2>2. y.log = r.log \cup rows
    BY <1>6 DEF WalkedFrom
  <2>3. c.stamp \in Nat
    BY <2>1 DEF RoomKeys
  <2> QED BY <2>1, <2>2, <2>3
<1> HIDE DEF st, C
<1>8. ASSUME NEW gen, C(gen) # {}
      PROVE  Earliest(C(gen)) \in C(gen)
             /\ \A other \in C(gen) :
                   Earliest(C(gen)).stamp <= other.stamp
  BY <1>7, <1>8, EarliestClaim
<1>9. RecordOK(r) /\ r \in RoomRecords
  BY DEF RecordInv, RecordOK
<1>10. /\ r.epochs \in [DOMAIN r.epochs -> RoomKeys]
       /\ DOMAIN r.epochs \in SUBSET Nat /\ IsFiniteSet(DOMAIN r.epochs)
       /\ 0 \in DOMAIN r.epochs
       /\ DOMAIN x.epochs \subseteq DOMAIN r.epochs
       /\ \A gen \in DOMAIN x.epochs : x.epochs[gen] = r.epochs[gen]
  BY <1>9, CurrentTyped DEF RecordOK, WalkedFrom
<1>11. ASSUME NEW gen \in gens
       PROVE  \/ /\ C(gen) = {} /\ gen \in DOMAIN x.epochs
                 /\ E[gen] = r.epochs[gen]
              \/ C(gen) # {} /\ E[gen] = Earliest(C(gen))
  <2>1. C(gen) = {} => gen \in DOMAIN x.epochs
    OBVIOUS
  <2> QED BY <1>10, <2>1 DEF E
<1>12. DOMAIN E = gens /\ E = [gen \in gens |-> E[gen]]
  BY DEF E
<1>13. gens \in SUBSET Nat /\ IsFiniteSet(gens)
  <2>1. carried \in SUBSET Nat
    BY <1>7
  <2>2. IsFiniteSet(carried)
    <3> DEFINE G == {Generation(id) : id \in Rekeys(rows)}
    <3>1. IsFiniteSet(Rekeys(rows))
      BY FS_Subset DEF Rekeys
    <3>2. IsFiniteSet(G)
      <4> DEFINE f == [id \in Rekeys(rows) |-> Generation(id)]
      <4>1. f \in Surjection(Rekeys(rows), G)
        BY DEF Surjection
      <4> HIDE DEF f, G
      <4> QED BY <3>1, <4>1, FS_Surjection
    <3> QED BY <3>2, FS_Subset
  <2>3. IsFiniteSet(DOMAIN x.epochs)
    BY <1>10, FS_Subset
  <2> HIDE DEF carried
  <2> QED BY <1>10, <2>1, <2>2, <2>3, FS_Union
<1> HIDE DEF gens
<1>14. E \in EpochMaps
  <2>1. \A gen \in gens : E[gen] \in RoomKeys
    BY <1>7, <1>8, <1>10, <1>11
  <2>2. E \in [gens -> RoomKeys]
    BY <1>12, <2>1
  <2> QED BY <1>13, <2>2 DEF EpochMaps
<1>15. 0 \in gens /\ E[0] = [key |-> 0, stamp |-> Speculative]
  <2>1. 0 \in DOMAIN x.epochs
    BY <1>10 DEF WalkedFrom
  <2>2. C(0) = {}
    BY <1>7
  <2>3. 0 \in gens
    BY <2>1 DEF gens
  <2> QED BY <1>11, <2>2, <2>3 DEF RecordInv, KeysHeld
<1>16. RecordOK(y)
  <2>1. r.pending \in SUBSET Entries /\ IsFiniteSet(r.pending)
        /\ r.log \in SUBSET Nat
    BY <1>9 DEF RecordOK, RoomRecords
  <2>2. x.pending \in SUBSET Entries /\ IsFiniteSet(x.pending)
    BY <2>1, FS_Subset DEF WalkedFrom
  <2>3. x.log \in SUBSET Nat
    BY <1>1, <1>2, <2>1 DEF WalkedFrom
  <2>4. y \in RoomRecords
    BY <1>4, <1>5, <1>14, <2>2, <2>3 DEF RoomRecords
  <2> QED BY <1>6, <1>12, <1>13, <1>15, <2>2, <2>4 DEF RecordOK
<1>17. PendingOwn(d, y, writes, st)
  <2>1. PendingOwn(d, r, writes, st)
    BY DEF RecordInv, st
  <2>2. /\ y.log = r.log \cup rows /\ y.pending \subseteq r.pending
        /\ \A e \in y.pending : e.id \notin rows
    BY <1>6 DEF WalkedFrom
  <2> QED BY <1>1, <2>1, <2>2 DEF PendingOwn
<1>18. KeysHeld(y, st)
  <2>1. ASSUME NEW gen \in gens, E[gen].stamp # Speculative
        PROVE  E[gen].key \in y.log /\ E[gen].stamp = st[E[gen].key]
    <3>1. CASE C(gen) # {}
      BY <1>7, <1>8, <1>11, <3>1
    <3>2. CASE C(gen) = {}
      <4>1. /\ gen \in DOMAIN x.epochs /\ E[gen] = r.epochs[gen]
            /\ x.epochs[gen] = r.epochs[gen]
        BY <1>10, <1>11, <3>2
      <4>2. x.epochs[gen] \in C(gen)
        BY <2>1, <4>1 DEF C, Claims
      <4> QED BY <3>2, <4>2
    <3> QED BY <3>1, <3>2
  <2> QED BY <1>6, <1>12, <1>15, <2>1 DEF KeysHeld
<1>19. EarliestOf(d, y, y.log, writes, st)
  <2> SUFFICES ASSUME NEW id \in y.log, d \in writes[id].to
               PROVE  /\ writes[id].gen + 1 \in gens
                      /\ E[writes[id].gen + 1].stamp # Speculative
                      /\ E[writes[id].gen + 1].stamp <= st[id]
    BY <1>6, <1>12 DEF EarliestOf
  <2> DEFINE gen == writes[id].gen + 1
  <2>1. y.log = r.log \cup rows
    BY <1>6 DEF WalkedFrom
  <2>2. id \in Landed /\ id \in DOMAIN writes
    <3>1. r.log \subseteq DOMAIN st
      BY DEF RecordInv, PendingOwn, st
    <3> QED BY <1>1, <1>2, <2>1, <3>1
  <2>3. st[id] \in Nat
    BY <1>1, <1>2, <2>2
  <2>4. gen \in gens /\ \E c \in C(gen) : c.stamp <= st[id]
    <3>1. CASE id \in rows
      <4> DEFINE c == [key |-> id, stamp |-> Stamp(id)]
      <4>1. id \in Rekeys(rows) /\ gen = Generation(id)
        BY <3>1 DEF Rekeys, Generation
      <4>2. c \in C(gen)
        BY <4>1 DEF C, Claims
      <4>3. gen \in gens
        BY <4>1, <4>2 DEF gens
      <4>4. c.stamp = st[id] /\ st[id] <= st[id]
        BY <1>1, <2>2, <2>3
      <4> HIDE DEF c
      <4> QED BY <4>2, <4>3, <4>4
    <3>2. CASE id \in r.log
      <4>1. /\ gen \in DOMAIN r.epochs
            /\ r.epochs[gen].stamp # Speculative
            /\ r.epochs[gen].stamp <= st[id]
        BY <3>2 DEF RecordInv, EarliestOf, st
      <4>2. gen \in DOMAIN x.epochs /\ x.epochs[gen] = r.epochs[gen]
        BY <1>10, <4>1 DEF WalkedFrom
      <4> HIDE DEF gen
      <4>3. x.epochs[gen] \in C(gen)
        BY <4>1, <4>2 DEF C, Claims
      <4>4. gen \in gens
        BY <4>2 DEF gens
      <4> QED BY <4>1, <4>2, <4>3, <4>4
    <3> QED BY <2>1, <3>1, <3>2
  <2> HIDE DEF gen
  <2>5. E[gen] \in C(gen) /\ \A other \in C(gen) : E[gen].stamp <= other.stamp
    BY <1>8, <1>11, <2>4
  <2>6. E[gen].stamp \in Nat /\ E[gen].stamp # Speculative
    BY <1>7, <2>5
  <2>7. E[gen].stamp <= st[id]
    BY <1>7, <2>3, <2>4, <2>5, <2>6
  <2> QED BY <2>4, <2>6, <2>7 DEF gen
<1>20. AdoptedFrom(d, x, y, rows)
  <2> SUFFICES ASSUME NEW gen \in gens
               PROVE  \/ E[gen] \in C(gen)
                      \/ /\ C(gen) = {} /\ gen \in DOMAIN x.epochs
                         /\ E[gen] = x.epochs[gen]
    BY <1>6, <1>12 DEF AdoptedFrom, C
  <2> QED BY <1>8, <1>10, <1>11
<1> QED BY <1>6, <1>16, <1>17, <1>18, <1>19, <1>20 DEF RecordInv, st, y

-----------------------------------------------------------------------------
(* The steps.                                                              *)

LEMMA OneDevice ==
    ASSUME RoomInv, NEW d \in Admins, NEW r, NEW marked, NEW passes,
           record' = [record EXCEPT ![d] = r],
           marks' = [marks EXCEPT ![d] = marked],
           reading' = [reading EXCEPT ![d] = passes],
           chain' = chain, Extends(writes, writes'),
           WorldInv(writes', flying', StampsOf(chain)),
           \A id \in flying' : id \in flying \/ id \notin DOMAIN writes,
           SceneOK(scene'),
           DeviceInv(d, r, marked, passes, writes', flying', StampsOf(chain))
    PROVE  RoomInv'
<1> DEFINE st == StampsOf(chain)
<1>1. st = StampsOf(chain')
  OBVIOUS
<1>2. Extends(st, st) /\ DOMAIN st \subseteq DOMAIN st \cup flying
  BY DEF Extends
<1> HIDE DEF st
<1>3. /\ record = [x \in Admins |-> record[x]]
      /\ marks = [x \in Admins |-> marks[x]]
      /\ reading = [x \in Admins |-> reading[x]]
      /\ ChainOK(chain) /\ WorldInv(writes, flying, st)
  BY DEF RoomInv, RoomTyped, st
<1>4. ASSUME NEW x \in Admins
      PROVE  DeviceInv(x, record'[x], marks'[x], reading'[x], writes',
                       flying', st)
  <2>1. CASE x = d
    <3>1. record'[x] = r /\ marks'[x] = marked /\ reading'[x] = passes
      BY <1>3, <2>1
    <3> QED BY <2>1, <3>1 DEF st
  <2>2. CASE x # d
    <3>1. /\ record'[x] = record[x] /\ marks'[x] = marks[x]
          /\ reading'[x] = reading[x]
      BY <1>3, <2>2
    <3>2. DeviceInv(x, record[x], marks[x], reading[x], writes, flying, st)
      BY DEF RoomInv, st
    <3>3. DeviceInv(x, record[x], marks[x], reading[x], writes', flying', st)
      BY <1>2, <1>3, <3>2, DeviceKept
    <3> QED BY <3>1, <3>3
  <2> QED BY <2>1, <2>2
<1>5. RoomTyped'
  <2>1. /\ record' = [x \in Admins |-> record'[x]]
        /\ marks' = [x \in Admins |-> marks'[x]]
        /\ reading' = [x \in Admins |-> reading'[x]]
    BY <1>3
  <2> QED BY <2>1 DEF RoomTyped
<1>6. ChainOK(chain') /\ WorldInv(writes', flying', StampsOf(chain'))
  BY <1>3
<1> QED BY <1>1, <1>4, <1>5, <1>6 DEF RoomInv

(* A device starts from a state that fits.                                 *)
LEMMA StateFits ==
    ASSUME RoomInv, NEW d \in Admins
    PROVE  LET s == State(d, record[d])
           IN  /\ StateInv(s, d, record[d].pending, StampsOf(chain))
               /\ s.writes = writes /\ s.flying = flying
               /\ s.record = record[d]
<1> DEFINE s == State(d, record[d])
<1>1. s = [writes |-> writes, flying |-> flying, record |-> record[d]]
  BY DEF State
<1>2. /\ writes \in Seq(Rows) /\ flying \subseteq DOMAIN writes
      /\ RecordInv(d, record[d], writes, StampsOf(chain))
  BY DEF RoomInv, WorldInv, DeviceInv
<1>3. Extends(writes, writes)
  BY DEF Extends
<1> HIDE DEF s
<1>4. /\ s.writes = writes /\ s.flying = flying /\ s.record = record[d]
      /\ s = [writes |-> s.writes, flying |-> s.flying, record |-> s.record]
  BY <1>1
<1>5. StateInv(s, d, record[d].pending, StampsOf(chain))
  BY <1>2, <1>3, <1>4 DEF StateInv
<1> QED BY <1>4, <1>5 DEF s

(* What a device writes keeps the chain and the rows.                      *)
LEMMA WorldWritten ==
    ASSUME RoomInv, NEW d, NEW old, NEW t,
           StateInv(t, d, old, StampsOf(chain))
    PROVE  WorldInv(t.writes, t.flying, StampsOf(chain))
<1> DEFINE st == StampsOf(chain)
<1>1. WorldInv(writes, flying, st)
  BY DEF RoomInv
<1> HIDE DEF st
<1>2. /\ t.writes \in Seq(Rows) /\ t.flying \subseteq DOMAIN t.writes
      /\ DOMAIN writes \subseteq DOMAIN t.writes
      /\ \A id \in t.flying : id \in flying \/ id \notin DOMAIN writes
  BY DEF StateInv, Extends
<1> QED BY <1>1, <1>2 DEF WorldInv, st

LEMMA WriteStep ==
    ASSUME RoomInv, NEW d \in Admins, NEW who \in People,
           NEW kind \in {"admit", "remove"}, NEW t,
           AddsRow(State(d, record[d]), t, d, kind, who),
           writes' = t.writes, flying' = t.flying,
           record' = [record EXCEPT ![d] = t.record],
           UNCHANGED <<chain, marks, reading>>, SceneOK(scene')
    PROVE  RoomInv'
<1> DEFINE st == StampsOf(chain)
           r == record[d]
           r1 == t.record
           w1 == t.writes
           s == State(d, r)
<1>1. /\ StateInv(s, d, r.pending, st)
      /\ s.writes = writes /\ s.flying = flying /\ s.record = r
  BY StateFits
<1> HIDE DEF s
<1>2. /\ WorldInv(writes, flying, st)
      /\ DeviceInv(d, r, marks[d], reading[d], writes, flying, st)
      /\ marks = [x \in Admins |-> marks[x]]
      /\ reading = [x \in Admins |-> reading[x]]
  BY DEF RoomInv, RoomTyped
<1>3. DOMAIN st \subseteq DOMAIN writes /\ writes \in Seq(Rows)
  BY <1>2 DEF WorldInv
<1>4. StateInv(t, d, r.pending, st)
  BY <1>1, <1>3, RowKeeps DEF s
<1>5. WorldInv(w1, t.flying, st)
  BY <1>4, WorldWritten
<1>6. PICK row \in Rows, e \in Entries :
        /\ row.kind = kind /\ row.who = who
        /\ e.id = Len(writes) + 1
        /\ w1 = Append(writes, row)
        /\ r1.members = IF kind = "admit" THEN r.members \cup {who}
                                          ELSE r.members \ {who}
        /\ r1.pending = r.pending \cup {e} /\ r1.log = r.log
  <2>1. PICK row \in Rows, e \in Entries :
          /\ row.by = d /\ row.kind = kind /\ row.who = who
          /\ e.id = Len(s.writes) + 1
          /\ t = [writes |-> Append(s.writes, row),
                  flying |-> s.flying \cup {e.id},
                  record |->
                      [members |-> IF kind = "admit"
                                   THEN s.record.members \cup {who}
                                   ELSE s.record.members \ {who},
                       epochs  |-> t.record.epochs,
                       log     |-> s.record.log,
                       pending |-> s.record.pending \cup {e}]]
    BY DEF AddsRow, s
  <2> DEFINE M == IF kind = "admit" THEN s.record.members \cup {who}
                                    ELSE s.record.members \ {who}
             W == Append(s.writes, row)
             P == s.record.pending \cup {e}
             E == t.record.epochs
             F == s.flying \cup {e.id}
             L == s.record.log
  <2>2. t = [writes |-> W, flying |-> F,
             record |-> [members |-> M, epochs |-> E, log |-> L,
                         pending |-> P]]
    BY <2>1
  <2> HIDE DEF M, W, P, E, F, L
  <2>3. w1 = W /\ r1.members = M /\ r1.pending = P /\ r1.log = L
    BY <2>2
  <2>4. /\ w1 = Append(writes, row) /\ r1.pending = r.pending \cup {e}
        /\ r1.log = r.log
        /\ r1.members = IF kind = "admit" THEN r.members \cup {who}
                                          ELSE r.members \ {who}
    BY <1>1, <2>3 DEF M, W, P, L
  <2> QED BY <1>1, <2>1, <2>4
<1>7. /\ Len(writes) \in Nat /\ DOMAIN writes = 1..Len(writes)
      /\ w1[e.id] = row /\ e.id \notin DOMAIN writes
      /\ \A i \in DOMAIN writes : w1[i] = writes[i] /\ i < e.id /\ i \in Nat
      /\ e.id \in Nat
  BY <1>3, <1>6
<1>8. Extends(writes, w1)
  BY <1>4 DEF StateInv
<1>9. \A id \in t.flying : id \in flying \/ id \notin DOMAIN writes
  BY <1>4 DEF StateInv
<1>10. DeviceInv(d, r, marks[d], reading[d], w1, t.flying, st)
  <2>1. Extends(st, st) /\ DOMAIN st \subseteq DOMAIN st \cup flying
    BY DEF Extends
  <2> HIDE DEF st, r, w1
  <2> QED BY <1>2, <1>8, <1>9, <2>1, DeviceKept
<1>11. \A f \in r.pending : f.id \in DOMAIN writes
  BY <1>2 DEF DeviceInv, RecordInv, PendingOwn
<1>12. DeviceInv(d, r1, marks[d], reading[d], w1, t.flying, st)
  <2> HIDE DEF st, r, w1, r1
  <2>1. RecordInv(d, r1, w1, st)
    BY <1>4 DEF StateInv, r1, w1
  <2>2. marks[d] \subseteq r1.log
    BY <1>6, <1>10 DEF DeviceInv
  <2>3. ASSUME NEW pass \in reading[d]
        PROVE  PassOK(r1, marks[d], pass, w1, t.flying, st)
    <3>1. PassOK(r, marks[d], pass, w1, t.flying, st)
      BY <1>10 DEF DeviceInv
    <3>2. SaidDuring(r1, pass.before, w1)
      <4>1. SaidDuring(r, pass.before, w1)
        BY <3>1 DEF PassOK
      <4> SUFFICES ASSUME NEW f \in r1.pending, f.id \notin pass.before,
                          LastSaid(r1, f, w1)
                   PROVE  w1[f.id].who \in r1.members
                             <=> w1[f.id].kind = "admit"
        BY DEF SaidDuring
      <4>2. CASE f = e
        <5>1. w1[f.id].who = who /\ w1[f.id].kind = kind
          BY <1>6, <1>7, <4>2
        <5> QED BY <1>6, <5>1
      <4>3. CASE f \in r.pending
        <5>1. w1[f.id].who # who
          <6> SUFFICES ASSUME w1[f.id].who = who PROVE FALSE
            OBVIOUS
          <6>1. e \in r1.pending /\ w1[e.id].who = who
            BY <1>6, <1>7
          <6>2. e.id <= f.id
            BY <6>1 DEF LastSaid
          <6>3. f.id < e.id /\ f.id \in Nat
            BY <1>7, <1>11, <4>3
          <6> QED BY <1>7, <6>2, <6>3
        <5>2. LastSaid(r, f, w1)
          BY <1>6 DEF LastSaid
        <5>3. w1[f.id].who \in r.members <=> w1[f.id].kind = "admit"
          BY <4>1, <4>3, <5>2 DEF SaidDuring
        <5> QED BY <1>6, <5>1, <5>3
      <4> QED BY <1>6, <4>2, <4>3
    <3> QED BY <3>1, <3>2 DEF PassOK
  <2> QED BY <2>1, <2>2, <2>3 DEF DeviceInv
<1>13. /\ marks' = [marks EXCEPT ![d] = marks[d]]
       /\ reading' = [reading EXCEPT ![d] = reading[d]]
  BY <1>2
<1>14. /\ Extends(writes, writes')
       /\ WorldInv(writes', flying', StampsOf(chain))
       /\ \A id \in flying' : id \in flying \/ id \notin DOMAIN writes
       /\ DeviceInv(d, r1, marks[d], reading[d], writes', flying',
                    StampsOf(chain))
       /\ record' = [record EXCEPT ![d] = r1] /\ chain' = chain
  BY <1>5, <1>8, <1>9, <1>12
<1> HIDE DEF st, r, r1, w1
<1>15. RoomInv /\ SceneOK(scene')
  OBVIOUS
<1> QED BY ONLY <1>13, <1>14, <1>15, d \in Admins, OneDevice, Zenon

LEMMA SceneKept ==
    ASSUME SceneOK(scene)
    PROVE  /\ \A wishes : SceneOK([scene EXCEPT !.wishes = wishes])
           /\ \A losses : SceneOK([scene EXCEPT !.losses = losses])
           /\ \A failures : SceneOK([scene EXCEPT !.failures = failures])
           /\ \A restarts \in Nat :
                 SceneOK([scene EXCEPT !.restarts = restarts])
BY DEF SceneOK

LEMMA AdmitStep ==
    ASSUME RoomInv, NEW d \in Admins, NEW who \in People, Admit(d, who)
    PROVE  RoomInv'
<1> DEFINE s == State(d, record[d])
           t == AdmitOf(s, d, who)
<1>1. /\ StateInv(s, d, record[d].pending, StampsOf(chain))
      /\ chain \in Seq(Nat) /\ SceneOK(scene)
  BY StateFits DEF RoomInv, ChainOK, RoomTyped
<1>2. AddsRow(s, t, d, "admit", who)
  BY <1>1, AdmitAdds
<1>3. /\ writes' = t.writes /\ flying' = t.flying
      /\ record' = [record EXCEPT ![d] = t.record]
      /\ UNCHANGED <<chain, marks, reading>>
      /\ \E wishes : scene' = [scene EXCEPT !.wishes = wishes]
  BY DEF Admit, Becomes
<1>4. SceneOK(scene')
  BY <1>1, <1>3, SceneKept
<1> HIDE DEF t
<1> QED BY <1>2, <1>3, <1>4, WriteStep

LEMMA RemoveStep ==
    ASSUME RoomInv, NEW d \in Admins, NEW who \in People,
           NEW cut \in BOOLEAN, RemoveMember(d, who, cut)
    PROVE  RoomInv'
<1> DEFINE s == State(d, record[d])
           t == RemoveOf(s, d, who, cut)
<1>1. /\ StateInv(s, d, record[d].pending, StampsOf(chain))
      /\ chain \in Seq(Nat) /\ SceneOK(scene)
  BY StateFits DEF RoomInv, ChainOK, RoomTyped
<1>2. AddsRow(s, t, d, "remove", who)
  BY <1>1, RemoveAdds
<1>3. /\ writes' = t.writes /\ flying' = t.flying
      /\ record' = [record EXCEPT ![d] = t.record]
      /\ UNCHANGED <<chain, marks, reading>>
      /\ \E wishes : scene' = [scene EXCEPT !.wishes = wishes]
  BY DEF RemoveMember, Becomes
<1>4. SceneOK(scene')
  BY <1>1, <1>3, SceneKept
<1> HIDE DEF t
<1> QED BY <1>2, <1>3, <1>4, WriteStep

LEMMA LandStep ==
    ASSUME RoomInv, NEW id \in flying, Land(id)
    PROVE  RoomInv'
<1> DEFINE st == StampsOf(chain)
           st1 == StampsOf(chain')
<1>1. /\ writes' = writes /\ flying' = flying \ {id} /\ scene' = scene
      /\ record' = record /\ marks' = marks /\ reading' = reading
      /\ chain' = Append(chain, id)
  BY DEF Land
<1>2. ChainOK(chain) /\ WorldInv(writes, flying, st)
  BY DEF RoomInv
<1>3. DOMAIN st = Range(chain)
  BY <1>2, StampsTyped
<1> HIDE DEF st, st1
<1>4. /\ writes \in Seq(Rows) /\ flying \subseteq DOMAIN writes
      /\ DOMAIN st \subseteq DOMAIN writes /\ flying \cap DOMAIN st = {}
  BY <1>2 DEF WorldInv
<1>5. id \in Nat /\ id \notin Range(chain)
  BY <1>3, <1>4
<1>6. /\ ChainOK(chain') /\ Range(chain') = Range(chain) \cup {id}
      /\ Extends(st, st1)
  BY <1>1, <1>2, <1>5, LandedOnce DEF st, st1
<1>7. st1 \in [Range(chain') -> Nat \ {0}]
  BY <1>6, StampsTyped DEF st1
<1>8. DOMAIN st1 = DOMAIN st \cup {id}
  BY <1>3, <1>6, <1>7
<1>9. WorldInv(writes, flying', st1)
  <2>1. st1 \in [DOMAIN st1 -> Nat \ {0}]
    BY <1>7
  <2> QED BY <1>1, <1>4, <1>8, <2>1 DEF WorldInv
<1>10. ASSUME NEW d \in Admins
       PROVE  DeviceInv(d, record[d], marks[d], reading[d], writes, flying',
                        st1)
  <2>1. DeviceInv(d, record[d], marks[d], reading[d], writes, flying, st)
    BY DEF RoomInv, st
  <2>2. Extends(writes, writes)
    BY DEF Extends
  <2>3. DOMAIN st1 \subseteq DOMAIN st \cup flying
    BY <1>8
  <2>4. \A x \in flying' : x \in flying \/ x \notin DOMAIN writes
    BY <1>1
  <2> QED BY <1>2, <1>6, <2>1, <2>2, <2>3, <2>4, DeviceKept
<1>11. RoomTyped'
  BY <1>1 DEF RoomInv, RoomTyped
<1> QED BY <1>1, <1>6, <1>9, <1>10, <1>11 DEF RoomInv, st1

LEMMA LoseStep ==
    ASSUME RoomInv, NEW id \in flying, Lose(id)
    PROVE  RoomInv'
<1> DEFINE st == StampsOf(chain)
<1>1. /\ writes' = writes /\ flying' = flying \ {id} /\ chain' = chain
      /\ record' = record /\ marks' = marks /\ reading' = reading
      /\ \E losses : scene' = [scene EXCEPT !.losses = losses]
  BY DEF Lose
<1>2. /\ ChainOK(chain) /\ WorldInv(writes, flying, st)
      /\ RoomTyped /\ SceneOK(scene)
  BY DEF RoomInv, RoomTyped
<1>3. StampsOf(chain') = st
  BY <1>1
<1> HIDE DEF st
<1>4. WorldInv(writes, flying', st)
  BY <1>1, <1>2 DEF WorldInv
<1>5. ASSUME NEW d \in Admins
      PROVE  DeviceInv(d, record[d], marks[d], reading[d], writes, flying',
                       st)
  <2>1. DeviceInv(d, record[d], marks[d], reading[d], writes, flying, st)
    BY DEF RoomInv, st
  <2>2. Extends(writes, writes) /\ Extends(st, st)
    BY DEF Extends
  <2>3. \A x \in flying' : x \in flying \/ x \notin DOMAIN writes
    BY <1>1
  <2>4. DOMAIN st \subseteq DOMAIN st \cup flying
    OBVIOUS
  <2> QED BY <1>2, <2>1, <2>2, <2>3, <2>4, DeviceKept
<1>6. SceneOK(scene')
  BY <1>1, <1>2, SceneKept
<1>7. RoomTyped'
  BY <1>1, <1>2, <1>6 DEF RoomTyped
<1> QED BY <1>1, <1>2, <1>3, <1>4, <1>5, <1>7 DEF RoomInv

LEMMA ProbeStep ==
    ASSUME RoomInv, NEW d \in Admins, Probe(d)
    PROVE  RoomInv'
<1> DEFINE st == StampsOf(chain)
           r == record[d]
<1>1. PICK failed \in SUBSET Asked(d, r) :
        LET heard == Asked(d, r) \ failed
            probed == {id \in Landed : LaneOf(id) \in heard}
        IN  /\ scene' = [scene EXCEPT !.failures = @ - Cardinality(failed)]
            /\ reading' = [reading EXCEPT ![d] =
                 {[heard   |-> heard,
                   probed  |-> probed,
                   left    |-> {LaneOf(id) : id \in probed \ marks[d]},
                   rows    |-> {},
                   before  |-> {e.id : e \in r.pending},
                   overdue |-> {e.id : e \in r.pending} \ flying]}]
  BY DEF Probe
<1> DEFINE heard == Asked(d, r) \ failed
           probed == {id \in Landed : LaneOf(id) \in heard}
           left == {LaneOf(id) : id \in probed \ marks[d]}
           pass == [heard |-> heard, probed |-> probed, left |-> left,
                    rows |-> {}, before |-> IdsOf(r.pending),
                    overdue |-> IdsOf(r.pending) \ flying]
<1>2. /\ scene' = [scene EXCEPT !.failures = @ - Cardinality(failed)]
      /\ reading' = [reading EXCEPT ![d] = {pass}]
      /\ writes' = writes /\ flying' = flying
      /\ chain' = chain /\ record' = record /\ marks' = marks
  BY <1>1 DEF Probe, IdsOf
<1>3. /\ DeviceInv(d, r, marks[d], reading[d], writes, flying, st)
      /\ ChainOK(chain) /\ WorldInv(writes, flying, st) /\ SceneOK(scene)
      /\ record = [x \in Admins |-> record[x]]
      /\ marks = [x \in Admins |-> marks[x]]
  BY DEF RoomInv, RoomTyped
<1>4. DOMAIN st = Landed
  BY <1>3, StampsAre
<1> HIDE DEF st, heard
<1>5. RecordInv(d, r, writes, st) /\ marks[d] \subseteq r.log
  BY <1>3 DEF DeviceInv
<1>6. PassOK(r, marks[d], pass, writes, flying, st)
  <2>1. ASSUME NEW id \in IdsOf(r.pending) \ flying
        PROVE  /\ id \in DOMAIN writes
               /\ id \in DOMAIN st /\ LaneIn(writes, id) \in heard
                     => \/ id \in marks[d]
                        \/ LaneIn(writes, id) \in left
    <3>1. id \in DOMAIN writes
      BY <1>5 DEF IdsOf, RecordInv, PendingOwn
    <3>2. ASSUME id \in DOMAIN st, LaneIn(writes, id) \in heard,
                 id \notin marks[d]
          PROVE  LaneIn(writes, id) \in left
      <4>1. LaneOf(id) = LaneIn(writes, id)
        BY DEF LaneOf, LaneIn
      <4>2. id \in probed \ marks[d]
        BY <1>4, <3>2, <4>1
      <4> HIDE DEF probed
      <4> QED BY <4>1, <4>2
    <3> QED BY <3>1, <3>2
  <2>2. probed \subseteq DOMAIN st
    BY <1>4
  <2> HIDE DEF probed, left
  <2>3. OverdueRead(marks[d], pass, writes, flying, st)
    BY <2>1 DEF OverdueRead
  <2>4. SaidDuring(r, pass.before, writes)
    BY DEF SaidDuring, IdsOf
  <2>5. PassShaped(pass)
    BY DEF PassShaped
  <2> QED BY <2>2, <2>3, <2>4, <2>5 DEF PassOK
<1> HIDE DEF pass
<1>7. DeviceInv(d, r, marks[d], {pass}, writes, flying, st)
  BY <1>5, <1>6 DEF DeviceInv
<1>8. /\ record' = [record EXCEPT ![d] = r] /\ SceneOK(scene')
      /\ marks' = [marks EXCEPT ![d] = marks[d]]
  BY <1>2, <1>3, SceneKept
<1>9. /\ Extends(writes, writes')
      /\ WorldInv(writes', flying', StampsOf(chain))
      /\ \A id \in flying' : id \in flying \/ id \notin DOMAIN writes
      /\ DeviceInv(d, r, marks[d], {pass}, writes', flying',
                   StampsOf(chain))
  BY <1>2, <1>3, <1>7 DEF Extends, st
<1>10. RoomInv
  OBVIOUS
<1> HIDE DEF r
<1> QED BY ONLY <1>2, <1>8, <1>9, <1>10, d \in Admins, OneDevice, Zenon

(* The rows of one lane more have been read.                               *)
WithLane(pass, lane) ==
    [pass EXCEPT !.left = @ \ {lane},
                 !.rows = @ \cup {id \in Landed : LaneOf(id) = lane}]

LEMMA ReadLaneStep ==
    ASSUME RoomInv, NEW d \in Admins, ReadLane(d)
    PROVE  RoomInv'
<1> DEFINE st == StampsOf(chain)
           r == record[d]
<1>0. PICK pass \in reading[d] : \E lane \in pass.left :
        reading' = [reading EXCEPT ![d] = {WithLane(pass, lane)}]
  BY Zenon DEF ReadLane, WithLane
<1>1. PICK lane \in pass.left :
        reading' = [reading EXCEPT ![d] = {WithLane(pass, lane)}]
  BY <1>0
<1> DEFINE more == {id \in Landed : LaneOf(id) = lane}
           next == WithLane(pass, lane)
<1>2. /\ writes' = writes /\ flying' = flying /\ chain' = chain
      /\ record' = record /\ marks' = marks /\ scene' = scene
  BY DEF ReadLane
<1>3. /\ DeviceInv(d, r, marks[d], reading[d], writes, flying, st)
      /\ ChainOK(chain) /\ WorldInv(writes, flying, st) /\ SceneOK(scene)
      /\ record = [x \in Admins |-> record[x]]
      /\ marks = [x \in Admins |-> marks[x]]
  BY DEF RoomInv, RoomTyped
<1>4. DOMAIN st = Landed
  BY <1>3, StampsAre
<1> HIDE DEF st
<1>5. PassOK(r, marks[d], pass, writes, flying, st) /\ PassShaped(pass)
  BY <1>3 DEF DeviceInv, PassOK
<1> HIDE DEF next
<1>6. /\ next.heard = pass.heard /\ next.probed = pass.probed
      /\ next.left = pass.left \ {lane} /\ next.rows = pass.rows \cup more
      /\ next.before = pass.before /\ next.overdue = pass.overdue
      /\ PassShaped(next)
  <2> DEFINE L == pass.left \ {lane}
             R == pass.rows \cup more
  <2>1. next = [pass EXCEPT !.left = L, !.rows = R]
    BY DEF next, WithLane
  <2> HIDE DEF L, R
  <2>2. next = [heard |-> pass.heard, probed |-> pass.probed, left |-> L,
                rows |-> R, before |-> pass.before,
                overdue |-> pass.overdue]
    BY <1>5, <2>1 DEF PassShaped
  <2>3. /\ next.heard = pass.heard /\ next.probed = pass.probed
        /\ next.left = L /\ next.rows = R
        /\ next.before = pass.before /\ next.overdue = pass.overdue
    BY <2>2
  <2> QED BY <2>2, <2>3 DEF L, R, PassShaped
<1>7. PassOK(r, marks[d], next, writes, flying, st)
  <2>1. ASSUME NEW id \in pass.overdue
        PROVE  /\ id \in DOMAIN writes /\ id \notin flying
               /\ id \in DOMAIN st /\ LaneIn(writes, id) \in pass.heard
                     => \/ id \in next.rows \cup marks[d]
                        \/ LaneIn(writes, id) \in next.left
    <3>1. /\ id \in DOMAIN writes /\ id \notin flying
          /\ id \in DOMAIN st /\ LaneIn(writes, id) \in pass.heard
                => \/ id \in pass.rows \cup marks[d]
                   \/ LaneIn(writes, id) \in pass.left
      BY <1>5 DEF PassOK, OverdueRead
    <3>2. id \in DOMAIN st /\ LaneIn(writes, id) = lane => id \in more
      BY <1>4 DEF LaneOf, LaneIn
    <3> QED BY <1>6, <3>1, <3>2
  <2>2. next.rows \subseteq DOMAIN st /\ next.probed \subseteq DOMAIN st
    BY <1>4, <1>5, <1>6 DEF PassOK
  <2>3. OverdueRead(marks[d], next, writes, flying, st)
    BY <1>6, <2>1 DEF OverdueRead
  <2>4. SaidDuring(r, next.before, writes)
    BY <1>5, <1>6 DEF PassOK
  <2> QED BY <1>6, <2>2, <2>3, <2>4 DEF PassOK
<1>8. DeviceInv(d, r, marks[d], {next}, writes, flying, st)
  BY <1>3, <1>7 DEF DeviceInv
<1>9. /\ record' = [record EXCEPT ![d] = r] /\ SceneOK(scene')
      /\ marks' = [marks EXCEPT ![d] = marks[d]]
      /\ reading' = [reading EXCEPT ![d] = {next}]
  BY <1>1, <1>2, <1>3 DEF next
<1>10. /\ Extends(writes, writes') /\ chain' = chain
       /\ WorldInv(writes', flying', StampsOf(chain))
       /\ \A id \in flying' : id \in flying \/ id \notin DOMAIN writes
       /\ DeviceInv(d, r, marks[d], {next}, writes', flying',
                    StampsOf(chain))
  BY <1>2, <1>3, <1>8 DEF Extends, st
<1>11. RoomInv
  OBVIOUS
<1> HIDE DEF r
<1> QED BY ONLY <1>9, <1>10, <1>11, d \in Admins, OneDevice, Zenon

LEMMA RestartStep ==
    ASSUME RoomInv, NEW d \in Admins, Restart(d)
    PROVE  RoomInv'
<1> DEFINE st == StampsOf(chain)
           r == record[d]
<1>1. PICK n \in 0..Len(chain) :
        marks' = [marks EXCEPT ![d] = {id \in @ : Stamp(id) <= n}]
  BY DEF Restart
<1> DEFINE saved == {id \in marks[d] : Stamp(id) <= n}
<1>2. /\ scene.restarts > 0
      /\ scene' = [scene EXCEPT !.restarts = scene.restarts - 1]
      /\ reading' = [reading EXCEPT ![d] = {}]
      /\ writes' = writes /\ flying' = flying
      /\ chain' = chain /\ record' = record
  BY DEF Restart
<1>3. /\ DeviceInv(d, r, marks[d], reading[d], writes, flying, st)
      /\ WorldInv(writes, flying, st) /\ SceneOK(scene)
      /\ record = [x \in Admins |-> record[x]]
  BY DEF RoomInv, RoomTyped
<1> HIDE DEF st
<1>4. RecordInv(d, r, writes, st)
  BY <1>3 DEF DeviceInv
<1>5. saved \subseteq r.log
  BY <1>3 DEF DeviceInv
<1> HIDE DEF saved
<1>6. DeviceInv(d, r, saved, {}, writes, flying, st)
  BY <1>4, <1>5 DEF DeviceInv
<1>7. /\ record' = [record EXCEPT ![d] = r]
      /\ marks' = [marks EXCEPT ![d] = saved]
  BY <1>1, <1>2, <1>3 DEF saved
<1>8. SceneOK(scene')
  <2>1. scene.restarts - 1 \in Nat
    BY <1>2, <1>3 DEF SceneOK
  <2> QED BY <1>2, <1>3, <2>1, SceneKept
<1>9. /\ Extends(writes, writes')
      /\ WorldInv(writes', flying', StampsOf(chain))
      /\ \A id \in flying' : id \in flying \/ id \notin DOMAIN writes
      /\ DeviceInv(d, r, saved, {}, writes', flying', StampsOf(chain))
  BY <1>2, <1>3, <1>6 DEF Extends, st
<1>10. RoomInv
  OBVIOUS
<1> HIDE DEF r
<1> QED BY ONLY <1>2, <1>7, <1>8, <1>9, <1>10, d \in Admins, OneDevice,
                Zenon

-----------------------------------------------------------------------------
(* The second half of a pass.                                              *)

UsedIn(d, pass) == Asked(d, record[d]) \cap pass.heard
RowsIn(d, pass) == {id \in pass.rows : LaneOf(id) \in UsedIn(d, pass)}
WalkedBy(d, pass) ==
    Walked(d, record[d], pass, RowsIn(d, pass), UsedIn(d, pass))
AdoptedBy(d, pass) == Adopt(d, WalkedBy(d, pass), RowsIn(d, pass))
AgainBy(d, pass) ==
    LostRekeys(record[d],
               GenerationLost(WalkedBy(d, pass), AdoptedBy(d, pass)))
BaseOf(d, pass) ==
    State(d, [AdoptedBy(d, pass) EXCEPT !.pending = @ \ AgainBy(d, pass)])
FoldOf(d, pass) == RemoveAgain(BaseOf(d, pass), d, AgainBy(d, pass))

MarkedBy(d, pass) ==
    (marks[d] \ pass.rows) \cup (pass.probed \cap RowsIn(d, pass))

FoldsTo(d, pass) ==
    /\ writes' = FoldOf(d, pass).writes
    /\ flying' = FoldOf(d, pass).flying
    /\ record' = [record EXCEPT ![d] = FoldOf(d, pass).record]
    /\ marks' = [marks EXCEPT ![d] = MarkedBy(d, pass)]
    /\ reading' = [reading EXCEPT ![d] = {}]
    /\ pass.left = {}
    /\ UNCHANGED <<chain, scene>>

LEMMA FoldIs ==
    ASSUME NEW d, Fold(d)
    PROVE  \E pass \in reading[d] : FoldsTo(d, pass)
<1>1. PICK pass \in reading[d] :
        /\ Becomes(d, FoldedStates(d, record[d], pass, RowsIn(d, pass),
                                   UsedIn(d, pass)))
        /\ marks' = [marks EXCEPT ![d] =
               (@ \ pass.rows) \cup (pass.probed \cap RowsIn(d, pass))]
        /\ pass.left = {}
  BY Zenon DEF Fold, RowsIn, UsedIn
<1>2. FoldedStates(d, record[d], pass, RowsIn(d, pass), UsedIn(d, pass))
        = {FoldOf(d, pass)}
  <2> DEFINE S == {RemoveAgain(
                      State(d, [Adopt(d, x, RowsIn(d, pass)) EXCEPT
                          !.pending = @ \ LostRekeys(record[d],
                              GenerationLost(x,
                                  Adopt(d, x, RowsIn(d, pass))))]),
                      d, LostRekeys(record[d],
                             GenerationLost(x, Adopt(d, x,
                                 RowsIn(d, pass))))) :
                      x \in {WalkedBy(d, pass)}}
  <2>1. FoldedStates(d, record[d], pass, RowsIn(d, pass), UsedIn(d, pass))
          = S
    BY Zenon DEF FoldedStates, WalkedBy
  <2>2. S = {FoldOf(d, pass)}
    BY Zenon DEF FoldOf, BaseOf, AgainBy, AdoptedBy
  <2> QED BY <2>1, <2>2
<1>3. /\ writes' = FoldOf(d, pass).writes
      /\ flying' = FoldOf(d, pass).flying
      /\ record' = [record EXCEPT ![d] = FoldOf(d, pass).record]
  BY <1>1, <1>2 DEF Becomes
<1>4. marks' = [marks EXCEPT ![d] = MarkedBy(d, pass)]
  BY <1>1 DEF MarkedBy
<1> QED BY <1>1, <1>3, <1>4 DEF FoldsTo, Fold

LEMMA FewerPending ==
    ASSUME NEW d, NEW r, NEW w, NEW st, RecordInv(d, r, w, st),
           RecordShaped(r), NEW again
    PROVE  LET x == [r EXCEPT !.pending = @ \ again]
           IN  /\ RecordInv(d, x, w, st) /\ RecordShaped(x)
               /\ x.members = r.members /\ x.log = r.log
               /\ x.epochs = r.epochs /\ x.pending = r.pending \ again
<1> DEFINE P == r.pending \ again
           x == [r EXCEPT !.pending = @ \ again]
<1>1. P \subseteq r.pending
  OBVIOUS
<1>2. x = [r EXCEPT !.pending = P]
  OBVIOUS
<1> HIDE DEF P, x
<1>3. x = [members |-> r.members, epochs |-> r.epochs, log |-> r.log,
           pending |-> P]
  BY <1>2 DEF RecordShaped
<1>4. /\ x.members = r.members /\ x.epochs = r.epochs /\ x.log = r.log
      /\ x.pending = P
  BY <1>3
<1>5. RecordShaped(x)
  BY <1>3, <1>4 DEF RecordShaped
<1>6. RecordOK(x)
  <2>1. RecordOK(r)
    BY DEF RecordInv
  <2>2. IsFiniteSet(P) /\ P \in SUBSET Entries
    BY <1>1, <2>1, FS_Subset DEF RecordOK, RoomRecords
  <2>3. /\ r.members \in SUBSET People /\ r.log \in SUBSET Nat
        /\ r.epochs \in EpochMaps
    BY <2>1 DEF RecordOK, RoomRecords
  <2>4. x \in RoomRecords
    BY <1>3, <2>2, <2>3 DEF RoomRecords
  <2> QED BY <1>4, <2>1, <2>2, <2>4 DEF RecordOK
<1>7. PendingOwn(d, x, w, st)
  BY <1>1, <1>4 DEF RecordInv, PendingOwn
<1>8. KeysHeld(x, st) /\ EarliestOf(d, x, x.log, w, st)
  BY <1>4 DEF RecordInv, KeysHeld, EarliestOf
<1> QED BY <1>4, <1>5, <1>6, <1>7, <1>8 DEF RecordInv, x, P

(* What a pass makes of the rows and of the record.                        *)
FoldResult(d, pass) ==
    LET t == FoldOf(d, pass)
        x == WalkedBy(d, pass)
    IN  /\ WalkedFrom(record[d], x, RowsIn(d, pass))
        /\ RowsIn(d, pass) \subseteq Landed
        /\ AdoptedFrom(d, x, AdoptedBy(d, pass), RowsIn(d, pass))
        /\ BaseOf(d, pass).record.epochs = AdoptedBy(d, pass).epochs
        /\ BaseOf(d, pass).record.pending = x.pending \ AgainBy(d, pass)
        /\ StateInv(t, d, x.pending, StampsOf(chain))
        /\ t.record.log = x.log
        /\ KeysOK(BaseOf(d, pass)) => KeysOK(t)
        /\ Len(t.writes) > Len(writes)
              \/ /\ t.record.pending = x.pending
                 /\ t.record.log = x.log
                 /\ t.record.members = x.members

LEMMA FoldFits ==
    ASSUME RoomInv, NEW d \in Admins, NEW pass \in reading[d]
    PROVE  FoldResult(d, pass)
<1> DEFINE st == StampsOf(chain)
           r == record[d]
           rows == RowsIn(d, pass)
           used == UsedIn(d, pass)
           x == WalkedBy(d, pass)
           y == AdoptedBy(d, pass)
           again == AgainBy(d, pass)
           z == [y EXCEPT !.pending = @ \ again]
           s == BaseOf(d, pass)
           t == FoldOf(d, pass)
<1>1. /\ DeviceInv(d, r, marks[d], reading[d], writes, flying, st)
      /\ ChainOK(chain) /\ WorldInv(writes, flying, st)
  BY DEF RoomInv
<1>2. /\ DOMAIN st = Landed /\ DOMAIN st \subseteq DOMAIN writes
      /\ writes \in Seq(Rows) /\ flying \subseteq DOMAIN writes
      /\ chain \in Seq(Nat)
  BY <1>1, StampsAre DEF WorldInv, ChainOK
<1>3. RecordInv(d, r, writes, st) /\ RecordOK(r)
  BY <1>1 DEF DeviceInv, RecordInv
<1>4. pass.rows \subseteq DOMAIN st
  BY <1>1 DEF DeviceInv, PassOK
<1>5. rows \subseteq Landed /\ IsFiniteSet(rows)
  <2>1. rows \subseteq Landed /\ rows \subseteq 1..Len(writes)
    BY <1>2, <1>4 DEF RowsIn
  <2>2. IsFiniteSet(1..Len(writes))
    BY <1>2, FS_Interval
  <2> QED BY <2>1, <2>2, FS_Subset
<1> HIDE DEF st, r, rows, used, x, y, again, s, t
<1>6. WalkedFrom(r, x, rows)
  BY <1>2, <1>3, WalkFits DEF x, WalkedBy, r, rows, used
<1>7. /\ RecordInv(d, y, writes, st) /\ RecordShaped(y)
      /\ y.members = x.members /\ y.log = x.log /\ y.pending = x.pending
      /\ AdoptedFrom(d, x, y, rows)
  <2>1. y = Adopt(d, x, rows)
    BY DEF y, AdoptedBy, x, rows
  <2>2. LET a == Adopt(d, x, rows)
        IN  /\ RecordInv(d, a, writes, st) /\ RecordShaped(a)
            /\ a.members = x.members /\ a.log = x.log
            /\ a.pending = x.pending /\ AdoptedFrom(d, x, a, rows)
    BY <1>1, <1>3, <1>5, <1>6, AdoptFits DEF st
  <2> HIDE DEF RecordInv
  <2> QED BY <2>1, <2>2
<1>8. /\ RecordInv(d, z, writes, st) /\ z.members = x.members
      /\ z.log = x.log /\ z.pending = x.pending \ again
      /\ z.epochs = y.epochs
  BY <1>7, FewerPending
<1> HIDE DEF z
<1>9. s = [writes |-> writes, flying |-> flying, record |-> z]
  BY DEF s, BaseOf, State, z, y, again
<1>10. StateInv(s, d, x.pending, st)
  <2>1. Extends(writes, writes)
    BY DEF Extends
  <2>2. /\ s.writes = writes /\ s.flying = flying /\ s.record = z
        /\ s = [writes |-> s.writes, flying |-> s.flying,
                record |-> s.record]
    BY <1>9
  <2>3. \A e \in z.pending : e \in x.pending
    BY <1>8
  <2> QED BY <1>2, <1>8, <2>1, <2>2, <2>3 DEF StateInv
<1>11. IsFiniteSet(again) /\ IdsOf(again) \subseteq DOMAIN writes
  <2>1. again \subseteq r.pending
    BY DEF again, AgainBy, LostRekeys, r
  <2>2. IsFiniteSet(r.pending)
    BY <1>3 DEF RecordOK
  <2>3. \A e \in r.pending : e.id \in DOMAIN writes
    BY <1>3 DEF RecordInv, PendingOwn
  <2> QED BY <2>1, <2>2, <2>3, FS_Subset DEF IdsOf
<1>12. /\ StateInv(t, d, x.pending, st)
       /\ t.record.log = s.record.log
       /\ KeysOK(s) => KeysOK(t)
       /\ again = {} => t = s
       /\ again # {} => Len(t.writes) > Len(s.writes)
  BY <1>2, <1>10, <1>11, RemovedAgain DEF t, FoldOf, s, again
<1>13. \/ Len(t.writes) > Len(writes)
       \/ /\ t.record.pending = x.pending /\ t.record.log = x.log
          /\ t.record.members = x.members
  <2>1. CASE again = {}
    <3>1. t.record = z
      BY <1>9, <1>12, <2>1
    <3> QED BY <1>8, <2>1, <3>1
  <2>2. CASE again # {}
    BY <1>9, <1>12, <2>2
  <2> QED BY <2>1, <2>2
<1>14. /\ s.record.epochs = y.epochs /\ s.record.log = x.log
       /\ s.record.pending = x.pending \ again
  BY <1>8, <1>9
<1>15. t.record.log = x.log
  BY <1>12, <1>14
<1> QED BY <1>5, <1>6, <1>7, <1>12, <1>13, <1>14, <1>15
        DEF FoldResult, r, x, y, again, rows, s, t, st

LEMMA FoldStep ==
    ASSUME RoomInv, NEW d \in Admins, Fold(d)
    PROVE  RoomInv'
<1>1. PICK pass \in reading[d] : FoldsTo(d, pass)
  BY FoldIs
<1> DEFINE st == StampsOf(chain)
           r == record[d]
           rows == RowsIn(d, pass)
           x == WalkedBy(d, pass)
           t == FoldOf(d, pass)
           marked == MarkedBy(d, pass)
<1>2. /\ WalkedFrom(r, x, rows) /\ StateInv(t, d, x.pending, st)
      /\ t.record.log = x.log
  BY FoldFits DEF FoldResult
<1>3. /\ DeviceInv(d, r, marks[d], reading[d], writes, flying, st)
      /\ WorldInv(writes, flying, st) /\ SceneOK(scene)
  BY DEF RoomInv, RoomTyped
<1>4. WorldInv(t.writes, t.flying, st)
  BY <1>2, WorldWritten
<1> HIDE DEF st, r, x, t
<1>5. marked \subseteq t.record.log
  <2>1. marked \subseteq marks[d] \cup rows
    BY DEF MarkedBy
  <2>2. t.record.log = r.log \cup rows
    BY <1>2 DEF WalkedFrom
  <2> HIDE DEF marked, rows
  <2> QED BY <1>3, <2>1, <2>2 DEF DeviceInv
<1> HIDE DEF rows
<1>6. DeviceInv(d, t.record, marked, {}, t.writes, t.flying, st)
  <2>1. RecordInv(d, t.record, t.writes, st)
    BY <1>2 DEF StateInv
  <2> HIDE DEF marked
  <2> QED BY <1>5, <2>1 DEF DeviceInv
<1> HIDE DEF marked
<1>7. /\ writes' = t.writes /\ flying' = t.flying
      /\ record' = [record EXCEPT ![d] = t.record]
      /\ marks' = [marks EXCEPT ![d] = marked]
      /\ reading' = [reading EXCEPT ![d] = {}]
      /\ chain' = chain /\ scene' = scene
  BY <1>1 DEF FoldsTo, t, marked
<1>8. Extends(writes, writes') /\ SceneOK(scene')
  BY <1>2, <1>3, <1>7 DEF StateInv
<1>9. \A id \in flying' : id \in flying \/ id \notin DOMAIN writes
  BY <1>2, <1>7 DEF StateInv
<1>10. /\ WorldInv(writes', flying', StampsOf(chain))
       /\ DeviceInv(d, t.record, marked, {}, writes', flying',
                    StampsOf(chain))
  BY <1>4, <1>6, <1>7 DEF st
<1>11. RoomInv
  OBVIOUS
<1> QED BY ONLY <1>7, <1>8, <1>9, <1>10, <1>11, d \in Admins, OneDevice,
                Zenon

-----------------------------------------------------------------------------
(* The theorems.                                                           *)

LEMMA RoomStarts == RoomInit => RoomInv
<1> SUFFICES ASSUME RoomInit PROVE RoomInv
  OBVIOUS
<1> DEFINE founding == [key |-> 0, stamp |-> Speculative]
           E == [gen \in {0} |-> founding]
           r == [members |-> Founders, epochs |-> E, log |-> {},
                 pending |-> {}]
           st == StampsOf(chain)
<1>1. /\ writes = <<>> /\ flying = {} /\ chain = <<>>
      /\ record = [d \in Admins |-> r] /\ marks = [d \in Admins |-> {}]
      /\ reading = [d \in Admins |-> {}] /\ scene \in Scenes
  BY DEF RoomInit
<1>2. ChainOK(chain) /\ Range(chain) = {}
  BY <1>1 DEF ChainOK, Range
<1>3. st \in [{} -> Nat \ {0}]
  BY <1>2, StampsTyped
<1> HIDE DEF st
<1>4. WorldInv(writes, flying, st)
  BY <1>1, <1>3 DEF WorldInv
<1>5. E \in EpochMaps /\ DOMAIN E = {0} /\ E[0] = founding
  <2>1. founding \in RoomKeys
    BY DEF RoomKeys, Speculative
  <2> HIDE DEF founding
  <2>2. E \in [{0} -> RoomKeys] /\ DOMAIN E = {0} /\ E[0] = founding
    BY <2>1
  <2>3. {0} \in SUBSET Nat
    OBVIOUS
  <2> HIDE DEF E
  <2> QED BY <2>2, <2>3 DEF EpochMaps
<1> HIDE DEF E
<1>6. RecordOK(r)
  <2>1. r \in RoomRecords
    BY <1>5, GroupRoomAssumption DEF RoomRecords
  <2>2. IsFiniteSet(r.pending) /\ IsFiniteSet(DOMAIN r.epochs)
    BY <1>5, FS_EmptySet, FS_Singleton
  <2> QED BY <1>5, <2>1, <2>2 DEF RecordOK
<1>7. ASSUME NEW d PROVE RecordInv(d, r, writes, st)
  <2>1. PendingOwn(d, r, writes, st)
    BY DEF PendingOwn
  <2>2. KeysHeld(r, st)
    BY <1>5 DEF KeysHeld
  <2>3. EarliestOf(d, r, r.log, writes, st)
    BY DEF EarliestOf
  <2> QED BY <1>6, <2>1, <2>2, <2>3 DEF RecordInv
<1> HIDE DEF r
<1>8. \A d \in Admins :
         DeviceInv(d, record[d], marks[d], reading[d], writes, flying, st)
  BY <1>1, <1>7 DEF DeviceInv
<1>9. SceneOK(scene)
  BY <1>1, GroupRoomAssumption DEF SceneOK
<1>10. RoomTyped
  BY <1>1, <1>9 DEF RoomTyped
<1> QED BY <1>2, <1>4, <1>8, <1>10 DEF RoomInv, st

LEMMA RoomSteps == RoomInv /\ [RoomNext]_roomVars => RoomInv'
<1> SUFFICES ASSUME RoomInv, [RoomNext]_roomVars PROVE RoomInv'
  OBVIOUS
<1>1. ASSUME NEW d \in Admins, NEW who \in People, Admit(d, who)
      PROVE  RoomInv'
  BY <1>1, AdmitStep
<1>2. ASSUME NEW d \in Admins, NEW who \in People, NEW cut \in BOOLEAN,
             RemoveMember(d, who, cut)
      PROVE  RoomInv'
  BY <1>2, RemoveStep
<1>3. ASSUME NEW id \in flying, Land(id) PROVE RoomInv'
  BY <1>3, LandStep
<1>4. ASSUME NEW id \in flying, Lose(id) PROVE RoomInv'
  BY <1>4, LoseStep
<1>5. ASSUME NEW d \in Admins, Probe(d) \/ ReadLane(d) PROVE RoomInv'
  BY <1>5, ProbeStep, ReadLaneStep
<1>6. ASSUME NEW d \in Admins, Fold(d) PROVE RoomInv'
  BY <1>6, FoldStep
<1>7. ASSUME NEW d \in Admins, Restart(d) PROVE RoomInv'
  BY <1>7, RestartStep
<1>8. CASE UNCHANGED roomVars
  BY <1>8 DEF roomVars, RoomInv, RoomTyped
<1> QED BY <1>1, <1>2, <1>3, <1>4, <1>5, <1>6, <1>7, <1>8 DEF RoomNext

(* What holds of the rooms of devices at all times: what is said above of  *)
(* the rows, the chain, the records and the passes under way.              *)
THEOREM RoomInvariant == RoomSpec => []RoomInv
BY RoomStarts, RoomSteps, PTL DEF RoomSpec

(* Of two claims on one generation of the key, every device holds the one  *)
(* that came first on the chain among those whose rows it has read.        *)
THEOREM EarliestKeyHeld == RoomSpec => []EarliestKey
<1>1. RoomInv => EarliestKey
  <2> SUFFICES ASSUME RoomInv, NEW d \in Admins,
                      NEW id \in Rekeys(record[d].log), d \in writes[id].to
               PROVE  /\ Generation(id) \in DOMAIN record[d].epochs
                      /\ LET held == record[d].epochs[Generation(id)]
                         IN  /\ held.stamp # Speculative
                             /\ held.stamp <= Stamp(id)
    BY DEF EarliestKey
  <2> DEFINE st == StampsOf(chain)
  <2>1. /\ DOMAIN st = Landed /\ \A x \in Landed : Stamp(x) = st[x]
    BY StampsAre DEF RoomInv
  <2>2. RecordInv(d, record[d], writes, st)
    BY DEF RoomInv, DeviceInv
  <2> HIDE DEF st
  <2>3. id \in record[d].log
    BY DEF Rekeys
  <2>4. Stamp(id) = st[id]
    BY <2>1, <2>2, <2>3 DEF RecordInv, PendingOwn
  <2> QED BY <2>2, <2>3, <2>4 DEF RecordInv, EarliestOf, Generation
<1> QED BY <1>1, RoomInvariant, PTL

(* A pass ends with its second half.                                       *)
LEMMA PassEndsByFold ==
    ASSUME RoomInv, [RoomNext]_roomVars, NEW d \in Admins, PassEnds(d)
    PROVE  \E pass \in reading[d] : FoldsTo(d, pass)
<1>1. /\ reading[d] # {} /\ reading'[d] = {} /\ scene' = scene
      /\ reading = [x \in Admins |-> reading[x]] /\ SceneOK(scene)
  BY DEF PassEnds, RoomInv, RoomTyped
<1>2. reading' # reading
  BY <1>1
<1>3. ASSUME NEW x \in Admins, Probe(x) \/ ReadLane(x) PROVE FALSE
  <2>1. PICK passes : /\ reading' = [reading EXCEPT ![x] = passes]
                      /\ passes # {}
    BY <1>3 DEF Probe, ReadLane
  <2> QED BY <1>1, <2>1
<1>4. ASSUME NEW x \in Admins, Restart(x) PROVE FALSE
  <2>1. /\ scene' = [scene EXCEPT !.restarts = scene.restarts - 1]
        /\ scene.restarts \in Nat
    BY <1>1, <1>4 DEF Restart, SceneOK
  <2>2. scene'.restarts = scene.restarts - 1
    BY <1>1, <2>1 DEF SceneOK
  <2> QED BY <1>1, <2>1, <2>2
<1>5. ASSUME NEW x \in Admins, Fold(x) PROVE Fold(d)
  <2>1. reading' = [reading EXCEPT ![x] = {}]
    BY <1>5 DEF Fold
  <2>2. x = d
    BY <1>1, <2>1
  <2> QED BY <1>5, <2>2
<1>6. Fold(d)
  <2>1. CASE UNCHANGED roomVars
    BY <1>2, <2>1 DEF roomVars
  <2>2. CASE \E x \in Admins, who \in People :
                \/ Admit(x, who)
                \/ \E cut \in BOOLEAN : RemoveMember(x, who, cut)
    BY <1>2, <2>2 DEF Admit, RemoveMember
  <2>3. CASE \E id \in flying : Land(id) \/ Lose(id)
    BY <1>2, <2>3 DEF Land, Lose
  <2>4. CASE \E x \in Admins : \/ Probe(x) \/ ReadLane(x)
                               \/ Fold(x) \/ Restart(x)
    BY <1>3, <1>4, <1>5, <2>4
  <2> QED BY <2>1, <2>2, <2>3, <2>4 DEF RoomNext
<1> QED BY <1>6, FoldIs

LEMMA WalkedPending ==
    ASSUME NEW d, NEW r \in RoomRecords, NEW pass, NEW rows, NEW used
    PROVE  /\ Walked(d, r, pass, rows, used).pending =
                 StillPending(d, r, pass, rows, used)
           /\ FoldedAs(r, FoldedOf(d, r, pass, rows, used), rows,
                       TakenBack(d, r, pass, rows, used),
                       StillPending(d, r, pass, rows, used))
<1> DEFINE P == StillPending(d, r, pass, rows, used)
           taken == TakenBack(d, r, pass, rows, used)
           y == FoldedOf(d, r, pass, rows, used)
           entries == Meanwhile(d, r, pass, rows, used)
           x == Walked(d, r, pass, rows, used)
<1>1. FoldedAs(r, y, rows, taken, P)
  BY FoldedIs, Zenon DEF P, taken, y
<1>2. x = KeepWrites(r, y, entries)
  BY WalkedIs
<1>3. r.members \subseteq People
  BY DEF RoomRecords
<1> HIDE DEF P, taken, y, entries, x
<1>4. RecordShaped(y) /\ y.members \subseteq People /\ y.pending = P
  BY <1>1 DEF FoldedAs
<1>5. x.pending = P
  BY <1>2, <1>3, <1>4, KeepWritesShape
<1> QED BY <1>1, <1>5 DEF P, taken, y, x

(* A write whose row reached the chain is not taken back by a pass of the  *)
(* device that made it, whatever its pass read and however old that is.    *)
THEOREM LandedWritesStand == RoomSpec => LandedStands
<1>1. ASSUME RoomInv, [RoomNext]_roomVars, NEW d \in Admins, PassEnds(d),
             NEW e \in record[d].pending,
             e.id \in Landed, HoldsLane(d, e.id), ~WroteAgain
      PROVE  e \in record'[d].pending \/ e.id \in record'[d].log
  <2>1. PICK pass \in reading[d] : FoldsTo(d, pass)
    BY <1>1, PassEndsByFold
  <2> DEFINE st == StampsOf(chain)
             r == record[d]
             rows == RowsIn(d, pass)
             used == UsedIn(d, pass)
             x == WalkedBy(d, pass)
             t == FoldOf(d, pass)
  <2>2. /\ WalkedFrom(r, x, rows)
        /\ Len(t.writes) > Len(writes)
              \/ /\ t.record.pending = x.pending
                 /\ t.record.log = x.log
    BY <1>1, FoldFits DEF FoldResult
  <2>3. /\ record = [y \in Admins |-> record[y]]
        /\ DeviceInv(d, r, marks[d], reading[d], writes, flying, st)
        /\ DOMAIN st = Landed
    BY <1>1, StampsAre DEF RoomInv, RoomTyped
  <2> HIDE DEF st
  <2>4. /\ r \in RoomRecords /\ writes[e.id].by = d
        /\ PassOK(r, marks[d], pass, writes, flying, st)
    BY <1>1, <2>3 DEF DeviceInv, RecordInv, RecordOK, PendingOwn
  <2>5. x.pending = StillPending(d, r, pass, rows, used)
    BY <2>4, WalkedPending DEF WalkedBy
  <2>6. TakenBack(d, r, pass, rows, used) =
              {f \in r.pending :
                  /\ f.id \notin rows
                  /\ f.id \in pass.overdue
                  /\ writes[f.id].gen \in DOMAIN r.epochs
                       => RosterLane(d, writes[f.id].gen,
                                     r.epochs[writes[f.id].gen].key) \in used}
    BY <2>4, TakenBackAre
  <2>7. record'[d] = t.record /\ writes' = t.writes
    BY <2>1, <2>3 DEF FoldsTo
  <2> HIDE DEF t, x, rows, used
  <2>8. record'[d].pending = x.pending /\ record'[d].log = r.log \cup rows
    BY <1>1, <2>2, <2>7 DEF WroteAgain, WalkedFrom
  <2>9. CASE e.id \in rows
    BY <2>8, <2>9
  <2>10. CASE e.id \notin rows
    <3>1. e \notin TakenBack(d, r, pass, rows, used)
      <4> SUFFICES ASSUME e \in TakenBack(d, r, pass, rows, used)
                   PROVE  FALSE
        OBVIOUS
      <4>1. LaneOf(e.id) = RosterLane(d, writes[e.id].gen,
                                      r.epochs[writes[e.id].gen].key)
        BY <1>1, <2>4 DEF HoldsLane, LaneOf
      <4>2. e.id \in pass.overdue /\ LaneOf(e.id) \in used
        BY <1>1, <2>6, <4>1 DEF HoldsLane
      <4>3. LaneIn(writes, e.id) = LaneOf(e.id) /\ LaneOf(e.id) \in pass.heard
        BY <4>2 DEF LaneIn, LaneOf, used, UsedIn
      <4>4. e.id \in pass.rows \cup marks[d]
        BY <1>1, <2>1, <2>3, <2>4, <4>2, <4>3
        DEF PassOK, OverdueRead, FoldsTo
      <4>5. e.id \notin marks[d]
        BY <1>1, <2>3 DEF DeviceInv, RecordInv, PendingOwn
      <4>6. e.id \in rows
        BY <4>2, <4>4, <4>5 DEF rows, RowsIn, used
      <4> QED BY <2>10, <4>6
    <3> QED BY <1>1, <2>5, <2>8, <2>10, <3>1 DEF StillPending
  <2> QED BY <2>9, <2>10
<1>2. RoomInv /\ [RoomNext]_roomVars =>
         [\A d \in Admins : PassEnds(d) =>
            \A e \in record[d].pending :
               (e.id \in Landed /\ HoldsLane(d, e.id) /\ ~WroteAgain)
               => e \in record'[d].pending \/ e.id \in record'[d].log]_roomVars
  BY <1>1
<1> QED BY <1>2, RoomInvariant, PTL DEF RoomSpec, LandedStands

(* The last write about a person that a device makes while a pass reads    *)
(* stands when the pass ends, unless the pass learned of a row stamped     *)
(* after it.                                                               *)
THEOREM WritesDuringKept == RoomSpec => WritesKept
<1>1. ASSUME RoomInv, [RoomNext]_roomVars, NEW d \in Admins, PassEnds(d),
             ~WroteAgain, NEW e \in WritesDuring(d)
      PROVE  (writes[e.id].who \in record'[d].members
                  <=> writes[e.id].who \in record[d].members)
             \/ StampedAfter(d, e)
  <2>1. PICK pass \in reading[d] : FoldsTo(d, pass)
    BY <1>1, PassEndsByFold
  <2> DEFINE st == StampsOf(chain)
             r == record[d]
             rows == RowsIn(d, pass)
             used == UsedIn(d, pass)
             x == WalkedBy(d, pass)
             y == FoldedOf(d, r, pass, rows, used)
             entries == Meanwhile(d, r, pass, rows, used)
             t == FoldOf(d, pass)
  <2>2. /\ WalkedFrom(r, x, rows) /\ rows \subseteq Landed
        /\ Len(t.writes) > Len(writes)
              \/ /\ t.record.pending = x.pending
                 /\ t.record.log = x.log
                 /\ t.record.members = x.members
    BY <1>1, FoldFits DEF FoldResult
  <2>3. /\ record = [v \in Admins |-> record[v]]
        /\ DeviceInv(d, r, marks[d], reading[d], writes, flying, st)
        /\ WorldInv(writes, flying, st)
        /\ DOMAIN st = Landed /\ \A id \in Landed : Stamp(id) = st[id]
    BY <1>1, StampsAre DEF RoomInv, RoomTyped
  <2> HIDE DEF st
  <2>4. /\ r \in RoomRecords /\ PendingOwn(d, r, writes, st)
        /\ SaidDuring(r, pass.before, writes)
    BY <2>3 DEF DeviceInv, RecordInv, RecordOK, PassOK
  <2>5. /\ e \in r.pending /\ e \in record'[d].pending
        /\ e.id \notin pass.before /\ LastSaid(r, e, writes)
    BY <1>1 DEF WritesDuring, LastSaid
  <2>6. x = KeepWrites(r, y, entries)
    BY <2>4, WalkedIs DEF WalkedBy
  <2>7. /\ x.pending = StillPending(d, r, pass, rows, used)
        /\ RecordShaped(y) /\ y.log = r.log \cup rows
    <3>1. x = Walked(d, r, pass, rows, used)
      BY DEF WalkedBy
    <3> HIDE DEF r, rows, used, x
    <3>2. /\ Walked(d, r, pass, rows, used).pending
                = StillPending(d, r, pass, rows, used)
          /\ FoldedAs(r, y, rows, TakenBack(d, r, pass, rows, used),
                      StillPending(d, r, pass, rows, used))
      BY <2>4, WalkedPending
    <3> HIDE DEF y
    <3> QED BY <3>1, <3>2 DEF FoldedAs
  <2>8. record'[d] = t.record /\ writes' = t.writes
    BY <2>1, <2>3 DEF FoldsTo
  <2>9. entries = {f \in x.pending : f.id \notin pass.before}
    BY <2>7 DEF Meanwhile
  <2> HIDE DEF t, x, rows, used, y, entries
  <2>10. /\ record'[d].pending = x.pending
         /\ record'[d].members = x.members
         /\ record'[d].log = r.log \cup rows
    BY <1>1, <2>2, <2>8 DEF WroteAgain, WalkedFrom
  <2>11. e \in entries
    BY <2>5, <2>9, <2>10
  <2>12. writes[e.id].who \in r.members <=> writes[e.id].kind = "admit"
    BY <2>4, <2>5 DEF SaidDuring
  <2>13. /\ writes[e.id].kind \in {"admit", "remove"} /\ e.at \in Nat
    <3>1. e.id \in DOMAIN writes /\ writes \in Seq(Rows)
      BY <2>3, <2>4, <2>5 DEF PendingOwn, WorldInv
    <3>2. writes[e.id] \in Rows /\ e \in Entries
      BY <2>4, <2>5, <3>1 DEF RoomRecords
    <3> QED BY <3>2 DEF Rows, Entries
  <2>14. \/ writes[e.id].who \in KeepWrites(r, y, entries).members
               <=> writes[e.id].who \in r.members
         \/ \E id \in y.log \ r.log :
               writes[id].who = writes[e.id].who /\ ~(Stamp(id) <= e.at)
    BY <2>7, <2>11, <2>12, <2>13, KeepWritesStand
  <2>15. CASE writes[e.id].who \in KeepWrites(r, y, entries).members
                 <=> writes[e.id].who \in r.members
    BY <2>6, <2>10, <2>15
  <2>16. CASE \E id \in y.log \ r.log :
                 writes[id].who = writes[e.id].who /\ ~(Stamp(id) <= e.at)
    <3>1. PICK id \in y.log \ r.log :
             writes[id].who = writes[e.id].who /\ ~(Stamp(id) <= e.at)
      BY <2>16
    <3>2. id \in rows /\ Stamp(id) \in Nat
      BY <2>2, <2>3, <2>7 DEF WorldInv
    <3>3. Stamp(id) > e.at
      BY <2>13, <3>1, <3>2
    <3>4. id \in record'[d].log \ record[d].log
      BY <2>7, <2>10
    <3> QED BY <3>1, <3>3, <3>4 DEF StampedAfter
  <2> QED BY <2>14, <2>15, <2>16
<1>2. RoomInv /\ [RoomNext]_roomVars =>
         [\A d \in Admins : PassEnds(d) /\ ~WroteAgain =>
            \A e \in WritesDuring(d) :
               (writes[e.id].who \in record'[d].members
                   <=> writes[e.id].who \in record[d].members)
               \/ StampedAfter(d, e)]_roomVars
  BY <1>1
<1> QED BY <1>2, RoomInvariant, PTL DEF RoomSpec, WritesKept

-----------------------------------------------------------------------------
(* The key all admins write under.                                         *)

KeyInv ==
    /\ RowsFit(writes)
    /\ \A d \in Admins : KeysFrom(record[d], writes)

(* A step of a device is one of its own record; rows are added only.       *)
LEMMA KeysOfOne ==
    ASSUME RoomInv, KeyInv, NEW d \in Admins, NEW r,
           record' = [record EXCEPT ![d] = r],
           Extends(writes, writes'), RowsFit(writes'), KeysFrom(r, writes')
    PROVE  KeyInv'
<1>1. record = [x \in Admins |-> record[x]]
  BY DEF RoomInv, RoomTyped
<1>2. ASSUME NEW x \in Admins PROVE KeysFrom(record'[x], writes')
  <2>1. CASE x = d
    BY <1>1, <2>1
  <2>2. CASE x # d
    <3>1. record'[x] = record[x]
      BY <1>1, <2>2
    <3>2. KeysFrom(record[x], writes')
      BY DEF KeyInv, KeysFrom, Extends
    <3> QED BY <3>1, <3>2
  <2> QED BY <2>1, <2>2
<1> QED BY <1>2 DEF KeyInv

LEMMA WriteKeys ==
    ASSUME RoomInv, KeyInv, NEW d \in Admins, NEW who \in People,
           NEW kind \in {"admit", "remove"}, NEW t,
           AddsRow(State(d, record[d]), t, d, kind, who),
           writes' = t.writes, record' = [record EXCEPT ![d] = t.record]
    PROVE  KeyInv'
<1> DEFINE s == State(d, record[d])
           st == StampsOf(chain)
<1>1. /\ StateInv(s, d, record[d].pending, st)
      /\ s.writes = writes /\ s.record = record[d]
  BY StateFits
<1>2. writes \in Seq(Rows) /\ DOMAIN st \subseteq DOMAIN writes
  BY DEF RoomInv, WorldInv
<1>3. KeysOK(s)
  BY <1>1 DEF KeyInv, KeysOK
<1> HIDE DEF s, st
<1>4. AddsRow(s, t, d, kind, who)
  BY DEF s
<1>5. StateInv(t, d, record[d].pending, st) /\ KeysOK(t)
  BY <1>1, <1>2, <1>3, <1>4, RowKeeps, RowKeysKept
<1>6. /\ Extends(writes, writes')
      /\ RowsFit(writes') /\ KeysFrom(t.record, writes')
  BY <1>5 DEF StateInv, KeysOK
<1> QED BY <1>6, KeysOfOne

LEMMA AdmitKeys ==
    ASSUME RoomInv, KeyInv, NEW d \in Admins, NEW who \in People,
           Admit(d, who)
    PROVE  KeyInv'
<1> DEFINE s == State(d, record[d])
           t == AdmitOf(s, d, who)
<1>1. /\ StateInv(s, d, record[d].pending, StampsOf(chain))
      /\ chain \in Seq(Nat)
  BY StateFits DEF RoomInv, ChainOK
<1>2. AddsRow(s, t, d, "admit", who)
  BY <1>1, AdmitAdds
<1>3. writes' = t.writes /\ record' = [record EXCEPT ![d] = t.record]
  BY DEF Admit, Becomes
<1> HIDE DEF t
<1> QED BY <1>2, <1>3, WriteKeys

LEMMA RemoveKeys ==
    ASSUME RoomInv, KeyInv, NEW d \in Admins, NEW who \in People,
           NEW cut \in BOOLEAN, RemoveMember(d, who, cut)
    PROVE  KeyInv'
<1> DEFINE s == State(d, record[d])
           t == RemoveOf(s, d, who, cut)
<1>1. /\ StateInv(s, d, record[d].pending, StampsOf(chain))
      /\ chain \in Seq(Nat)
  BY StateFits DEF RoomInv, ChainOK
<1>2. AddsRow(s, t, d, "remove", who)
  BY <1>1, RemoveAdds
<1>3. writes' = t.writes /\ record' = [record EXCEPT ![d] = t.record]
  BY DEF RemoveMember, Becomes
<1> HIDE DEF t
<1> QED BY <1>2, <1>3, WriteKeys

(* Before anything is removed again, a key without a stamp is still that   *)
(* of a pending removal: where its row was read, a claim took its place;   *)
(* where it was taken back, the key went with it.                          *)
LEMMA BaseKeys ==
    ASSUME RoomInv, KeyInv, NEW d \in Admins, NEW pass \in reading[d]
    PROVE  KeysOK(BaseOf(d, pass))
<1> DEFINE st == StampsOf(chain)
           r == record[d]
           rows == RowsIn(d, pass)
           x == WalkedBy(d, pass)
           y == AdoptedBy(d, pass)
           again == AgainBy(d, pass)
           s == BaseOf(d, pass)
<1>1. /\ WalkedFrom(r, x, rows) /\ rows \subseteq Landed
      /\ AdoptedFrom(d, x, y, rows)
      /\ s.record.epochs = y.epochs
      /\ s.record.pending = x.pending \ again
  BY FoldFits DEF FoldResult
<1>2. s.writes = writes
  BY DEF BaseOf, State
<1>3. /\ RecordInv(d, r, writes, st) /\ ChainOK(chain)
      /\ WorldInv(writes, flying, st)
      /\ RowsFit(writes) /\ KeysFrom(r, writes)
  BY DEF RoomInv, DeviceInv, KeyInv
<1>4. /\ DOMAIN st = Landed /\ DOMAIN st \subseteq DOMAIN writes
      /\ writes \in Seq(Rows)
  BY <1>3, StampsAre DEF WorldInv
<1>5. again = {e \in r.pending : e.id \in Rekeys(GenerationLost(x, y))}
  BY DEF AgainBy, LostRekeys
<1> HIDE DEF r, rows, x, y, again, s
<1>6. ASSUME NEW gen \in DOMAIN x.epochs
      PROVE  gen \in DOMAIN r.epochs /\ x.epochs[gen] = r.epochs[gen]
  BY <1>1 DEF WalkedFrom
<1>7. ASSUME NEW gen \in DOMAIN y.epochs, gen # 0
      PROVE  LET key == y.epochs[gen].key
             IN  /\ key \in DOMAIN writes /\ writes[key].to # {}
                 /\ writes[key].gen + 1 = gen
                 /\ y.epochs[gen].stamp = Speculative
                       => key \in IdsOf(x.pending \ again)
  <2>1. CASE y.epochs[gen] \in Claims(d, x, rows, gen)
    <3>1. y.epochs[gen].stamp # Speculative
      BY <1>1, <1>3, <2>1, ClaimsFit DEF st
    <3>2. \/ \E id \in rows : /\ id \in Rekeys(rows) /\ Generation(id) = gen
                              /\ y.epochs[gen].key = id
          \/ gen \in DOMAIN x.epochs /\ y.epochs[gen] = x.epochs[gen]
      BY <2>1 DEF Claims, Rekeys
    <3>3. CASE \E id \in rows :
                  /\ id \in Rekeys(rows) /\ Generation(id) = gen
                  /\ y.epochs[gen].key = id
      BY <1>1, <1>4, <3>1, <3>3 DEF Rekeys, Generation
    <3>4. CASE gen \in DOMAIN x.epochs /\ y.epochs[gen] = x.epochs[gen]
      BY <1>3, <1>6, <1>7, <3>1, <3>4 DEF KeysFrom
    <3> QED BY <3>2, <3>3, <3>4
  <2>2. CASE /\ Claims(d, x, rows, gen) = {}
             /\ gen \in DOMAIN x.epochs /\ y.epochs[gen] = x.epochs[gen]
    <3> DEFINE key == y.epochs[gen].key
    <3>1. /\ key \in DOMAIN writes /\ writes[key].to # {}
          /\ writes[key].gen + 1 = gen
          /\ y.epochs[gen].stamp = Speculative => key \in IdsOf(r.pending)
      BY <1>3, <1>6, <1>7, <2>2 DEF KeysFrom
    <3>2. SUFFICES ASSUME y.epochs[gen].stamp = Speculative
                   PROVE  key \in IdsOf(x.pending \ again)
      BY <3>1
    <3>3. PICK e \in r.pending : e.id = key
      BY <3>1, <3>2 DEF IdsOf
    <3>4. key \notin rows
      <4> SUFFICES ASSUME key \in rows PROVE FALSE
        OBVIOUS
      <4>1. d \in writes[key].to
        BY <1>3, <3>1 DEF RowsFit
      <4>2. key \in Rekeys(rows) /\ Generation(key) = gen
        BY <3>1 DEF Rekeys, Generation
      <4>3. [key |-> key, stamp |-> Stamp(key)] \in Claims(d, x, rows, gen)
        BY <4>1, <4>2 DEF Claims
      <4> QED BY <2>2, <4>3
    <3>5. e \in x.pending
      <4>1. e.id = x.epochs[gen].key
        BY <2>2, <3>3
      <4> QED BY <1>1, <2>2, <3>1, <3>3, <3>4, <4>1 DEF WalkedFrom
    <3>6. e \notin again
      <4> SUFFICES ASSUME e \in again PROVE FALSE
        OBVIOUS
      <4>1. PICK g \in DOMAIN x.epochs :
              x.epochs[g].key # y.epochs[g].key /\ e.id = x.epochs[g].key
        BY <1>5 DEF Rekeys, GenerationLost
      <4>2. g # 0
        <5>1. r.epochs[0].key = 0
          BY <1>3 DEF RecordInv, KeysHeld
        <5>2. 0 \notin DOMAIN writes
          BY <1>4
        <5> QED BY <1>6, <3>1, <3>3, <4>1, <5>1, <5>2
      <4>3. writes[e.id].gen + 1 = g
        BY <1>3, <1>6, <4>1, <4>2 DEF KeysFrom
      <4> QED BY <2>2, <3>1, <3>3, <4>1, <4>3
    <3> QED BY <3>3, <3>5, <3>6 DEF IdsOf
  <2> QED BY <1>1, <2>1, <2>2 DEF AdoptedFrom
<1> QED BY <1>1, <1>2, <1>3, <1>7 DEF KeysOK, KeysFrom, s

LEMMA FoldKeys ==
    ASSUME RoomInv, KeyInv, NEW d \in Admins, Fold(d)
    PROVE  KeyInv'
<1>1. PICK pass \in reading[d] : FoldsTo(d, pass)
  BY FoldIs
<1> DEFINE st == StampsOf(chain)
           x == WalkedBy(d, pass)
           t == FoldOf(d, pass)
<1>2. StateInv(t, d, x.pending, st) /\ KeysOK(t)
  BY FoldFits, BaseKeys DEF FoldResult
<1>3. writes' = t.writes /\ record' = [record EXCEPT ![d] = t.record]
  BY <1>1 DEF FoldsTo
<1> HIDE DEF st, x, t
<1>4. /\ Extends(writes, writes')
      /\ RowsFit(writes') /\ KeysFrom(t.record, writes')
  BY <1>2, <1>3 DEF StateInv, KeysOK
<1> QED BY <1>3, <1>4, KeysOfOne

LEMMA KeysStart == RoomInit => KeyInv
<1> SUFFICES ASSUME RoomInit PROVE KeyInv
  OBVIOUS
<1>1. RowsFit(writes)
  BY DEF RoomInit, RowsFit
<1>2. ASSUME NEW d \in Admins PROVE DOMAIN record[d].epochs = {0}
  BY DEF RoomInit
<1> QED BY <1>1, <1>2 DEF KeyInv, KeysFrom

LEMMA KeysStep == RoomInv /\ KeyInv /\ [RoomNext]_roomVars => KeyInv'
<1> SUFFICES ASSUME RoomInv, KeyInv, [RoomNext]_roomVars PROVE KeyInv'
  OBVIOUS
<1>1. ASSUME NEW d \in Admins, NEW who \in People, Admit(d, who)
      PROVE  KeyInv'
  BY <1>1, AdmitKeys
<1>2. ASSUME NEW d \in Admins, NEW who \in People, NEW cut \in BOOLEAN,
             RemoveMember(d, who, cut)
      PROVE  KeyInv'
  BY <1>2, RemoveKeys
<1>3. ASSUME UNCHANGED <<writes, record>> PROVE KeyInv'
  BY <1>3 DEF KeyInv
<1>4. ASSUME NEW id \in flying, Land(id) \/ Lose(id) PROVE KeyInv'
  BY <1>3, <1>4 DEF Land, Lose
<1>5. ASSUME NEW d \in Admins, Probe(d) \/ ReadLane(d) \/ Restart(d)
      PROVE  KeyInv'
  BY <1>3, <1>5 DEF Probe, ReadLane, Restart
<1>6. ASSUME NEW d \in Admins, Fold(d) PROVE KeyInv'
  BY <1>6, FoldKeys
<1>7. CASE UNCHANGED roomVars
  BY <1>3, <1>7 DEF roomVars
<1> QED BY <1>1, <1>2, <1>4, <1>5, <1>6, <1>7 DEF RoomNext

(* When all has been read, a device holds a key that a row in its log      *)
(* carries, and has read every row that carries a key as new as its own.   *)
LEMMA QuietKeys ==
    ASSUME RoomInv, KeyInv, Quiet, RekeysReach, NEW d \in Admins
    PROVE  LET r == record[d]
               k == CurrentKey(r)
               st == StampsOf(chain)
           IN  /\ Current(r) \in Nat
               /\ Current(r) = 0 => k = 0
               /\ Current(r) # 0 =>
                     k \in Rekeys(Landed) /\ Generation(k) = Current(r)
               /\ \A id \in Rekeys(Landed) :
                     /\ Generation(id) <= Current(r)
                     /\ Generation(id) = Current(r) => st[k] <= st[id]
<1> DEFINE r == record[d]
           st == StampsOf(chain)
<1>1. /\ RecordInv(d, r, writes, st) /\ RecordOK(r)
      /\ ChainOK(chain) /\ WorldInv(writes, flying, st)
      /\ RowsFit(writes) /\ KeysFrom(r, writes)
      /\ marks[d] \subseteq r.log
  BY DEF RoomInv, DeviceInv, RecordInv, KeyInv
<1>2. /\ DOMAIN st = Landed /\ DOMAIN st \subseteq DOMAIN writes
      /\ writes \in Seq(Rows)
  BY <1>1, StampsAre DEF WorldInv
<1>3. /\ r.pending = {} /\ marks[d] \subseteq r.log
      /\ \A id \in Landed : LaneOf(id) \in Asked(d, r) => id \in marks[d]
  BY <1>1 DEF Quiet
<1>4. ASSUME NEW id \in Rekeys(Landed)
      PROVE  HoldsLane(d, id)
  BY DEF RekeysReach
<1> HIDE DEF r, st
<1>5. /\ DOMAIN r.epochs \in SUBSET Nat
      /\ r.epochs \in [DOMAIN r.epochs -> RoomKeys]
      /\ Current(r) \in DOMAIN r.epochs /\ Current(r) \in Nat
      /\ \A gen \in DOMAIN r.epochs : gen <= Current(r)
  <2>1. DOMAIN r.epochs \in SUBSET Nat /\ Current(r) \in DOMAIN r.epochs
        /\ r.epochs \in [DOMAIN r.epochs -> RoomKeys] /\ Current(r) \in Nat
    BY <1>1, CurrentTyped
  <2>2. IsFiniteSet(DOMAIN r.epochs)
    BY <1>1 DEF RecordOK
  <2> QED BY <2>1, <2>2, MaxIsLargest DEF Current
<1>6. ASSUME Current(r) = 0 PROVE CurrentKey(r) = 0
  BY <1>1, <1>6 DEF RecordInv, KeysHeld, CurrentKey
<1>7. ASSUME Current(r) # 0
      PROVE  /\ CurrentKey(r) \in Rekeys(Landed)
             /\ Generation(CurrentKey(r)) = Current(r)
             /\ r.epochs[Current(r)].stamp = st[CurrentKey(r)]
  <2> DEFINE k == CurrentKey(r)
  <2>1. /\ writes[k].to # {} /\ writes[k].gen + 1 = Current(r)
        /\ r.epochs[Current(r)].stamp # Speculative
    BY <1>1, <1>3, <1>5, <1>7 DEF KeysFrom, IdsOf, CurrentKey
  <2>2. k \in r.log /\ r.epochs[Current(r)].stamp = st[k]
    BY <1>1, <1>5, <2>1 DEF RecordInv, KeysHeld, CurrentKey
  <2>3. k \in Landed
    BY <1>1, <1>2, <2>2 DEF RecordInv, PendingOwn
  <2> QED BY <2>1, <2>2, <2>3 DEF Rekeys, Generation
<1>8. ASSUME NEW id \in Rekeys(Landed), Generation(id) >= Current(r)
      PROVE  id \in r.log
  <2>1. /\ id \in Landed /\ id \in DOMAIN writes
        /\ writes[id].gen \in Nat /\ writes[id].by \in Admins
    <3>1. id \in Landed /\ id \in DOMAIN writes
      BY <1>2 DEF Rekeys
    <3>2. writes[id] \in Rows
      BY <1>2, <3>1
    <3> QED BY <3>1, <3>2 DEF Rows
  <2>2. /\ writes[id].gen \in DOMAIN r.epochs
        /\ r.epochs[writes[id].gen].key = writes[id].key
    BY <1>4 DEF HoldsLane, r
  <2>3. writes[id].gen \in {Current(r), Current(r) - 1}
    <3>1. writes[id].gen <= Current(r) /\ writes[id].gen + 1 >= Current(r)
      BY <1>5, <1>8, <2>2 DEF Generation
    <3> QED BY <1>5, <2>1, <3>1
  <2>4. LaneOf(id) \in Asked(d, r)
    BY <2>1, <2>2, <2>3 DEF LaneOf, Asked
  <2> QED BY <1>3, <2>1, <2>4
<1>9. ASSUME NEW id \in Rekeys(Landed), Generation(id) >= Current(r)
      PROVE  /\ Generation(id) \in DOMAIN r.epochs
             /\ r.epochs[Generation(id)].stamp <= st[id]
  <2>1. d \in writes[id].to
    BY <1>1, <1>2 DEF Rekeys, RowsFit
  <2> QED BY <1>1, <1>8, <1>9, <2>1 DEF RecordInv, EarliestOf, Generation
<1>10. ASSUME NEW id \in Rekeys(Landed)
       PROVE  /\ Generation(id) <= Current(r)
              /\ Generation(id) = Current(r)
                    => st[CurrentKey(r)] <= st[id]
  <2>1. Generation(id) \in Nat \ {0}
    <3>1. writes[id] \in Rows
      BY <1>2 DEF Rekeys
    <3> QED BY <3>1 DEF Rows, Generation
  <2>2. Generation(id) <= Current(r)
    <3>1. CASE Generation(id) >= Current(r)
      BY <1>5, <1>9, <3>1
    <3>2. CASE ~(Generation(id) >= Current(r))
      BY <1>5, <2>1, <3>2
    <3> QED BY <3>1, <3>2
  <2>3. ASSUME Generation(id) = Current(r)
        PROVE  st[CurrentKey(r)] <= st[id]
    <3>1. Generation(id) >= Current(r)
      BY <1>5, <2>3
    <3> QED BY <1>7, <1>9, <2>1, <2>3, <3>1
  <2> QED BY <2>2, <2>3
<1> QED BY <1>5, <1>6, <1>7, <1>10 DEF r, st

LEMMA KeysSettle ==
    ASSUME RoomInv, KeyInv, Quiet, RekeysReach
    PROVE  KeysAgree
<1> SUFFICES ASSUME NEW d \in Admins, NEW e \in Admins
             PROVE  CurrentKey(record[d]) = CurrentKey(record[e])
  BY DEF KeysAgree
<1> DEFINE st == StampsOf(chain)
           c(x) == Current(record[x])
           k(x) == CurrentKey(record[x])
<1>1. \A x \in Admins :
         /\ c(x) \in Nat
         /\ c(x) = 0 => k(x) = 0
         /\ c(x) # 0 => k(x) \in Rekeys(Landed) /\ Generation(k(x)) = c(x)
         /\ \A id \in Rekeys(Landed) :
               /\ Generation(id) <= c(x)
               /\ Generation(id) = c(x) => st[k(x)] <= st[id]
  BY QuietKeys
<1> HIDE DEF c, k
<1>2. c(d) = c(e)
  <2>1. ASSUME NEW x \in Admins, NEW y \in Admins PROVE c(x) <= c(y)
    <3>1. CASE c(x) = 0
      BY <1>1, <3>1
    <3>2. CASE c(x) # 0
      BY <1>1, <3>2
    <3> QED BY <3>1, <3>2
  <2> QED BY <1>1, <2>1
<1>3. CASE c(d) = 0
  BY <1>1, <1>2, <1>3 DEF k
<1>4. CASE c(d) # 0
  <2>1. k(d) \in Landed /\ k(e) \in Landed
    BY <1>1, <1>2, <1>4 DEF Rekeys
  <2>2. st[k(d)] <= st[k(e)] /\ st[k(e)] <= st[k(d)]
    BY <1>1, <1>2, <1>4
  <2>3. ChainOK(chain) /\ chain \in Seq(Nat)
    BY DEF RoomInv, ChainOK
  <2>4. \A i \in DOMAIN chain : st[chain[i]] = i
    BY <2>3, StampsTyped
  <2>5. PICK i \in DOMAIN chain, j \in DOMAIN chain :
          k(d) = chain[i] /\ k(e) = chain[j]
    BY <2>1 DEF Landed, Range
  <2> HIDE DEF st
  <2>6. i <= j /\ j <= i /\ i \in Nat /\ j \in Nat
    BY <2>2, <2>3, <2>4, <2>5
  <2>7. k(d) = k(e)
    BY <2>5, <2>6
  <2> QED BY <2>7 DEF k
<1> QED BY <1>3, <1>4

(* When all has been read, the keys that are held come one from another:   *)
(* the row of each is in the lane of the one before.                       *)
LEMMA KeysLinked ==
    ASSUME RoomInv, KeyInv, Quiet, RekeysReach, NEW d \in Admins,
           NEW gen \in DOMAIN record[d].epochs, gen # 0
    PROVE  LET E == record[d].epochs
               key == E[gen].key
           IN  /\ gen \in Nat /\ key \in DOMAIN writes /\ key # 0
               /\ writes[key].gen = gen - 1
               /\ gen - 1 \in DOMAIN E /\ writes[key].key = E[gen - 1].key
<1> DEFINE r == record[d]
           st == StampsOf(chain)
           key == r.epochs[gen].key
<1>1. /\ RecordInv(d, r, writes, st) /\ RecordOK(r)
      /\ ChainOK(chain) /\ WorldInv(writes, flying, st)
      /\ KeysFrom(r, writes) /\ r.pending = {}
  BY DEF RoomInv, DeviceInv, RecordInv, KeyInv, Quiet
<1>2. DOMAIN st = Landed /\ writes \in Seq(Rows)
  BY <1>1, StampsAre DEF WorldInv
<1> HIDE DEF st
<1>3. /\ key \in DOMAIN writes /\ writes[key].to # {}
      /\ writes[key].gen + 1 = gen /\ r.epochs[gen].stamp # Speculative
  BY <1>1 DEF KeysFrom, IdsOf
<1>4. key \in r.log
  BY <1>1, <1>3 DEF RecordInv, KeysHeld
<1>5. key \in Rekeys(Landed)
  BY <1>1, <1>2, <1>3, <1>4 DEF RecordInv, PendingOwn, Rekeys
<1>6. HoldsLane(d, key)
  BY <1>5 DEF RekeysReach
<1>7. writes[key].gen \in Nat /\ key # 0
  <2>1. writes[key] \in Rows /\ key # 0
    BY <1>2, <1>3
  <2> QED BY <2>1 DEF Rows
<1>8. writes[key].gen = gen - 1 /\ gen \in Nat
  BY <1>3, <1>7
<1> QED BY <1>3, <1>6, <1>7, <1>8 DEF HoldsLane

(* Whoever reads the newest key was admitted with some key, and had every  *)
(* one after it from the row that carries it; the row of a key that stands *)
(* is not for its victim.                                                  *)
LEMMA VictimsCut ==
    ASSUME RoomInv, KeyInv, Quiet, RekeysReach
    PROVE  WinnersCut
<1> SUFFICES ASSUME NEW d \in Admins,
                    NEW gen \in DOMAIN record[d].epochs \ {0},
                    writes[record[d].epochs[gen].key].who
                        \in Readers(CurrentKey(record[d])),
                    \A id \in DOMAIN writes :
                        (/\ writes[id].kind = "admit"
                         /\ writes[id].who
                               = writes[record[d].epochs[gen].key].who)
                        => ~(writes[id].gen >= gen)
             PROVE  FALSE
  BY DEF WinnersCut
<1> DEFINE r == record[d]
           k(g) == r.epochs[g].key
           victim == writes[k(gen)].who
           c == Current(r)
<1>1. PICK path \in SUBSET (0..Len(writes)) :
        /\ CurrentKey(r) \in path
        /\ \A i \in path :
              \/ i = 0 /\ victim \in Founders
              \/ \E id \in DOMAIN writes : /\ writes[id].kind = "admit"
                                          /\ writes[id].who = victim
                                          /\ writes[id].key = i
              \/ i # 0 /\ victim \in writes[i].to /\ writes[i].key \in path
  BY DEF Readers
<1>2. RecordOK(r) /\ RowsFit(writes)
  BY DEF RoomInv, DeviceInv, RecordInv, KeyInv
<1>3. /\ DOMAIN r.epochs \in SUBSET Nat /\ c \in DOMAIN r.epochs /\ c \in Nat
      /\ \A g \in DOMAIN r.epochs : g <= c
  <2>1. /\ DOMAIN r.epochs \in SUBSET Nat /\ c \in DOMAIN r.epochs
        /\ c \in Nat
    BY <1>2, CurrentTyped
  <2> QED BY <1>2, <2>1, MaxIsLargest DEF RecordOK, Current
<1>4. \A g \in DOMAIN r.epochs \ {0} :
         /\ k(g) \in DOMAIN writes /\ k(g) # 0 /\ writes[k(g)].gen = g - 1
         /\ g - 1 \in DOMAIN r.epochs /\ writes[k(g)].key = k(g - 1)
  BY KeysLinked
<1>5. CurrentKey(r) = k(c)
  BY DEF CurrentKey
<1>6. \A id \in DOMAIN writes :
         writes[id].kind = "admit" /\ writes[id].who = victim
         => ~(writes[id].gen >= gen)
  OBVIOUS
<1>7. gen \in DOMAIN r.epochs /\ gen # 0 /\ gen \in Nat
  BY <1>3
<1> HIDE DEF r, k, c, victim
<1>8. ASSUME NEW g \in DOMAIN r.epochs, g >= gen, k(g) \in path
      PROVE  g # gen /\ g - 1 \in DOMAIN r.epochs /\ k(g - 1) \in path
  <2>1. g \in Nat /\ g # 0
    BY <1>3, <1>7, <1>8
  <2>2. /\ k(g) \in DOMAIN writes /\ k(g) # 0 /\ writes[k(g)].gen = g - 1
        /\ g - 1 \in DOMAIN r.epochs /\ writes[k(g)].key = k(g - 1)
    BY <1>4, <2>1
  <2>3. ASSUME NEW id \in DOMAIN writes, writes[id].kind = "admit",
               writes[id].who = victim, writes[id].key = k(g)
        PROVE  FALSE
    <3>1. writes[k(g)].gen + 1 = writes[id].gen
      BY <1>2, <2>2, <2>3 DEF RowsFit
    <3>2. writes[id].gen = g
      BY <2>1, <2>2, <3>1
    <3> QED BY <1>6, <1>8, <2>3, <3>2
  <2>4. victim \in writes[k(g)].to /\ writes[k(g)].key \in path
    BY <1>1, <1>8, <2>2, <2>3
  <2>5. g # gen
    BY <1>2, <2>2, <2>4 DEF RowsFit, victim
  <2> QED BY <2>2, <2>4, <2>5
<1> DEFINE steps == {n \in 0..c : /\ c - n \in DOMAIN r.epochs
                                 /\ c - n >= gen /\ k(c - n) \in path}
<1>9. 0 \in steps /\ steps \in SUBSET Nat /\ IsFiniteSet(steps)
  <2>1. c >= gen /\ k(c) \in path /\ c - 0 = c /\ 0 \in 0..c
    BY <1>1, <1>3, <1>5, <1>7
  <2>2. 0 \in steps
    BY <1>3, <2>1
  <2>3. steps \subseteq 0..c /\ IsFiniteSet(0..c)
    BY <1>3, FS_Interval
  <2>4. IsFiniteSet(steps)
    BY <2>3, FS_Subset
  <2> QED BY <2>2, <2>3, <2>4
<1>10. PICK n \in steps : \A m \in steps : m <= n
  BY <1>9, MaxIsLargest
<1>11. /\ n \in Nat /\ c - n \in DOMAIN r.epochs
       /\ c - n >= gen /\ k(c - n) \in path
  OBVIOUS
<1>12. /\ c - n # gen /\ c - n - 1 \in DOMAIN r.epochs
       /\ k(c - n - 1) \in path
  BY <1>8, <1>11
<1>13. c - n - 1 = c - (n + 1) /\ n + 1 \in 0..c /\ c - (n + 1) >= gen
  BY <1>3, <1>7, <1>11, <1>12
<1>14. n + 1 \in steps
  BY <1>12, <1>13
<1> QED BY <1>10, <1>11, <1>14

(* The admins of a room come to write under one key, whatever of their     *)
(* removals crossed, in however many passes and in whatever order the      *)
(* lanes were read and however often one could not be: when all has been   *)
(* read, each holds the key of the newest generation that came first on    *)
(* the chain, and none whom a key that stands was to cut off has it.       *)
THEOREM RoomComesToAgree == RoomSpec => []RoomAgrees
<1>1. RoomInit => RoomInv /\ KeyInv
  BY RoomStarts, KeysStart
<1>2. RoomInv /\ KeyInv /\ [RoomNext]_roomVars => (RoomInv /\ KeyInv)'
  BY RoomSteps, KeysStep
<1>3. RoomInv /\ KeyInv => RoomAgrees
  BY KeysSettle, VictimsCut DEF RoomAgrees
<1> QED BY <1>1, <1>2, <1>3, PTL DEF RoomSpec

-----------------------------------------------------------------------------
(* The sends of a wallet.  What a window sends is run at most once, for    *)
(* any number of messages, chunks, externals and instants, and whatever    *)
(* the parameters of the wallet, as long as the grace a window gives an    *)
(* external covers the error of its clock and the age of an answer.        *)

USE WalletAssumption

(* An external, as the window keeps it.                                    *)
Externals == [msg : Messages, seqno : Nat, until : Nat]

Sends ==
    [todo : Seq(Messages), alone : BOOLEAN, waits : BOOLEAN, fixed : Nat,
     first : BOOLEAN, resigned : BOOLEAN, seqno : Nat,
     ext : SUBSET Externals]

(* A send whose external is signed.                                        *)
Signed == {"broadcast", "await", "uncertain", "settle", "death"}
Watched == {"await", "uncertain", "settle"}

FloorNotes == [seqno : Nat, at : Nat]
Runs == [ext : SUBSET Externals, at : Nat]

WorldTyped ==
    log \in Seq(Runs) /\ net \in SUBSET Externals /\ now \in Nat
NotesTyped == floor \in FloorNotes /\ pending \in SUBSET Externals
LaneTyped ==
    /\ pc \in {"idle", "resolve", "catchup", "sign"} \cup Signed
    /\ call \in Sends
    /\ free \in SUBSET Messages
    /\ open \in SUBSET Externals
Typed == WorldTyped /\ NotesTyped /\ LaneTyped

(* The contract ran every external at its seqno and before its deadline,   *)
(* and will do so with those that nodes have.                              *)
Chain ==
    /\ \A i \in DOMAIN log : log[i].at <= now
    /\ \A i, j \in DOMAIN log : i < j => log[i].at <= log[j].at
    /\ \A i \in DOMAIN log : \A e \in log[i].ext :
          log[i].ext = {e} /\ i = e.seqno + 1 /\ log[i].at < e.until
    /\ \A e \in net : Seqno <= e.seqno /\ now < e.until

(* What the send in the lane holds at each of its steps.                   *)
Shape ==
    /\ pc = "idle" => call = NoCall
    /\ pc # "idle" => /\ call.todo # <<>> /\ IsInjective(call.todo)
                      /\ call.alone => Len(call.todo) = 1
    /\ pc \in Signed =>
          \E e \in call.ext : call.ext = {e} /\ e.msg = Head(call.todo)
    /\ pc = "settle" => \A e \in call.ext : e.seqno < Seqno
    /\ free \cap Range(call.todo) = {}
    /\ open \cap InLane = {}

(* The externals that ran, may run or are watched.                         *)
Alive == net \cup Ran \cup Held

(* No two externals carry one message, none carries one that is not sent, *)
(* and no message is lost.                                                 *)
Carried ==
    /\ \A e, f \in Alive : e.msg = f.msg => e = f
    /\ UnsentNeverRuns
    /\ \A e \in Held : e.msg \notin Unsent
    /\ Accounted

(* The inductive invariant.                                                *)
SendInv == Typed /\ Chain /\ Shape /\ Carried

-----------------------------------------------------------------------------
(* Lists of messages without repetition.                                   *)

(* Such a list is its head and its tail, and the head is not in the tail.  *)
LEMMA HeadAndTail ==
    ASSUME NEW s \in Seq(Messages), s # <<>>, IsInjective(s)
    PROVE  /\ Head(s) \in Messages /\ Tail(s) \in Seq(Messages)
           /\ Range(s) = {Head(s)} \cup Range(Tail(s))
           /\ Head(s) \notin Range(Tail(s))
           /\ IsInjective(Tail(s))
           /\ Len(Tail(s)) = Len(s) - 1
<1>1. Len(s) \in Nat /\ Len(s) >= 1 /\ DOMAIN s = 1..Len(s)
  OBVIOUS
<1>2. /\ Head(s) = s[1] /\ Tail(s) \in Seq(Messages)
      /\ Len(Tail(s)) = Len(s) - 1
      /\ DOMAIN Tail(s) = 1..(Len(s) - 1)
      /\ \A i \in 1..(Len(s) - 1) : Tail(s)[i] = s[i + 1]
  BY <1>1
<1>3. Range(s) = {Head(s)} \cup Range(Tail(s))
  <2>1. ASSUME NEW m \in Range(s) PROVE m \in {Head(s)} \cup Range(Tail(s))
    <3>1. PICK i \in 1..Len(s) : m = s[i]
      BY <1>1, <2>1 DEF Range
    <3>2. CASE i = 1
      BY <1>2, <3>1, <3>2
    <3>3. CASE i # 1
      <4>1. i - 1 \in 1..(Len(s) - 1) /\ (i - 1) + 1 = i
        BY <1>1, <3>3
      <4>2. Tail(s)[i - 1] = m
        BY <1>2, <3>1, <4>1
      <4> QED BY <1>2, <4>1, <4>2 DEF Range
    <3> QED BY <3>2, <3>3
  <2>2. ASSUME NEW m \in Range(Tail(s)) PROVE m \in Range(s)
    <3>1. PICK i \in 1..(Len(s) - 1) : m = Tail(s)[i]
      BY <1>2, <2>2 DEF Range
    <3>2. m = s[i + 1] /\ i + 1 \in 1..Len(s)
      BY <1>1, <1>2, <3>1
    <3> QED BY <1>1, <3>2 DEF Range
  <2>3. Head(s) \in Range(s)
    BY <1>1, <1>2 DEF Range
  <2> QED BY <2>1, <2>2, <2>3
<1>4. Head(s) \notin Range(Tail(s))
  <2>1. SUFFICES ASSUME NEW i \in 1..(Len(s) - 1), s[1] = Tail(s)[i]
                 PROVE  FALSE
    BY <1>2 DEF Range
  <2>2. s[1] = s[i + 1] /\ i + 1 \in 1..Len(s) /\ 1 \in 1..Len(s) /\ i + 1 # 1
    BY <1>1, <1>2, <2>1
  <2> QED BY <1>1, <2>2 DEF IsInjective
<1>5. IsInjective(Tail(s))
  <2>1. SUFFICES ASSUME NEW i \in 1..(Len(s) - 1), NEW j \in 1..(Len(s) - 1),
                        Tail(s)[i] = Tail(s)[j]
                 PROVE  i = j
    BY <1>2 DEF IsInjective
  <2>2. s[i + 1] = s[j + 1] /\ i + 1 \in 1..Len(s) /\ j + 1 \in 1..Len(s)
    BY <1>1, <1>2, <2>1
  <2>3. i + 1 = j + 1
    BY <1>1, <2>2 DEF IsInjective
  <2> QED BY <2>3
<1> QED BY <1>1, <1>2, <1>3, <1>4, <1>5

LEMMA RangeTyped ==
    ASSUME NEW s \in Seq(Messages) PROVE Range(s) \subseteq Messages
<1>1. \A i \in DOMAIN s : s[i] \in Messages
  OBVIOUS
<1> QED BY <1>1 DEF Range

LEMMA NothingToDo == Range(<<>>) = {}
BY DEF Range

(* What follows a list of one is nothing.                                  *)
LEMMA LastOne ==
    ASSUME NEW s \in Seq(Messages), s # <<>>
    PROVE  /\ Len(s) = 1 => Range(Tail(s)) = {}
           /\ Len(s) # 1 => Tail(s) # <<>>
<1>1. /\ Tail(s) \in Seq(Messages) /\ Len(s) \in Nat /\ Len(s) >= 1
      /\ DOMAIN Tail(s) = 1..(Len(s) - 1) /\ Len(Tail(s)) = Len(s) - 1
  OBVIOUS
<1>2. Len(s) = 1 => Range(Tail(s)) = {}
  BY <1>1 DEF Range
<1>3. Len(<<>>) = 0
  OBVIOUS
<1>4. Len(s) # 1 => Tail(s) # <<>>
  BY <1>1, <1>3
<1> QED BY <1>2, <1>4

(* What an app may start is such a list, of messages it may send.          *)
LEMMA ChunkingsAre ==
    ASSUME Typed, NEW s \in Chunkings
    PROVE  /\ s \in Seq(Messages) /\ s # <<>> /\ IsInjective(s)
           /\ Range(s) \subseteq free
<1>1. PICK n \in 1..MaxChunks : s \in [1..n -> free] /\ IsInjective(s)
  BY DEF Chunkings
<1>2. free \subseteq Messages /\ n \in Nat /\ n >= 1
  BY DEF Typed, LaneTyped
<1>3. s \in [1..n -> Messages]
  BY <1>1, <1>2
<1>4. s \in Seq(Messages) /\ Len(s) = n
  BY <1>2, <1>3
<1>5. Range(s) \subseteq free
  BY <1>1 DEF Range
<1> QED BY <1>1, <1>2, <1>4, <1>5

-----------------------------------------------------------------------------
(* When an external is dead.                                               *)

LEMMA LogFacts ==
    ASSUME Typed
    PROVE  /\ Seqno \in Nat /\ DOMAIN log = 1..Seqno
           /\ \A i \in 1..Seqno : /\ log[i] \in Runs
                                  /\ log[i].at \in Nat
                                  /\ log[i].ext \in SUBSET Externals
<1>1. log \in Seq(Runs)
  BY DEF Typed, WorldTyped
<1>2. Seqno \in Nat /\ DOMAIN log = 1..Seqno
  BY <1>1 DEF Seqno
<1>3. \A i \in 1..Seqno : log[i] \in Runs
  BY <1>1 DEF Seqno
<1> QED BY <1>2, <1>3 DEF Runs

(* What ran did so at its seqno.                                           *)
LEMMA RanAt ==
    ASSUME Typed, Chain, NEW e \in Ran
    PROVE  /\ e \in Externals /\ e.seqno \in Nat /\ e.until \in Nat
           /\ e.seqno + 1 \in 1..Seqno
           /\ log[e.seqno + 1].ext = {e}
           /\ log[e.seqno + 1].at < e.until
<1>1. PICK i \in 1..Seqno : e \in log[i].ext
  BY LogFacts DEF Ran
<1>2. e \in Externals
  BY <1>1, LogFacts
<1>3. e.seqno \in Nat /\ e.until \in Nat
  BY <1>2 DEF Externals
<1>4. log[i].ext = {e} /\ i = e.seqno + 1 /\ log[i].at < e.until
  BY <1>1, LogFacts DEF Chain
<1> QED BY <1>1, <1>2, <1>3, <1>4

(* A window that sees the deadline and the grace past is past the deadline *)
(* by the age of an answer.                                                *)
LEMMA PastIsPast ==
    ASSUME Typed, NEW e \in Externals, PastDeadline(e)
    PROVE  now >= e.until + Lag
<1>1. PICK t \in now..(now + Tolerance) : t >= e.until + Grace
  BY DEF PastDeadline, Clock
<1>2. e.until \in Nat /\ now \in Nat
  BY DEF Typed, WorldTyped, Externals
<1> QED BY <1>1, <1>2, GraceAssumption

(* An external the window takes for dead did not run and never will.       *)
LEMMA ExpiredIsDead ==
    ASSUME Typed, Chain, NEW e \in Externals, Expired(e)
    PROVE  e \notin net \cup Ran
<1>1. now >= e.until + Lag
  BY PastIsPast DEF Expired
<1>2. /\ now \in Nat /\ e.until \in Nat /\ e.seqno \in Nat /\ Lag \in Nat
  BY DEF Typed, WorldTyped, Externals
<1>3. e \notin net
  BY <1>1, <1>2 DEF Chain
<1>4. ASSUME e \in Ran PROVE FALSE
  <2>1. PICK n \in 0..Seqno : /\ n < Seqno => now < log[n + 1].at + Lag
                             /\ n <= e.seqno
    BY DEF Expired, Seqnos
  <2>2. e.seqno + 1 \in 1..Seqno /\ log[e.seqno + 1].at < e.until
    BY <1>4, RanAt
  <2>3. n < Seqno /\ n + 1 \in 1..Seqno /\ n + 1 <= e.seqno + 1
    BY <1>2, <2>1, <2>2, LogFacts
  <2>4. now < log[n + 1].at + Lag
    BY <2>1, <2>3
  <2>5. log[n + 1].at <= log[e.seqno + 1].at
    BY <1>2, <2>2, <2>3, LogFacts DEF Chain
  <2>6. log[n + 1].at \in Nat /\ log[e.seqno + 1].at \in Nat
    BY <2>2, <2>3, LogFacts
  <2> QED BY <1>1, <1>2, <2>2, <2>4, <2>5, <2>6
<1> QED BY <1>3, <1>4

LEMMA ExpiredByHistoryIsDead ==
    ASSUME Typed, Chain, NEW e \in Externals, ExpiredByHistory(e)
    PROVE  e \notin net \cup Ran
<1>1. now >= e.until + Lag
  BY PastIsPast DEF ExpiredByHistory
<1>2. now \in Nat /\ e.until \in Nat /\ e.seqno \in Nat /\ Lag \in Nat
  BY DEF Typed, WorldTyped, Externals
<1>3. e \notin net
  BY <1>1, <1>2 DEF Chain
<1>4. ASSUME e \in Ran PROVE FALSE
  <2>1. e.seqno + 1 \in 1..Seqno /\ log[e.seqno + 1].at < e.until
    BY <1>4, RanAt
  <2>2. log[e.seqno + 1].at <= e.until
    BY <1>2, <2>1, LogFacts
  <2>3. e.seqno + 1 <= e.seqno
    BY <2>1, <2>2, LogFacts DEF ExpiredByHistory
  <2> QED BY <1>2, <2>3
<1> QED BY <1>3, <1>4

LEMMA ReplacedIsDead ==
    ASSUME Typed, Chain, NEW e \in Externals, "replaced" \in Verdicts(e)
    PROVE  e \notin net \cup Ran
<1>1. ~ (e.seqno >= Seqno) /\ log[e.seqno + 1].ext # {e}
  BY DEF Verdicts
<1>2. e.seqno \in Nat
  BY DEF Externals
<1>3. e \notin net
  BY <1>1, <1>2, LogFacts DEF Chain
<1> QED BY <1>1, <1>3, RanAt

LEMMA ConsumedRan ==
    ASSUME Typed, NEW e \in Externals, "consumed" \in Verdicts(e)
    PROVE  e \in Ran
<1>1. ~ (e.seqno >= Seqno) /\ log[e.seqno + 1].ext = {e}
  BY DEF Verdicts
<1>2. e.seqno + 1 \in DOMAIN log
  BY <1>1, LogFacts DEF Externals
<1> QED BY <1>1, <1>2 DEF Ran

(* An external whose seqno is taken ran, or the history can tell it did    *)
(* not.                                                                    *)
LEMMA TakenRanOrReplaced ==
    ASSUME Typed, NEW e \in Externals, e.seqno < Seqno,
           "replaced" \notin Verdicts(e)
    PROVE  e \in Ran
<1>1. log[e.seqno + 1].ext = {e}
  BY LogFacts DEF Verdicts, Externals
<1>2. e.seqno + 1 \in DOMAIN log
  BY LogFacts DEF Externals
<1> QED BY <1>1, <1>2 DEF Ran

-----------------------------------------------------------------------------
(* The three things a step can do to what the messages are carried by.     *)

(* It keeps them, or ends the watch over one that ran or is noted as       *)
(* unproved.                                                               *)
LEMMA Keeps ==
    ASSUME Carried, Alive' \subseteq Alive, Unsent' = Unsent,
           Held' \subseteq Held, Ran \subseteq Ran',
           unproved \subseteq unproved',
           \A e \in Held \ Held' : e \in Ran' \/ e.msg \in unproved'
    PROVE  Carried'
<1>1. \A e \in Alive : e.msg \notin Unsent
  BY DEF Carried, UnsentNeverRuns, MessagesOf, Alive
<1>2. UnsentNeverRuns' /\ \A e \in Held' : e.msg \notin Unsent'
  BY <1>1 DEF UnsentNeverRuns, MessagesOf, Alive
<1>3. Accounted'
  BY DEF Carried, Accounted, MessagesOf
<1> QED BY <1>2, <1>3 DEF Carried

(* It sends an external for a message that was unsent.                     *)
LEMMA Raises ==
    ASSUME Carried, NEW e, e.msg \notin Unsent',
           Unsent = Unsent' \cup {e.msg}, Alive' \subseteq Alive \cup {e},
           Held' = Held \cup {e}, Ran \subseteq Ran',
           unproved \subseteq unproved'
    PROVE  Carried'
<1>1. \A f \in Alive : f.msg \notin Unsent
  BY DEF Carried, UnsentNeverRuns, MessagesOf, Alive
<1>2. \A f, g \in Alive' : f.msg = g.msg => f = g
  BY <1>1 DEF Carried
<1>3. UnsentNeverRuns' /\ \A f \in Held' : f.msg \notin Unsent'
  BY <1>1 DEF UnsentNeverRuns, MessagesOf, Alive
<1>4. Accounted'
  BY DEF Carried, Accounted, MessagesOf
<1> QED BY <1>2, <1>3, <1>4 DEF Carried

(* It gives up an external that is dead: its message is unsent again.      *)
LEMMA Drops ==
    ASSUME Carried, NEW e \in Held, e \notin net' \cup Ran',
           net' \cup Ran' \subseteq net \cup Ran,
           Unsent' = Unsent \cup {e.msg}, Held' = Held \ {e},
           Ran \subseteq Ran', unproved \subseteq unproved'
    PROVE  Carried'
<1>1. \A f \in Alive : f.msg \notin Unsent
  BY DEF Carried, UnsentNeverRuns, MessagesOf, Alive
<1>2. Alive' \subseteq Alive \ {e} /\ e \in Alive
  BY DEF Alive
<1>3. \A f \in Alive' : f.msg # e.msg
  BY <1>2 DEF Carried
<1>4. UnsentNeverRuns' /\ \A f \in Held' : f.msg \notin Unsent'
  BY <1>1, <1>2, <1>3 DEF UnsentNeverRuns, MessagesOf, Alive
<1>5. Accounted'
  BY DEF Carried, Accounted, MessagesOf
<1> QED BY <1>2, <1>4, <1>5 DEF Carried

-----------------------------------------------------------------------------
(* What the parts of a step do.                                            *)

LEMMA WorldKept ==
    ASSUME Typed, Chain, UNCHANGED <<chainVars, now>>
    PROVE  WorldTyped' /\ Chain' /\ Ran' = Ran /\ net' = net /\ Seqno' = Seqno
BY DEF Typed, WorldTyped, Chain, chainVars, Ran, Seqno

LEMMA SentKept ==
    ASSUME Typed, Chain, NEW X \in SUBSET Externals, Sent(X),
           UNCHANGED <<log, now>>
    PROVE  /\ WorldTyped' /\ Chain' /\ Ran' = Ran /\ Seqno' = Seqno
           /\ net' \subseteq net \cup X
<1>1. net' \subseteq net \cup X
  BY DEF Sent, Runnable
<1>2. \A e \in net' : Seqno <= e.seqno /\ now < e.until
  <2>1. \A e \in net' : e.seqno >= Seqno /\ now < e.until
    BY DEF Sent, Runnable
  <2>2. net' \subseteq Externals
    BY <1>1 DEF Typed, WorldTyped
  <2> QED BY <2>1, <2>2, LogFacts DEF Externals
<1>3. WorldTyped' /\ Ran' = Ran /\ Seqno' = Seqno
  BY <1>1 DEF Typed, WorldTyped, Ran, Seqno
<1>4. Chain'
  BY <1>2, <1>3 DEF Chain
<1> QED BY <1>1, <1>3, <1>4

LEMMA ClockIsNat == ASSUME Typed PROVE Clock \subseteq Nat
BY DEF Typed, WorldTyped, Clock

LEMMA SeqnosAreNat == ASSUME Typed PROVE Seqnos \subseteq Nat
BY LogFacts DEF Seqnos

LEMMA NoFloorTyped == NoFloor \in FloorNotes
BY DEF NoFloor, FloorNotes

LEMMA NoteKept ==
    ASSUME Typed, NEW e \in Externals, NEW f \in FloorNotes,
           NoteBroadcast(f, e)
    PROVE  NotesTyped'
<1>1. PICK t \in Clock : floor' = Noted(f, e, t)
  BY DEF NoteBroadcast
<1>2. t \in Nat /\ e.seqno \in Nat
  BY ClockIsNat DEF Externals
<1>3. floor' \in FloorNotes
  BY <1>1, <1>2 DEF Noted, FloorNotes
<1> QED BY <1>3 DEF NoteBroadcast, NotesTyped

LEMMA ForgetKept == ASSUME Forget PROVE NotesTyped'
BY NoFloorTyped DEF Forget, NotesTyped

LEMMA NoCallTyped == NoCall \in Sends /\ NoCall.todo = <<>>
BY DEF NoCall, Sends

(* A send that reports to the app.                                         *)
LEMMA Reports ==
    ASSUME Typed, NEW o \in SUBSET Externals, NEW u \in SUBSET Messages,
           Report(o, u)
    PROVE  /\ LaneTyped' /\ Shape' /\ unproved' = unproved
           /\ Held' = open \cup o /\ Unsent' = free \cup u
<1>1. pc' = "idle" /\ call' = NoCall /\ call'.todo = <<>>
  BY NoCallTyped DEF Report
<1>2. free' = free \cup u /\ open' = open \cup o /\ unproved' = unproved
  BY DEF Report
<1>3. LaneTyped'
  BY <1>1, <1>2, NoCallTyped DEF Typed, LaneTyped
<1>4. InLane' = {} /\ ToSign' = <<>>
  BY <1>1 DEF InLane, ToSign
<1>5. Held' = open \cup o /\ Unsent' = free \cup u
  BY <1>2, <1>4, NothingToDo DEF Held, Unsent
<1>6. Shape'
  BY <1>1, <1>4, NothingToDo DEF Shape, Signed
<1> QED BY <1>2, <1>3, <1>5, <1>6

LEMMA ReportsUnsent ==
    ASSUME Typed, ReportUnsent
    PROVE  /\ LaneTyped' /\ Shape' /\ unproved' = unproved
           /\ Held' = open /\ Unsent' = free \cup Range(call.todo)
<1>1. Report({}, Range(call.todo)) /\ {} \in SUBSET Externals
  BY DEF ReportUnsent
<1>2. Range(call.todo) \in SUBSET Messages
  BY RangeTyped DEF Typed, LaneTyped, Sends
<1>3. /\ LaneTyped' /\ Shape' /\ unproved' = unproved
      /\ Held' = open \cup {} /\ Unsent' = free \cup Range(call.todo)
  BY <1>1, <1>2, Reports
<1> QED BY <1>3

(* What is watched and what is unsent at each step of a send.              *)
LEMMA Unwatched ==
    pc \notin Watched =>
        InLane = {} /\ Held = open /\ Unsent = free \cup Range(call.todo)
BY DEF Watched, InLane, Held, ToSign, Unsent

LEMMA InHand ==
    ASSUME Typed, Shape, pc \in Signed, NEW e \in call.ext
    PROVE  /\ call.ext = {e} /\ e \in Externals /\ e.msg \in Messages
           /\ call.todo \in Seq(Messages) /\ call.todo # <<>>
           /\ IsInjective(call.todo) /\ e.msg = Head(call.todo)
           /\ Range(call.todo) \in SUBSET Messages
           /\ Range(Tail(call.todo)) \in SUBSET Messages
           /\ Range(call.todo) = {e.msg} \cup Range(Tail(call.todo))
           /\ e.msg \notin Range(Tail(call.todo)) /\ e.msg \notin free
           /\ call.alone => Range(Tail(call.todo)) = {}
           /\ pc \in Watched => /\ InLane = {e} /\ Held = open \cup {e}
                               /\ e \notin open
                               /\ Unsent = free \cup Range(Tail(call.todo))
<1>1. call.ext = {e} /\ e.msg = Head(call.todo)
  BY DEF Shape
<1>2. call.ext \in SUBSET Externals /\ call.todo \in Seq(Messages)
  BY DEF Typed, LaneTyped, Sends
<1>3. call.todo # <<>> /\ IsInjective(call.todo)
  BY DEF Shape, Signed
<1>4. e \in Externals /\ e.msg \in Messages
  BY <1>2 DEF Externals
<1>5. /\ Range(call.todo) = {e.msg} \cup Range(Tail(call.todo))
      /\ e.msg \notin Range(Tail(call.todo))
  BY <1>1, <1>2, <1>3, HeadAndTail
<1>6. Range(call.todo) \subseteq Messages
  BY <1>2, RangeTyped
<1>7. e.msg \notin free
  BY <1>5 DEF Shape
<1>8. call.alone => Range(Tail(call.todo)) = {}
  BY <1>2, <1>3, LastOne DEF Shape, Signed
<1>9. pc \in Watched => /\ InLane = {e} /\ Held = open \cup {e}
                       /\ e \notin open
                       /\ Unsent = free \cup Range(Tail(call.todo))
  BY <1>1 DEF Shape, Watched, InLane, Held, ToSign, Unsent
<1> QED BY <1>1, <1>2, <1>3, <1>4, <1>5, <1>6, <1>7, <1>8, <1>9

(* Another step of the same send that leaves what it has to send and       *)
(* watches no external.                                                    *)
LEMMA GoesOn ==
    ASSUME Typed, Shape, pc \notin Watched, pc # "idle",
           pc' \in {"catchup", "sign"}, call' \in Sends,
           call'.todo = call.todo, call'.alone = call.alone, UNCHANGED appVars
    PROVE  /\ LaneTyped' /\ Shape' /\ unproved' = unproved
           /\ Held' = Held /\ Unsent' = Unsent
<1>1. LaneTyped'
  BY DEF Typed, LaneTyped, appVars
<1>2. InLane' = {} /\ ToSign' = call.todo
  BY DEF InLane, ToSign
<1>3. Held' = Held /\ Unsent' = Unsent
  BY <1>2, Unwatched DEF Held, Unsent, appVars
<1>4. Shape'
  BY <1>2 DEF Shape, Signed, appVars
<1> QED BY <1>1, <1>3, <1>4 DEF appVars

(* The external in hand is given up and its chunk is to be signed again.   *)
LEMMA Resigns ==
    ASSUME Typed, Shape, pc \in Signed, NEW n \in Nat, Resign(n),
           NEW e \in call.ext
    PROVE  /\ LaneTyped' /\ Shape' /\ unproved' = unproved
           /\ Held' = open
           /\ Unsent' = free \cup Range(call.todo)
<1>1. call \in Sends /\ call' = [call EXCEPT !.seqno = n, !.ext = {},
                                            !.resigned = TRUE]
  BY DEF Typed, LaneTyped, Resign
<1>2. call' \in Sends /\ call'.todo = call.todo /\ call'.alone = call.alone
  BY <1>1 DEF Sends
<1>3. pc' = "sign" /\ UNCHANGED appVars
  BY DEF Resign
<1>4. LaneTyped'
  BY <1>2, <1>3 DEF Typed, LaneTyped, appVars
<1>5. InLane' = {} /\ ToSign' = call.todo
  BY <1>2, <1>3 DEF InLane, ToSign
<1>6. Held' = open /\ Unsent' = free \cup Range(call.todo)
  BY <1>3, <1>5 DEF Held, Unsent, appVars
<1>7. Shape'
  BY <1>2, <1>3, <1>5, InHand DEF Shape, Signed, appVars
<1> QED BY <1>3, <1>4, <1>6, <1>7 DEF appVars

(* The external in hand counts as run, and the send goes on or is over.    *)
LEMMA Advances ==
    ASSUME Typed, Shape, pc \in Watched, NEW n \in Nat, Advance(n),
           NEW e \in call.ext
    PROVE  /\ LaneTyped' /\ Shape' /\ Held' = Held \ {e} /\ Unsent' = Unsent
<1> USE DEF Watched, Signed
<1>1. call \in Sends /\ UNCHANGED <<free, open>>
  BY DEF Typed, LaneTyped, Advance
<1>2. Held \ {e} = open /\ Unsent = free \cup Range(Tail(call.todo))
  BY InHand
<1>3. CASE Len(call.todo) = 1
  <2>1. pc' = "idle" /\ call' = NoCall /\ call'.todo = <<>>
    BY <1>3, NoCallTyped DEF Advance
  <2>2. InLane' = {} /\ ToSign' = <<>>
    BY <2>1 DEF InLane, ToSign
  <2>3. Range(Tail(call.todo)) = {}
    BY <1>3, InHand, LastOne
  <2>4. Held' = Held \ {e} /\ Unsent' = Unsent
    BY <1>1, <1>2, <2>2, <2>3, NothingToDo DEF Held, Unsent
  <2>5. LaneTyped' /\ Shape'
    BY <1>1, <2>1, <2>2, NothingToDo, NoCallTyped
       DEF Typed, LaneTyped, Shape
  <2> QED BY <2>4, <2>5
<1>4. CASE Len(call.todo) # 1
  <2>1. /\ pc' = "sign"
        /\ call' = [call EXCEPT !.todo = Tail(@), !.seqno = n, !.ext = {},
                                !.first = FALSE, !.resigned = FALSE]
    BY <1>4 DEF Advance
  <2>2. /\ Tail(call.todo) \in Seq(Messages) /\ Tail(call.todo) # <<>>
        /\ IsInjective(Tail(call.todo))
    BY <1>4, InHand, HeadAndTail, LastOne
  <2>3. /\ call' \in Sends /\ call'.todo = Tail(call.todo)
        /\ call'.alone = call.alone
    BY <1>1, <2>1, <2>2 DEF Sends
  <2>4. ~ call.alone
    BY <1>4, InHand DEF Shape
  <2>5. InLane' = {} /\ ToSign' = Tail(call.todo)
    BY <2>1, <2>3 DEF InLane, ToSign
  <2>6. Held' = Held \ {e} /\ Unsent' = Unsent
    BY <1>1, <1>2, <2>5 DEF Held, Unsent
  <2>7. free' \cap Range(call'.todo) = {}
    BY <1>1, <2>3, InHand DEF Shape
  <2>8. LaneTyped' /\ Shape'
    BY <1>1, <2>1, <2>2, <2>3, <2>4, <2>5, <2>7
       DEF Typed, LaneTyped, Shape
  <2> QED BY <2>6, <2>8
<1> QED BY <1>3, <1>4

(* The next step of a send whose external stays in hand.                   *)
LEMMA Stays ==
    ASSUME Typed, Shape, pc \in Signed, pc' \in Signed, call' \in Sends,
           call'.todo = call.todo, call'.alone = call.alone,
           call'.ext = call.ext, UNCHANGED appVars, NEW e \in call.ext,
           pc' = "settle" => e.seqno < Seqno', pc' \in Watched => e \notin open
    PROVE  /\ LaneTyped' /\ Shape' /\ unproved' = unproved
           /\ pc' \in Watched => /\ Held' = open \cup {e}
                                /\ Unsent' = free \cup Range(Tail(call.todo))
           /\ pc' \notin Watched => /\ Held' = open
                                   /\ Unsent' = free \cup Range(call.todo)
<1>1. LaneTyped'
  BY DEF Typed, LaneTyped, appVars
<1>2. /\ pc' \in Watched => InLane' = {e} /\ ToSign' = Tail(call.todo)
      /\ pc' \notin Watched => InLane' = {} /\ ToSign' = call.todo
  BY InHand DEF InLane, ToSign, Watched
<1>3. /\ pc' \in Watched => /\ Held' = open \cup {e}
                           /\ Unsent' = free \cup Range(Tail(call.todo))
      /\ pc' \notin Watched => /\ Held' = open
                              /\ Unsent' = free \cup Range(call.todo)
  BY <1>2 DEF Held, Unsent, appVars
<1>4. call.ext = {e} /\ e.msg = Head(call.todo)
  BY InHand
<1>5. open' \cap InLane' = {} /\ free' \cap Range(call'.todo) = {}
  BY <1>2 DEF Shape, appVars
<1>6. Shape'
  BY <1>4, <1>5 DEF Shape, Signed
<1> QED BY <1>1, <1>3, <1>6 DEF appVars

(* A step of somebody else.                                                *)
LEMMA LaneKept ==
    ASSUME Typed, Shape, UNCHANGED <<laneVars, appVars>>,
           Seqno' \in Nat, Seqno' >= Seqno
    PROVE  /\ LaneTyped' /\ Shape' /\ unproved' = unproved
           /\ Held' = Held /\ Unsent' = Unsent
<1>1. LaneTyped' /\ Held' = Held /\ Unsent' = Unsent
  BY DEF Typed, LaneTyped, laneVars, appVars, Held, InLane, Unsent, ToSign
<1>2. (\A e \in call.ext : e.seqno < Seqno)
        => \A e \in call'.ext : e.seqno < Seqno'
  BY LogFacts DEF Typed, LaneTyped, Sends, Externals, laneVars
<1>3. Shape'
  BY <1>2 DEF Shape, laneVars, appVars, InLane
<1> QED BY <1>1, <1>3 DEF appVars

LEMMA NotesKept ==
    ASSUME Typed, UNCHANGED sendVars PROVE NotesTyped'
BY DEF Typed, NotesTyped, sendVars

-----------------------------------------------------------------------------
(* The chain.                                                              *)

LEMMA InitInv == Init => SendInv
<1> SUFFICES ASSUME Init PROVE SendInv
  OBVIOUS
<1>1. log = <<>> /\ net = {} /\ DOMAIN log = {} /\ open = {} /\ pc = "idle"
  BY DEF Init
<1>2. Typed
  BY NoCallTyped, NoFloorTyped
     DEF Init, Typed, WorldTyped, NotesTyped, LaneTyped
<1>3. Chain
  BY <1>1 DEF Chain
<1>4. InLane = {} /\ Held = {} /\ Ran = {} /\ Alive = {} /\ Unsent = Messages
  BY NoCallTyped, NothingToDo
     DEF Init, InLane, Held, Ran, Alive, ToSign, Unsent
<1>5. Shape
  BY <1>4, NoCallTyped, NothingToDo DEF Init, Shape, Signed
<1>6. Carried
  BY <1>1, <1>4 DEF Carried, UnsentNeverRuns, Accounted, MessagesOf
<1> QED BY <1>2, <1>3, <1>5, <1>6 DEF SendInv

LEMMA TakeInv ==
    ASSUME SendInv, NEW X \in SUBSET net, Take(X),
           \A e \in X : X = {e} /\ e.seqno = Seqno
    PROVE  SendInv'
<1> USE DEF SendInv
<1>1. /\ log \in Seq(Runs) /\ now \in Nat /\ now' = now /\ Seqno \in Nat
      /\ net \in SUBSET Externals /\ X \in SUBSET Externals
      /\ [ext |-> X, at |-> now] \in Runs
  BY LogFacts DEF Typed, WorldTyped, Take, Runs
<1>2. /\ log' \in Seq(Runs) /\ Seqno' = Seqno + 1
      /\ \A i \in 1..Seqno : log'[i] = log[i]
      /\ log'[Seqno + 1] = [ext |-> X, at |-> now]
  BY <1>1 DEF Take, Seqno
<1>3. DOMAIN log' = 1..(Seqno + 1)
  BY <1>2 DEF Seqno
<1>4. /\ net' \subseteq net
      /\ \A e \in net' : e.seqno >= Seqno + 1 /\ now < e.until
  BY DEF Take, Runnable
<1>5. WorldTyped'
  BY <1>1, <1>2, <1>4 DEF WorldTyped
<1>6. Chain'
  <2> DEFINE last == Seqno + 1
  <2>0. /\ log'[last].ext = X /\ log'[last].at = now
        /\ \A i \in 1..last : i \in 1..Seqno \/ i = last
        /\ DOMAIN log = 1..Seqno
    <3> DEFINE run == [ext |-> X, at |-> now]
    <3>0. run.ext = X /\ run.at = now
      OBVIOUS
    <3>1. log'[last].ext = X /\ log'[last].at = now
      <4>1. log'[last] = run
        BY <1>2
      <4> HIDE DEF run
      <4> QED BY <3>0, <4>1
    <3>2. \A i \in 1..last : i \in 1..Seqno \/ i = last
      BY <1>1
    <3>3. DOMAIN log = 1..Seqno
      BY LogFacts
    <3> QED BY <3>1, <3>2, <3>3
  <2>1. ASSUME NEW i \in 1..last PROVE log'[i].at <= now' /\ log'[i].at \in Nat
    <3>1. CASE i = last
      BY <1>1, <2>0, <3>1
    <3>2. CASE i \in 1..Seqno
      BY <1>1, <1>2, <2>0, <3>2, LogFacts DEF Chain
    <3> QED BY <2>0, <3>1, <3>2
  <2>2. ASSUME NEW i \in 1..last, NEW j \in 1..last, i < j
        PROVE  log'[i].at <= log'[j].at
    <3>1. i \in 1..Seqno
      BY <1>1, <2>2
    <3>2. CASE j = last
      BY <1>1, <2>0, <2>1, <3>2
    <3>3. CASE j \in 1..Seqno
      BY <1>2, <2>0, <2>2, <3>1, <3>3 DEF Chain
    <3> QED BY <2>0, <3>2, <3>3
  <2>3. ASSUME NEW i \in 1..last, NEW e \in log'[i].ext
        PROVE  log'[i].ext = {e} /\ i = e.seqno + 1 /\ log'[i].at < e.until
    <3>1. CASE i = last
      <4>1. X = {e} /\ e.seqno = Seqno /\ e \in net
        BY <2>0, <2>3, <3>1
      <4> QED BY <2>0, <3>1, <4>1 DEF Chain
    <3>2. CASE i \in 1..Seqno
      BY <1>2, <2>0, <2>3, <3>2 DEF Chain
    <3> QED BY <2>0, <3>1, <3>2
  <2>4. \A e \in net' : Seqno' <= e.seqno /\ now' < e.until
    BY <1>1, <1>2, <1>4 DEF Externals
  <2> QED BY <1>3, <2>1, <2>2, <2>3, <2>4 DEF Chain
<1>7. Ran' = Ran \cup X
  <2>1. DOMAIN log = 1..Seqno
    BY LogFacts
  <2> QED BY <1>1, <1>2, <1>3, <2>1 DEF Ran
<1>8. LaneTyped' /\ Shape' /\ NotesTyped'
      /\ Held' = Held /\ Unsent' = Unsent /\ unproved' = unproved
  BY <1>1, <1>2, LaneKept, NotesKept DEF Take
<1>9. Alive' \subseteq Alive
  BY <1>4, <1>7, <1>8 DEF Alive
<1>10. Carried'
  BY <1>7, <1>8, <1>9, Keeps
<1> QED BY <1>5, <1>6, <1>8, <1>10 DEF Typed

LEMMA TickInv == SendInv /\ Tick => SendInv'
<1> SUFFICES ASSUME SendInv, Tick PROVE SendInv'
  OBVIOUS
<1> USE DEF SendInv
<1>1. /\ now \in Nat /\ now' = now + 1 /\ log' = log /\ Seqno' = Seqno
      /\ Seqno \in Nat
  BY LogFacts DEF Typed, WorldTyped, Tick, Seqno
<1>2. net' \subseteq net /\ \A e \in net' : e.seqno >= Seqno /\ now' < e.until
  BY DEF Tick, Runnable
<1>3. WorldTyped' /\ Ran' = Ran
  BY <1>1, <1>2 DEF Typed, WorldTyped, Ran
<1>4. Chain'
  <2>1. \A i \in DOMAIN log : log[i].at <= now'
    BY <1>1, LogFacts DEF Chain
  <2>2. \A e \in net' : Seqno <= e.seqno /\ now' < e.until
    BY <1>1, <1>2 DEF Typed, WorldTyped, Externals
  <2> QED BY <1>1, <2>1, <2>2 DEF Chain
<1>5. LaneTyped' /\ Shape' /\ NotesTyped'
      /\ Held' = Held /\ Unsent' = Unsent /\ unproved' = unproved
  BY <1>1, LaneKept, NotesKept DEF Tick
<1>6. Carried'
  BY <1>2, <1>3, <1>5, Keeps DEF Alive
<1> QED BY <1>3, <1>4, <1>5, <1>6 DEF Typed

-----------------------------------------------------------------------------
(* A send up to its signature.                                             *)

LEMMA StartInv ==
    ASSUME SendInv, NEW todo \in Chunkings, NEW w \in BOOLEAN, NEW f \in Fixed,
           Start(todo, w, f)
    PROVE  SendInv'
<1> USE DEF SendInv
<1>1. /\ todo \in Seq(Messages) /\ todo # <<>> /\ IsInjective(todo)
      /\ Range(todo) \subseteq free
  BY ChunkingsAre
<1>2. /\ pc = "idle" /\ pc' = "resolve" /\ open' = open
      /\ call' = [NoCall EXCEPT !.todo = todo, !.alone = Len(todo) = 1,
                                !.waits = w, !.fixed = f]
      /\ free' = free \ Range(todo) /\ unproved' = unproved
      /\ UNCHANGED <<chainVars, sendVars, now>>
  BY DEF Start
<1>3. /\ call' \in Sends /\ call'.todo = todo
      /\ call'.alone => Len(todo) = 1
  BY <1>1, <1>2 DEF NoCall, Sends
<1>4. WorldTyped' /\ Chain' /\ Ran' = Ran /\ net' = net /\ NotesTyped'
  BY <1>2, WorldKept, NotesKept
<1>5. InLane' = {} /\ ToSign' = todo
  BY <1>2, <1>3 DEF InLane, ToSign
<1>6. Held = open /\ Unsent = free
  BY <1>2, Unwatched, NoCallTyped, NothingToDo DEF Shape, Watched
<1>7. Held' = Held /\ Unsent' = Unsent
  BY <1>1, <1>2, <1>5, <1>6 DEF Held, Unsent
<1>8. LaneTyped'
  BY <1>2, <1>3 DEF Typed, LaneTyped
<1>9. Shape'
  BY <1>1, <1>2, <1>3, <1>5 DEF Shape, Signed
<1>10. Carried'
  BY <1>2, <1>4, <1>7, Keeps DEF Alive
<1> QED BY <1>4, <1>8, <1>9, <1>10 DEF Typed

(* A step before the signature: what it leaves, and what it may change.    *)
LEMMA BeforeSigning ==
    ASSUME SendInv, pc \in {"resolve", "catchup", "sign"},
           pc' \in {"catchup", "sign"}, call' \in Sends,
           call'.todo = call.todo, call'.alone = call.alone,
           UNCHANGED <<chainVars, appVars, now>>, NotesTyped'
    PROVE  SendInv'
<1> USE DEF SendInv
<1>1. LaneTyped' /\ Shape' /\ unproved' = unproved
      /\ Held' = Held /\ Unsent' = Unsent
  BY GoesOn DEF Watched
<1>2. WorldTyped' /\ Chain' /\ Ran' = Ran /\ net' = net
  BY WorldKept
<1>3. Carried'
  BY <1>1, <1>2, Keeps DEF Alive
<1> QED BY <1>1, <1>2, <1>3 DEF Typed

LEMMA SignAtCall ==
    ASSUME Typed, NEW n \in Nat, SignAt(n)
    PROVE  /\ pc' = "sign" /\ call' \in Sends
           /\ call'.todo = call.todo /\ call'.alone = call.alone
<1>1. call \in Sends /\ call' = [call EXCEPT !.seqno = n, !.ext = {}]
  BY DEF Typed, LaneTyped, SignAt
<1> QED BY <1>1 DEF Sends, SignAt

LEMMA ResolveInv == SendInv /\ Resolve => SendInv'
<1> SUFFICES ASSUME SendInv, Resolve PROVE SendInv'
  OBVIOUS
<1>1. pc = "resolve" /\ UNCHANGED <<chainVars, appVars, now>> /\ Typed
  BY DEF Resolve, SendInv
<1>2. PICK r \in Seqnos, t \in Clock :
          IF FloorHolds(r, t)
          THEN LET held == IF r = 0 THEN [seqno |-> 1, at |-> t] ELSE floor IN
               /\ floor' = held
               /\ pc' = "catchup"
               /\ call' = [call EXCEPT !.seqno = held.seqno, !.ext = pending]
               /\ UNCHANGED pending
          ELSE /\ floor' = [seqno |-> r, at |-> t]
               /\ pending' = {}
               /\ SignAt(r)
  BY DEF Resolve
<1>3. r \in Nat /\ t \in Nat
  BY <1>1, SeqnosAreNat, ClockIsNat
<1>4. CASE FloorHolds(r, t)
  <2> DEFINE held == IF r = 0 THEN [seqno |-> 1, at |-> t] ELSE floor
  <2>1. held \in FloorNotes /\ held.seqno \in Nat
    BY <1>1, <1>3 DEF Typed, NotesTyped, FloorNotes
  <2>2. /\ floor' = held /\ pc' = "catchup" /\ pending' = pending
        /\ call' = [call EXCEPT !.seqno = held.seqno, !.ext = pending]
    BY <1>2, <1>4
  <2> HIDE DEF held
  <2>3. call \in Sends /\ pending \in SUBSET Externals
    BY <1>1 DEF Typed, NotesTyped, LaneTyped
  <2>4. /\ call' \in Sends /\ call'.todo = call.todo
        /\ call'.alone = call.alone
    BY <2>1, <2>2, <2>3 DEF Sends
  <2>5. NotesTyped'
    BY <2>1, <2>2, <2>3 DEF NotesTyped
  <2> QED BY <1>1, <2>2, <2>4, <2>5, BeforeSigning
<1>5. CASE ~ FloorHolds(r, t)
  <2>1. floor' = [seqno |-> r, at |-> t] /\ pending' = {} /\ SignAt(r)
    BY <1>2, <1>5
  <2>2. NotesTyped'
    BY <1>3, <2>1 DEF NotesTyped, FloorNotes
  <2> QED BY <1>1, <1>3, <2>1, <2>2, SignAtCall, BeforeSigning
<1> QED BY <1>4, <1>5

LEMMA CaughtUpInv == SendInv /\ CaughtUp => SendInv'
<1> SUFFICES ASSUME SendInv, CaughtUp PROVE SendInv'
  OBVIOUS
<1>1. pc = "catchup" /\ UNCHANGED <<chainVars, appVars, now>> /\ Typed
  BY DEF CaughtUp, SendInv
<1>2. PICK n \in Seqnos : SignAt(n)
  BY DEF CaughtUp
<1>3. NotesTyped'
  BY <1>1 DEF CaughtUp, PendingFrom, Typed, NotesTyped
<1> QED BY <1>1, <1>2, <1>3, SeqnosAreNat, SignAtCall, BeforeSigning

LEMMA PendingExpiredInv == SendInv /\ PendingExpired => SendInv'
<1> SUFFICES ASSUME SendInv, PendingExpired PROVE SendInv'
  OBVIOUS
<1>1. pc = "catchup" /\ UNCHANGED <<chainVars, appVars, now>> /\ Typed
  BY DEF PendingExpired, SendInv
<1>2. PICK n \in Seqnos : SignAt(n)
  BY DEF PendingExpired
<1>3. NotesTyped'
  BY ForgetKept DEF PendingExpired
<1> QED BY <1>1, <1>2, <1>3, SeqnosAreNat, SignAtCall, BeforeSigning

LEMMA NotSignedInv == SendInv /\ NotSigned => SendInv'
<1> SUFFICES ASSUME SendInv, NotSigned PROVE SendInv'
  OBVIOUS
<1> USE DEF SendInv
<1>1. pc \notin Watched /\ ReportUnsent
      /\ UNCHANGED <<chainVars, sendVars, now>>
  BY DEF NotSigned, Watched
<1>2. LaneTyped' /\ Shape' /\ unproved' = unproved
      /\ Held' = Held /\ Unsent' = Unsent
  BY <1>1, ReportsUnsent, Unwatched
<1>3. WorldTyped' /\ Chain' /\ Ran' = Ran /\ net' = net /\ NotesTyped'
  BY <1>1, WorldKept, NotesKept
<1>4. Carried'
  BY <1>2, <1>3, Keeps DEF Alive
<1> QED BY <1>2, <1>3, <1>4 DEF Typed

LEMMA SignInv == SendInv /\ Sign => SendInv'
<1> SUFFICES ASSUME SendInv, Sign PROVE SendInv'
  OBVIOUS
<1> USE DEF SendInv
<1>1. pc = "sign" /\ pc' = "broadcast"
      /\ UNCHANGED <<chainVars, sendVars, appVars, now>>
  BY DEF Sign
<1>2. PICK t \in Clock :
          call' = [call EXCEPT !.ext =
                      {[msg |-> Head(call.todo), seqno |-> call.seqno,
                        until |-> IF call.fixed = 0 THEN t + Validity
                                  ELSE call.fixed]}]
  BY DEF Sign
<1> DEFINE e == [msg |-> Head(call.todo), seqno |-> call.seqno,
                 until |-> IF call.fixed = 0 THEN t + Validity ELSE call.fixed]
<1>3. /\ call \in Sends /\ call.todo \in Seq(Messages) /\ call.todo # <<>>
      /\ call.seqno \in Nat /\ call.fixed \in Nat
  BY <1>1 DEF Typed, LaneTyped, Shape, Sends
<1>4. t \in Nat /\ Head(call.todo) \in Messages
  BY <1>3, ClockIsNat
<1>5. e \in Externals /\ e.msg = Head(call.todo)
  BY <1>3, <1>4 DEF Externals
<1> HIDE DEF e
<1>6. call' = [call EXCEPT !.ext = {e}]
  BY <1>2 DEF e
<1>7. /\ call' \in Sends /\ call'.todo = call.todo /\ call'.ext = {e}
      /\ call'.alone = call.alone
  BY <1>3, <1>5, <1>6 DEF Sends
<1>8. LaneTyped'
  BY <1>1, <1>7 DEF Typed, LaneTyped, Signed, appVars
<1>9. InLane' = {} /\ ToSign' = call.todo
  BY <1>1, <1>7 DEF InLane, ToSign
<1>10. Shape'
  BY <1>1, <1>5, <1>7, <1>9 DEF Shape, appVars
<1>11. Held' = Held /\ Unsent' = Unsent
  BY <1>1, <1>9, Unwatched DEF Held, Unsent, appVars, Watched
<1>12. WorldTyped' /\ Chain' /\ Ran' = Ran /\ net' = net /\ NotesTyped'
  BY <1>1, WorldKept, NotesKept
<1>13. Carried'
  BY <1>1, <1>11, <1>12, Keeps DEF Alive, appVars
<1> QED BY <1>8, <1>10, <1>12, <1>13 DEF Typed

-----------------------------------------------------------------------------
(* A send from its signature on.                                           *)

(* What is in hand but not watched was not sent.                           *)
LEMMA InHandUnsent ==
    ASSUME SendInv, pc \in {"broadcast", "death"}, NEW e \in call.ext
    PROVE  /\ pc \in Signed /\ Held = open /\ e \notin open
           /\ Unsent = free \cup Range(call.todo) /\ e.msg \in Unsent
<1>1. pc \in Signed /\ pc \notin Watched
  BY DEF Signed, Watched
<1>2. Held = open /\ Unsent = free \cup Range(call.todo)
  BY <1>1, Unwatched
<1>3. e.msg \in Range(call.todo)
  BY <1>1, InHand DEF SendInv
<1> QED BY <1>1, <1>2, <1>3 DEF SendInv, Carried

LEMMA BroadcastInv ==
    ASSUME SendInv, NEW e \in call.ext, Broadcast(e) PROVE SendInv'
<1> USE DEF SendInv
<1>1. pc = "broadcast" /\ Sent({e}) /\ NoteBroadcast(floor, e)
      /\ UNCHANGED <<log, now>>
  BY DEF Broadcast
<1>2. pc \in Signed /\ e \in Externals /\ floor \in FloorNotes
  BY <1>1, InHand DEF Signed, Typed, NotesTyped
<1>3. /\ WorldTyped' /\ Chain' /\ Ran' = Ran /\ Seqno' = Seqno
      /\ net' \subseteq net \cup {e}
  BY <1>1, <1>2, SentKept
<1>4. NotesTyped'
  BY <1>1, <1>2, NoteKept
<1>5. CASE call.alone /\ ~ call.waits
  <2>1. Report({e}, {})
    BY <1>5 DEF Broadcast
  <2>2. LaneTyped' /\ Shape' /\ unproved' = unproved
        /\ Held' = open \cup {e} /\ Unsent' = free \cup {}
    BY <1>2, <2>1, Reports
  <2>3. Unsent = Unsent' \cup {e.msg} /\ e.msg \notin Unsent'
    BY <1>1, <1>2, <1>5, <2>2, InHand, InHandUnsent
  <2>4. Carried'
    BY <1>1, <1>3, <2>2, <2>3, InHandUnsent, Raises DEF Alive
  <2> QED BY <1>3, <1>4, <2>2, <2>4 DEF Typed
<1>6. CASE ~ (call.alone /\ ~ call.waits)
  <2>1. pc' = "await" /\ UNCHANGED <<call, appVars>>
    BY <1>6 DEF Broadcast
  <2>2. LaneTyped' /\ Shape' /\ unproved' = unproved
        /\ Held' = open \cup {e}
        /\ Unsent' = free \cup Range(Tail(call.todo))
    <3>1. call' \in Sends /\ pc' \in Signed /\ pc' \in Watched
          /\ pc' # "settle" /\ e \notin open
      BY <1>1, <2>1, InHandUnsent DEF Typed, LaneTyped, Signed, Watched
    <3> QED BY <1>2, <2>1, <3>1, Stays
  <2>3. Unsent = Unsent' \cup {e.msg} /\ e.msg \notin Unsent'
    BY <1>1, <1>2, <2>2, InHand, InHandUnsent
  <2>4. Carried'
    BY <1>1, <1>3, <2>2, <2>3, InHandUnsent, Raises DEF Alive
  <2> QED BY <1>3, <1>4, <2>2, <2>4 DEF Typed
<1> QED BY <1>5, <1>6

LEMMA BroadcastUncertainInv ==
    ASSUME SendInv, NEW e \in call.ext, BroadcastUncertain(e) PROVE SendInv'
<1> USE DEF SendInv
<1>1. pc = "broadcast" /\ Sent({e}) /\ UNCHANGED <<log, now>>
      /\ \E f \in {floor, NoFloor} : NoteBroadcast(f, e)
  BY DEF BroadcastUncertain
<1>2. pc \in Signed /\ e \in Externals /\ floor \in FloorNotes
  BY <1>1, InHand DEF Signed, Typed, NotesTyped
<1>3. /\ WorldTyped' /\ Chain' /\ Ran' = Ran /\ Seqno' = Seqno
      /\ net' \subseteq net \cup {e}
  BY <1>1, <1>2, SentKept
<1>4. NotesTyped'
  BY <1>1, <1>2, NoteKept, NoFloorTyped
<1>5. LaneTyped' /\ Shape' /\ unproved' = unproved
      /\ Held' = open \cup {e}
      /\ Unsent' = free \cup Range(Tail(call.todo))
  <2>1. CASE call.alone \/ call.resigned
    <3>1. Report({e}, Range(Tail(call.todo)))
      BY <1>2, <2>1, InHand DEF BroadcastUncertain, ReportUncertain
    <3> QED BY <1>2, <3>1, InHand, Reports
  <2>2. CASE ~ (call.alone \/ call.resigned)
    <3>1. pc' = "uncertain" /\ UNCHANGED <<call, appVars>>
      BY <2>2 DEF BroadcastUncertain
    <3>2. call' \in Sends /\ pc' \in Signed /\ pc' \in Watched
          /\ pc' # "settle" /\ e \notin open
      BY <1>1, <3>1, InHandUnsent DEF Typed, LaneTyped, Signed, Watched
    <3> QED BY <1>2, <3>1, <3>2, Stays
  <2> QED BY <2>1, <2>2
<1>6. Unsent = Unsent' \cup {e.msg} /\ e.msg \notin Unsent'
  BY <1>1, <1>2, <1>5, InHand, InHandUnsent
<1>7. Carried'
  BY <1>1, <1>3, <1>5, <1>6, InHandUnsent, Raises DEF Alive
<1> QED BY <1>3, <1>4, <1>5, <1>7 DEF Typed

LEMMA BroadcastRefusedInv ==
    ASSUME SendInv, NEW e \in call.ext, BroadcastRefused(e) PROVE SendInv'
<1> USE DEF SendInv
<1>1. pc = "broadcast" /\ floor' \in {floor, NoFloor}
      /\ UNCHANGED <<chainVars, pending, now>>
  BY DEF BroadcastRefused
<1>2. pc \in Signed /\ e \in Externals
  BY <1>1, InHand DEF Signed
<1>3. WorldTyped' /\ Chain' /\ Ran' = Ran /\ net' = net /\ Seqno' = Seqno
  BY <1>1, WorldKept
<1>4. NotesTyped'
  BY <1>1, NoFloorTyped DEF Typed, NotesTyped
<1>5. LaneTyped' /\ Shape' /\ unproved' = unproved
      /\ Held' = Held /\ Unsent' = Unsent
  <2>1. CASE UNCHANGED <<laneVars, appVars>>
    BY <1>3, <2>1, LaneKept, LogFacts
  <2>2. CASE ReportUnsent
    BY <1>1, <2>2, ReportsUnsent, InHandUnsent
  <2> QED BY <2>1, <2>2 DEF BroadcastRefused
<1>6. Carried'
  BY <1>3, <1>5, Keeps DEF Alive
<1> QED BY <1>3, <1>4, <1>5, <1>6 DEF Typed

LEMMA TakenInv ==
    ASSUME SendInv, NEW e \in call.ext, Taken(e) PROVE SendInv'
<1> USE DEF SendInv
<1>1. pc \in {"await", "uncertain"} /\ pc' = "settle"
      /\ pending' = PendingFrom(e.seqno + 1)
      /\ UNCHANGED <<chainVars, floor, appVars, now>>
  BY DEF Taken
<1>2. pc \in Signed /\ pc \in Watched /\ e \in Externals
  BY <1>1, InHand DEF Signed, Watched
<1>3. PICK n \in Seqnos : n > e.seqno /\ call' = [call EXCEPT !.seqno = n]
  BY DEF Taken
<1>4. WorldTyped' /\ Chain' /\ Ran' = Ran /\ net' = net /\ Seqno' = Seqno
  BY <1>1, WorldKept
<1>5. NotesTyped'
  BY <1>1 DEF Typed, NotesTyped, PendingFrom
<1>6. n \in Nat /\ n <= Seqno /\ e.seqno \in Nat /\ Seqno \in Nat
  BY <1>2, SeqnosAreNat, LogFacts DEF Seqnos, Externals
<1>7. e.seqno < Seqno'
  BY <1>3, <1>4, <1>6
<1>8. /\ call' \in Sends /\ call'.todo = call.todo
      /\ call'.alone = call.alone /\ call'.ext = call.ext
  BY <1>3, <1>6 DEF Typed, LaneTyped, Sends
<1>9. LaneTyped' /\ Shape' /\ unproved' = unproved
      /\ Held' = Held /\ Unsent' = Unsent
  <2>1. pc' \in Signed /\ pc' \in Watched /\ UNCHANGED appVars
        /\ e \notin open
    BY <1>1, <1>2, InHand DEF Signed, Watched
  <2> QED BY <1>2, <1>7, <1>8, <2>1, Stays, InHand
<1>10. Carried'
  BY <1>4, <1>9, Keeps DEF Alive
<1> QED BY <1>4, <1>5, <1>9, <1>10 DEF Typed

(* An external in hand that is dead goes back among what is unsent.        *)
LEMMA GivesUp ==
    ASSUME SendInv, pc \in Watched, NEW e \in call.ext, e \notin net \cup Ran,
           UNCHANGED <<chainVars, now>>, NotesTyped', LaneTyped', Shape',
           unproved' = unproved, Held' = open,
           Unsent' = free \cup Range(call.todo)
    PROVE  SendInv'
<1> USE DEF SendInv
<1>1. pc \in Signed
  BY DEF Signed, Watched
<1>2. WorldTyped' /\ Chain' /\ Ran' = Ran /\ net' = net
  BY WorldKept
<1>3. e \in Held /\ Held' = Held \ {e} /\ Unsent' = Unsent \cup {e.msg}
  BY <1>1, InHand
<1>4. Carried'
  BY <1>2, <1>3, Drops
<1> QED BY <1>2, <1>4 DEF Typed

LEMMA DiedInv ==
    ASSUME SendInv, NEW e \in call.ext, Died(e) PROVE SendInv'
<1> USE DEF SendInv
<1>1. pc \in Watched /\ pc \in Signed /\ Expired(e) /\ pc' = "death" /\ Forget
      /\ UNCHANGED <<chainVars, call, appVars, now>>
  BY DEF Died, Watched, Signed
<1>2. e \notin net \cup Ran
  BY <1>1, InHand, ExpiredIsDead
<1>3. LaneTyped' /\ Shape' /\ unproved' = unproved
      /\ Held' = open /\ Unsent' = free \cup Range(call.todo)
  <2>1. pc' \in Signed /\ pc' \notin Watched /\ pc' # "settle"
        /\ call' \in Sends
    BY <1>1 DEF Signed, Watched, Typed, LaneTyped
  <2> QED BY <1>1, <2>1, Stays
<1> QED BY <1>1, <1>2, <1>3, ForgetKept, GivesUp

LEMMA DiedForGoodInv ==
    ASSUME SendInv, NEW e \in call.ext, DiedForGood(e) PROVE SendInv'
<1> USE DEF SendInv
<1>1. pc \in Watched /\ pc \in Signed /\ Expired(e) /\ ReportUnsent
      /\ UNCHANGED <<chainVars, floor, now>> /\ pending' \in {{}, pending}
  BY DEF DiedForGood, Watched, Signed
<1>2. e \notin net \cup Ran
  BY <1>1, InHand, ExpiredIsDead
<1>3. LaneTyped' /\ Shape' /\ unproved' = unproved
      /\ Held' = open /\ Unsent' = free \cup Range(call.todo)
  BY <1>1, ReportsUnsent
<1>4. NotesTyped'
  BY <1>1 DEF Typed, NotesTyped
<1> QED BY <1>1, <1>2, <1>3, <1>4, GivesUp

LEMMA UndecidedInv ==
    ASSUME SendInv, NEW e \in call.ext, Undecided(e) PROVE SendInv'
<1> USE DEF SendInv
<1>1. pc \in Watched /\ pc \in Signed /\ UNCHANGED <<chainVars, now>>
      /\ Report(call.ext, Range(Tail(call.todo)))
  BY DEF Undecided, ReportUncertain, Watched, Signed
<1>2. e \in Externals
  BY <1>1, InHand
<1>3. NotesTyped'
  <2>1. CASE pc = "uncertain"
    BY <1>2, <2>1, NoteKept DEF Undecided, Typed, NotesTyped
  <2>2. CASE pc # "uncertain"
    BY <2>2, NotesKept DEF Undecided
  <2> QED BY <2>1, <2>2
<1>4. LaneTyped' /\ Shape' /\ unproved' = unproved
      /\ Held' = Held /\ Unsent' = Unsent
  <2>1. Report({e}, Range(Tail(call.todo)))
    BY <1>1, InHand
  <2> QED BY <1>1, <1>2, <2>1, InHand, Reports
<1>5. WorldTyped' /\ Chain' /\ Ran' = Ran /\ net' = net
  BY <1>1, WorldKept
<1>6. Carried'
  BY <1>4, <1>5, Keeps DEF Alive
<1> QED BY <1>3, <1>4, <1>5, <1>6 DEF Typed

LEMMA ResignAfterDeathInv ==
    ASSUME SendInv, NEW e \in call.ext, ResignAfterDeath(e),
           e \notin net \cup Ran
    PROVE  SendInv'
<1> USE DEF SendInv
<1>1. pc = "death" /\ pc \in Signed /\ UNCHANGED <<chainVars, sendVars, now>>
  BY DEF ResignAfterDeath, Signed
<1>2. WorldTyped' /\ Chain' /\ Ran' = Ran /\ net' = net /\ NotesTyped'
  BY <1>1, WorldKept, NotesKept
<1>3. LaneTyped' /\ Shape' /\ unproved' = unproved
      /\ Held' = Held /\ Unsent' = Unsent
  <2>1. CASE ReportUnsent
    BY <1>1, <2>1, ReportsUnsent, InHandUnsent
  <2>2. ASSUME NEW n \in Seqnos, Resign(n)
        PROVE  LaneTyped' /\ Shape' /\ unproved' = unproved
               /\ Held' = Held /\ Unsent' = Unsent
    <3>1. n \in Nat
      BY <2>2, SeqnosAreNat
    <3> QED BY <1>1, <2>2, <3>1, Resigns, InHandUnsent
  <2>3. "consumed" \notin Verdicts(e)
    BY <1>1, InHand, ConsumedRan
  <2> QED BY <2>1, <2>2, <2>3 DEF ResignAfterDeath
<1>4. Carried'
  BY <1>2, <1>3, Keeps DEF Alive
<1> QED BY <1>2, <1>3, <1>4 DEF Typed

LEMMA SettleOursInv ==
    ASSUME SendInv, NEW e \in call.ext, SettleOurs(e) PROVE SendInv'
<1> USE DEF SendInv
<1>1. pc = "settle" /\ pc \in Signed /\ pc \in Watched /\ Advance(call.seqno)
      /\ UNCHANGED <<chainVars, sendVars, now>> /\ call.seqno \in Nat
  BY DEF SettleOurs, Signed, Watched, Typed, LaneTyped, Sends
<1>2. WorldTyped' /\ Chain' /\ Ran' = Ran /\ net' = net /\ NotesTyped'
  BY <1>1, WorldKept, NotesKept
<1>3. LaneTyped' /\ Shape' /\ Held' = Held \ {e} /\ Unsent' = Unsent
  BY <1>1, Advances
<1>4. unproved \subseteq unproved' /\ (e \in Ran' \/ e.msg \in unproved')
  <2>1. CASE "replaced" \in Verdicts(e)
    BY <2>1 DEF SettleOurs
  <2>2. CASE "replaced" \notin Verdicts(e)
    <3>1. e.seqno < Seqno /\ e \in Externals
      BY <1>1, InHand DEF Shape
    <3> QED BY <1>2, <2>2, <3>1, TakenRanOrReplaced DEF SettleOurs
  <2> QED BY <2>1, <2>2
<1>5. Carried'
  BY <1>2, <1>3, <1>4, Keeps DEF Alive
<1> QED BY <1>2, <1>3, <1>5 DEF Typed

LEMMA SettleReplacedInv ==
    ASSUME SendInv, NEW e \in call.ext, SettleReplaced(e) PROVE SendInv'
<1> USE DEF SendInv
<1>1. /\ pc \in Signed /\ pc \in Watched /\ "replaced" \in Verdicts(e)
      /\ pending' = {} /\ (Resign(call.seqno) \/ ReportUnsent)
      /\ UNCHANGED <<chainVars, floor, now>> /\ call.seqno \in Nat
  BY DEF SettleReplaced, Signed, Watched, Typed, LaneTyped, Sends
<1>2. e \notin net \cup Ran
  BY <1>1, InHand, ReplacedIsDead
<1>3. LaneTyped' /\ Shape' /\ unproved' = unproved
      /\ Held' = open /\ Unsent' = free \cup Range(call.todo)
  BY <1>1, Resigns, ReportsUnsent
<1>4. NotesTyped'
  BY <1>1 DEF Typed, NotesTyped
<1> QED BY <1>1, <1>2, <1>3, <1>4, GivesUp

-----------------------------------------------------------------------------
(* The app.                                                                *)

(* What the app asks about is in the hands of no send, and its message not *)
(* in one that is to be sent.                                              *)
LEMMA AskedAbout ==
    ASSUME SendInv, NEW e \in open
    PROVE  /\ e \in Externals /\ e.msg \in Messages /\ e \in Held
           /\ e \notin InLane /\ e.msg \notin Range(call.todo)
<1> USE DEF SendInv
<1>1. e \in Externals /\ e.msg \in Messages /\ e \in Held /\ e \notin InLane
  BY DEF Typed, LaneTyped, Externals, Held, Shape
<1>2. e.msg \notin Unsent
  BY <1>1 DEF Carried
<1>3. CASE pc \notin Watched
  BY <1>1, <1>2, <1>3, Unwatched
<1>4. CASE pc \in Watched
  <2>1. pc \in Signed
    BY <1>4 DEF Watched, Signed
  <2>2. PICK f \in call.ext : TRUE
    BY <2>1 DEF Shape
  <2>3. /\ InLane = {f} /\ Unsent = free \cup Range(Tail(call.todo))
        /\ Range(call.todo) = {f.msg} \cup Range(Tail(call.todo))
    BY <1>4, <2>1, InHand
  <2>4. e # f /\ e \in Alive /\ f \in Alive
    BY <1>1, <2>3 DEF Alive, Held
  <2>5. e.msg # f.msg
    BY <2>4 DEF Carried
  <2> QED BY <1>1, <1>2, <2>3, <2>5
<1> QED BY <1>1, <1>3, <1>4

LEMMA LearnKept ==
    ASSUME SendInv, NEW e \in open, Learn(e),
           free' = free \/ free' = free \cup {e.msg}
    PROVE  /\ WorldTyped' /\ Chain' /\ Ran' = Ran /\ net' = net
           /\ NotesTyped' /\ LaneTyped' /\ Shape' /\ unproved' = unproved
           /\ Held' = Held \ {e} /\ InLane' = InLane /\ ToSign' = ToSign
<1> USE DEF SendInv
<1>1. /\ open' = open \ {e} /\ pending' \in {pending, PendingFrom(e.seqno + 1)}
      /\ UNCHANGED <<chainVars, floor, laneVars, unproved, now>>
  BY DEF Learn
<1>2. WorldTyped' /\ Chain' /\ Ran' = Ran /\ net' = net /\ Seqno' = Seqno
  BY <1>1, WorldKept
<1>3. NotesTyped'
  BY <1>1 DEF Typed, NotesTyped, PendingFrom
<1>4. InLane' = InLane /\ ToSign' = ToSign
  BY <1>1 DEF InLane, ToSign, laneVars
<1>5. Held' = Held \ {e}
  BY <1>1, <1>4, AskedAbout DEF Held
<1>6. LaneTyped'
  BY <1>1, AskedAbout DEF Typed, LaneTyped, laneVars
<1>7. Shape'
  BY <1>1, <1>2, <1>4, AskedAbout DEF Shape, laneVars
<1> QED BY <1>1, <1>2, <1>3, <1>4, <1>5, <1>6, <1>7

LEMMA OutcomeConsumedInv ==
    ASSUME SendInv, NEW e \in open, OutcomeConsumed(e) PROVE SendInv'
<1> USE DEF SendInv
<1>1. Learn(e) /\ free' = free /\ e \in Ran
  BY AskedAbout, ConsumedRan DEF OutcomeConsumed
<1>2. /\ WorldTyped' /\ Chain' /\ Ran' = Ran /\ net' = net
      /\ NotesTyped' /\ LaneTyped' /\ Shape' /\ unproved' = unproved
      /\ Held' = Held \ {e} /\ ToSign' = ToSign
  BY <1>1, LearnKept
<1>3. Unsent' = Unsent
  BY <1>1, <1>2 DEF Unsent
<1>4. Carried'
  BY <1>1, <1>2, <1>3, Keeps DEF Alive
<1> QED BY <1>2, <1>4 DEF Typed

LEMMA OutcomeDeadInv ==
    ASSUME SendInv, NEW e \in open, OutcomeDead(e) PROVE SendInv'
<1> USE DEF SendInv
<1>1. Learn(e) /\ free' = free \cup {e.msg}
  BY DEF OutcomeDead
<1>2. e \notin net \cup Ran
  BY AskedAbout, ReplacedIsDead, ExpiredIsDead, ExpiredByHistoryIsDead
     DEF OutcomeDead
<1>3. /\ WorldTyped' /\ Chain' /\ Ran' = Ran /\ net' = net
      /\ NotesTyped' /\ LaneTyped' /\ Shape' /\ unproved' = unproved
      /\ Held' = Held \ {e} /\ ToSign' = ToSign
  BY <1>1, LearnKept
<1>4. Unsent' = Unsent \cup {e.msg} /\ e \in Held
  BY <1>1, <1>3, AskedAbout DEF Unsent
<1>5. Carried'
  BY <1>2, <1>3, <1>4, Drops
<1> QED BY <1>3, <1>5 DEF Typed

LEMMA ReloadInv == SendInv /\ Reload => SendInv'
<1> SUFFICES ASSUME SendInv, Reload PROVE SendInv'
  OBVIOUS
<1> USE DEF SendInv
<1>1. pc # "idle" /\ UNCHANGED <<log, now>> /\ NotesTyped'
  BY ForgetKept DEF Reload
<1>2. CASE pc \in {"resolve", "catchup", "sign"}
  <2>1. ReportUnsent /\ net' = net /\ pc \notin Watched
    BY <1>2 DEF Reload, Watched
  <2>2. LaneTyped' /\ Shape' /\ unproved' = unproved
        /\ Held' = Held /\ Unsent' = Unsent
    BY <2>1, ReportsUnsent, Unwatched
  <2>3. WorldTyped' /\ Chain' /\ Ran' = Ran
    BY <1>1, <2>1, WorldKept DEF chainVars
  <2>4. Carried'
    BY <2>1, <2>2, <2>3, Keeps DEF Alive
  <2> QED BY <1>1, <2>2, <2>3, <2>4 DEF Typed
<1>3. CASE pc \notin {"resolve", "catchup", "sign"}
  <2>1. pc \in Signed
    BY <1>1, <1>3 DEF Typed, LaneTyped
  <2>2. PICK e \in call.ext : TRUE
    BY <2>1 DEF Shape
  <2>3. e \in Externals /\ Sent({e}) /\ Report({e}, Range(Tail(call.todo)))
    <3>1. call.ext = {e} /\ e \in Externals
      BY <2>1, <2>2, InHand
    <3>2. Report(call.ext, Range(Tail(call.todo))) /\ Sent(call.ext)
      BY <1>3 DEF Reload, ReportUncertain
    <3> QED BY <3>1, <3>2
  <2>4. /\ WorldTyped' /\ Chain' /\ Ran' = Ran /\ net' \subseteq net \cup {e}
    BY <1>1, <2>3, SentKept
  <2>5. LaneTyped' /\ Shape' /\ unproved' = unproved
        /\ Held' = open \cup {e}
        /\ Unsent' = free \cup Range(Tail(call.todo))
    BY <2>1, <2>2, <2>3, InHand, Reports
  <2>6. CASE pc \in Watched
    <3>1. Held' = Held /\ Unsent' = Unsent /\ e \in Held
      BY <2>1, <2>2, <2>5, <2>6, InHand
    <3>2. Carried'
      BY <2>4, <2>5, <3>1, Keeps DEF Alive
    <3> QED BY <1>1, <2>4, <2>5, <3>2 DEF Typed
  <2>7. CASE pc \notin Watched
    <3>1. pc \in {"broadcast", "death"}
      BY <2>1, <2>7 DEF Signed, Watched
    <3>2. Held' = Held \cup {e} /\ Unsent = Unsent' \cup {e.msg}
          /\ e.msg \notin Unsent'
      BY <2>1, <2>2, <2>5, <3>1, InHand, InHandUnsent
    <3>3. Carried'
      BY <2>4, <2>5, <3>2, Raises DEF Alive
    <3> QED BY <1>1, <2>4, <2>5, <3>3 DEF Typed
  <2> QED BY <2>6, <2>7
<1> QED BY <1>2, <1>3

-----------------------------------------------------------------------------
(* The whole.                                                              *)

LEMMA LaneInv ==
    ASSUME SendInv, NEW e \in call.ext, Lane(e) PROVE SendInv'
<1>1. CASE ResignAfterDeath(e)
  <2>1. e.msg \in Unsent
    BY <1>1, InHandUnsent DEF ResignAfterDeath
  <2>2. e \notin net \cup Ran
    BY <2>1 DEF SendInv, Carried, UnsentNeverRuns, MessagesOf
  <2> QED BY <1>1, <2>2, ResignAfterDeathInv
<1>2. CASE ~ ResignAfterDeath(e)
  BY <1>2, BroadcastInv, BroadcastUncertainInv, BroadcastRefusedInv, TakenInv,
     DiedInv, DiedForGoodInv, UndecidedInv, SettleOursInv, SettleReplacedInv
     DEF Lane
<1> QED BY <1>1, <1>2

LEMMA NextInv == SendInv /\ [Next]_vars => SendInv'
<1> SUFFICES ASSUME SendInv, [Next]_vars PROVE SendInv'
  OBVIOUS
<1>1. CASE UNCHANGED vars
  <2>1. UNCHANGED <<chainVars, now>> /\ UNCHANGED sendVars
        /\ UNCHANGED <<laneVars, appVars>>
    BY <1>1 DEF vars
  <2>2. WorldTyped' /\ Chain' /\ Ran' = Ran /\ net' = net /\ Seqno' = Seqno
        /\ Seqno \in Nat /\ NotesTyped'
    BY <2>1, WorldKept, NotesKept, LogFacts DEF SendInv
  <2>3. LaneTyped' /\ Shape' /\ unproved' = unproved
        /\ Held' = Held /\ Unsent' = Unsent
    BY <2>1, <2>2, LaneKept DEF SendInv
  <2>4. Carried'
    BY <2>2, <2>3, Keeps DEF Alive, SendInv
  <2> QED BY <2>2, <2>3, <2>4 DEF SendInv, Typed
<1>2. ASSUME NEW e \in net, Execute(e) PROVE SendInv'
  BY <1>2, TakeInv DEF Execute
<1>3. CASE OtherSigner
  BY <1>3, TakeInv DEF OtherSigner
<1>4. CASE \E s \in Chunkings, w \in BOOLEAN, f \in Fixed : Start(s, w, f)
  BY <1>4, StartInv
<1>5. CASE \E e \in call.ext : Lane(e)
  BY <1>5, LaneInv
<1>6. CASE \E e \in open : OutcomeConsumed(e) \/ OutcomeDead(e)
  BY <1>6, OutcomeConsumedInv, OutcomeDeadInv
<1>7. CASE Tick \/ Reload
  BY <1>7, TickInv, ReloadInv
<1>8. CASE Resolve \/ CaughtUp \/ PendingExpired \/ NotSigned \/ Sign
  BY <1>8, ResolveInv, CaughtUpInv, PendingExpiredInv, NotSignedInv, SignInv
<1> QED BY <1>1, <1>2, <1>3, <1>4, <1>5, <1>6, <1>7, <1>8 DEF Next

(* The invariant holds of every behaviour of the window and the chain.     *)
THEOREM SendInvariant == Spec => []SendInv
BY InitInv, NextInv, PTL DEF Spec

(* What the app sends is run at most once: two externals that ran and      *)
(* carry one message are one external, which ran at its seqno.             *)
THEOREM MessagesRunOnce == Spec => []AtMostOnce
<1>1. SendInv => AtMostOnce
  <2>1. SUFFICES ASSUME SendInv, NEW i \in DOMAIN log, NEW j \in DOMAIN log,
                        NEW e \in log[i].ext, NEW f \in log[j].ext,
                        e.msg = f.msg
                 PROVE  i = j
    BY DEF AtMostOnce
  <2>2. e \in Alive /\ f \in Alive
    BY DEF Alive, Ran
  <2>3. e = f
    BY <2>1, <2>2 DEF SendInv, Carried
  <2> QED BY <2>1, <2>3 DEF SendInv, Chain
<1> QED BY <1>1, SendInvariant, PTL

(* What the app is told was not sent never runs.                           *)
THEOREM DeadStaysDead == Spec => []UnsentNeverRuns
<1>1. SendInv => UnsentNeverRuns
  BY DEF SendInv, Carried
<1> QED BY <1>1, SendInvariant, PTL

(* No message is lost between the app, the lane and the chain.             *)
THEOREM NothingIsLost == Spec => []Accounted
<1>1. SendInv => Accounted
  BY DEF SendInv, Carried
<1> QED BY <1>1, SendInvariant, PTL

=============================================================================
