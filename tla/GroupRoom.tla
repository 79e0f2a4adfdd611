----------------------------- MODULE GroupRoom -----------------------------
(***************************************************************************)
(* How the devices of a private room keep one roster and one key           *)
(* (web/group-store.mjs and web/group-runtime.mjs).  There is no server:   *)
(* every admin writes control rows to a roster lane of their own, one lane *)
(* for every generation of the key, and every device folds the rows it     *)
(* reads into its own record.  A removal may carry the next generation of  *)
(* the key, wrapped for those who stay; of two made at once the earlier    *)
(* row wins, and the loser removes its victim again.                       *)
(*                                                                         *)
(* A row is believed when it is sent (notePendingControl) and settled when *)
(* it is read back, or taken back when its lane does not show it in time   *)
(* (settlePendingControl).  A pass asks for the states of all lanes at     *)
(* once, then reads those that changed since they were last read, whole    *)
(* and one after another, with no lock held, and folds what it read under  *)
(* the lock of the room (passRoom).  Rows may land, and this device may    *)
(* write, at any moment in between.  (Where one request has asked for the  *)
(* states of several rooms before the pass began, that moment is taken for *)
(* its beginning.)                                                         *)
(*                                                                         *)
(* The devices here are those of the admins, who stay admins.  The name of *)
(* a row is its place among all rows written, its stamp its place on the   *)
(* chain, and the key of a generation has the name of its row, the key of  *)
(* the founding being 0.  The wallet of an admin sends one row at a time,  *)
(* so that its rows are stamped in the order they were sent.  A row not on *)
(* the chain after the ten minutes of GROUP_CONTROL_CONFIRM_S never will   *)
(* be.  All happens within the two days for which the generation before    *)
(* the newest is read as well; the week of GROUP_CONTROL_ABANDON_S passes  *)
(* only for a write whose lane cannot be read any more.  Left out are the  *)
(* rows ROSTER, ADMIN, LEAVE, PROFILE, MUTE and HIDE, messages, the queue  *)
(* at the door and rooms of the generation of contracts before.            *)
(***************************************************************************)
EXTENDS Naturals, Sequences, FiniteSetsExt, Functions, TLC

CONSTANTS
    Admins,     \* who may write control rows
    People,     \* all others who are in the room or may come into it
    Founders,   \* those of them who are in it at first
    Scenes      \* what may happen in a behaviour: the writes that admins
                \* wish to make, and bounds on the broadcasts that are lost,
                \* the lanes that fail to be read and the restarts

ASSUME GroupRoomAssumption ==
    /\ Admins \cap People = {}
    /\ Founders \subseteq People
    /\ Scenes \subseteq
          [wishes : SUBSET (Admins \X {"admit", "remove"} \X People
                            \X BOOLEAN),
           losses : Nat, failures : Nat, restarts : Nat]

VARIABLES
    writes,     \* every row ever written, whether it reached the chain
    flying,     \* the rows that were sent and may still land
    chain,      \* the rows that landed, oldest first
    record,     \* what the device of an admin holds of the room
    marks,      \* the rows of lanes in the state a device marked them read
    reading,    \* the pass of a device that is under way
    scene       \* what may still happen

roomVars == <<writes, flying, chain, record, marks, reading, scene>>

-----------------------------------------------------------------------------
(* Rows and lanes                                                          *)

Speculative == 0   \* the stamp of a key whose row was not read back yet

Stamp(id) == CHOOSE i \in DOMAIN chain : chain[i] = id

Landed == Range(chain)

RosterLane(by, gen, key) == [by |-> by, gen |-> gen, key |-> key]

LaneOf(id) == RosterLane(writes[id].by, writes[id].gen, writes[id].key)

(* the rows that carry the next generation of the key                      *)
Rekeys(ids) == {id \in ids : writes[id].to # {}}

Generation(id) == writes[id].gen + 1

Newest(ids) == CHOOSE id \in ids : \A other \in ids : Stamp(other) <= Stamp(id)
Oldest(ids) == CHOOSE id \in ids : \A other \in ids : Stamp(id) <= Stamp(other)

About(ids, kind, who) ==
    {id \in ids : writes[id].kind = kind /\ writes[id].who = who}

-----------------------------------------------------------------------------
(* The record of a device: members, epochs, controlLog, pendingControl     *)

(* currentGroupEpoch: the newest generation                                *)
Current(r) == Max(DOMAIN r.epochs)

CurrentKey(r) == r.epochs[Current(r)].key

(* adoptGroupGeneration: the keys of a record, with another for a          *)
(* generation                                                              *)
Holding(epochs, gen, key) ==
    [g \in DOMAIN epochs \cup {gen} |-> IF g = gen THEN key ELSE epochs[g]]

(* mutant: the generation before the newest is not asked for               *)
AskedNewest(d, r) ==
    {RosterLane(by, Current(r), CurrentKey(r)) : by \in Admins}
    \cup {RosterLane(d, gen, r.epochs[gen].key) :
        gen \in {writes[e.id].gen : e \in r.pending} \cap DOMAIN r.epochs}

(* mutant: the lanes of older unsettled writes are not asked for           *)
AskedRecent(d, r) ==
    {RosterLane(by, gen, r.epochs[gen].key) :
        by \in Admins,
        gen \in {Current(r), Current(r) - 1} \cap DOMAIN r.epochs}

(* what walkRoom asks for: the lanes of every admin in the newest          *)
(* generation and the one before, and this device's own lanes of writes    *)
(* that are not settled, if it holds the key of their generation           *)
Asked(d, r) ==
    {RosterLane(by, gen, r.epochs[gen].key) :
        by \in Admins,
        gen \in {Current(r), Current(r) - 1} \cap DOMAIN r.epochs}
    \cup {RosterLane(d, gen, r.epochs[gen].key) :
        gen \in {writes[e.id].gen : e \in r.pending} \cap DOMAIN r.epochs}

(* readmittedAfter: a later admission is in the log                        *)
Spent(log, id) ==
    \E a \in About(log, "admit", writes[id].who) : Stamp(a) > Stamp(id)

(* applyGroupRows: rows are applied in the order of their stamps, whatever *)
(* is in the record; only a removal asks the log for a later admission     *)
Deciding(r, rows, w) ==
    About(rows, "admit", w)
    \cup {id \in About(rows, "remove", w) : ~ Spent(r.log, id)}

AppliedMembers(r, rows) ==
    {w \in People :
        IF Deciding(r, rows, w) = {}
        THEN w \in r.members
        ELSE writes[Newest(Deciding(r, rows, w))].kind = "admit"}

ApplyGroupRows(r, rows) ==
    [r EXCEPT !.members = AppliedMembers(r, rows), !.log = @ \cup rows]

(* loggedByOther: somebody else's row says the same of that person         *)
LoggedByOther(d, r, kind, w) ==
    \E id \in About(r.log, kind, w) : writes[id].by # d

(* revertControl: what an entry taken back says of its person              *)
Undoes(d, r, e) ==
    LET row == writes[e.id]
    IN  /\ row.kind = "remove" => e.seated
        /\ ~ LoggedByOther(d, r, row.kind, row.who)

RevertControl(d, r, entries) ==
    LET undone(w) == {e.id : e \in {f \in entries :
                          writes[f.id].who = w /\ Undoes(d, r, f)}}
        kept == {gen \in DOMAIN r.epochs :
                    r.epochs[gen].key \notin Rekeys({e.id : e \in entries})}
    IN  [r EXCEPT
            !.members = {w \in People :
                            IF undone(w) = {}
                            THEN w \in @
                            ELSE writes[Max(undone(w))].kind = "remove"},
            !.epochs = Restrict(@, kept)]

(* mutant: the pass is folded as if nothing was written meanwhile          *)
KeepNoWrites(start, folded, entries) == folded

(* keepWritesMadeDuringReads: what was written between the halves of the   *)
(* pass stands, unless a row learned now was stamped after it              *)
KeepWrites(start, folded, entries) ==
    LET learned == folded.log \ start.log
        stands(e, against) ==
            \A id \in About(learned, against, writes[e.id].who) :
                Stamp(id) <= e.at
        said(kind, against) ==
            {writes[e.id].who : e \in {f \in entries :
                writes[f.id].kind = kind /\ stands(f, against)}}
    IN  [folded EXCEPT !.members =
            (@ \cup (said("admit", "remove") \cap start.members))
               \ (said("remove", "admit") \ start.members)]

(* mutant: a key that was read first stays                                 *)
AdoptFirst(d, r, rows) ==
    LET new == {id \in Rekeys(rows) :
                   /\ d \in writes[id].to
                   /\ Generation(id) \in DOMAIN r.epochs =>
                         r.epochs[Generation(id)].stamp = Speculative}
    IN  [r EXCEPT !.epochs =
            [gen \in {Generation(id) : id \in new} |->
                LET id == Oldest({i \in new : Generation(i) = gen})
                IN  [key |-> id, stamp |-> Stamp(id)]] @@ @]

(* adoptGroupGeneration, for all rows that were read: the earliest row of  *)
(* a generation wins, and a key that only this device holds loses to any   *)
Claims(d, r, rows, gen) ==
    {[key |-> id, stamp |-> Stamp(id)] : id \in
        {i \in Rekeys(rows) : d \in writes[i].to /\ Generation(i) = gen}}
    \cup {r.epochs[g] : g \in
        {h \in {gen} \cap DOMAIN r.epochs : r.epochs[h].stamp # Speculative}}

Adopt(d, r, rows) ==
    LET carried == {g \in {Generation(id) : id \in Rekeys(rows)} :
                       Claims(d, r, rows, g) # {}}
        gens == DOMAIN r.epochs \cup carried
    IN  [r EXCEPT !.epochs = [gen \in gens |->
            IF Claims(d, r, rows, gen) = {}
            THEN r.epochs[gen]
            ELSE CHOOSE c \in Claims(d, r, rows, gen) :
                     \A other \in Claims(d, r, rows, gen) :
                         c.stamp <= other.stamp]]

(* generationLost: the keys that were held and gave way                    *)
GenerationLost(before, after) ==
    {before.epochs[gen].key : gen \in {g \in DOMAIN before.epochs :
        before.epochs[g].key # after.epochs[g].key}}

-----------------------------------------------------------------------------
(* Writing                                                                 *)

(* publishRoster, and notePendingControl of what was published             *)
Publish(s, d, kind, who, to) ==
    LET r == s.record
        row == [kind |-> kind, by |-> d, gen |-> Current(r),
                key |-> CurrentKey(r), who |-> who, to |-> to]
        id == Len(s.writes) + 1
        entry == [id |-> id, at |-> Len(chain), seated |-> who \in r.members]
    IN  [writes |-> Append(s.writes, row),
         flying |-> s.flying \cup {id},
         record |-> [r EXCEPT !.pending = @ \cup {entry}]]

(* api.admit                                                               *)
AdmitOf(s, d, who) ==
    LET sent == Publish(s, d, "admit", who, {})
    IN  [sent EXCEPT !.record.members = @ \cup {who}]

(* mutant: the key is wrapped for the victim as well                       *)
RemoveOfWrapped(s, d, who, cutReading) ==
    LET stays == s.record.members
        sent == Publish(s, d, "remove", who,
                        IF cutReading THEN Admins \cup stays ELSE {})
        key == [key |-> Len(sent.writes), stamp |-> Speculative]
    IN  [sent EXCEPT
            !.record.members = stays \ {who},
            !.record.epochs =
                IF cutReading THEN Holding(@, Current(s.record) + 1, key)
                              ELSE @]

(* api.remove: with cutReading the key of the next generation is wrapped   *)
(* for those who stay, and held at once                                    *)
RemoveOf(s, d, who, cutReading) ==
    LET stays == s.record.members \ {who}
        sent == Publish(s, d, "remove", who,
                        IF cutReading THEN Admins \cup stays ELSE {})
        key == [key |-> Len(sent.writes), stamp |-> Speculative]
    IN  [sent EXCEPT
            !.record.members = stays,
            !.record.epochs =
                IF cutReading THEN Holding(@, Current(s.record) + 1, key)
                              ELSE @]

State(d, r) == [writes |-> writes, flying |-> flying, record |-> r]

Becomes(d, states) ==
    \E s \in states :
        /\ writes' = s.writes
        /\ flying' = s.flying
        /\ record' = [record EXCEPT ![d] = s.record]

Admit(d, who) ==
    /\ who \notin record[d].members
    /\ \E cut \in BOOLEAN :
          /\ <<d, "admit", who, cut>> \in scene.wishes
          /\ scene' = [scene EXCEPT !.wishes = @ \ {<<d, "admit", who, cut>>}]
    /\ Becomes(d, {AdmitOf(State(d, record[d]), d, who)})
    /\ UNCHANGED <<chain, marks, reading>>

RemoveMember(d, who, cutReading) ==
    /\ who \in record[d].members
    /\ <<d, "remove", who, cutReading>> \in scene.wishes
    /\ scene' = [scene EXCEPT
                     !.wishes = @ \ {<<d, "remove", who, cutReading>>}]
    /\ Becomes(d, {RemoveOf(State(d, record[d]), d, who, cutReading)})
    /\ UNCHANGED <<chain, marks, reading>>

-----------------------------------------------------------------------------
(* The chain                                                               *)

Land(id) ==
    /\ id \in flying
    /\ \A other \in flying : writes[other].by = writes[id].by => id <= other
    /\ chain' = Append(chain, id)
    /\ flying' = flying \ {id}
    /\ UNCHANGED <<writes, record, marks, reading, scene>>

(* a broadcast that was believed (sendOrLanded) and is not taken           *)
Lose(id) ==
    /\ id \in flying
    /\ scene.losses > 0
    /\ scene' = [scene EXCEPT !.losses = @ - 1]
    /\ flying' = flying \ {id}
    /\ UNCHANGED <<writes, chain, record, marks, reading>>

-----------------------------------------------------------------------------
(* A pass                                                                  *)

(* walkRoom with no lock held: the states of all lanes are asked for at    *)
(* once.  A lane whose state or, later, whose rows cannot be had fails     *)
Probe(d) ==
    /\ reading[d] = {}
    /\ \E failed \in SUBSET Asked(d, record[d]) :
          LET heard == Asked(d, record[d]) \ failed
              probed == {id \in Landed : LaneOf(id) \in heard}
          IN  /\ Cardinality(failed) <= scene.failures
              /\ scene' = [scene EXCEPT !.failures = @ - Cardinality(failed)]
              /\ reading' = [reading EXCEPT ![d] =
                   {[heard   |-> heard,
                     probed  |-> probed,
                     left    |-> {LaneOf(id) : id \in probed \ marks[d]},
                     rows    |-> {},
                     before  |-> {e.id : e \in record[d].pending},
                     overdue |-> {e.id : e \in record[d].pending} \ flying]}]
    /\ UNCHANGED <<writes, flying, chain, record, marks>>

(* readIncoming: the lanes that had changed are read whole, one by one,    *)
(* with what landed in them since                                          *)
ReadLane(d) ==
    /\ \E pass \in reading[d] : \E lane \in pass.left :
          reading' = [reading EXCEPT ![d] =
              {[pass EXCEPT
                   !.left = @ \ {lane},
                   !.rows = @ \cup {id \in Landed : LaneOf(id) = lane}]}]
    /\ UNCHANGED <<writes, flying, chain, record, marks, scene>>

(* mutant: what is overdue is taken back, whether its lane was read or not *)
RevertedUnread(d, r, pass, rows, used) ==
    {e \in r.pending : e.id \notin rows /\ e.id \in pass.overdue}

(* settlePendingControl: entries whose row was read are settled, entries   *)
(* whose own lane was read without it are taken back, and so are those     *)
(* whose lane cannot be read, after a week                                 *)
Settled(d, r, rows) == {e \in r.pending : e.id \in rows}

Reverted(d, r, pass, rows, used) ==
    {e \in r.pending :
        /\ e.id \notin rows
        /\ e.id \in pass.overdue
        /\ LET gen == writes[e.id].gen
           IN  gen \in DOMAIN r.epochs
                  => RosterLane(d, gen, r.epochs[gen].key) \in used}

(* republishLostRekeys: the victims of the writes that were pending before *)
(* they were settled, and whose key lost                                   *)
LostRekeys(r, lost) == {e \in r.pending : e.id \in Rekeys(lost)}

RemoveAgain(s, d, entries) ==
    LET ids == {e.id : e \in entries}
        after[some \in SUBSET ids] ==
            IF some = {}
            THEN s
            ELSE RemoveOf(after[some \ {Max(some)}], d,
                          writes[Max(some)].who, TRUE)
    IN  after[ids]

(* walkRoom on the record as it is now, and the writes made meanwhile      *)
Walked(d, start, pass, rows, used) ==
    LET applied == ApplyGroupRows(start, rows)
        reverted == Reverted(d, applied, pass, rows, used)
        pending == applied.pending \ (Settled(d, applied, rows) \cup reverted)
    IN  KeepWrites(start,
                   [RevertControl(d, applied, reverted) EXCEPT
                       !.pending = pending],
                   {e \in pending : e.id \notin pass.before})

(* finishRoom: the keys that were read, and what has to be made again      *)
FoldedStates(d, start, pass, rows, used) ==
    {LET adopted == Adopt(d, walked, rows)
         again == LostRekeys(start, GenerationLost(walked, adopted))
     IN  RemoveAgain(State(d, [adopted EXCEPT !.pending = @ \ again]),
                     d, again) :
        walked \in {Walked(d, start, pass, rows, used)}}

(* the second half of passRoom, when all lanes are read: walkRoom on the   *)
(* record as it is now, with the answers that were read, and finishRoom.   *)
(* A lane is marked with the state it was probed in, and one that was read *)
(* but is not asked for any more is forgotten                              *)
Fold(d) ==
    /\ \E pass \in reading[d] :
          LET start == record[d]
              used == Asked(d, start) \cap pass.heard
              rows == {id \in pass.rows : LaneOf(id) \in used}
          IN  /\ pass.left = {}
              /\ Becomes(d, FoldedStates(d, start, pass, rows, used))
              /\ marks' = [marks EXCEPT ![d] =
                               (@ \ pass.rows) \cup (pass.probed \cap rows)]
    /\ reading' = [reading EXCEPT ![d] = {}]
    /\ UNCHANGED <<chain, scene>>

(* the page is loaded again: the record was persisted, the marks as they   *)
(* were after some earlier pass (persistLaneMarksSoon waits a minute)      *)
Restart(d) ==
    /\ scene.restarts > 0
    /\ scene' = [scene EXCEPT !.restarts = @ - 1]
    /\ \E n \in 0..Len(chain) :
          marks' = [marks EXCEPT ![d] = {id \in @ : Stamp(id) <= n}]
    /\ reading' = [reading EXCEPT ![d] = {}]
    /\ UNCHANGED <<writes, flying, chain, record>>

-----------------------------------------------------------------------------

RoomInit ==
    /\ writes = <<>>
    /\ flying = {}
    /\ chain = <<>>
    /\ record = [d \in Admins |->
                    [members |-> Founders,
                     epochs  |-> [gen \in {0} |->
                                     [key |-> 0, stamp |-> Speculative]],
                     log     |-> {},
                     pending |-> {}]]
    /\ marks = [d \in Admins |-> {}]
    /\ reading = [d \in Admins |-> {}]
    /\ scene \in Scenes

RoomNext ==
    \/ \E d \in Admins, who \in People :
          \/ Admit(d, who)
          \/ \E cutReading \in BOOLEAN : RemoveMember(d, who, cutReading)
    \/ \E id \in flying : Land(id) \/ Lose(id)
    \/ \E d \in Admins : Probe(d) \/ ReadLane(d) \/ Fold(d) \/ Restart(d)

(* A broadcast is decided in the end, and a page makes pass after pass as  *)
(* long as it is open: its timer starts them, and each always ends.        *)
RoomSpec ==
    /\ RoomInit
    /\ [][RoomNext]_roomVars
    /\ WF_roomVars(\E id \in flying : Land(id) \/ Lose(id))
    /\ \A d \in Admins : []<>(reading[d] = {}) /\ []<>(reading[d] # {})

-----------------------------------------------------------------------------
(* Properties                                                              *)

(* Two claims on one generation of the key are decided alike on every      *)
(* device, in whatever order and in however many passes it reads them: of  *)
(* those whose rows it has read it holds the earliest on the chain.        *)
EarliestKey ==
    \A d \in Admins : \A id \in Rekeys(record[d].log) :
        d \in writes[id].to =>
            /\ Generation(id) \in DOMAIN record[d].epochs
            /\ LET held == record[d].epochs[Generation(id)]
               IN  held.stamp # Speculative /\ held.stamp <= Stamp(id)

(* A pass of the device ends.                                              *)
PassEnds(d) ==
    reading[d] # {} /\ reading'[d] = {} /\ scene' = scene

WroteAgain == Len(writes') > Len(writes)

(* A device holds the key under which a row was written.                   *)
HoldsLane(d, id) ==
    /\ writes[id].gen \in DOMAIN record[d].epochs
    /\ record[d].epochs[writes[id].gen].key = writes[id].key

(* A write that reached the chain is never taken back by the device that   *)
(* made it, when its lane failed to be read, was read before the write     *)
(* landed, or did not change since: it stays pending until its row is in   *)
(* the log.  (A rekey that lost is given up for the one made in its place, *)
(* and what was written under a key that lost is beyond reach.)            *)
LandedStands ==
    [][\A d \in Admins : PassEnds(d) =>
          \A e \in record[d].pending :
              (e.id \in Landed /\ HoldsLane(d, e.id) /\ ~WroteAgain)
              => e \in record'[d].pending \/ e.id \in record'[d].log]_roomVars

(* What an admin writes while a pass reads is not undone by what that pass *)
(* had read before: the last write about a person stands, unless a row     *)
(* that was stamped after it says otherwise.                               *)
WritesDuring(d) ==
    {e \in record[d].pending \cap record'[d].pending :
        /\ \A pass \in reading[d] : e.id \notin pass.before
        /\ \A f \in record[d].pending :
              writes[f.id].who = writes[e.id].who => f.id <= e.id}

StampedAfter(d, e) ==
    \E id \in record'[d].log \ record[d].log :
        writes[id].who = writes[e.id].who /\ Stamp(id) > e.at

WritesKept ==
    [][\A d \in Admins : PassEnds(d) /\ ~WroteAgain =>
          \A e \in WritesDuring(d) :
              (writes[e.id].who \in record'[d].members
                  <=> writes[e.id].who \in record[d].members)
              \/ StampedAfter(d, e)]_roomVars

(* who can read what is written under a generation of the key: those who   *)
(* were admitted with it, and those for whom it was wrapped and who could  *)
(* read the lane it came in                                                *)
Readers(key) ==
    {w \in People : \E path \in SUBSET (0..Len(writes)) :
        /\ key \in path
        /\ \A k \in path :
              \/ k = 0 /\ w \in Founders
              \/ \E id \in DOMAIN writes : /\ writes[id].kind = "admit"
                                          /\ writes[id].who = w
                                          /\ writes[id].key = k
              \/ k # 0 /\ w \in writes[k].to /\ writes[k].key \in path}

(* Nothing is on its way, and every device has read all it asks for.       *)
Quiet ==
    /\ flying = {}
    /\ \A d \in Admins :
          /\ reading[d] = {}
          /\ record[d].pending = {}
          /\ \A id \in Landed :
                LaneOf(id) \in Asked(d, record[d]) => id \in marks[d]

(* The last word about a person is a row that removes them, or one after   *)
(* their last admission that was to cut their reading as well.             *)
LaterThanAdmitted(id) ==
    \A a \in About(Landed, "admit", writes[id].who) : Stamp(a) < Stamp(id)

Out == {w \in People :
           \E id \in About(Landed, "remove", w) : LaterThanAdmitted(id)}

Cut == {w \in People :
           \E id \in Rekeys(About(Landed, "remove", w)) :
               LaterThanAdmitted(id)}

(* Who is removed is no member for any device, when all has been read.     *)
RemovedStayOut ==
    Quiet => \A d \in Admins : record[d].members \cap Out = {}

(* Whoever was removed with their reading cut cannot read what is written  *)
(* next, when all has been read.                                           *)
CutOff ==
    Quiet /\ Landed = DOMAIN writes =>
        \A d \in Admins : Cut \cap Readers(CurrentKey(record[d])) = {}

(* No row that carries a key is in a lane whose key lost.                  *)
RekeysReach == \A d \in Admins, id \in Rekeys(Landed) : HoldsLane(d, id)

(* All admins write under one key when all has been read, in whatever      *)
(* order and in however many passes each read the rows that carry keys,    *)
(* whatever was lost and failed.                                           *)
KeysAgree == \A d, e \in Admins : CurrentKey(record[d]) = CurrentKey(record[e])

(* Whoever was removed with a key that stands cannot read what is written  *)
(* next, under that key or one that came after it, unless they were        *)
(* admitted with one of these.                                             *)
WinnersCut ==
    \A d \in Admins : \A gen \in DOMAIN record[d].epochs \ {0} :
        LET victim == writes[record[d].epochs[gen].key].who
        IN  victim \in Readers(CurrentKey(record[d])) =>
                \E id \in DOMAIN writes :
                    /\ writes[id].kind = "admit" /\ writes[id].who = victim
                    /\ writes[id].gen >= gen

(* Removals that cross come to one key that keeps its victims out, if no   *)
(* row with a key is in a lane whose key lost.                             *)
RoomAgrees == Quiet /\ RekeysReach => KeysAgree /\ WinnersCut

(* Every write of an admin is settled or taken back in the end, whatever   *)
(* generations came after the one it was written in, if passes go on and   *)
(* broadcasts do not stay undecided.                                       *)
ControlDecided ==
    \A d \in Admins : record[d].pending # {} ~> record[d].pending = {}

=============================================================================
