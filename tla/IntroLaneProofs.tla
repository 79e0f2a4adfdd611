-------------------------- MODULE IntroLaneProofs --------------------------
(***************************************************************************)
(* Proofs about ReplayGuard and IntroLane: what a window takes for seen is *)
(* never lost, no introduction that they can open is passed over, and what *)
(* one window marks for a later build stays marked, for any number of      *)
(* windows, shards, builds and faults.                                     *)
(***************************************************************************)
EXTENDS IntroLane, SequenceTheorems, FiniteSetTheorems, TLAPS

-----------------------------------------------------------------------------
(* The replay guard                                                        *)

GuardTyped ==
    /\ folded \subseteq Nonces
    /\ parts \subseteq SUBSET Nonces
    /\ seen \in [Windows -> SUBSET Nonces]
    /\ pending \in [Windows -> SUBSET Nonces]
    /\ batch \in [Windows -> SUBSET Nonces]
    /\ read \in [Windows -> SUBSET SUBSET Nonces]

(* Under the lock the parts are those that were read, and what will be     *)
(* folded is all there is.                                                 *)
GuardLocked ==
    /\ \A v, w \in Windows : batch[v] # {} /\ batch[w] # {} => v = w
    /\ \A w \in Windows : batch[w] # {} =>
          /\ read[w] = parts
          /\ Folds(read[w]) => OnDisk \subseteq seen[w]

WrittenIsSeen ==
    \A w \in Windows : pending[w] \cup batch[w] \subseteq seen[w]

GuardInv == GuardTyped /\ GuardLocked /\ WrittenIsSeen /\ NoncesKept

LEMMA GuardInitInv == GuardInit => GuardInv
BY DEF GuardInit, GuardInv, GuardTyped, GuardLocked, WrittenIsSeen,
       NoncesKept, OnDisk

LEMMA GuardOpenKeeps ==
    ASSUME GuardInv, NEW w \in Windows, GuardOpen(w)
    PROVE  GuardInv'
<1> USE DEF GuardInv
<1>1. /\ seen'[w] = OnDisk /\ pending'[w] = {} /\ batch'[w] = {}
      /\ \A v \in Windows : v # w =>
            /\ seen'[v] = seen[v] /\ pending'[v] = pending[v]
            /\ batch'[v] = batch[v] /\ read'[v] = read[v]
      /\ UNCHANGED <<folded, parts>>
  BY DEF GuardOpen, GuardTyped, diskGuardVars
<1>2. OnDisk' = OnDisk /\ OnDisk \subseteq Nonces
  BY <1>1 DEF OnDisk, GuardTyped
<1>3. GuardTyped'
  BY <1>2 DEF GuardOpen, GuardTyped, diskGuardVars
<1>4. GuardLocked'
  BY <1>1, <1>2 DEF GuardLocked
<1>5. WrittenIsSeen' /\ NoncesKept'
  BY <1>1, <1>2 DEF WrittenIsSeen, NoncesKept
<1> QED BY <1>3, <1>4, <1>5

LEMMA GuardAddKeeps ==
    ASSUME GuardInv, NEW w \in Windows, NEW n \in Nonces, GuardAdd(w, n)
    PROVE  GuardInv'
<1> USE DEF GuardInv
<1>1. /\ seen'[w] = seen[w] \cup {n} /\ pending'[w] = pending[w] \cup {n}
      /\ \A v \in Windows : v # w =>
            seen'[v] = seen[v] /\ pending'[v] = pending[v]
      /\ UNCHANGED <<folded, parts, batch, read>>
  BY DEF GuardAdd, GuardTyped, diskGuardVars
<1>2. OnDisk' = OnDisk
  BY <1>1 DEF OnDisk
<1>3. GuardTyped'
  BY DEF GuardAdd, GuardTyped, diskGuardVars
<1>4. GuardLocked'
  BY <1>1, <1>2 DEF GuardLocked
<1>5. WrittenIsSeen' /\ NoncesKept'
  BY <1>1, <1>2 DEF WrittenIsSeen, NoncesKept
<1> QED BY <1>3, <1>4, <1>5

LEMMA GuardReadKeeps ==
    ASSUME GuardInv, NEW w \in Windows, GuardRead(w)
    PROVE  GuardInv' /\ batch'[w] # {}
<1> USE DEF GuardInv
<1>1. /\ \A v \in Windows : batch[v] = {}
      /\ seen'[w] = seen[w] \cup IF Folds(parts) THEN OnDisk ELSE UNION parts
      /\ pending'[w] = {} /\ batch'[w] = pending[w] /\ read'[w] = parts
      /\ pending[w] # {}
      /\ \A v \in Windows : v # w =>
            /\ seen'[v] = seen[v] /\ pending'[v] = pending[v]
            /\ batch'[v] = batch[v] /\ read'[v] = read[v]
      /\ UNCHANGED <<folded, parts>>
  BY DEF GuardRead, GuardTyped, diskGuardVars, LockFree
<1>2. /\ OnDisk' = OnDisk /\ OnDisk \subseteq Nonces
      /\ UNION parts \subseteq OnDisk
  BY <1>1 DEF OnDisk, GuardTyped
<1>3. GuardTyped'
  BY <1>2 DEF GuardRead, GuardTyped, diskGuardVars
<1>4. GuardLocked'
  BY <1>1, <1>2 DEF GuardLocked
<1>5. WrittenIsSeen' /\ NoncesKept'
  BY <1>1, <1>2 DEF WrittenIsSeen, NoncesKept
<1> QED BY <1>1, <1>3, <1>4, <1>5

LEMMA GuardWriteKeeps ==
    ASSUME GuardInv, NEW w \in Windows, batch[w] # {}, GuardWrite(w)
    PROVE  GuardInv'
<1> USE DEF GuardInv
<1>1. /\ batch'[w] = {} /\ read'[w] = {}
      /\ \A v \in Windows : v # w => batch'[v] = batch[v] /\ batch[v] = {}
      /\ UNCHANGED <<seen, pending>>
  BY DEF GuardWrite, Unlock, GuardTyped, GuardLocked
<1>2. OnDisk \cup batch[w] \subseteq OnDisk'
  <2>1. CASE Folds(read[w])
    <3>1. folded' = seen[w] /\ OnDisk \subseteq seen[w]
      BY <2>1 DEF GuardWrite, GuardLocked
    <3> QED BY <3>1 DEF OnDisk, WrittenIsSeen
  <2>2. CASE ~Folds(read[w])
    BY <2>2 DEF GuardWrite, OnDisk
  <2> QED BY <2>1, <2>2
<1>3. GuardTyped'
  BY DEF GuardWrite, Unlock, GuardTyped
<1>4. GuardLocked'
  BY <1>1 DEF GuardLocked
<1>5. WrittenIsSeen' /\ NoncesKept'
  BY <1>1, <1>2 DEF WrittenIsSeen, NoncesKept
<1> QED BY <1>3, <1>4, <1>5

LEMMA GuardFailsKeeps ==
    ASSUME GuardInv, NEW w \in Windows, GuardFails(w)
    PROVE  GuardInv'
<1> USE DEF GuardInv
<1>1. /\ pending'[w] = pending[w] \cup batch[w] /\ batch'[w] = {}
      /\ \A v \in Windows : v # w =>
            /\ pending'[v] = pending[v]
            /\ batch'[v] = batch[v] /\ read'[v] = read[v]
      /\ UNCHANGED <<folded, parts, seen>>
  BY DEF GuardFails, Unlock, GuardTyped, diskGuardVars
<1>2. OnDisk' = OnDisk
  BY <1>1 DEF OnDisk
<1>3. GuardTyped'
  BY DEF GuardFails, Unlock, GuardTyped, diskGuardVars
<1>4. GuardLocked'
  BY <1>1, <1>2 DEF GuardLocked
<1>5. WrittenIsSeen' /\ NoncesKept'
  BY <1>1, <1>2 DEF WrittenIsSeen, NoncesKept
<1> QED BY <1>3, <1>4, <1>5

LEMMA GuardStutters ==
    ASSUME GuardInv, UNCHANGED guardVars
    PROVE  GuardInv'
<1>1. UNCHANGED <<folded, parts, seen, pending, batch, read>>
  BY DEF guardVars, diskGuardVars
<1> QED BY <1>1 DEF GuardInv, GuardTyped, GuardLocked, WrittenIsSeen,
                    NoncesKept, OnDisk, Folds

-----------------------------------------------------------------------------
(* The locals of a pass                                                    *)

PassFields == {"at", "step", "from", "next", "markers", "ledger", "tried",
               "todo", "hit", "stuck"}
IsPass(p) == p = [f \in PassFields |-> p[f]]
IsLedger(l) == l = [f \in {"done", "marks"} |-> l[f]]
IsShaped(p) == IsPass(p) /\ IsLedger(p.ledger)

(* Two passes that stand alike, but for what is done with one entry.       *)
SameFrame(p, q) ==
    /\ q.at = p.at /\ q.from = p.from /\ q.next = p.next /\ q.tried = p.tried

LEMMA IdleShaped ==
    /\ IsShaped(Idle) /\ Idle.at = "idle" /\ Idle.step = "next"
    /\ Idle.todo = {} /\ Idle.tried = {} /\ Idle.ledger = NoLedger
    /\ Idle.from = NoCursors /\ NoLedger.done = {} /\ NoLedger.marks = {}
    /\ IsLedger(NoLedger)
BY DEF Idle, NoLedger, IsShaped, IsPass, PassFields, IsLedger

(* An entry is taken from those to do, and from the marks.                 *)
Rest(p, t) == [p EXCEPT !.todo = @ \ {t}, !.ledger.marks = @ \ {t}]

LEMMA RestFields ==
    ASSUME NEW p, IsShaped(p), NEW t
    PROVE  /\ IsShaped(Rest(p, t)) /\ SameFrame(p, Rest(p, t))
           /\ Rest(p, t).step = p.step /\ Rest(p, t).stuck = p.stuck
           /\ Rest(p, t).todo = p.todo \ {t} /\ Rest(p, t).hit = p.hit
           /\ Rest(p, t).ledger.done = p.ledger.done
           /\ Rest(p, t).ledger.marks = p.ledger.marks \ {t}
<1> DEFINE l == [p.ledger EXCEPT !.marks = p.ledger.marks \ {t}]
           todo == p.todo \ {t}
           q == Rest(p, t)
<1>1. q = [p EXCEPT !.todo = todo, !.ledger = l]
  BY DEF Rest, IsShaped, IsPass, PassFields
<1>2. /\ IsLedger(l) /\ l.done = p.ledger.done
      /\ l.marks = p.ledger.marks \ {t}
  BY DEF IsShaped, IsLedger
<1> HIDE DEF l, q, todo
<1>3. /\ q.todo = todo /\ q.ledger = l /\ IsPass(q)
      /\ q.step = p.step /\ q.stuck = p.stuck /\ q.hit = p.hit
      /\ SameFrame(p, q)
  BY <1>1 DEF IsShaped, IsPass, PassFields, SameFrame
<1> QED BY <1>2, <1>3 DEF IsShaped, q, todo

LEMMA DoneFields ==
    ASSUME NEW p, IsShaped(p), NEW t
    PROVE  /\ IsShaped(Done(p, t)) /\ SameFrame(p, Done(p, t))
           /\ Done(p, t).step = "next" /\ Done(p, t).stuck = p.stuck
           /\ Done(p, t).todo = p.todo
           /\ Done(p, t).ledger.done = p.ledger.done \cup {t[2]}
           /\ Done(p, t).ledger.marks = p.ledger.marks
<1> DEFINE l == [p.ledger EXCEPT !.done = p.ledger.done \cup {t[2]}]
           q == Done(p, t)
<1>1. q = [p EXCEPT !.step = "next", !.hit = NoHit, !.ledger = l]
  BY DEF Done, IsShaped, IsPass, PassFields
<1>2. /\ IsLedger(l) /\ l.marks = p.ledger.marks
      /\ l.done = p.ledger.done \cup {t[2]}
  BY DEF IsShaped, IsLedger
<1> HIDE DEF l, q
<1>3. /\ q.step = "next" /\ q.ledger = l /\ IsPass(q)
      /\ q.todo = p.todo /\ q.stuck = p.stuck
      /\ SameFrame(p, q)
  BY <1>1 DEF IsShaped, IsPass, PassFields, SameFrame
<1> QED BY <1>2, <1>3 DEF IsShaped, q

LEMMA PutOffFields ==
    ASSUME NEW p, IsShaped(p), NEW t
    PROVE  /\ IsShaped(PutOff(p, t)) /\ SameFrame(p, PutOff(p, t))
           /\ PutOff(p, t).step = "next"
           /\ PutOff(p, t).todo = p.todo
           /\ PutOff(p, t).ledger.done = p.ledger.done
           /\ p.ledger.marks \subseteq PutOff(p, t).ledger.marks
           /\ p.stuck \subseteq PutOff(p, t).stuck
           /\ t[1] = 0 => /\ t[2][1] \in PutOff(p, t).stuck
                          /\ PutOff(p, t).ledger.marks = p.ledger.marks
           /\ t[1] # 0 => PutOff(p, t).ledger.marks = p.ledger.marks \cup {t}
<1> DEFINE marks == IF t[1] = 0 THEN p.ledger.marks ELSE p.ledger.marks \cup {t}
           stuck == IF t[1] = 0 THEN p.stuck \cup {t[2][1]} ELSE p.stuck
           l == [p.ledger EXCEPT !.marks = marks]
           q == PutOff(p, t)
<1>1. q = [p EXCEPT !.step = "next", !.hit = NoHit, !.stuck = stuck,
                    !.ledger = l]
  BY DEF PutOff, IsShaped, IsPass, PassFields
<1> HIDE DEF q
<1>2. /\ IsLedger(l) /\ l.done = p.ledger.done /\ l.marks = marks
  <2> HIDE DEF marks
  <2> QED BY DEF IsShaped, IsLedger
<1> HIDE DEF l, stuck
<1>3. /\ q.step = "next" /\ q.ledger = l /\ IsPass(q)
      /\ q.todo = p.todo /\ q.stuck = stuck
      /\ SameFrame(p, q)
  BY <1>1 DEF IsShaped, IsPass, PassFields, SameFrame
<1> QED BY <1>2, <1>3 DEF IsShaped, q, stuck

LEMMA UnopenableFields ==
    ASSUME NEW p, IsShaped(p), NEW t, NEW b
    PROVE  /\ IsShaped(Unopenable(p, t, b)) /\ SameFrame(p, Unopenable(p, t, b))
           /\ Unopenable(p, t, b).step = p.step
           /\ Unopenable(p, t, b).stuck = p.stuck
           /\ Unopenable(p, t, b).todo = p.todo
           /\ Unopenable(p, t, b).ledger.done = p.ledger.done
           /\ Unopenable(p, t, b).ledger.marks
                 = p.ledger.marks \cup {<<b, t[2]>>}
<1> DEFINE marks == p.ledger.marks \cup {<<b, t[2]>>}
           l == [p.ledger EXCEPT !.marks = marks]
           q == Unopenable(p, t, b)
<1>1. q = [p EXCEPT !.ledger = l]
  BY DEF Unopenable, IsShaped, IsPass, PassFields
<1> HIDE DEF q
<1>2. /\ IsLedger(l) /\ l.done = p.ledger.done /\ l.marks = marks
  <2> HIDE DEF marks
  <2> QED BY DEF IsShaped, IsLedger
<1> HIDE DEF l
<1>3. /\ q.step = p.step /\ q.ledger = l /\ IsPass(q)
      /\ q.todo = p.todo /\ q.stuck = p.stuck
      /\ SameFrame(p, q)
  BY <1>1 DEF IsShaped, IsPass, PassFields, SameFrame
<1> QED BY <1>2, <1>3 DEF IsShaped, q

LEMMA HandFields ==
    ASSUME NEW p, IsShaped(p), NEW t, NEW step, NEW shows
    PROVE  /\ IsShaped(Hand(p, t, step, shows))
           /\ SameFrame(p, Hand(p, t, step, shows))
           /\ Hand(p, t, step, shows).step = step
           /\ Hand(p, t, step, shows).stuck = p.stuck
           /\ Hand(p, t, step, shows).todo = p.todo
           /\ Hand(p, t, step, shows).ledger = p.ledger
           /\ Hand(p, t, step, shows).hit.build = t[1]
           /\ Hand(p, t, step, shows).hit.entry = t[2]
           /\ Hand(p, t, step, shows).hit.intro = {IntroOf(t[2])}
<1> DEFINE hit == [build |-> t[1], entry |-> t[2],
                   intro |-> {IntroOf(t[2])}, shows |-> shows]
           q == Hand(p, t, step, shows)
<1>1. q = [p EXCEPT !.step = step, !.hit = hit]
  BY DEF Hand, IsShaped, IsPass, PassFields
<1>2. hit.build = t[1] /\ hit.entry = t[2] /\ hit.intro = {IntroOf(t[2])}
  OBVIOUS
<1> HIDE DEF q, hit
<1>3. /\ q.step = step /\ q.ledger = p.ledger /\ IsPass(q)
      /\ q.todo = p.todo /\ q.stuck = p.stuck /\ q.hit = hit
      /\ SameFrame(p, q)
  BY <1>1 DEF IsShaped, IsPass, PassFields, SameFrame
<1> QED BY <1>2, <1>3 DEF IsShaped, q

(* The next step for the entry in hand.                                    *)
LEMMA StepFields ==
    ASSUME NEW p, IsShaped(p), NEW step
    PROVE  /\ IsShaped([p EXCEPT !.step = step])
           /\ SameFrame(p, [p EXCEPT !.step = step])
           /\ [p EXCEPT !.step = step].step = step
           /\ [p EXCEPT !.step = step].stuck = p.stuck
           /\ [p EXCEPT !.step = step].todo = p.todo
           /\ [p EXCEPT !.step = step].hit = p.hit
           /\ [p EXCEPT !.step = step].ledger = p.ledger
<1> DEFINE q == [p EXCEPT !.step = step]
<1>1. q = [p EXCEPT !.step = step]
  OBVIOUS
<1> HIDE DEF q
<1>2. /\ q.step = step /\ q.ledger = p.ledger /\ IsPass(q)
      /\ q.todo = p.todo /\ q.stuck = p.stuck /\ q.hit = p.hit
      /\ SameFrame(p, q)
  BY <1>1 DEF IsShaped, IsPass, PassFields, SameFrame
<1> QED BY <1>2 DEF IsShaped, q

LEMMA AtFields ==
    ASSUME NEW p, IsShaped(p), NEW at
    PROVE  /\ IsShaped([p EXCEPT !.at = at])
           /\ [p EXCEPT !.at = at].at = at
           /\ [p EXCEPT !.at = at].from = p.from
           /\ [p EXCEPT !.at = at].next = p.next
           /\ [p EXCEPT !.at = at].tried = p.tried
           /\ [p EXCEPT !.at = at].step = p.step
           /\ [p EXCEPT !.at = at].stuck = p.stuck
           /\ [p EXCEPT !.at = at].todo = p.todo
           /\ [p EXCEPT !.at = at].hit = p.hit
           /\ [p EXCEPT !.at = at].ledger = p.ledger
<1> DEFINE q == [p EXCEPT !.at = at]
<1>1. q = [p EXCEPT !.at = at]
  OBVIOUS
<1> HIDE DEF q
<1>2. /\ q.at = at /\ q.from = p.from /\ q.next = p.next
      /\ q.tried = p.tried
      /\ q.step = p.step /\ q.ledger = p.ledger /\ IsPass(q)
      /\ q.todo = p.todo /\ q.stuck = p.stuck /\ q.hit = p.hit
  BY <1>1 DEF IsShaped, IsPass, PassFields
<1> QED BY <1>2 DEF IsShaped, q

-----------------------------------------------------------------------------
(* What a pass owes.  E are the entries published, K those whose key is on *)
(* disk, L those the first build cannot open, N how many each shard has.   *)

Reached(c, N) == \A s \in Shards : c[s].next \in Nat /\ c[s].next <= N[s]
Behind(c, E, G) == \A e \in E : e[2] <= c[e[1]].next => e \in G

LedgerSound(l, K, L) ==
    /\ IsLedger(l)
    /\ l.done \subseteq K
    /\ \A m \in l.marks : m[1] # 0 /\ m[2] \in L

Between(p, E) ==
    {e \in E : e[2] > p.from[e[1]].next /\ e[2] <= p.next[e[1]].next}

PassBase(p, E, K, L, N) ==
    /\ IsShaped(p)
    /\ Reached(p.from, N) /\ Behind(p.from, E, K \cup L)
    /\ LedgerSound(p.ledger, K, L)
    /\ \A t \in p.todo : t[2] \in E /\ (t[1] # 0 => t[2] \in L)
    /\ p.at \in {"hits", "save"} => Reached(p.next, N)

(* All but the entries of H is accounted for.                              *)
TriedBut(p, H) == \A e \in p.tried : e \in Settled(p.ledger) \cup H
MovedBut(p, E, H) ==
    \A e \in Between(p, E) :
        \/ e \in Settled(p.ledger) \cup H
        \/ <<0, e>> \in p.todo
        \/ e[1] \in p.stuck

(* All but t, which is in hand.                                            *)
PassOwes(p, t, E, K, L, N) ==
    /\ PassBase(p, E, K, L, N)
    /\ p.at = "hits"
    /\ t[2] \in E
    /\ t[1] # 0 => t[2] \in L
    /\ TriedBut(p, IF t[1] = 0 THEN {} ELSE {t[2]})
    /\ MovedBut(p, E, {t[2]})

PassSound(p, E, K, L, N) ==
    /\ PassBase(p, E, K, L, N)
    /\ p.step = "next" =>
          /\ TriedBut(p, {})
          /\ p.at \in {"hits", "save"} => MovedBut(p, E, {})
          /\ p.at = "save" => p.todo = {}
    /\ p.step # "next" => PassOwes(p, InHand(p), E, K, L, N)
    /\ p.step \in {"show", "guard", "flush"} => p.hit.entry \in K

LEMMA TakeOwes ==
    ASSUME NEW E, NEW K, NEW L, NEW N, NEW p, PassSound(p, E, K, L, N),
           p.step = "next", p.at = "hits", NEW t \in p.todo
    PROVE  PassOwes(Rest(p, t), t, E, K, L, N) /\ Rest(p, t).step = "next"
<1> DEFINE q == Rest(p, t)
<1>1. /\ IsShaped(q) /\ SameFrame(p, q) /\ q.step = "next"
      /\ q.stuck = p.stuck /\ q.todo = p.todo \ {t}
      /\ q.ledger.done = p.ledger.done
      /\ q.ledger.marks = p.ledger.marks \ {t}
  BY RestFields DEF PassSound, PassBase
<1> HIDE DEF q
<1>2. PassBase(q, E, K, L, N)
  BY <1>1 DEF PassSound, PassBase, SameFrame, LedgerSound, IsShaped
<1>3. \A e \in Settled(p.ledger) :
         e \in Settled(q.ledger) \/ (t[1] # 0 /\ e = t[2])
  BY <1>1 DEF Settled, PassSound, PassBase, LedgerSound
<1>4. TriedBut(q, IF t[1] = 0 THEN {} ELSE {t[2]})
  BY <1>1, <1>3 DEF TriedBut, PassSound, SameFrame
<1>5. MovedBut(q, E, {t[2]})
  <2>1. \A e : <<0, e>> \in p.todo => <<0, e>> \in q.todo \/ e = t[2]
    BY <1>1
  <2>2. p.stuck = q.stuck /\ Between(q, E) = Between(p, E)
    BY <1>1 DEF Between, SameFrame
  <2>3. MovedBut(p, E, {})
    BY DEF PassSound
  <2> QED BY <1>3, <2>1, <2>2, <2>3 DEF MovedBut
<1>6. t[2] \in E /\ (t[1] # 0 => t[2] \in L) /\ q.at = "hits"
  BY <1>1 DEF PassSound, PassBase, SameFrame
<1> QED BY <1>1, <1>2, <1>4, <1>5, <1>6 DEF PassOwes, q

(* The entry was done before.                                              *)
LEMMA RestSound ==
    ASSUME NEW E, NEW K, NEW L, NEW N, NEW p, NEW t,
           PassOwes(p, t, E, K, L, N),
           p.step = "next", t[2] \in p.ledger.done
    PROVE  PassSound(p, E, K, L, N)
BY DEF PassOwes, PassSound, TriedBut, MovedBut, Settled

LEMMA DoneSound ==
    ASSUME NEW E, NEW K, NEW L, NEW N, NEW p, NEW t,
           PassOwes(p, t, E, K, L, N), t[2] \in K
    PROVE  PassSound(Done(p, t), E, K, L, N)
<1> DEFINE q == Done(p, t)
<1>1. /\ IsShaped(q) /\ SameFrame(p, q) /\ q.step = "next"
      /\ q.stuck = p.stuck /\ q.todo = p.todo
      /\ q.ledger.done = p.ledger.done \cup {t[2]}
      /\ q.ledger.marks = p.ledger.marks
  BY DoneFields DEF PassOwes, PassBase
<1> HIDE DEF q
<1>2. PassBase(q, E, K, L, N)
  BY <1>1 DEF PassOwes, PassBase, SameFrame, LedgerSound, IsShaped
<1>3. Settled(p.ledger) \cup {t[2]} \subseteq Settled(q.ledger)
  BY <1>1 DEF Settled
<1>4. TriedBut(q, {}) /\ MovedBut(q, E, {})
  BY <1>1, <1>3 DEF TriedBut, MovedBut, Between, PassOwes, SameFrame
<1> QED BY <1>1, <1>2, <1>4 DEF PassSound, PassOwes, SameFrame, q

LEMMA PutOffSound ==
    ASSUME NEW E, NEW K, NEW L, NEW N, NEW p, NEW t,
           PassOwes(p, t, E, K, L, N)
    PROVE  PassSound(PutOff(p, t), E, K, L, N)
<1> DEFINE q == PutOff(p, t)
<1>1. /\ IsShaped(q) /\ SameFrame(p, q) /\ q.step = "next"
      /\ q.todo = p.todo /\ p.stuck \subseteq q.stuck
      /\ q.ledger.done = p.ledger.done
      /\ p.ledger.marks \subseteq q.ledger.marks
      /\ t[1] = 0 => t[2][1] \in q.stuck /\ q.ledger.marks = p.ledger.marks
      /\ t[1] # 0 => q.ledger.marks = p.ledger.marks \cup {t}
  BY PutOffFields DEF PassOwes, PassBase
<1> HIDE DEF q
<1>2. PassBase(q, E, K, L, N)
  BY <1>1 DEF PassOwes, PassBase, SameFrame, LedgerSound, IsShaped
<1>3. /\ Settled(p.ledger) \subseteq Settled(q.ledger)
      /\ t[1] # 0 => t[2] \in Settled(q.ledger)
  BY <1>1 DEF Settled
<1>4. TriedBut(q, {})
  BY <1>1, <1>3 DEF TriedBut, PassOwes, SameFrame
<1>5. MovedBut(q, E, {})
  BY <1>1, <1>3 DEF MovedBut, Between, PassOwes, SameFrame
<1> QED BY <1>1, <1>2, <1>4, <1>5 DEF PassSound, PassOwes, SameFrame, q

LEMMA UnopenableSound ==
    ASSUME NEW E, NEW K, NEW L, NEW N, NEW p, NEW t, NEW b,
           PassOwes(p, t, E, K, L, N),
           p.step = "next", b # 0, t[2] \in L
    PROVE  PassSound(Unopenable(p, t, b), E, K, L, N)
<1> DEFINE q == Unopenable(p, t, b)
<1>1. /\ IsShaped(q) /\ SameFrame(p, q) /\ q.step = "next"
      /\ q.todo = p.todo /\ q.stuck = p.stuck
      /\ q.ledger.done = p.ledger.done
      /\ q.ledger.marks = p.ledger.marks \cup {<<b, t[2]>>}
  BY UnopenableFields DEF PassOwes, PassBase
<1> HIDE DEF q
<1>2. PassBase(q, E, K, L, N)
  BY <1>1 DEF PassOwes, PassBase, SameFrame, LedgerSound, IsShaped
<1>3. Settled(p.ledger) \cup {t[2]} \subseteq Settled(q.ledger)
  <2>1. <<b, t[2]>> \in q.ledger.marks /\ <<b, t[2]>>[2] = t[2]
    BY <1>1
  <2>2. t[2] \in Settled(q.ledger)
    BY <2>1 DEF Settled
  <2> QED BY <1>1, <2>2 DEF Settled
<1>4. TriedBut(q, {}) /\ MovedBut(q, E, {})
  BY <1>1, <1>3 DEF TriedBut, MovedBut, Between, PassOwes, SameFrame
<1> QED BY <1>1, <1>2, <1>4 DEF PassSound, PassOwes, SameFrame, q

LEMMA HandSound ==
    ASSUME NEW E, NEW K, NEW L, NEW N, NEW p, NEW t, NEW step, NEW shows,
           PassOwes(p, t, E, K, L, N), step # "next",
           step \in {"show", "guard", "flush"} => t[2] \in K
    PROVE  PassSound(Hand(p, t, step, shows), E, K, L, N)
<1> DEFINE q == Hand(p, t, step, shows)
<1>1. /\ IsShaped(q) /\ SameFrame(p, q) /\ q.step = step
      /\ q.todo = p.todo /\ q.stuck = p.stuck /\ q.ledger = p.ledger
      /\ q.hit.build = t[1] /\ q.hit.entry = t[2]
  BY HandFields DEF PassOwes, PassBase
<1> HIDE DEF q
<1>2. PassBase(q, E, K, L, N)
  BY <1>1 DEF PassOwes, PassBase, SameFrame
<1>3. InHand(q)[1] = t[1] /\ InHand(q)[2] = t[2]
  BY <1>1 DEF InHand
<1>4. /\ TriedBut(q, IF t[1] = 0 THEN {} ELSE {t[2]})
      /\ MovedBut(q, E, {t[2]})
  BY <1>1 DEF TriedBut, MovedBut, Between, PassOwes, SameFrame
<1>5. PassOwes(q, InHand(q), E, K, L, N)
  BY <1>1, <1>2, <1>3, <1>4 DEF PassOwes, SameFrame
<1> QED BY <1>1, <1>2, <1>5 DEF PassSound, q

LEMMA StepSound ==
    ASSUME NEW E, NEW K, NEW L, NEW N, NEW p, NEW step,
           PassSound(p, E, K, L, N), p.step # "next", step # "next",
           p.hit.entry \in K
    PROVE  PassSound([p EXCEPT !.step = step], E, K, L, N)
<1> DEFINE q == [p EXCEPT !.step = step]
<1>1. /\ IsShaped(q) /\ SameFrame(p, q) /\ q.step = step
      /\ q.todo = p.todo /\ q.stuck = p.stuck /\ q.ledger = p.ledger
      /\ q.hit = p.hit
  BY StepFields DEF PassSound, PassBase
<1> HIDE DEF q
<1>2. PassBase(q, E, K, L, N)
  BY <1>1 DEF PassSound, PassBase, SameFrame
<1>3. InHand(q) = InHand(p)
  BY <1>1 DEF InHand
<1>4. PassOwes(p, InHand(p), E, K, L, N)
  BY DEF PassSound
<1>5. PassOwes(q, InHand(q), E, K, L, N)
  BY <1>1, <1>2, <1>3, <1>4
     DEF PassOwes, SameFrame, TriedBut, MovedBut, Between
<1> QED BY <1>1, <1>2, <1>5 DEF PassSound, q

(* The world goes on: entries are added, keys are kept.                    *)
Grows(E, K, L, N, F, J, M, O) ==
    /\ E \subseteq F /\ K \subseteq J /\ L \subseteq M
    /\ \A s \in Shards : N[s] \in Nat /\ O[s] \in Nat /\ N[s] <= O[s]
    /\ \A e \in F \ E : e[1] \in Shards /\ e[2] \in Nat /\ e[2] > N[e[1]]

LEMMA CursorGrows ==
    ASSUME NEW E, NEW K, NEW L, NEW N, NEW F, NEW J, NEW M, NEW O,
           Grows(E, K, L, N, F, J, M, O), NEW c, Reached(c, N)
    PROVE  /\ Reached(c, O)
           /\ Behind(c, E, K \cup L) => Behind(c, F, J \cup M)
           /\ \A e \in F \ E : ~(e[2] <= c[e[1]].next)
<1>1. Reached(c, O)
  <2> SUFFICES ASSUME NEW s \in Shards
               PROVE  c[s].next \in Nat /\ c[s].next <= O[s]
    BY DEF Reached
  <2>1. /\ c[s].next \in Nat /\ c[s].next <= N[s]
        /\ N[s] \in Nat /\ O[s] \in Nat /\ N[s] <= O[s]
    BY DEF Reached, Grows
  <2> QED BY <2>1
<1>2. ASSUME NEW e \in F \ E PROVE ~(e[2] <= c[e[1]].next)
  <2>1. /\ e[1] \in Shards /\ e[2] \in Nat /\ e[2] > N[e[1]]
        /\ N[e[1]] \in Nat
    BY DEF Grows
  <2>2. c[e[1]].next \in Nat /\ c[e[1]].next <= N[e[1]]
    BY <2>1 DEF Reached
  <2> QED BY <2>1, <2>2
<1>3. Behind(c, E, K \cup L) => Behind(c, F, J \cup M)
  BY <1>2 DEF Behind, Grows
<1> QED BY <1>1, <1>2, <1>3

LEMMA LedgerGrows ==
    ASSUME NEW E, NEW K, NEW L, NEW N, NEW F, NEW J, NEW M, NEW O,
           Grows(E, K, L, N, F, J, M, O), NEW l, LedgerSound(l, K, L)
    PROVE  LedgerSound(l, J, M)
BY DEF LedgerSound, Grows

LEMMA PassGrows ==
    ASSUME NEW E, NEW K, NEW L, NEW N, NEW F, NEW J, NEW M, NEW O,
           Grows(E, K, L, N, F, J, M, O),
           NEW p, PassSound(p, E, K, L, N)
    PROVE  PassSound(p, F, J, M, O)
<1>1. PassBase(p, E, K, L, N)
  BY DEF PassSound
<1>2. \A c : Reached(c, N) =>
         /\ Reached(c, O)
         /\ Behind(c, E, K \cup L) => Behind(c, F, J \cup M)
         /\ \A e \in F \ E : ~(e[2] <= c[e[1]].next)
  BY CursorGrows
<1>3. LedgerSound(p.ledger, J, M)
  BY <1>1, LedgerGrows DEF PassBase
<1>4. /\ Reached(p.from, O) /\ Behind(p.from, F, J \cup M)
      /\ LedgerSound(p.ledger, J, M)
      /\ \A e \in F \ E : ~(e[2] <= p.from[e[1]].next)
  BY <1>1, <1>2, <1>3 DEF PassBase
<1>5. p.at \in {"hits", "save"} =>
         Reached(p.next, O) /\ \A e \in F \ E : ~(e[2] <= p.next[e[1]].next)
  BY <1>1, <1>2 DEF PassBase
<1>6. PassBase(p, F, J, M, O)
  BY <1>1, <1>4, <1>5 DEF PassBase, Grows
<1>7. p.at \in {"hits", "save"} => Between(p, F) \subseteq Between(p, E)
  BY <1>5 DEF Between
<1>8. ASSUME NEW H, p.at \in {"hits", "save"}, MovedBut(p, E, H)
      PROVE  MovedBut(p, F, H)
  BY <1>7, <1>8 DEF MovedBut
<1>9. p.step # "next" => PassOwes(p, InHand(p), F, J, M, O)
  <2> SUFFICES ASSUME p.step # "next"
               PROVE  PassOwes(p, InHand(p), F, J, M, O)
    OBVIOUS
  <2>1. PassOwes(p, InHand(p), E, K, L, N)
    BY DEF PassSound
  <2> QED BY <1>6, <1>8, <2>1 DEF PassOwes, Grows
<1> QED BY <1>6, <1>8, <1>9 DEF PassSound, Grows

-----------------------------------------------------------------------------
(* The invariant                                                           *)

KeptEntries == {e \in Entries : keys[IntroOf(e)] # 0}
LaterEntries == {e \in Entries : OpensAt[IntroOf(e)] > scene.build}
Lengths == [s \in Shards |-> Len(chain[s])]

EntryRecord == [intro : Nonces, at : Nat \ {0}]

LaneTyped ==
    /\ chain \in [Shards -> Seq(EntryRecord)]
    /\ IsFiniteSet(Entries)
    /\ keys \in [Nonces -> Nat]
    /\ mem \in [Windows -> [Nonces -> Nat]]
    /\ dirty \in [Windows -> BOOLEAN]
    /\ build \in [Windows -> Builds]
    /\ pass = [w \in Windows |-> pass[w]]
    /\ scene \in Scenes
    /\ \A w \in Windows : build[w] >= scene.build

(* What is on disk moves past no entry whose key is not there.             *)
DiskSound ==
    /\ Reached(cursors, Lengths)
    /\ Behind(cursors, Entries, KeptEntries \cup LaterEntries)
    /\ LedgerSound(ledger, KeptEntries, LaterEntries)

(* An introduction is only taken for seen when its key is on disk.         *)
KnownIsKept ==
    \A n \in Nonces : keys[n] = 0 =>
        n \notin OnDisk /\ \A w \in Windows : n \notin seen[w]

(* A window accounts for what it moves past, and what its memory holds is  *)
(* on disk, about to be written, or known to be missing there.             *)
WindowOk(q, m, d, b) ==
    /\ PassSound(q, Entries, KeptEntries, LaterEntries, Lengths)
    /\ q.step # "next" => q.hit.intro = {IntroOf(q.hit.entry)}
    /\ q.step = "write" => m[IntroOf(q.hit.entry)] # 0
    /\ q.step = "flush" => b # {}
    /\ \A n \in Nonces : m[n] # 0 =>
          keys[n] # 0 \/ d \/ (q.step = "write" /\ n = IntroOf(q.hit.entry))

WindowSound(w) == WindowOk(pass[w], mem[w], dirty[w], batch[w])

LaneInv ==
    /\ GuardInv /\ LaneTyped /\ DiskSound /\ KnownIsKept
    /\ \A w \in Windows : WindowSound(w)

LEMMA EntryIs ==
    /\ \A e \in Entries :
          /\ e = <<e[1], e[2]>> /\ e[1] \in Shards
          /\ e[2] \in DOMAIN chain[e[1]]
    /\ \A s \in Shards : \A i \in DOMAIN chain[s] : <<s, i>> \in Entries
<1>1. \A e \in Entries : \E s \in Shards : e \in {s} \X DOMAIN chain[s]
  BY DEF Entries
<1>2. \A s \in Shards : \A i \in DOMAIN chain[s] : <<s, i>> \in Entries
  BY DEF Entries
<1> QED BY <1>1, <1>2

LEMMA EntryTyped ==
    ASSUME LaneTyped, NEW e \in Entries
    PROVE  /\ e[1] \in Shards /\ e[2] \in Nat \ {0}
           /\ e[2] <= Len(chain[e[1]])
           /\ IntroOf(e) \in Nonces /\ TimeOf(e) \in Nat \ {0}
<1>1. e[1] \in Shards /\ e[2] \in DOMAIN chain[e[1]]
  BY EntryIs
<1>2. chain[e[1]] \in Seq(EntryRecord)
  BY <1>1 DEF LaneTyped
<1>3. /\ e[2] \in 1..Len(chain[e[1]])
      /\ chain[e[1]][e[2]] \in EntryRecord
  BY <1>1, <1>2
<1>4. Len(chain[e[1]]) \in Nat
  BY <1>2
<1> QED BY <1>1, <1>3, <1>4 DEF IntroOf, TimeOf, EntryRecord

(* The steps of a window leave the chain alone and lose no key.            *)
LEMMA StillGrows ==
    ASSUME LaneInv, UNCHANGED <<chain, scene>>,
           \A n \in Nonces : keys[n] # 0 => keys'[n] # 0
    PROVE  /\ Entries' = Entries /\ LaterEntries' = LaterEntries
           /\ Lengths' = Lengths /\ KeptEntries \subseteq KeptEntries'
           /\ Grows(Entries, KeptEntries, LaterEntries, Lengths,
                    Entries', KeptEntries', LaterEntries', Lengths')
<1>1. Entries' = Entries
  BY DEF Entries
<1>2. LaterEntries' = LaterEntries
  BY <1>1 DEF LaterEntries, IntroOf
<1>3. Lengths' = Lengths
  BY DEF Lengths
<1>4. KeptEntries \subseteq KeptEntries'
  BY <1>1, EntryTyped DEF KeptEntries, IntroOf, LaneInv
<1>5. \A s \in Shards : Lengths[s] \in Nat
  BY DEF Lengths, LaneInv, LaneTyped
<1> QED BY <1>1, <1>2, <1>3, <1>4, <1>5 DEF Grows

LEMMA DiskKeeps ==
    ASSUME LaneInv, UNCHANGED <<cursors, ledger>>,
           Grows(Entries, KeptEntries, LaterEntries, Lengths,
                 Entries', KeptEntries', LaterEntries', Lengths')
    PROVE  DiskSound'
<1>1. /\ Reached(cursors, Lengths')
      /\ Behind(cursors, Entries', KeptEntries' \cup LaterEntries')
      /\ LedgerSound(ledger, KeptEntries', LaterEntries')
  BY CursorGrows, LedgerGrows DEF LaneInv, DiskSound
<1> QED BY <1>1 DEF DiskSound

(* A window that does nothing.                                             *)
LEMMA OtherKeeps ==
    ASSUME LaneInv, NEW v \in Windows,
           Grows(Entries, KeptEntries, LaterEntries, Lengths,
                 Entries', KeptEntries', LaterEntries', Lengths'),
           \A e \in Entries : IntroOf(e)' = IntroOf(e),
           \A n \in Nonces : keys[n] # 0 => keys'[n] # 0,
           pass'[v] = pass[v], mem'[v] = mem[v],
           dirty'[v] = dirty[v], batch'[v] = batch[v]
    PROVE  WindowSound(v)'
<1> DEFINE q == pass[v]
<1>1. WindowOk(q, mem[v], dirty[v], batch[v])
  BY DEF LaneInv, WindowSound
<1>2. PassSound(q, Entries', KeptEntries', LaterEntries', Lengths')
  BY <1>1, PassGrows DEF WindowOk
<1>3. q.step # "next" => q.hit.entry \in Entries
  <2> SUFFICES ASSUME q.step # "next" PROVE q.hit.entry \in Entries
    OBVIOUS
  <2>1. PassOwes(q, InHand(q), Entries, KeptEntries, LaterEntries, Lengths)
    BY <1>1 DEF WindowOk, PassSound
  <2> QED BY <2>1 DEF PassOwes, InHand
<1>4. q.step # "next" => IntroOf(q.hit.entry)' = IntroOf(q.hit.entry)
  BY <1>3
<1> QED BY <1>1, <1>2, <1>4 DEF WindowSound, WindowOk

OnlyBy(w) ==
    /\ UNCHANGED <<chain, scene>>
    /\ \A n \in Nonces : keys[n] # 0 => keys'[n] # 0
    /\ \A v \in Windows : v # w =>
          /\ pass'[v] = pass[v] /\ mem'[v] = mem[v]
          /\ dirty'[v] = dirty[v] /\ batch'[v] = batch[v]

LEMMA WindowKeeps ==
    ASSUME LaneInv, NEW w \in Windows, OnlyBy(w),
           GuardInv', LaneTyped', DiskSound', KnownIsKept', WindowSound(w)'
    PROVE  LaneInv'
<1>1. Grows(Entries, KeptEntries, LaterEntries, Lengths,
            Entries', KeptEntries', LaterEntries', Lengths')
  BY StillGrows DEF OnlyBy
<1>2. \A e \in Entries : IntroOf(e)' = IntroOf(e)
  BY DEF OnlyBy, IntroOf
<1>3. ASSUME NEW v \in Windows, v # w PROVE WindowSound(v)'
  BY <1>1, <1>2, <1>3, OtherKeeps DEF OnlyBy
<1> QED BY <1>3 DEF LaneInv

(* A step that changes the locals of a pass, and no more than the memory   *)
(* of its window.                                                          *)
LEMMA QuietKeeps ==
    ASSUME LaneInv, NEW w \in Windows, NEW q, Becomes(w, q),
           UNCHANGED <<guardVars, chain, storeVars, dirty, build, scene>>,
           NEW m \in [Nonces -> Nat], mem' = [mem EXCEPT ![w] = m],
           WindowOk(q, m, dirty[w], batch[w])
    PROVE  LaneInv'
<1>1. /\ UNCHANGED <<chain, scene, cursors, ledger, keys, dirty, build>>
      /\ UNCHANGED <<folded, parts, seen, pending, batch, read>>
  BY DEF guardVars, diskGuardVars, storeVars
<1>2. /\ mem'[w] = m /\ pass'[w] = q
      /\ \A v \in Windows : v # w => mem'[v] = mem[v] /\ pass'[v] = pass[v]
  BY DEF LaneInv, LaneTyped, Becomes
<1>3. OnlyBy(w)
  BY <1>1, <1>2 DEF OnlyBy
<1>4. GuardInv'
  BY GuardStutters DEF LaneInv
<1>5. LaneTyped'
  BY <1>1 DEF LaneInv, LaneTyped, Becomes, Entries
<1>6. DiskSound'
  BY <1>1, <1>3, StillGrows, DiskKeeps DEF OnlyBy
<1>7. KnownIsKept'
  BY <1>1 DEF LaneInv, KnownIsKept, OnDisk
<1>8. WindowSound(w)'
  <2>1. /\ Entries' = Entries /\ LaterEntries' = LaterEntries
        /\ Lengths' = Lengths /\ KeptEntries' = KeptEntries
    BY <1>1 DEF Entries, LaterEntries, Lengths, KeptEntries, IntroOf
  <2>2. PassSound(pass'[w], Entries', KeptEntries', LaterEntries', Lengths')
    BY <1>2, <2>1 DEF WindowOk
  <2> QED BY <1>1, <1>2, <2>2 DEF WindowSound, WindowOk, IntroOf
<1> QED BY <1>3, <1>4, <1>5, <1>6, <1>7, <1>8, WindowKeeps

LEMMA SameMemory ==
    ASSUME LaneInv, NEW w \in Windows
    PROVE  mem[w] \in [Nonces -> Nat] /\ mem = [mem EXCEPT ![w] = mem[w]]
BY DEF LaneInv, LaneTyped

(* What changes in the window is its place in the pass, with no entry in   *)
(* hand before and after.                                                  *)
LEMMA BetweenEntries ==
    ASSUME LaneInv, NEW w \in Windows, NEW q, Becomes(w, q),
           UNCHANGED <<guardVars, chain, storeVars, pageVars, scene>>,
           pass[w].step = "next", q.step = "next",
           PassSound(q, Entries, KeptEntries, LaterEntries, Lengths)
    PROVE  LaneInv'
<1>1. WindowOk(q, mem[w], dirty[w], batch[w])
  BY DEF LaneInv, WindowSound, WindowOk
<1> QED BY <1>1, SameMemory, QuietKeeps DEF pageVars

LEMMA LoadKeeps ==
    ASSUME LaneInv, NEW w \in Windows, Load(w)
    PROVE  LaneInv'
<1>1. PICK c \in {cursors, NoCursors}, l \in {ledger, NoLedger} :
         Becomes(w, [Idle EXCEPT !.at = "states", !.from = c, !.ledger = l,
                                 !.tried = {m[2] : m \in l.marks}])
  BY DEF Load
<1> DEFINE tried == {m[2] : m \in l.marks}
           q == [Idle EXCEPT !.at = "states", !.from = c, !.ledger = l,
                             !.tried = tried]
<1>2. /\ Reached(c, Lengths)
      /\ Behind(c, Entries, KeptEntries \cup LaterEntries)
      /\ LedgerSound(l, KeptEntries, LaterEntries)
  <2>1. \A s \in Shards : Lengths[s] \in Nat
    BY DEF Lengths, LaneInv, LaneTyped
  <2>2. /\ Reached(NoCursors, Lengths)
        /\ Behind(NoCursors, Entries, KeptEntries \cup LaterEntries)
    BY <2>1, EntryTyped DEF NoCursors, Reached, Behind, LaneInv
  <2>3. LedgerSound(NoLedger, KeptEntries, LaterEntries)
    BY IdleShaped DEF LedgerSound
  <2> QED BY <2>2, <2>3 DEF LaneInv, DiskSound
<1>3. /\ IsPass(q) /\ q.at = "states" /\ q.from = c /\ q.ledger = l
      /\ q.tried = tried /\ q.todo = {} /\ q.step = "next"
  <2> HIDE DEF tried
  <2> QED BY IdleShaped DEF IsPass, PassFields, IsShaped
<1>4. Becomes(w, q)
  BY <1>1
<1> HIDE DEF q
<1>5. PassSound(q, Entries, KeptEntries, LaterEntries, Lengths)
  BY <1>2, <1>3
     DEF PassSound, PassBase, IsShaped, LedgerSound, TriedBut, Settled
<1>6. pass[w].step = "next"
  BY DEF Load, LaneInv, WindowSound, WindowOk, PassSound, PassOwes
<1> QED BY <1>3, <1>4, <1>5, <1>6, BetweenEntries DEF Load

LEMMA IdleSound ==
    ASSUME LaneInv
    PROVE  PassSound(Idle, Entries, KeptEntries, LaterEntries, Lengths)
<1>1. \A s \in Shards : Lengths[s] \in Nat
  BY DEF Lengths, LaneInv, LaneTyped
<1>2. /\ Reached(NoCursors, Lengths)
      /\ Behind(NoCursors, Entries, KeptEntries \cup LaterEntries)
  BY <1>1, EntryTyped DEF NoCursors, Reached, Behind, LaneInv
<1> QED BY <1>2, IdleShaped
           DEF PassSound, PassBase, LedgerSound, TriedBut

LEMMA ReadStatesKeeps ==
    ASSUME LaneInv, NEW w \in Windows, ReadStates(w)
    PROVE  LaneInv'
<1> DEFINE p == pass[w]
           markers == [s \in Shards |-> Len(chain[s])]
           q == [p EXCEPT !.at = "pages", !.markers = markers]
<1>1. /\ PassSound(p, Entries, KeptEntries, LaterEntries, Lengths)
      /\ p.step = "next" /\ p.at = "states"
  BY DEF ReadStates, LaneInv, WindowSound, WindowOk, PassSound, PassOwes
<1>2. /\ IsPass(q) /\ q.at = "pages" /\ q.from = p.from
      /\ q.ledger = p.ledger
      /\ q.tried = p.tried /\ q.todo = p.todo /\ q.step = "next"
  <2> HIDE DEF markers
  <2> QED BY <1>1 DEF IsPass, PassFields, IsShaped, PassSound, PassBase
<1>3. Becomes(w, q) \/ Becomes(w, Idle)
  BY DEF ReadStates
<1> HIDE DEF q
<1>4. PassSound(q, Entries, KeptEntries, LaterEntries, Lengths)
  BY <1>1, <1>2 DEF PassSound, PassBase, IsShaped, TriedBut
<1> QED BY <1>1, <1>2, <1>3, <1>4, IdleSound, IdleShaped, BetweenEntries
        DEF ReadStates

(* A page of a shard lists all that the cursor will move past.             *)
LEMMA ReadPagesKeeps ==
    ASSUME LaneInv, NEW w \in Windows, ReadPages(w)
    PROVE  LaneInv'
<1> DEFINE p == pass[w]
<1>1. /\ PassSound(p, Entries, KeptEntries, LaterEntries, Lengths)
      /\ p.step = "next" /\ p.at = "pages"
  BY DEF ReadPages, LaneInv, WindowSound, WindowOk, PassSound, PassOwes
<1>2. PICK shards \in SUBSET Changed(p) :
         Becomes(w, [p EXCEPT
            !.at = "hits",
            !.next = [s \in Shards |->
               IF s \in shards
               THEN [marker |-> p.markers[s], next |-> Len(chain[s])]
               ELSE p.from[s]],
            !.markers = Idle.markers,
            !.todo = {<<0, entry>> : entry \in Hits(p, shards, build[w])}
                        \cup {m \in p.ledger.marks : m[1] # build[w]}])
  BY DEF ReadPages
<1> DEFINE next == [s \in Shards |->
                      IF s \in shards
                      THEN [marker |-> p.markers[s], next |-> Len(chain[s])]
                      ELSE p.from[s]]
           markers == Idle.markers
           hits == Hits(p, shards, build[w])
           todo == {<<0, entry>> : entry \in hits}
                      \cup {m \in p.ledger.marks : m[1] # build[w]}
           q == [p EXCEPT !.at = "hits", !.next = next, !.markers = markers,
                          !.todo = todo]
<1>3. Becomes(w, q)
  BY <1>2
<1>4. /\ IsPass(q) /\ q.at = "hits" /\ q.from = p.from /\ q.next = next
      /\ q.ledger = p.ledger
      /\ q.tried = p.tried /\ q.todo = todo /\ q.step = "next"
  <2> HIDE DEF next, markers, todo
  <2> QED BY <1>1 DEF IsPass, PassFields, IsShaped, PassSound, PassBase
<1> HIDE DEF q
<1>5. Reached(next, Lengths)
  <2>1. \A s \in Shards : Len(chain[s]) \in Nat
    BY DEF LaneInv, LaneTyped
  <2> QED BY <1>1, <2>1 DEF Reached, Lengths, PassSound, PassBase
<1>6. hits \subseteq Entries
  BY DEF Hits
<1>7. \A t \in todo : t[2] \in Entries /\ (t[1] # 0 => t[2] \in LaterEntries)
  <2>1. \A t \in todo :
           (\E e \in hits : t = <<0, e>>) \/ t \in p.ledger.marks
    OBVIOUS
  <2>2. \A t \in p.ledger.marks : t[2] \in LaterEntries /\ t[2] \in Entries
    BY <1>1 DEF PassSound, PassBase, LedgerSound, LaterEntries
  <2> QED BY <1>6, <2>1, <2>2
<1>8. MovedBut(q, Entries, {})
  <2> SUFFICES ASSUME NEW e \in Between(q, Entries),
                      e \notin Settled(q.ledger)
               PROVE  <<0, e>> \in q.todo
    BY DEF MovedBut
  <2>1. /\ e \in Entries /\ e[1] \in Shards
        /\ e[2] > p.from[e[1]].next /\ e[2] <= next[e[1]].next
    BY <1>4, EntryIs DEF Between
  <2>2. e[1] \in shards
    <3>1. /\ p.from[e[1]].next \in Nat /\ e[2] \in Nat
      BY <1>1, <2>1, EntryTyped DEF PassSound, PassBase, Reached, LaneInv
    <3> QED BY <2>1, <3>1
  <2>3. /\ e \notin p.ledger.done
        /\ <<build[w], e>> \notin p.ledger.marks
    <3>1. <<build[w], e>> \in p.ledger.marks => e \in Settled(q.ledger)
      BY <1>4 DEF Settled
    <3> QED BY <1>4, <3>1 DEF Settled
  <2>4. e \in hits
    BY <2>1, <2>2, <2>3 DEF Hits
  <2> QED BY <1>4, <2>4
<1>9. PassBase(q, Entries, KeptEntries, LaterEntries, Lengths)
  <2> HIDE DEF next, todo
  <2> QED BY <1>1, <1>4, <1>5, <1>7 DEF PassSound, PassBase, IsShaped
<1>10. PassSound(q, Entries, KeptEntries, LaterEntries, Lengths)
  BY <1>1, <1>4, <1>8, <1>9 DEF PassSound, TriedBut
<1> QED BY <1>1, <1>3, <1>4, <1>10, BetweenEntries DEF ReadPages

-----------------------------------------------------------------------------
(* One entry                                                               *)

LEMMA KeptIs ==
    ASSUME NEW e \in Entries
    PROVE  /\ keys[IntroOf(e)] # 0 <=> e \in KeptEntries
           /\ OpensAt[IntroOf(e)] > scene.build <=> e \in LaterEntries
BY DEF KeptEntries, LaterEntries

(* What the window knows of an introduction: one that was seen is kept, as *)
(* is one in memory when nothing failed.                                   *)
LEMMA MemoryIsKept ==
    ASSUME LaneInv, NEW w \in Windows, NEW n \in Nonces
    PROVE  /\ n \in seen[w] => keys[n] # 0
           /\ pass[w].step # "write" /\ mem[w][n] # 0 /\ ~dirty[w]
                 => keys[n] # 0
BY DEF LaneInv, KnownIsKept, WindowSound, WindowOk

LEMMA ReceiveKeeps ==
    ASSUME LaneInv, NEW w \in Windows, NEW p, NEW t,
           PassOwes(p, t, Entries, KeptEntries, LaterEntries, Lengths),
           pass[w].step = "next",
           Receive(w, p, t),
           UNCHANGED <<guardVars, chain, storeVars, dirty, build, scene>>
    PROVE  LaneInv'
<1> DEFINE n == IntroOf(t[2])
           at == TimeOf(t[2])
           held == mem[w][n]
           known == n \in seen[w]
           upserts == ~known \/ held # 0
           writes == upserts /\ (Adopts(held, at) \/ dirty[w])
           shows == ~known /\ Shows(held, at)
           m == IF upserts /\ Adopts(held, at)
                THEN [mem[w] EXCEPT ![n] = at] ELSE mem[w]
<1>1. t[2] \in Entries
  BY DEF PassOwes
<1>2. n \in Nonces /\ at \in Nat \ {0}
  BY <1>1, EntryTyped DEF LaneInv
<1>3. /\ mem[w] \in [Nonces -> Nat] /\ held \in Nat
  BY <1>2, SameMemory
<1>4. mem' = [mem EXCEPT ![w] = m] /\ m \in [Nonces -> Nat]
  <2>1. CASE upserts /\ Adopts(held, at)
    BY <1>2, <1>3, <2>1 DEF Receive
  <2>2. CASE ~(upserts /\ Adopts(held, at))
    BY <1>3, <2>2, SameMemory DEF Receive
  <2> QED BY <2>1, <2>2
<1>5. CASE writes
  <2> DEFINE q == Hand(p, t, "write", shows)
  <2>1. Becomes(w, q)
    BY <1>5 DEF Receive
  <2>2. /\ q.step = "write" /\ q.hit.entry = t[2]
        /\ q.hit.intro = {n}
    BY HandFields DEF PassOwes, PassBase
  <2>3. PassSound(q, Entries, KeptEntries, LaterEntries, Lengths)
    BY HandSound
  <2>4. m[n] # 0
    BY <1>2, <1>3, <1>5 DEF Adopts
  <2>5. \A k \in Nonces : k # n => m[k] = mem[w][k]
    BY <1>3
  <2>6. \A k \in Nonces : mem[w][k] # 0 => keys[k] # 0 \/ dirty[w]
    BY DEF LaneInv, WindowSound, WindowOk
  <2> HIDE DEF q, m, writes
  <2>7. WindowOk(q, m, dirty[w], batch[w])
    BY <2>2, <2>3, <2>4, <2>5, <2>6 DEF WindowOk
  <2> QED BY <1>4, <2>1, <2>7, QuietKeeps
<1>6. CASE ~writes
  <2>1. m = mem[w]
    BY <1>6
  <2>2. t[2] \in KeptEntries
    BY <1>1, <1>2, <1>3, <1>6, KeptIs, MemoryIsKept DEF Adopts
  <2>3. CASE known
    <3> DEFINE q == Done(p, t)
    <3>1. Becomes(w, q)
      BY <1>6, <2>3 DEF Receive
    <3>2. PassSound(q, Entries, KeptEntries, LaterEntries, Lengths)
      BY <2>2, DoneSound
    <3>3. q.step = "next"
      BY DoneFields DEF PassOwes, PassBase
    <3> HIDE DEF q
    <3>4. WindowOk(q, mem[w], dirty[w], batch[w])
      BY <3>2, <3>3 DEF LaneInv, WindowSound, WindowOk
    <3> QED BY <1>4, <2>1, <3>1, <3>4, QuietKeeps
  <2>4. CASE ~known
    <3> DEFINE q == Hand(p, t, "show", shows)
    <3>1. Becomes(w, q)
      BY <1>6, <2>4 DEF Receive
    <3>2. PassSound(q, Entries, KeptEntries, LaterEntries, Lengths)
      BY <2>2, HandSound
    <3>3. /\ q.step = "show" /\ q.hit.entry = t[2]
          /\ q.hit.intro = {n}
      BY HandFields DEF PassOwes, PassBase
    <3> HIDE DEF q
    <3>4. WindowOk(q, mem[w], dirty[w], batch[w])
      BY <3>2, <3>3 DEF LaneInv, WindowSound, WindowOk
    <3> QED BY <1>4, <2>1, <3>1, <3>4, QuietKeeps
  <2> QED BY <2>3, <2>4
<1> QED BY <1>5, <1>6

LEMMA TakeKeeps ==
    ASSUME LaneInv, NEW w \in Windows, Take(w)
    PROVE  LaneInv'
<1> DEFINE p == pass[w]
<1>1. /\ p.at = "hits" /\ p.step = "next"
      /\ UNCHANGED <<guardVars, chain, storeVars, dirty, build, scene>>
      /\ PassSound(p, Entries, KeptEntries, LaterEntries, Lengths)
  BY DEF Take, LaneInv, WindowSound, WindowOk
<1>2. PICK t \in First(p.todo) :
         \/ /\ t[2] \in p.ledger.done
            /\ Becomes(w, Rest(p, t))
            /\ UNCHANGED mem
         \/ /\ Becomes(w, PutOff(Rest(p, t), t))
            /\ UNCHANGED mem
         \/ /\ OpensAt[IntroOf(t[2])] > build[w]
            /\ Becomes(w, Unopenable(Rest(p, t), t, build[w]))
            /\ UNCHANGED mem
         \/ Receive(w, Rest(p, t), t)
  BY DEF Take, Rest
<1> DEFINE r == Rest(p, t)
<1>3. t \in p.todo
  BY DEF First
<1>4. /\ PassOwes(r, t, Entries, KeptEntries, LaterEntries, Lengths)
      /\ r.step = "next" /\ IsShaped(r)
      /\ r.ledger.done = p.ledger.done
  BY <1>1, <1>3, TakeOwes, RestFields DEF PassSound, PassBase
<1>5. CASE t[2] \in p.ledger.done /\ Becomes(w, r) /\ UNCHANGED mem
  <2>1. PassSound(r, Entries, KeptEntries, LaterEntries, Lengths)
    BY <1>4, <1>5, RestSound
  <2> QED BY <1>1, <1>4, <1>5, <2>1, BetweenEntries DEF pageVars
<1>6. CASE Becomes(w, PutOff(r, t)) /\ UNCHANGED mem
  <2>1. /\ PassSound(PutOff(r, t), Entries, KeptEntries, LaterEntries,
                     Lengths)
        /\ PutOff(r, t).step = "next"
    BY <1>4, PutOffSound, PutOffFields
  <2> QED BY <1>1, <1>6, <2>1, BetweenEntries DEF pageVars
<1>7. CASE /\ OpensAt[IntroOf(t[2])] > build[w]
           /\ Becomes(w, Unopenable(r, t, build[w]))
           /\ UNCHANGED mem
  <2>1. /\ build[w] \in Nat \ {0} /\ scene.build \in Nat \ {0}
        /\ build[w] >= scene.build
    BY IntroLaneAssumption DEF LaneInv, LaneTyped
  <2>2. t[2] \in Entries
    BY <1>4 DEF PassOwes
  <2>3. OpensAt[IntroOf(t[2])] \in Nat
    BY <2>2, EntryTyped, IntroLaneAssumption DEF LaneInv
  <2>4. t[2] \in LaterEntries
    BY <1>7, <2>1, <2>2, <2>3, KeptIs
  <2>5. /\ PassSound(Unopenable(r, t, build[w]), Entries, KeptEntries,
                     LaterEntries, Lengths)
        /\ Unopenable(r, t, build[w]).step = "next"
    BY <1>4, <2>1, <2>4, UnopenableSound, UnopenableFields
  <2> QED BY <1>1, <1>7, <2>5, BetweenEntries DEF pageVars
<1>8. CASE Receive(w, r, t)
  BY <1>1, <1>4, <1>8, ReceiveKeeps
<1> QED BY <1>2, <1>5, <1>6, <1>7, <1>8

(* The entry in hand.                                                      *)
LEMMA HandIs ==
    ASSUME LaneInv, NEW w \in Windows, pass[w].step # "next"
    PROVE  /\ PassSound(pass[w], Entries, KeptEntries, LaterEntries, Lengths)
           /\ PassOwes(pass[w], InHand(pass[w]), Entries, KeptEntries,
                       LaterEntries, Lengths)
           /\ pass[w].hit.entry \in Entries
           /\ InHand(pass[w])[2] = pass[w].hit.entry
           /\ pass[w].hit.intro = {IntroOf(pass[w].hit.entry)}
           /\ IntroOf(pass[w].hit.entry) \in Nonces
<1>1. /\ PassSound(pass[w], Entries, KeptEntries, LaterEntries, Lengths)
      /\ PassOwes(pass[w], InHand(pass[w]), Entries, KeptEntries,
                  LaterEntries, Lengths)
      /\ pass[w].hit.intro = {IntroOf(pass[w].hit.entry)}
  BY DEF LaneInv, WindowSound, WindowOk, PassSound
<1>2. /\ InHand(pass[w])[2] = pass[w].hit.entry
      /\ pass[w].hit.entry \in Entries
  BY <1>1 DEF PassOwes, InHand
<1> QED BY <1>1, <1>2, EntryTyped DEF LaneInv

(* What is put off, or done, by a step that leaves the keys alone.         *)
LEMMA HandEnds ==
    ASSUME LaneInv, NEW w \in Windows, pass[w].step # "next",
           NEW q, \/ q = PutOff(pass[w], InHand(pass[w]))
                  \/ /\ q = Done(pass[w], InHand(pass[w]))
                     /\ pass[w].hit.entry \in KeptEntries
    PROVE  /\ PassSound(q, Entries, KeptEntries, LaterEntries, Lengths)
           /\ q.step = "next"
<1> DEFINE p == pass[w]
           t == InHand(p)
<1>1. /\ IsShaped(p) /\ t[2] = p.hit.entry
      /\ PassOwes(p, t, Entries, KeptEntries, LaterEntries, Lengths)
  BY HandIs DEF PassSound, PassBase
<1> HIDE DEF p, t
<1>2. /\ PassSound(PutOff(p, t), Entries, KeptEntries, LaterEntries, Lengths)
      /\ PutOff(p, t).step = "next"
  BY <1>1, PutOffSound, PutOffFields
<1>3. p.hit.entry \in KeptEntries =>
      /\ PassSound(Done(p, t), Entries, KeptEntries, LaterEntries, Lengths)
      /\ Done(p, t).step = "next"
  BY <1>1, DoneSound, DoneFields
<1> QED BY <1>2, <1>3 DEF p, t

LEMMA WriteFailsKeeps ==
    ASSUME LaneInv, NEW w \in Windows, pass[w].step = "write", WriteFails(w),
           UNCHANGED <<guardVars, chain, cursors, ledger, build, scene>>
    PROVE  LaneInv'
<1> DEFINE q == PutOff(pass[w], InHand(pass[w]))
<1>1. /\ UNCHANGED <<chain, scene, cursors, ledger, keys, mem, build>>
      /\ UNCHANGED <<folded, parts, seen, pending, batch, read>>
      /\ pass' = [pass EXCEPT ![w] = q] /\ dirty' = [dirty EXCEPT ![w] = TRUE]
  BY DEF guardVars, diskGuardVars, WriteFails, Becomes
<1>2. /\ PassSound(q, Entries, KeptEntries, LaterEntries, Lengths)
      /\ q.step = "next"
  BY HandEnds
<1> HIDE DEF q
<1>3. /\ dirty'[w] = TRUE /\ pass'[w] = q
      /\ \A v \in Windows : v # w => dirty'[v] = dirty[v] /\ pass'[v] = pass[v]
  BY <1>1 DEF LaneInv, LaneTyped
<1>4. OnlyBy(w)
  BY <1>1, <1>3 DEF OnlyBy
<1>5. GuardInv'
  BY GuardStutters DEF LaneInv
<1>6. LaneTyped'
  BY <1>1 DEF LaneInv, LaneTyped, Entries
<1>7. DiskSound'
  BY <1>1, <1>4, StillGrows, DiskKeeps DEF OnlyBy
<1>8. KnownIsKept'
  BY <1>1 DEF LaneInv, KnownIsKept, OnDisk
<1>9. WindowSound(w)'
  <2>1. /\ Entries' = Entries /\ LaterEntries' = LaterEntries
        /\ Lengths' = Lengths /\ KeptEntries' = KeptEntries
    BY <1>1 DEF Entries, LaterEntries, Lengths, KeptEntries, IntroOf
  <2>2. PassSound(pass'[w], Entries', KeptEntries', LaterEntries', Lengths')
    BY <1>2, <1>3, <2>1
  <2> QED BY <1>2, <1>3, <2>2 DEF WindowSound, WindowOk
<1> QED BY <1>4, <1>5, <1>6, <1>7, <1>8, <1>9, WindowKeeps

LEMMA WriteKeysKeeps ==
    ASSUME LaneInv, NEW w \in Windows, pass[w].step = "write", WriteKeys(w),
           UNCHANGED <<guardVars, chain, cursors, ledger, build, scene>>
    PROVE  LaneInv'
<1> DEFINE p == pass[w]
           n == IntroOf(p.hit.entry)
           merged == [k \in Nonces |-> IF mem[w][k] > keys[k] THEN mem[w][k]
                                       ELSE keys[k]]
<1>1. /\ UNCHANGED <<chain, scene, cursors, ledger, build>>
      /\ UNCHANGED <<folded, parts, seen, pending, batch, read>>
      /\ keys' = merged /\ mem' = [mem EXCEPT ![w] = merged]
      /\ dirty' = [dirty EXCEPT ![w] = FALSE]
  BY DEF guardVars, diskGuardVars, WriteKeys
<1>2. /\ mem[w] \in [Nonces -> Nat] /\ keys \in [Nonces -> Nat]
      /\ merged \in [Nonces -> Nat]
  BY SameMemory DEF LaneInv, LaneTyped
<1>3. \A k \in Nonces : merged[k] # 0 <=> keys[k] # 0 \/ mem[w][k] # 0
  BY <1>2
<1> HIDE DEF merged
<1>4. PICK q : /\ pass' = [pass EXCEPT ![w] = q]
               /\ \/ q = Done(p, InHand(p))
                  \/ q = [p EXCEPT !.step = "show"]
  BY DEF WriteKeys, Becomes
<1>5. /\ dirty'[w] = FALSE /\ pass'[w] = q /\ mem'[w] = keys'
      /\ \A v \in Windows : v # w => /\ dirty'[v] = dirty[v]
                                     /\ pass'[v] = pass[v]
                                     /\ mem'[v] = mem[v]
  BY <1>1, <1>4 DEF LaneInv, LaneTyped
<1>6. OnlyBy(w)
  BY <1>1, <1>3, <1>5 DEF OnlyBy
<1>7. /\ Entries' = Entries /\ LaterEntries' = LaterEntries
      /\ Lengths' = Lengths
      /\ Grows(Entries, KeptEntries, LaterEntries, Lengths,
               Entries', KeptEntries', LaterEntries', Lengths')
  BY <1>6, StillGrows DEF OnlyBy
<1>8. GuardInv'
  BY GuardStutters DEF LaneInv
<1>9. LaneTyped'
  BY <1>1, <1>2, <1>4, <1>7 DEF LaneInv, LaneTyped
<1>10. DiskSound'
  BY <1>1, <1>7, DiskKeeps
<1>11. KnownIsKept'
  BY <1>1, <1>3 DEF LaneInv, KnownIsKept, OnDisk
<1>12. /\ n \in Nonces /\ mem[w][n] # 0 /\ p.hit.entry \in Entries
       /\ p.hit.intro = {n}
  BY HandIs DEF LaneInv, WindowSound, WindowOk
<1>13. p.hit.entry \in KeptEntries'
  BY <1>1, <1>3, <1>7, <1>12 DEF KeptEntries, IntroOf
<1>14. /\ PassSound(p, Entries', KeptEntries', LaterEntries', Lengths')
       /\ IsShaped(p) /\ InHand(p)[2] = p.hit.entry
  <2>1. /\ PassSound(p, Entries, KeptEntries, LaterEntries, Lengths)
        /\ InHand(p)[2] = p.hit.entry
    BY HandIs
  <2>2. IsShaped(p)
    BY <2>1 DEF PassSound, PassBase
  <2> HIDE DEF p
  <2>3. PassSound(p, Entries', KeptEntries', LaterEntries', Lengths')
    BY <1>7, <2>1, PassGrows
  <2> QED BY <2>1, <2>2, <2>3
<1>15. /\ PassSound(q, Entries', KeptEntries', LaterEntries', Lengths')
       /\ q.step \in {"next", "show"}
       /\ q.step # "next" => q.hit = p.hit
  <2>1. CASE q = Done(p, InHand(p))
    <3>1. PassOwes(p, InHand(p), Entries', KeptEntries', LaterEntries',
                   Lengths')
      BY <1>14 DEF PassSound
    <3> QED BY <1>13, <1>14, <2>1, <3>1, DoneSound, DoneFields
  <2>2. CASE q = [p EXCEPT !.step = "show"]
    BY <1>13, <1>14, <2>2, StepSound, StepFields
  <2> QED BY <1>4, <2>1, <2>2
<1>16. WindowSound(w)'
  <2>1. IntroOf(p.hit.entry) = chain'[p.hit.entry[1]][p.hit.entry[2]].intro
    BY <1>1 DEF IntroOf
  <2> QED BY <1>5, <1>12, <1>15, <2>1 DEF WindowSound, WindowOk, IntroOf
<1> QED BY <1>6, <1>8, <1>9, <1>10, <1>11, <1>16, WindowKeeps

LEMMA WriteKeeps ==
    ASSUME LaneInv, NEW w \in Windows, Write(w)
    PROVE  LaneInv'
BY WriteFailsKeeps, WriteKeysKeeps DEF Write

(* A step of the pass that writes to the guard, or to the disk.            *)
LEMMA PassKeeps ==
    ASSUME LaneInv, NEW w \in Windows, NEW q, Becomes(w, q),
           UNCHANGED <<chain, keys, pageVars, scene>>,
           GuardInv', KnownIsKept', DiskSound',
           \A v \in Windows : v # w => batch'[v] = batch[v],
           PassSound(q, Entries, KeptEntries, LaterEntries, Lengths),
           q.step # "next" => q.hit = pass[w].hit /\ pass[w].step # "next",
           q.step # "write" /\ pass[w].step # "write",
           q.step = "flush" => batch'[w] # {}
    PROVE  LaneInv'
<1>1. UNCHANGED <<chain, scene, keys, mem, dirty, build>>
  BY DEF pageVars
<1>2. /\ pass'[w] = q
      /\ \A v \in Windows : v # w => pass'[v] = pass[v]
  BY DEF LaneInv, LaneTyped, Becomes
<1>3. OnlyBy(w)
  BY <1>1, <1>2 DEF OnlyBy
<1>4. LaneTyped'
  BY <1>1 DEF LaneInv, LaneTyped, Becomes, Entries
<1>5. WindowSound(w)'
  <2>1. /\ Entries' = Entries /\ LaterEntries' = LaterEntries
        /\ Lengths' = Lengths /\ KeptEntries' = KeptEntries
    BY <1>1 DEF Entries, LaterEntries, Lengths, KeptEntries, IntroOf
  <2>2. PassSound(pass'[w], Entries', KeptEntries', LaterEntries', Lengths')
    BY <1>2, <2>1
  <2>3. \A n \in Nonces : mem[w][n] # 0 => keys[n] # 0 \/ dirty[w]
    BY DEF LaneInv, WindowSound, WindowOk
  <2>4. q.step # "next" => q.hit.intro = {IntroOf(q.hit.entry)}
    BY HandIs
  <2>5. IntroOf(q.hit.entry) = chain'[q.hit.entry[1]][q.hit.entry[2]].intro
    BY <1>1 DEF IntroOf
  <2>6. (pass[w].step # "next")' =>
            pass'[w].hit.intro = {IntroOf(pass[w].hit.entry)'}
    BY <1>2, <2>4, <2>5 DEF IntroOf
  <2> QED BY <1>1, <1>2, <2>2, <2>3, <2>6 DEF WindowSound, WindowOk
<1> QED BY <1>3, <1>4, <1>5, WindowKeeps

(* The disk of a step that leaves it alone.                                *)
LEMMA StillDisk ==
    ASSUME LaneInv, UNCHANGED <<chain, storeVars, scene>>
    PROVE  DiskSound'
<1>1. UNCHANGED <<cursors, ledger, keys>>
  BY DEF storeVars
<1> QED BY <1>1, StillGrows, DiskKeeps

(* What the windows know when the guard changes.                           *)
LEMMA StillKept ==
    ASSUME LaneInv, UNCHANGED keys,
           \A n \in Nonces : keys[n] = 0 => n \notin OnDisk',
           \A v \in Windows, n \in Nonces :
              keys[n] = 0 => n \notin seen'[v]
    PROVE  KnownIsKept'
BY DEF KnownIsKept

LEMMA ShowKeeps ==
    ASSUME LaneInv, NEW w \in Windows, Show(w)
    PROVE  LaneInv'
<1> DEFINE p == pass[w]
<1>1. /\ p.step = "show"
      /\ UNCHANGED <<chain, storeVars, pageVars, scene>>
  BY DEF Show
<1>2. /\ PassSound(p, Entries, KeptEntries, LaterEntries, Lengths)
      /\ p.hit.intro = {IntroOf(p.hit.entry)}
      /\ IntroOf(p.hit.entry) \in Nonces
      /\ p.hit.entry \in KeptEntries /\ IsShaped(p)
  BY <1>1, HandIs DEF PassSound, PassBase
<1>3. UNCHANGED keys
  BY <1>1 DEF storeVars
<1>4. CASE /\ \E n \in p.hit.intro : GuardAdd(w, n)
           /\ Becomes(w, [p EXCEPT !.step = "guard"])
  <2> DEFINE q == [p EXCEPT !.step = "guard"]
             n == IntroOf(p.hit.entry)
  <2>1. GuardAdd(w, n) /\ n \in Nonces /\ keys[n] # 0
    BY <1>2, <1>4 DEF KeptEntries
  <2>2. GuardInv'
    BY <2>1, GuardAddKeeps DEF LaneInv
  <2>3. /\ UNCHANGED <<folded, parts, batch>>
        /\ seen' = [seen EXCEPT ![w] = seen[w] \cup {n}]
    BY <2>1 DEF GuardAdd, diskGuardVars
  <2>4. KnownIsKept'
    <3>1. OnDisk' = OnDisk
      BY <2>3 DEF OnDisk
    <3>2. \A v \in Windows : seen'[v] \subseteq seen[v] \cup {n}
      BY <2>3 DEF LaneInv, GuardInv, GuardTyped
    <3> QED BY <1>3, <2>1, <3>1, <3>2, StillKept DEF LaneInv, KnownIsKept
  <2>5. /\ PassSound(q, Entries, KeptEntries, LaterEntries, Lengths)
        /\ q.step = "guard" /\ q.hit = p.hit
    BY <1>1, <1>2, StepSound, StepFields
  <2>6. Becomes(w, q)
    BY <1>4
  <2> HIDE DEF q
  <2> QED BY <1>1, <1>3, <2>2, <2>3, <2>4, <2>5, <2>6, StillDisk, PassKeeps
<1>5. CASE UNCHANGED guardVars /\ Becomes(w, PutOff(p, InHand(p)))
  <2> DEFINE q == PutOff(p, InHand(p))
  <2>1. UNCHANGED <<folded, parts, seen, batch>> /\ GuardInv'
    BY <1>5, GuardStutters DEF guardVars, diskGuardVars, LaneInv
  <2>2. KnownIsKept'
    BY <1>3, <2>1 DEF LaneInv, KnownIsKept, OnDisk
  <2>3. /\ PassSound(q, Entries, KeptEntries, LaterEntries, Lengths)
        /\ q.step = "next"
    BY <1>1, HandEnds
  <2>4. Becomes(w, q)
    BY <1>5
  <2> HIDE DEF q
  <2> QED BY <1>1, <1>3, <2>1, <2>2, <2>3, <2>4, StillDisk, PassKeeps
<1> QED BY <1>4, <1>5 DEF Show

LEMMA LockKeeps ==
    ASSUME LaneInv, NEW w \in Windows, Lock(w)
    PROVE  LaneInv'
<1> DEFINE p == pass[w]
           q == [p EXCEPT !.step = "flush"]
<1>1. /\ p.step = "guard" /\ GuardRead(w) /\ Becomes(w, q)
      /\ UNCHANGED <<chain, storeVars, pageVars, scene>>
  BY DEF Lock
<1>2. UNCHANGED keys
  BY <1>1 DEF storeVars
<1>3. GuardInv' /\ batch'[w] # {}
  BY <1>1, GuardReadKeeps DEF LaneInv
<1>4. /\ OnDisk' = OnDisk /\ UNION parts \subseteq OnDisk
      /\ \A v \in Windows : /\ seen'[v] \subseteq seen[v] \cup OnDisk
                            /\ v # w => batch'[v] = batch[v]
  BY <1>1 DEF GuardRead, diskGuardVars, OnDisk, LaneInv, GuardInv, GuardTyped
<1>5. KnownIsKept'
  BY <1>2, <1>4, StillKept DEF LaneInv, KnownIsKept
<1>6. /\ PassSound(p, Entries, KeptEntries, LaterEntries, Lengths)
      /\ p.hit.entry \in KeptEntries /\ IsShaped(p)
  BY <1>1, HandIs DEF PassSound, PassBase
<1>7. /\ PassSound(q, Entries, KeptEntries, LaterEntries, Lengths)
      /\ q.step = "flush" /\ q.hit = p.hit
  BY <1>1, <1>6, StepSound, StepFields
<1> HIDE DEF q
<1> QED BY <1>1, <1>2, <1>3, <1>4, <1>5, <1>7, StillDisk, PassKeeps

LEMMA FlushKeeps ==
    ASSUME LaneInv, NEW w \in Windows, Flush(w)
    PROVE  LaneInv'
<1> DEFINE p == pass[w]
<1>1. /\ p.step = "flush"
      /\ UNCHANGED <<chain, storeVars, pageVars, scene>>
  BY DEF Flush
<1>2. UNCHANGED keys
  BY <1>1 DEF storeVars
<1>3. /\ p.hit.entry \in KeptEntries /\ batch[w] # {}
  BY <1>1, HandIs DEF PassSound, LaneInv, WindowSound, WindowOk
<1>4. PICK q : /\ Becomes(w, q)
               /\ \/ GuardWrite(w) /\ q = Done(p, InHand(p))
                  \/ GuardFails(w) /\ q = PutOff(p, InHand(p))
  BY DEF Flush
<1>5. /\ PassSound(q, Entries, KeptEntries, LaterEntries, Lengths)
      /\ q.step = "next"
  BY <1>1, <1>3, <1>4, HandEnds
<1>6. GuardInv'
  BY <1>3, <1>4, GuardWriteKeeps, GuardFailsKeeps DEF LaneInv
<1>7. /\ UNCHANGED seen
      /\ \A v \in Windows : v # w => batch'[v] = batch[v]
  BY <1>4 DEF GuardWrite, GuardFails, Unlock, LaneInv, GuardInv, GuardTyped
<1>8. OnDisk' \subseteq OnDisk \cup seen[w]
  <2>1. batch[w] \subseteq seen[w]
    BY DEF LaneInv, GuardInv, WrittenIsSeen
  <2>2. \/ folded' = seen[w] /\ parts' = parts \ read[w]
        \/ folded' = folded /\ parts' = parts \cup {batch[w]}
        \/ folded' = folded /\ parts' = parts
    BY <1>4 DEF GuardWrite, GuardFails, diskGuardVars
  <2> QED BY <2>1, <2>2 DEF OnDisk
<1>9. KnownIsKept'
  BY <1>2, <1>7, <1>8, StillKept DEF LaneInv, KnownIsKept
<1> QED BY <1>1, <1>2, <1>4, <1>5, <1>6, <1>7, <1>9, StillDisk, PassKeeps

-----------------------------------------------------------------------------
(* The end of a pass                                                       *)

LEMMA SaveCursorsKeeps ==
    ASSUME LaneInv, NEW w \in Windows, SaveCursors(w)
    PROVE  LaneInv'
<1> DEFINE p == pass[w]
           c == NextCursors(p)
           q == [p EXCEPT !.at = "save"]
<1>1. /\ p.at = "hits" /\ p.step = "next" /\ p.todo = {}
      /\ cursors' = c \/ UNCHANGED cursors
      /\ Becomes(w, q)
      /\ UNCHANGED <<guardVars, chain, ledger, keys, pageVars, scene>>
  BY DEF SaveCursors
<1>2. /\ PassSound(p, Entries, KeptEntries, LaterEntries, Lengths)
      /\ IsShaped(p)
      /\ Reached(p.from, Lengths) /\ Reached(p.next, Lengths)
      /\ Behind(p.from, Entries, KeptEntries \cup LaterEntries)
      /\ LedgerSound(p.ledger, KeptEntries, LaterEntries)
      /\ MovedBut(p, Entries, {})
  BY <1>1 DEF LaneInv, WindowSound, WindowOk, PassSound, PassBase
<1>3. /\ IsShaped(q) /\ q.at = "save" /\ q.from = p.from
      /\ q.next = p.next /\ q.tried = p.tried
      /\ q.step = "next" /\ q.stuck = p.stuck /\ q.todo = {}
      /\ q.ledger = p.ledger
  BY <1>1, <1>2, AtFields
<1> HIDE DEF q
<1>4. PassSound(q, Entries, KeptEntries, LaterEntries, Lengths)
  BY <1>1, <1>2, <1>3
     DEF PassSound, PassBase, TriedBut, MovedBut, Between
<1>5. Reached(c, Lengths)
  BY <1>2 DEF Reached, NextCursors
<1>6. Behind(c, Entries, KeptEntries \cup LaterEntries)
  <2> SUFFICES ASSUME NEW e \in Entries, e[2] <= c[e[1]].next
               PROVE  e \in KeptEntries \cup LaterEntries
    BY DEF Behind
  <2>1. e[1] \in Shards /\ e[2] \in Nat
    BY EntryTyped DEF LaneInv
  <2>2. p.from[e[1]].next \in Nat
    BY <1>2, <2>1 DEF Reached
  <2>3. CASE e[2] <= p.from[e[1]].next
    BY <1>2, <2>3 DEF Behind
  <2>4. CASE e[2] > p.from[e[1]].next
    <3>1. e[1] \notin p.stuck /\ e[2] <= p.next[e[1]].next
      BY <2>1, <2>2, <2>4 DEF NextCursors
    <3>2. e \in Settled(p.ledger)
      BY <1>1, <1>2, <2>4, <3>1 DEF MovedBut, Between
    <3> QED BY <1>2, <3>2 DEF Settled, LedgerSound
  <2> QED BY <2>1, <2>2, <2>3, <2>4
<1>7. DiskSound'
  <2>1. /\ Entries' = Entries /\ LaterEntries' = LaterEntries
        /\ Lengths' = Lengths /\ KeptEntries' = KeptEntries
    BY <1>1 DEF Entries, LaterEntries, Lengths, KeptEntries, IntroOf
  <2>2. /\ Reached(cursors', Lengths)
        /\ Behind(cursors', Entries, KeptEntries \cup LaterEntries)
        /\ LedgerSound(ledger', KeptEntries, LaterEntries)
    BY <1>1, <1>5, <1>6 DEF LaneInv, DiskSound
  <2> QED BY <2>1, <2>2 DEF DiskSound
<1>8. /\ UNCHANGED <<folded, parts, seen, batch>> /\ GuardInv'
  BY <1>1, GuardStutters DEF guardVars, diskGuardVars, LaneInv
<1>9. KnownIsKept'
  BY <1>1, <1>8 DEF LaneInv, KnownIsKept, OnDisk
<1> QED BY <1>1, <1>3, <1>4, <1>7, <1>8, <1>9, PassKeeps

LEMMA SaveLedgerKeeps ==
    ASSUME LaneInv, NEW w \in Windows, SaveLedger(w)
    PROVE  LaneInv'
<1> DEFINE p == pass[w]
<1>1. /\ p.at = "save"
      /\ ledger' = p.ledger \/ UNCHANGED ledger
      /\ Becomes(w, Idle)
      /\ UNCHANGED <<guardVars, chain, cursors, keys, pageVars, scene>>
  BY DEF SaveLedger
<1>2. /\ p.step = "next"
      /\ LedgerSound(p.ledger, KeptEntries, LaterEntries)
  BY <1>1 DEF LaneInv, WindowSound, WindowOk, PassSound, PassBase, PassOwes
<1>3. DiskSound'
  <2>1. /\ Entries' = Entries /\ LaterEntries' = LaterEntries
        /\ Lengths' = Lengths /\ KeptEntries' = KeptEntries
    BY <1>1 DEF Entries, LaterEntries, Lengths, KeptEntries, IntroOf
  <2>2. LedgerSound(ledger', KeptEntries, LaterEntries)
    BY <1>1, <1>2 DEF LaneInv, DiskSound
  <2> QED BY <1>1, <2>1, <2>2 DEF LaneInv, DiskSound
<1>4. UNCHANGED <<folded, parts, seen, batch>> /\ GuardInv'
  BY <1>1, GuardStutters DEF guardVars, diskGuardVars, LaneInv
<1>5. KnownIsKept'
  BY <1>1, <1>4 DEF LaneInv, KnownIsKept, OnDisk
<1> QED BY <1>1, <1>2, <1>3, <1>4, <1>5, IdleSound, IdleShaped, PassKeeps

-----------------------------------------------------------------------------
(* The other steps                                                         *)

LEMMA ReloadKeeps ==
    ASSUME LaneInv, NEW w \in Windows, Reload(w)
    PROVE  LaneInv'
<1>1. /\ UNCHANGED <<chain, scene, cursors, ledger, keys>>
      /\ pass' = [pass EXCEPT ![w] = Idle]
      /\ mem' = [mem EXCEPT ![w] = keys]
      /\ dirty' = [dirty EXCEPT ![w] = FALSE]
      /\ GuardOpen(w)
  BY DEF Reload, Becomes, storeVars
<1>2. PICK b \in Builds : /\ build' = [build EXCEPT ![w] = b]
                          /\ b >= build[w]
  <2>1. build[w] \in Nat
    BY IntroLaneAssumption DEF LaneInv, LaneTyped
  <2>2. PICK b \in Builds : /\ build' = [build EXCEPT ![w] = b]
                            /\ b = build[w] \/ b > build[w]
    BY DEF Reload
  <2>3. b \in Nat
    BY IntroLaneAssumption
  <2>4. b >= build[w]
    BY <2>1, <2>2, <2>3
  <2> QED BY <2>2, <2>4
<1>3. /\ pass'[w] = Idle /\ mem'[w] = keys /\ dirty'[w] = FALSE
      /\ \A v \in Windows : v # w =>
            /\ pass'[v] = pass[v] /\ mem'[v] = mem[v] /\ dirty'[v] = dirty[v]
  BY <1>1 DEF LaneInv, LaneTyped
<1>4. /\ UNCHANGED <<folded, parts>>
      /\ \A v \in Windows : /\ seen'[v] \subseteq seen[v] \cup OnDisk
                            /\ v # w => batch'[v] = batch[v]
  BY <1>1 DEF GuardOpen, diskGuardVars, LaneInv, GuardInv, GuardTyped
<1>5. OnlyBy(w)
  BY <1>1, <1>3, <1>4 DEF OnlyBy
<1>6. GuardInv'
  BY <1>1, GuardOpenKeeps DEF LaneInv
<1>7. LaneTyped'
  <2>1. build' \in [Windows -> Builds]
    BY <1>2 DEF LaneInv, LaneTyped
  <2>2. ASSUME NEW v \in Windows PROVE build'[v] >= scene.build
    <3>1. /\ build[v] \in Nat /\ scene.build \in Nat /\ b \in Nat
          /\ build[v] >= scene.build
      BY IntroLaneAssumption DEF LaneInv, LaneTyped
    <3>2. build'[v] = IF v = w THEN b ELSE build[v]
      BY <1>2 DEF LaneInv, LaneTyped
    <3> QED BY <1>2, <3>1, <3>2
  <2>3. Entries' = Entries
    BY <1>1 DEF Entries
  <2> QED BY <1>1, <2>1, <2>2, <2>3 DEF LaneInv, LaneTyped
<1>8. DiskSound'
  BY <1>1, <1>5, StillGrows, DiskKeeps DEF OnlyBy
<1>9. KnownIsKept'
  <2>1. OnDisk' = OnDisk
    BY <1>4 DEF OnDisk
  <2> QED BY <1>1, <1>4, <2>1, StillKept DEF LaneInv, KnownIsKept
<1>10. WindowSound(w)'
  <2>1. /\ Entries' = Entries /\ LaterEntries' = LaterEntries
        /\ Lengths' = Lengths /\ KeptEntries' = KeptEntries
    BY <1>1 DEF Entries, LaterEntries, Lengths, KeptEntries, IntroOf
  <2>2. PassSound(pass'[w], Entries', KeptEntries', LaterEntries', Lengths')
    BY <1>3, <2>1, IdleSound
  <2> QED BY <1>1, <1>3, <2>2, IdleShaped DEF WindowSound, WindowOk
<1> QED BY <1>5, <1>6, <1>7, <1>8, <1>9, <1>10, WindowKeeps

LEMMA PublishGrows ==
    ASSUME LaneInv, NEW s \in Shards, NEW n \in Nonces, Publish(s, n)
    PROVE  /\ chain' \in [Shards -> Seq(EntryRecord)]
           /\ IsFiniteSet(Entries')
           /\ \A e \in Entries : IntroOf(e)' = IntroOf(e)
           /\ Grows(Entries, KeptEntries, LaterEntries, Lengths,
                    Entries', KeptEntries', LaterEntries', Lengths')
<1> DEFINE r == [intro |-> n, at |-> Cardinality(Entries) + 1]
           l == Len(chain[s])
<1>1. /\ chain' = [chain EXCEPT ![s] = Append(chain[s], r)]
      /\ UNCHANGED <<keys, scene>>
  BY DEF Publish, storeVars
<1>2. r \in EntryRecord
  BY FS_CardinalityType DEF EntryRecord, LaneInv, LaneTyped
<1>3. chain \in [Shards -> Seq(EntryRecord)] /\ chain[s] \in Seq(EntryRecord)
  BY DEF LaneInv, LaneTyped
<1>4. /\ l \in Nat /\ Len(Append(chain[s], r)) = l + 1
      /\ Append(chain[s], r) \in Seq(EntryRecord)
      /\ \A i \in 1..l : Append(chain[s], r)[i] = chain[s][i]
      /\ DOMAIN chain[s] = 1..l /\ DOMAIN Append(chain[s], r) = 1..(l + 1)
  BY <1>2, <1>3, AppendProperties
<1> HIDE DEF r
<1>5. chain' \in [Shards -> Seq(EntryRecord)]
  BY <1>1, <1>3, <1>4
<1>6. \A x \in Shards : x # s => chain'[x] = chain[x]
  BY <1>1, <1>3
<1>7. chain'[s] = Append(chain[s], r)
  BY <1>1, <1>3
<1>8. \A x \in Shards : DOMAIN chain'[x] =
         IF x = s THEN DOMAIN chain[x] \cup {l + 1} ELSE DOMAIN chain[x]
  <2>1. 1..(l + 1) = 1..l \cup {l + 1}
    BY <1>4
  <2> QED BY <1>4, <1>6, <1>7, <2>1
<1>9. Entries' = Entries \cup {<<s, l + 1>>}
  <2>1. /\ \A e \in Entries' : \E x \in Shards : e \in {x} \X DOMAIN chain'[x]
        /\ \A x \in Shards : \A i \in DOMAIN chain'[x] : <<x, i>> \in Entries'
    BY DEF Entries
  <2>2. ASSUME NEW e \in Entries'
        PROVE  e \in Entries \/ e = <<s, l + 1>>
    <3>1. PICK x \in Shards : \E i \in DOMAIN chain'[x] : e = <<x, i>>
      BY <2>1
    <3> QED BY <1>8, <3>1, EntryIs
  <2>3. ASSUME NEW e \in Entries PROVE e \in Entries'
    <3>1. e = <<e[1], e[2]>> /\ e[1] \in Shards /\ e[2] \in DOMAIN chain[e[1]]
      BY EntryIs
    <3>2. e[2] \in DOMAIN chain'[e[1]]
      BY <1>8, <3>1
    <3> QED BY <2>1, <3>1, <3>2
  <2>4. <<s, l + 1>> \in Entries'
    BY <1>8, <2>1
  <2> QED BY <2>2, <2>3, <2>4
<1>10. IsFiniteSet(Entries')
  BY <1>9, FS_AddElement DEF LaneInv, LaneTyped
<1>11. ASSUME NEW e \in Entries PROVE IntroOf(e)' = IntroOf(e)
  <2>1. e[1] \in Shards /\ e[2] \in DOMAIN chain[e[1]]
    BY EntryIs
  <2>2. chain'[e[1]][e[2]] = chain[e[1]][e[2]]
    BY <1>4, <1>6, <1>7, <2>1
  <2> QED BY <2>2 DEF IntroOf
<1>12. /\ KeptEntries \subseteq KeptEntries'
       /\ LaterEntries \subseteq LaterEntries'
  BY <1>1, <1>9, <1>11 DEF KeptEntries, LaterEntries
<1>13. \A x \in Shards : /\ Lengths[x] \in Nat /\ Lengths'[x] \in Nat
                         /\ Lengths[x] <= Lengths'[x]
  <2> SUFFICES ASSUME NEW x \in Shards
               PROVE  /\ Lengths[x] \in Nat /\ Lengths'[x] \in Nat
                      /\ Lengths[x] <= Lengths'[x]
    OBVIOUS
  <2>1. Lengths[x] = Len(chain[x]) /\ Lengths'[x] = Len(chain'[x])
    BY DEF Lengths
  <2>2. Len(chain[x]) \in Nat
    BY <1>3
  <2> QED BY <1>4, <1>6, <1>7, <2>1, <2>2
<1>14. \A e \in Entries' \ Entries :
          e[1] \in Shards /\ e[2] \in Nat /\ e[2] > Lengths[e[1]]
  <2>1. \A e \in Entries' \ Entries : e[1] = s /\ e[2] = l + 1
    BY <1>9
  <2>2. Lengths[s] = l
    BY DEF Lengths
  <2> QED BY <1>4, <2>1, <2>2
<1> QED BY <1>5, <1>9, <1>10, <1>11, <1>12, <1>13, <1>14 DEF Grows

LEMMA PublishKeeps ==
    ASSUME LaneInv, NEW s \in Shards, NEW n \in Nonces, Publish(s, n)
    PROVE  LaneInv'
<1>1. UNCHANGED <<guardVars, cursors, ledger, keys, mem, dirty, build, pass,
                  scene, folded, parts, seen, batch>>
  BY DEF Publish, storeVars, pageVars, guardVars, diskGuardVars
<1>2. GuardInv'
  BY <1>1, GuardStutters DEF LaneInv
<1>3. LaneTyped'
  BY <1>1, PublishGrows DEF LaneInv, LaneTyped
<1>4. DiskSound'
  BY <1>1, PublishGrows, DiskKeeps
<1>5. KnownIsKept'
  BY <1>1 DEF LaneInv, KnownIsKept, OnDisk
<1>6. \A w \in Windows : WindowSound(w)'
  BY <1>1, PublishGrows, OtherKeeps
<1> QED BY <1>2, <1>3, <1>4, <1>5, <1>6 DEF LaneInv

LEMMA LaneStutters ==
    ASSUME LaneInv, UNCHANGED vars
    PROVE  LaneInv'
<1>1. /\ UNCHANGED <<guardVars, cursors, ledger, keys, mem, dirty, build, pass,
                     scene, folded, parts, seen, batch, chain>>
      /\ UNCHANGED storeVars
  BY DEF vars, storeVars, pageVars, guardVars, diskGuardVars
<1>2. GuardInv'
  BY <1>1, GuardStutters DEF LaneInv
<1>3. LaneTyped'
  BY <1>1 DEF LaneInv, LaneTyped, Entries
<1>4. DiskSound'
  BY <1>1, StillDisk
<1>5. KnownIsKept'
  BY <1>1 DEF LaneInv, KnownIsKept, OnDisk
<1>6. \A w \in Windows : WindowSound(w)'
  BY <1>1, StillGrows, OtherKeeps DEF IntroOf
<1> QED BY <1>2, <1>3, <1>4, <1>5, <1>6 DEF LaneInv

LEMMA InitLane == Init => LaneInv
<1> SUFFICES ASSUME Init PROVE LaneInv
  OBVIOUS
<1>1. GuardInv
  BY GuardInitInv DEF Init
<1>2. Entries = {}
  BY DEF Init, Entries
<1>3. \A s \in Shards : Lengths[s] = 0
  BY DEF Init, Lengths
<1>4. /\ chain \in [Shards -> Seq(EntryRecord)]
      /\ scene \in Scenes /\ scene.build \in Builds
      /\ scene.build \in Nat
  <2>1. <<>> \in Seq(EntryRecord)
    OBVIOUS
  <2>2. chain \in [Shards -> Seq(EntryRecord)]
    BY <2>1 DEF Init
  <2>3. scene \in Scenes /\ scene.build \in Builds
    BY IntroLaneAssumption DEF Init
  <2> QED BY <2>2, <2>3, IntroLaneAssumption
<1>5. LaneTyped
  BY <1>2, <1>4, FS_EmptySet DEF Init, LaneTyped
<1>6. /\ Reached(NoCursors, Lengths)
      /\ Behind(NoCursors, Entries, KeptEntries \cup LaterEntries)
      /\ LedgerSound(NoLedger, KeptEntries, LaterEntries)
  BY <1>2, <1>3, IdleShaped DEF NoCursors, Reached, Behind, LedgerSound
<1>7. DiskSound
  BY <1>6 DEF Init, DiskSound
<1>8. KnownIsKept
  BY DEF Init, GuardInit, KnownIsKept, OnDisk
<1>9. PassSound(Idle, Entries, KeptEntries, LaterEntries, Lengths)
  BY <1>6, IdleShaped DEF PassSound, PassBase, LedgerSound, TriedBut
<1>10. ASSUME NEW w \in Windows PROVE WindowSound(w)
  <2>1. pass[w] = Idle /\ mem[w] = keys
    BY DEF Init
  <2> QED BY <1>9, <2>1, IdleShaped DEF WindowSound, WindowOk
<1> QED BY <1>1, <1>5, <1>7, <1>8, <1>10 DEF LaneInv

LEMMA NextKeepsLane ==
    ASSUME LaneInv, [Next]_vars
    PROVE  LaneInv'
<1>1. ASSUME NEW w \in scene.windows, Step(w) \/ Reload(w) PROVE LaneInv'
  <2>1. w \in Windows
    BY IntroLaneAssumption DEF LaneInv, LaneTyped
  <2> QED BY <1>1, <2>1, LoadKeeps, ReadStatesKeeps, ReadPagesKeeps,
             TakeKeeps, WriteKeeps, ShowKeeps, LockKeeps, FlushKeeps,
             SaveCursorsKeeps, SaveLedgerKeeps, ReloadKeeps DEF Step
<1> QED BY <1>1, PublishKeeps, LaneStutters DEF Next

THEOREM LaneInvariant == Spec => []LaneInv
BY InitLane, NextKeepsLane, PTL DEF Spec

(* What a window takes for seen is in the database or still to be written  *)
(* by that window: no fold under the lock drops what another one wrote.    *)
THEOREM NoncesAreKept == Spec => []NoncesKept
<1>1. LaneInv => NoncesKept
  BY DEF LaneInv, GuardInv
<1> QED BY <1>1, LaneInvariant, PTL

LEMMA KeysAreKept ==
    ASSUME LaneInv
    PROVE  KeysKept
<1> SUFFICES ASSUME NEW e \in Entries,
                    OpensAt[IntroOf(e)] <= scene.build,
                    e[2] <= cursors[e[1]].next
             PROVE  keys[IntroOf(e)] # 0
  BY DEF KeysKept
<1>1. e \in KeptEntries \cup LaterEntries
  BY DEF LaneInv, DiskSound, Behind
<1>2. OpensAt[IntroOf(e)] \in Nat /\ scene.build \in Nat
  BY EntryTyped, IntroLaneAssumption DEF LaneInv, LaneTyped
<1> QED BY <1>1, <1>2 DEF KeptEntries, LaterEntries

LEMMA PassesAccount ==
    ASSUME LaneInv
    PROVE  PassAccounts
<1> SUFFICES ASSUME NEW w \in Windows, pass[w].at = "save"
             PROVE  /\ pass[w].tried \subseteq Settled(pass[w].ledger)
                    /\ \A e \in Entries :
                          /\ e[2] > pass[w].from[e[1]].next
                          /\ e[2] <= NextCursors(pass[w])[e[1]].next
                          => e \in Settled(pass[w].ledger)
  BY DEF PassAccounts, Settled
<1> DEFINE p == pass[w]
<1>1. /\ TriedBut(p, {}) /\ MovedBut(p, Entries, {}) /\ p.todo = {}
      /\ Reached(p.from, Lengths)
  BY DEF LaneInv, WindowSound, WindowOk, PassSound, PassOwes, PassBase
<1>2. ASSUME NEW e \in Entries,
             e[2] > p.from[e[1]].next, e[2] <= NextCursors(p)[e[1]].next
      PROVE  e \in Settled(p.ledger)
  <2>1. e[1] \in Shards /\ e[2] \in Nat /\ p.from[e[1]].next \in Nat
    BY <1>1, EntryTyped DEF LaneInv, Reached
  <2>2. e[1] \notin p.stuck /\ e[2] <= p.next[e[1]].next
    BY <1>2, <2>1 DEF NextCursors
  <2> QED BY <1>1, <1>2, <2>2 DEF MovedBut, Between
<1> QED BY <1>1, <1>2 DEF TriedBut

-----------------------------------------------------------------------------
(* The marks of a wallet with one window                                   *)

Marked(l) == {m[2] : m \in l.marks}
Last(p, l) == IF p.at = "save" THEN p.ledger ELSE l

(* The pass p started from the cursors c and the ledger l on disk, and has *)
(* lost nothing that is done or was marked.                                *)
Continues(p, c, l) ==
    /\ p.at # "idle" => /\ l.done \subseteq p.ledger.done
                        /\ Marked(l) \subseteq p.tried
    /\ p.at \notin {"idle", "save"} => p.from \in {c, NoCursors}

MarksOf(w) ==
    /\ Continues(pass[w], cursors, ledger)
    /\ Behind(cursors, Entries, Settled(Last(pass[w], ledger)))

MarkInv == ~lapsed => \A w \in Windows : scene.windows = {w} => MarksOf(w)

(* A step within the pass: it looks at entries, or starts over.            *)
CarriesOn(p, q) ==
    /\ p.at # "save" /\ q.at # "save"
    /\ q.at # "idle" => /\ p.at # "idle"
                        /\ q.from = p.from /\ q.tried = p.tried
                        /\ p.ledger.done \subseteq q.ledger.done

LEMMA EntryCarries ==
    ASSUME NEW p, IsShaped(p), p.at = "hits",
           NEW t, NEW b, NEW step, NEW shows
    PROVE  /\ CarriesOn(p, Rest(p, t)) /\ CarriesOn(p, Done(p, t))
           /\ CarriesOn(p, PutOff(p, t)) /\ CarriesOn(p, Unopenable(p, t, b))
           /\ CarriesOn(p, Hand(p, t, step, shows))
           /\ CarriesOn(p, [p EXCEPT !.step = step])
           /\ Rest(p, t).at = "hits"
<1>1. ASSUME NEW q, SameFrame(p, q), p.ledger.done \subseteq q.ledger.done
      PROVE  CarriesOn(p, q) /\ q.at = "hits"
  BY <1>1 DEF CarriesOn, SameFrame
<1>2. CarriesOn(p, Rest(p, t)) /\ Rest(p, t).at = "hits"
  BY <1>1, RestFields
<1>3. CarriesOn(p, Done(p, t))
  <2>1. /\ SameFrame(p, Done(p, t))
        /\ Done(p, t).ledger.done = p.ledger.done \cup {t[2]}
    BY DoneFields
  <2> QED BY <1>1, <2>1
<1>4. CarriesOn(p, PutOff(p, t))
  <2>1. /\ SameFrame(p, PutOff(p, t))
        /\ PutOff(p, t).ledger.done = p.ledger.done
    BY PutOffFields
  <2> QED BY <1>1, <2>1
<1>5. CarriesOn(p, Unopenable(p, t, b))
  <2>1. /\ SameFrame(p, Unopenable(p, t, b))
        /\ Unopenable(p, t, b).ledger.done = p.ledger.done
    BY UnopenableFields
  <2> QED BY <1>1, <2>1
<1>6. CarriesOn(p, Hand(p, t, step, shows))
  BY <1>1, HandFields
<1>7. CarriesOn(p, [p EXCEPT !.step = step])
  BY <1>1, StepFields
<1> QED BY <1>2, <1>3, <1>4, <1>5, <1>6, <1>7

LEMMA CarriesFurther ==
    ASSUME NEW p, NEW r, NEW q, CarriesOn(p, r), CarriesOn(r, q)
    PROVE  CarriesOn(p, q)
BY DEF CarriesOn

LEMMA TakeCarries ==
    ASSUME LaneInv, NEW w \in Windows, Take(w)
    PROVE  \E q : Becomes(w, q) /\ CarriesOn(pass[w], q)
<1> DEFINE p == pass[w]
<1>1. /\ p.at = "hits" /\ IsShaped(p)
  BY DEF Take, LaneInv, WindowSound, WindowOk, PassSound, PassBase
<1>2. PICK t \in First(p.todo) :
         \/ Becomes(w, Rest(p, t))
         \/ Becomes(w, PutOff(Rest(p, t), t))
         \/ Becomes(w, Unopenable(Rest(p, t), t, build[w]))
         \/ Receive(w, Rest(p, t), t)
  BY DEF Take, Rest
<1> DEFINE r == Rest(p, t)
<1>3. CarriesOn(p, r) /\ r.at = "hits" /\ IsShaped(r)
  BY <1>1, EntryCarries, RestFields
<1>4. PICK q : /\ Becomes(w, q)
               /\ \/ q = r
                  \/ q = PutOff(r, t)
                  \/ q = Unopenable(r, t, build[w])
                  \/ q = Done(r, t)
                  \/ \E step, shows : q = Hand(r, t, step, shows)
  BY <1>2 DEF Receive
<1> HIDE DEF r
<1>5. q = r \/ CarriesOn(r, q)
  <2>1. /\ CarriesOn(r, PutOff(r, t))
        /\ CarriesOn(r, Unopenable(r, t, build[w]))
        /\ CarriesOn(r, Done(r, t))
    BY <1>3, EntryCarries
  <2>2. \A step, shows : CarriesOn(r, Hand(r, t, step, shows))
    BY <1>3, EntryCarries
  <2> QED BY <1>4, <2>1, <2>2
<1>6. CarriesOn(p, q)
  BY <1>3, <1>5, CarriesFurther
<1> QED BY <1>4, <1>6

LEMMA HandCarries ==
    ASSUME LaneInv, NEW w \in Windows,
           Write(w) \/ Show(w) \/ Lock(w) \/ Flush(w)
    PROVE  \E q : Becomes(w, q) /\ CarriesOn(pass[w], q)
<1> DEFINE p == pass[w]
<1>1. p.step # "next"
  BY DEF Write, Show, Lock, Flush
<1>2. p.at = "hits" /\ IsShaped(p)
  BY <1>1, HandIs DEF PassOwes, PassBase
<1>3. PICK q : /\ Becomes(w, q)
               /\ \/ q = PutOff(p, InHand(p))
                  \/ q = Done(p, InHand(p))
                  \/ \E step : q = [p EXCEPT !.step = step]
  BY DEF Write, WriteKeys, WriteFails, Show, Lock, Flush
<1> DEFINE t == InHand(p)
<1> HIDE DEF p, t
<1>4. CarriesOn(p, q)
  <2>1. CarriesOn(p, PutOff(p, t)) /\ CarriesOn(p, Done(p, t))
    BY <1>2, EntryCarries
  <2>2. \A step : CarriesOn(p, [p EXCEPT !.step = step])
    BY <1>2, EntryCarries
  <2> QED BY <1>3, <2>1, <2>2 DEF t
<1> QED BY <1>3, <1>4 DEF p

LEMMA ReadCarries ==
    ASSUME LaneInv, NEW w \in Windows, ReadStates(w) \/ ReadPages(w)
    PROVE  \E q : Becomes(w, q) /\ CarriesOn(pass[w], q)
<1> DEFINE p == pass[w]
<1>1. IsShaped(p)
  BY DEF LaneInv, WindowSound, WindowOk, PassSound, PassBase
<1>2. CASE ReadStates(w)
  <2>1. \/ Becomes(w, Idle)
        \/ \E m : Becomes(w, [p EXCEPT !.at = "pages", !.markers = m])
    BY <1>2 DEF ReadStates
  <2>2. p.at = "states"
    BY <1>2 DEF ReadStates
  <2>3. CarriesOn(p, Idle)
    BY <2>2, IdleShaped DEF CarriesOn
  <2>4. ASSUME NEW m
        PROVE  CarriesOn(p, [p EXCEPT !.at = "pages", !.markers = m])
    BY <1>1, <2>2 DEF CarriesOn, IsShaped, IsPass, PassFields
  <2> QED BY <2>1, <2>3, <2>4
<1>3. CASE ReadPages(w)
  <2>1. PICK n, m, todo :
           Becomes(w, [p EXCEPT !.at = "hits", !.next = n, !.markers = m,
                                !.todo = todo])
    BY <1>3 DEF ReadPages
  <2>2. p.at = "pages"
    BY <1>3 DEF ReadPages
  <2>3. CarriesOn(p, [p EXCEPT !.at = "hits", !.next = n, !.markers = m,
                               !.todo = todo])
    BY <1>1, <2>2 DEF CarriesOn, IsShaped, IsPass, PassFields
  <2> QED BY <2>1, <2>3
<1> QED BY <1>2, <1>3

(* What is behind the cursors is settled in the pass that started there.   *)
LEMMA MarksInPass ==
    ASSUME LaneInv, NEW w \in Windows, MarksOf(w),
           pass[w].step = "next", pass[w].at = "hits"
    PROVE  Settled(ledger) \subseteq Settled(pass[w].ledger)
<1> DEFINE p == pass[w]
<1>1. TriedBut(p, {})
  BY DEF LaneInv, WindowSound, WindowOk, PassSound
<1>2. ledger.done \subseteq p.ledger.done /\ Marked(ledger) \subseteq p.tried
  BY DEF MarksOf, Continues
<1> QED BY <1>1, <1>2 DEF TriedBut, Settled, Marked

(* One step of the window: what it does with its pass, and the disk.       *)
LEMMA CarryingKeepsMarks ==
    ASSUME LaneInv, NEW w \in Windows, MarksOf(w),
           UNCHANGED <<chain, cursors, ledger>>,
           NEW q, Becomes(w, q), CarriesOn(pass[w], q)
    PROVE  MarksOf(w)'
<1>1. pass'[w] = q
  BY DEF LaneInv, LaneTyped, Becomes
<1>2. Entries' = Entries
  BY DEF Entries
<1>3. Continues(q, cursors, ledger)
  BY DEF MarksOf, Continues, CarriesOn
<1>4. Last(q, ledger) = Last(pass[w], ledger)
  BY DEF Last, CarriesOn
<1> QED BY <1>1, <1>2, <1>3, <1>4 DEF MarksOf

LEMMA LoadKeepsMarks ==
    ASSUME LaneInv, NEW w \in Windows, MarksOf(w), Load(w), ~lapsed'
    PROVE  MarksOf(w)'
<1>1. PICK c \in {cursors, NoCursors} :
         Becomes(w, [Idle EXCEPT !.at = "states", !.from = c,
                                 !.ledger = ledger,
                                 !.tried = {m[2] : m \in ledger.marks}])
  BY DEF Load, Lapses
<1>2. pass[w].at = "idle" /\ UNCHANGED <<chain, cursors, ledger>>
  BY DEF Load, storeVars
<1> DEFINE q == [Idle EXCEPT !.at = "states", !.from = c, !.ledger = ledger,
                             !.tried = Marked(ledger)]
<1>3. pass'[w] = q
  BY <1>1 DEF LaneInv, LaneTyped, Becomes, Marked
<1>4. /\ q.at = "states" /\ q.from = c /\ q.ledger = ledger
      /\ q.tried = Marked(ledger)
  <2> HIDE DEF Marked
  <2> QED BY IdleShaped DEF IsShaped, IsPass, PassFields
<1> HIDE DEF q
<1>5. Entries' = Entries
  BY <1>2 DEF Entries
<1> QED BY <1>2, <1>3, <1>4, <1>5 DEF MarksOf, Continues, Last

(* The cursors move past what the pass has settled, or not at all.         *)
LEMMA SaveCursorsKeepsMarks ==
    ASSUME LaneInv, NEW w \in Windows, MarksOf(w), SaveCursors(w)
    PROVE  MarksOf(w)'
<1> DEFINE p == pass[w]
           q == [p EXCEPT !.at = "save"]
<1>1. /\ p.at = "hits" /\ p.step = "next" /\ p.todo = {}
      /\ cursors' = NextCursors(p) \/ UNCHANGED cursors
      /\ Becomes(w, q)
      /\ UNCHANGED <<chain, ledger>>
  BY DEF SaveCursors
<1>2. /\ Reached(p.from, Lengths) /\ IsShaped(p)
      /\ MovedBut(p, Entries, {})
  BY <1>1 DEF LaneInv, WindowSound, WindowOk, PassSound, PassBase
<1>3. /\ q.at = "save" /\ q.ledger = p.ledger /\ q.tried = p.tried
  BY <1>2, AtFields
<1>4. pass'[w] = q
  BY <1>1 DEF LaneInv, LaneTyped, Becomes
<1> HIDE DEF q
<1>5. Settled(ledger) \subseteq Settled(p.ledger)
  BY <1>1, MarksInPass
<1>6. Behind(cursors, Entries, Settled(p.ledger))
  BY <1>1, <1>5 DEF MarksOf, Last, Behind
<1>7. Behind(NextCursors(p), Entries, Settled(p.ledger))
  <2> SUFFICES ASSUME NEW e \in Entries, e[2] <= NextCursors(p)[e[1]].next
               PROVE  e \in Settled(p.ledger)
    BY DEF Behind
  <2>1. e[1] \in Shards /\ e[2] \in Nat \ {0} /\ p.from[e[1]].next \in Nat
    BY <1>2, EntryTyped DEF LaneInv, Reached
  <2>2. CASE e[2] <= p.from[e[1]].next
    <3>1. p.from \in {cursors, NoCursors}
      BY <1>1 DEF MarksOf, Continues
    <3>2. p.from = cursors
      BY <2>1, <2>2, <3>1 DEF NoCursors
    <3> QED BY <1>6, <2>2, <3>2 DEF Behind
  <2>3. CASE e[2] > p.from[e[1]].next
    <3>1. e[1] \notin p.stuck /\ e[2] <= p.next[e[1]].next
      BY <2>1, <2>3 DEF NextCursors
    <3> QED BY <1>1, <1>2, <2>3, <3>1 DEF MovedBut, Between
  <2> QED BY <2>1, <2>2, <2>3
<1>8. Behind(cursors', Entries, Settled(p.ledger))
  BY <1>1, <1>6, <1>7
<1>9. Entries' = Entries
  BY <1>1 DEF Entries
<1>10. Continues(q, cursors', ledger')
  BY <1>1, <1>3 DEF MarksOf, Continues
<1> QED BY <1>3, <1>4, <1>8, <1>9, <1>10 DEF MarksOf, Last

(* The pass ends, or the page is loaded again, with its ledger on disk.    *)
LEMMA EndKeepsMarks ==
    ASSUME LaneInv, NEW w \in Windows, MarksOf(w), ~lapsed',
           SaveLedger(w) \/ Reload(w)
    PROVE  MarksOf(w)'
<1>1. /\ Becomes(w, Idle) /\ UNCHANGED <<chain, cursors>>
      /\ ledger' = Last(pass[w], ledger)
  BY DEF SaveLedger, Reload, Lapses, Last, storeVars
<1>2. pass'[w] = Idle
  BY <1>1 DEF LaneInv, LaneTyped, Becomes
<1>3. Entries' = Entries
  BY <1>1 DEF Entries
<1> QED BY <1>1, <1>2, <1>3, IdleShaped DEF MarksOf, Continues, Last

LEMMA StepKeepsMarks ==
    ASSUME LaneInv, NEW w \in Windows, MarksOf(w), ~lapsed',
           Step(w) \/ Reload(w)
    PROVE  MarksOf(w)'
<1>1. CASE \/ ReadStates(w) \/ ReadPages(w) \/ Take(w)
           \/ Write(w) \/ Show(w) \/ Lock(w) \/ Flush(w)
  <2>1. PICK q : Becomes(w, q) /\ CarriesOn(pass[w], q)
    BY <1>1, ReadCarries, TakeCarries, HandCarries
  <2>2. UNCHANGED <<chain, cursors, ledger>>
    BY <1>1 DEF ReadStates, ReadPages, Take, Write, Show, Lock, Flush,
                storeVars
  <2> QED BY <2>1, <2>2, CarryingKeepsMarks
<1> QED BY <1>1, LoadKeepsMarks, SaveCursorsKeepsMarks, EndKeepsMarks DEF Step

LEMMA PublishKeepsMarks ==
    ASSUME LaneInv, NEW w \in Windows, MarksOf(w),
           NEW s \in Shards, NEW n \in Nonces, Publish(s, n)
    PROVE  MarksOf(w)'
<1>1. UNCHANGED <<cursors, ledger, pass>>
  BY DEF Publish, storeVars
<1>2. \A e \in Entries' \ Entries : ~(e[2] <= cursors[e[1]].next)
  BY PublishGrows, CursorGrows DEF LaneInv, DiskSound
<1> QED BY <1>1, <1>2 DEF MarksOf, Behind

LEMMA NextKeepsMarks ==
    ASSUME LaneInv, MarkInv, [Next]_vars
    PROVE  MarkInv'
<1> SUFFICES ASSUME ~lapsed', NEW w \in Windows, scene'.windows = {w}
             PROVE  MarksOf(w)'
  BY DEF MarkInv
<1>1. scene' = scene /\ ~lapsed
  <2>1. ASSUME NEW v \in scene.windows, Step(v) \/ Reload(v)
        PROVE  /\ scene' = scene
               /\ lapsed' = lapsed \/ \E lost : Lapses(lost)
    BY <2>1, Zenon DEF Step, Load, ReadStates, ReadPages, Take, Write, Show,
                       Lock, Flush, SaveCursors, SaveLedger, Reload
  <2>2. ASSUME NEW s \in Shards, NEW n \in Nonces, Publish(s, n)
        PROVE  scene' = scene /\ lapsed' = lapsed
    BY <2>2 DEF Publish
  <2>3. scene' = scene /\ (lapsed' = lapsed \/ \E lost : Lapses(lost))
    BY <2>1, <2>2, Zenon DEF Next, vars
  <2>4. ASSUME NEW lost, Lapses(lost) PROVE ~lapsed
    BY <2>4 DEF Lapses
  <2>5. CASE lapsed' = lapsed
    BY <2>3, <2>5
  <2> QED BY <2>3, <2>4, <2>5
<1>2. MarksOf(w)
  BY <1>1 DEF MarkInv
<1>3. CASE UNCHANGED vars
  BY <1>2, <1>3 DEF vars, storeVars, MarksOf, Entries
<1>4. CASE \E s \in Shards, n \in Nonces : Publish(s, n)
  BY <1>2, <1>4, PublishKeepsMarks
<1>5. CASE \E v \in scene.windows : Step(v) \/ Reload(v)
  BY <1>1, <1>2, <1>5, StepKeepsMarks
<1> QED BY <1>3, <1>4, <1>5 DEF Next

LEMMA InitMarks == Init => MarkInv
<1> SUFFICES ASSUME Init, NEW w \in Windows PROVE MarksOf(w)
  BY DEF MarkInv
<1>1. Entries = {}
  BY DEF Init, Entries
<1>2. pass[w] = Idle
  BY DEF Init
<1>3. Behind(cursors, Entries, Settled(Last(pass[w], ledger)))
  BY <1>1 DEF Behind
<1> QED BY <1>2, <1>3, IdleShaped DEF MarksOf, Continues

-----------------------------------------------------------------------------
(* No introduction that the windows can open is passed over: a cursor on   *)
(* disk only moves past it when its key is on disk, whatever fails and     *)
(* whichever window saves.  One that they cannot open yet is done or       *)
(* marked in the ledger of the pass that moves past it; with one window    *)
(* its mark stays in the ledger behind the saved cursors, if every load    *)
(* and save of the ledger succeeds and no page is loaded again between     *)
(* the two saves that end a pass.                                          *)
THEOREM NothingIsPassedOver == Spec => []NothingPassedOver
<1>1. LaneInv /\ MarkInv => NothingPassedOver
  <2> SUFFICES ASSUME LaneInv, MarkInv PROVE NothingPassedOver
    OBVIOUS
  <2>1. MarksKept
    BY DEF MarksKept, MarkInv, MarksOf, Behind, Last
  <2> QED BY <2>1, KeysAreKept, PassesAccount DEF NothingPassedOver
<1>2. Init => MarkInv
  BY InitMarks
<1>3. LaneInv /\ MarkInv /\ [Next]_vars => MarkInv'
  BY NextKeepsMarks
<1>4. Spec => []MarkInv
  BY <1>2, <1>3, LaneInvariant, PTL DEF Spec
<1> QED BY <1>1, <1>4, LaneInvariant, PTL

=============================================================================
