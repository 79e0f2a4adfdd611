----------------------------- MODULE IntroLane -----------------------------
(***************************************************************************)
(* How the windows of one wallet read introductions from the chain         *)
(* (web/intro-scan-runner.mjs and the modules it calls).  A window makes   *)
(* one pass after another: it loads its cursors and its ledger, reads the  *)
(* shards that changed, hands every new introduction to the receiver - who *)
(* keeps its key, shows it and records its nonce in the replay guard -     *)
(* tries again what another build of the page could not open, and saves    *)
(* cursors and ledger.  Any step may fail, and a page may be loaded again, *)
(* with a newer build, between any two.                                    *)
(*                                                                         *)
(* An introduction stands for its nonce and its root, and begins a         *)
(* conversation of its own (ConvKeys has those introduced again); it may   *)
(* be published several times.  The time of an entry is its place among    *)
(* all entries.  A page of entries is never older than the state that was  *)
(* read before it.  A failing step stands for those put off (unfetchable). *)
(* Left out are the choice of the shards to read, the pruning by epoch,    *)
(* entries for others, and a second pass of the same window, whose writes  *)
(* of the keys would overlap (ConvKeys).                                   *)
(***************************************************************************)
EXTENDS ReplayGuard, Sequences

CONSTANTS
    Shards,
    Builds,      \* the builds of the page
    OpensAt,     \* the first build that opens an introduction
    Scenes,      \* what may be given: the windows that are open, the build
                 \* they begin with, and a bound on what fails
    MaxEntries   \* bound of the model on the entries published

ASSUME IntroLaneAssumption ==
    /\ Builds \subseteq Nat \ {0}
    /\ OpensAt \in [Nonces -> Builds]
    /\ PartsBeforeFold \in Nat \ {0}
    /\ Scenes \subseteq [windows : SUBSET Windows, build : Builds,
                         faults : Nat]
    /\ MaxEntries \in Nat

VARIABLES
    chain,    \* the entries of every shard, oldest first
    cursors,  \* on disk: the state last seen of a shard, and the next entry
    ledger,   \* on disk: entries done, and marks <<build, entry>> of those
              \* that a build could not open
    keys,     \* on disk: when the root of an introduction was published,
              \* and 0 for one that is not held
    mem,      \* the same in the memory of a window
    dirty,    \* whether the last write of the keys of a window failed
    build,    \* of the page in a window
    pass,     \* where the pass of a window stands, and its locals
    shown,    \* introductions that a window has shown
    faults,   \* how often something failed
    lapsed,   \* auxiliary: whether the ledger was lost on its way from or
              \* to the disk
    scene     \* which of Scenes is given; it never changes

storeVars == <<cursors, ledger, keys>>
pageVars == <<mem, dirty, build>>
vars ==
    <<guardVars, chain, storeVars, pageVars, pass, shown, faults, lapsed,
      scene>>

NoCursors == [s \in Shards |-> [marker |-> 0, next |-> 0]]
NoLedger == [done |-> {}, marks |-> {}]
NoHit == [build |-> 0, entry |-> <<>>, intro |-> {}, shows |-> FALSE]
Idle == [at |-> "idle", step |-> "next", from |-> NoCursors,
         next |-> NoCursors, markers |-> [s \in Shards |-> 0],
         ledger |-> NoLedger, tried |-> {}, todo |-> {}, hit |-> NoHit,
         stuck |-> {}]

Init ==
    /\ GuardInit
    /\ chain = [s \in Shards |-> <<>>]
    /\ cursors = NoCursors /\ ledger = NoLedger
    /\ keys = [n \in Nonces |-> 0]
    /\ mem = [w \in Windows |-> keys]
    /\ dirty = [w \in Windows |-> FALSE]
    /\ scene \in Scenes
    /\ build = [w \in Windows |-> scene.build]
    /\ pass = [w \in Windows |-> Idle]
    /\ shown = {} /\ faults = 0 /\ lapsed = FALSE

-----------------------------------------------------------------------------
Entries == UNION {{s} \X DOMAIN chain[s] : s \in Shards}
IntroOf(entry) == chain[entry[1]][entry[2]].intro
TimeOf(entry) == chain[entry[1]][entry[2]].at

Fault == faults < scene.faults /\ faults' = faults + 1
NoFault == UNCHANGED faults

(* the ledger is not what the pass before had made of it                   *)
Lapses(lost) == lapsed' = (lapsed \/ lost)

Becomes(w, p) == pass' = [pass EXCEPT ![w] = p]
Publish(s, n) ==
    /\ Cardinality(Entries) < MaxEntries
    /\ chain' = [chain EXCEPT ![s] = Append(@,
                    [intro |-> n, at |-> Cardinality(Entries) + 1])]
    /\ UNCHANGED <<guardVars, storeVars, pageVars, pass, shown, faults, lapsed,
                   scene>>

-----------------------------------------------------------------------------
(* runPass, up to the hits.                                                *)

(* load, loadDelivered: one that fails finds nothing                       *)
Load(w) ==
    /\ pass[w].at = "idle"
    /\ \E c \in {cursors, NoCursors}, l \in {ledger, NoLedger} :
          /\ IF c = cursors /\ l = ledger THEN NoFault ELSE Fault
          /\ Lapses(l # ledger)
          /\ Becomes(w, [Idle EXCEPT !.at = "states", !.from = c,
                                     !.ledger = l,
                                     !.tried = {m[2] : m \in l.marks}])
    /\ UNCHANGED <<guardVars, chain, storeVars, pageVars, shown, scene>>

(* readStates                                                              *)
ReadStates(w) ==
    /\ pass[w].at = "states"
    /\ \/ /\ NoFault
          /\ Becomes(w, [pass[w] EXCEPT !.at = "pages",
                            !.markers = [s \in Shards |-> Len(chain[s])]])
       \/ Fault /\ Becomes(w, Idle)
    /\ UNCHANGED <<guardVars, chain, storeVars, pageVars, shown, lapsed,
                   scene>>

(* changedSince                                                            *)
Changed(p) ==
    {s \in Shards : p.markers[s] > 0 /\ p.markers[s] # p.from[s].marker}

(* entries of the shards read that the ledger of a build does not have     *)
Hits(p, shards, b) ==
    {entry \in Entries : /\ entry[1] \in shards
                         /\ entry[2] > p.from[entry[1]].next
                         /\ entry \notin p.ledger.done
                         /\ <<b, entry>> \notin p.ledger.marks}

(* scanIntroWindow: a shard whose page cannot be read keeps its cursor     *)
ReadPages(w) ==
    LET p == pass[w] IN
    /\ p.at = "pages"
    /\ \E shards \in SUBSET Changed(p) :
          /\ IF shards = Changed(p) THEN NoFault ELSE Fault
          /\ Becomes(w, [p EXCEPT
                !.at = "hits",
                !.next = [s \in Shards |->
                   IF s \in shards
                   THEN [marker |-> p.markers[s], next |-> Len(chain[s])]
                   ELSE p.from[s]],
                !.markers = Idle.markers,
                !.todo = {<<0, entry>> : entry \in Hits(p, shards, build[w])}
                            \cup {m \in p.ledger.marks : m[1] # build[w]}])
    /\ UNCHANGED <<guardVars, chain, storeVars, pageVars, shown, lapsed,
                   scene>>

-----------------------------------------------------------------------------
(* The hits, <<0, entry>>, and then the marks of other builds: both are    *)
(* handed to the receiver alike.                                           *)

(* entries of a shard come in order                                        *)
First(todo) ==
    {t \in todo : \A u \in todo :
        IF t[1] # 0 THEN u[1] # 0
        ELSE u[1] = 0 /\ u[2][1] = t[2][1] => u[2][2] >= t[2][2]}

(* it was received, now or before                                          *)
Done(p, t) ==
    [p EXCEPT !.step = "next", !.hit = NoHit,
              !.ledger.done = @ \cup {t[2]}]

(* mutant: a mark whose entry could not be tried again is dropped          *)
PutOffForgets(p, t) ==
    [p EXCEPT !.step = "next", !.hit = NoHit,
              !.stuck = IF t[1] = 0 THEN @ \cup {t[2][1]} ELSE @]

(* it failed: the shard is read again from where it was, or the mark stays *)
PutOff(p, t) ==
    [p EXCEPT !.step = "next", !.hit = NoHit,
              !.stuck = IF t[1] = 0 THEN @ \cup {t[2][1]} ELSE @,
              !.ledger.marks = IF t[1] = 0 THEN @ ELSE @ \cup {t}]

(* this build cannot open it                                               *)
Unopenable(p, t, b) ==
    [p EXCEPT !.ledger.marks = @ \cup {<<b, t[2]>>}]

InHand(p) == <<p.hit.build, p.hit.entry>>
Hand(p, t, step, shows) ==
    [p EXCEPT !.step = step,
              !.hit = [build |-> t[1], entry |-> t[2],
                       intro |-> {IntroOf(t[2])}, shows |-> shows]]

(* adoptKRoot: the first copy, the same one again, or an older one         *)
Adopts(held, at) == held = 0 \/ at < held
Shows(held, at) == held = 0 \/ at <= held

(* onIntro: the introduction opens.  Its key is written unless it is held  *)
(* and written; one seen before goes no further                            *)
Receive(w, p, t) ==
    LET n == IntroOf(t[2])
        at == TimeOf(t[2])
        held == mem[w][n]
        known == n \in seen[w]
        upserts == ~known \/ held # 0
        writes == upserts /\ (Adopts(held, at) \/ dirty[w])
        shows == ~known /\ Shows(held, at)
    IN  /\ mem' = IF upserts /\ Adopts(held, at)
                  THEN [mem EXCEPT ![w][n] = at] ELSE mem
        /\ Becomes(w, CASE writes -> Hand(p, t, "write", shows)
                        [] ~writes /\ known -> Done(p, t)
                        [] ~writes /\ ~known -> Hand(p, t, "show", shows))

(* one entry is fetched and opened                                         *)
Take(w) ==
    LET p == pass[w] IN
    /\ p.at = "hits" /\ p.step = "next"
    /\ \E t \in First(p.todo) :
          LET rest == [p EXCEPT !.todo = @ \ {t}, !.ledger.marks = @ \ {t}]
          IN  \/ /\ t[2] \in p.ledger.done
                 /\ Becomes(w, rest)
                 /\ NoFault /\ UNCHANGED mem
              \/ /\ t[2] \notin p.ledger.done
                 /\ Fault
                 /\ Becomes(w, PutOff(rest, t))
                 /\ UNCHANGED mem
              \/ /\ t[2] \notin p.ledger.done
                 /\ OpensAt[IntroOf(t[2])] > build[w]
                 /\ Becomes(w, Unopenable(rest, t, build[w]))
                 /\ NoFault /\ UNCHANGED mem
              \/ /\ t[2] \notin p.ledger.done
                 /\ OpensAt[IntroOf(t[2])] <= build[w]
                 /\ Receive(w, rest, t)
                 /\ NoFault
    /\ UNCHANGED <<guardVars, chain, storeVars, dirty, build, shown, lapsed,
                   scene>>

(* mutant: a write of the keys that fails leaves no mark                   *)
WriteFailsUnnoticed(w) ==
    /\ Becomes(w, PutOff(pass[w], InHand(pass[w])))
    /\ UNCHANGED <<mem, dirty, keys>>

(* persistAndAdopt, the catch                                              *)
WriteFails(w) ==
    /\ Becomes(w, PutOff(pass[w], InHand(pass[w])))
    /\ dirty' = [dirty EXCEPT ![w] = TRUE]
    /\ UNCHANGED <<mem, keys>>

(* persist: of two times of one root the later stays; what keptDurably     *)
(* asks for is then so                                                     *)
WriteKeys(w) ==
    LET p == pass[w]
        merged == [n \in Nonces |-> IF mem[w][n] > keys[n] THEN mem[w][n]
                                    ELSE keys[n]]
    IN  /\ keys' = merged
        /\ mem' = [mem EXCEPT ![w] = merged]
        /\ dirty' = [dirty EXCEPT ![w] = FALSE]
        /\ Becomes(w, IF p.hit.intro \subseteq seen[w]
                      THEN Done(p, InHand(p))
                      ELSE [p EXCEPT !.step = "show"])

Write(w) ==
    /\ pass[w].step = "write"
    /\ (NoFault /\ WriteKeys(w)) \/ (Fault /\ WriteFails(w))
    /\ UNCHANGED <<guardVars, chain, cursors, ledger, build, shown, lapsed,
                   scene>>

(* onFirstContact, and the start of add                                    *)
Show(w) ==
    LET p == pass[w] IN
    /\ p.step = "show"
    /\ \/ /\ NoFault
          /\ shown' = IF p.hit.shows THEN shown \cup p.hit.intro ELSE shown
          /\ \E n \in p.hit.intro : GuardAdd(w, n)
          /\ Becomes(w, [p EXCEPT !.step = "guard"])
       \/ /\ p.hit.shows
          /\ Fault
          /\ Becomes(w, PutOff(p, InHand(p)))
          /\ UNCHANGED <<guardVars, shown>>
    /\ UNCHANGED <<chain, storeVars, pageVars, lapsed, scene>>

(* add: the flush it waits for                                             *)
Lock(w) ==
    /\ pass[w].step = "guard"
    /\ GuardRead(w)
    /\ Becomes(w, [pass[w] EXCEPT !.step = "flush"])
    /\ UNCHANGED <<chain, storeVars, pageVars, shown, faults, lapsed, scene>>

Flush(w) ==
    LET p == pass[w] IN
    /\ p.step = "flush"
    /\ \/ NoFault /\ GuardWrite(w) /\ Becomes(w, Done(p, InHand(p)))
       \/ Fault /\ GuardFails(w) /\ Becomes(w, PutOff(p, InHand(p)))
    /\ UNCHANGED <<chain, storeVars, pageVars, shown, lapsed, scene>>

-----------------------------------------------------------------------------
(* The end of runPass.                                                     *)

(* mutant: the cursor of a shard with an entry put off moves on            *)
NextCursorsMoved(p) == p.next

NextCursors(p) ==
    [s \in Shards |-> IF s \in p.stuck THEN p.from[s] ELSE p.next[s]]

(* save: it may fail                                                       *)
SaveCursors(w) ==
    LET p == pass[w] IN
    /\ p.at = "hits" /\ p.step = "next" /\ p.todo = {}
    /\ \/ NoFault /\ cursors' = NextCursors(p)
       \/ Fault /\ UNCHANGED cursors
    /\ Becomes(w, [p EXCEPT !.at = "save"])
    /\ UNCHANGED <<guardVars, chain, ledger, keys, pageVars, shown, lapsed,
                   scene>>

(* saveDelivered: it may fail                                              *)
SaveLedger(w) ==
    /\ pass[w].at = "save"
    /\ \/ NoFault /\ ledger' = pass[w].ledger
       \/ Fault /\ UNCHANGED ledger
    /\ Lapses(ledger' # pass[w].ledger)
    /\ Becomes(w, Idle)
    /\ UNCHANGED <<guardVars, chain, cursors, keys, pageVars, shown, scene>>

-----------------------------------------------------------------------------
(* The page is loaded again.                                               *)
Reload(w) ==
    /\ Becomes(w, Idle)
    /\ Lapses(pass[w].at = "save" /\ ledger # pass[w].ledger)
    /\ mem' = [mem EXCEPT ![w] = keys]
    /\ dirty' = [dirty EXCEPT ![w] = FALSE]
    /\ \E b \in Builds :
          /\ build' = [build EXCEPT ![w] = b]
          /\ (b = build[w] /\ Fault) \/ (b > build[w] /\ NoFault)
    /\ GuardOpen(w)
    /\ UNCHANGED <<chain, storeVars, shown, scene>>

Step(w) ==
    \/ Load(w) \/ ReadStates(w) \/ ReadPages(w)
    \/ Take(w) \/ Write(w) \/ Show(w) \/ Lock(w) \/ Flush(w)
    \/ SaveCursors(w) \/ SaveLedger(w)

Next ==
    \/ \E s \in Shards, n \in Nonces : Publish(s, n)
    \/ \E w \in scene.windows : Step(w) \/ Reload(w)

Spec == Init /\ [][Next]_vars

(* A window on the screen makes pass after pass (tick, schedule).          *)
FairSpec == Spec /\ \A w \in Windows : WF_vars(w \in scene.windows /\ Step(w))

-----------------------------------------------------------------------------
CopiesOf(n) == {entry \in Entries : IntroOf(entry) = n}

(* No saved cursor stands past an introduction whose root is not on disk,  *)
(* if the windows began with a build that opens it: whatever failed,       *)
(* whichever window saved, and whatever it had loaded.                     *)
KeysKept ==
    \A entry \in Entries :
        /\ OpensAt[IntroOf(entry)] <= scene.build
        /\ entry[2] <= cursors[entry[1]].next
        => keys[IntroOf(entry)] # 0

(* what a ledger has done, or will have tried again by another build       *)
Settled(l) == l.done \cup {m[2] : m \in l.marks}

(* A pass accounts for everything it moves past, in the ledger it is about *)
(* to save: an entry between the old and the new cursor is done, or marked *)
(* for another build, and what was marked is still marked or done.         *)
PassAccounts ==
    \A w \in Windows :
        pass[w].at = "save" =>
            LET p == pass[w]
            IN  /\ p.tried \subseteq Settled(p.ledger)
                /\ \A entry \in Entries :
                      /\ entry[2] > p.from[entry[1]].next
                      /\ entry[2] <= NextCursors(p)[entry[1]].next
                      => entry \in Settled(p.ledger)

(* Of a wallet with one window, the ledger has all that the saved cursors  *)
(* are past, on disk or in the pass that saved these cursors and is about  *)
(* to save it - as long as the ledger was never lost: a load or a save of  *)
(* it that failed, or a page loaded again between the two saves, leaves a  *)
(* mark behind the cursor that nobody has (and so does a second window     *)
(* that saves the ledger it had loaded before).                            *)
MarksKept ==
    \A w \in Windows :
        scene.windows = {w} /\ ~lapsed =>
            LET last == IF pass[w].at = "save" THEN pass[w].ledger ELSE ledger
            IN  \A entry \in Entries :
                    entry[2] <= cursors[entry[1]].next
                    => entry \in Settled(last)

(* No introduction that the windows can open is passed over, whatever      *)
(* fails.  One that they cannot open yet is marked in the pass that moves  *)
(* past it; its mark is kept for the next build unless the ledger is lost  *)
(* or two windows save theirs.                                             *)
NothingPassedOver == KeysKept /\ PassAccounts /\ MarksKept

(* An introduction that every build opens is kept in the end, and shown if *)
(* it was published once.                                                  *)
ContactsArrive ==
    \A n \in {m \in Nonces : OpensAt[m] = 1} :
        CopiesOf(n) # {} ~>
            (keys[n] # 0 /\ (n \in shown \/ Cardinality(CopiesOf(n)) > 1))

=============================================================================
