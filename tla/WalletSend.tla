----------------------------- MODULE WalletSend -----------------------------
(***************************************************************************)
(* How one window signs and sends the externals of a wallet                *)
(* (web/platho-wallet.mjs).  The wallet contract runs an external that     *)
(* carries its current seqno, before the external's valid_until, and adds  *)
(* one to the seqno.  A send is a list of chunks; each is signed at a      *)
(* seqno the endpoint was asked for, broadcast, and - when more chunks     *)
(* follow or the caller waits - watched until the seqno is taken or the    *)
(* external is dead, and then signed again at most once.                   *)
(*                                                                         *)
(* Sends of a window take turns (withWalletSendLane).  Other signers of    *)
(* the wallet - another device, a window whose lock was stolen - take      *)
(* seqnos too.  A message stands for what one chunk carries.  The app      *)
(* sends a message again when it was reported unsent, and asks what became *)
(* of the external it keeps otherwise.                                     *)
(*                                                                         *)
(* The clock is the chain's; the window's estimate of it may be ahead by   *)
(* Tolerance (behind, it only waits longer).  An endpoint answers with a   *)
(* state at most Lag old, counted to the moment the answer is used, and    *)
(* may not answer at all.  Not modelled: the lock that windows of one      *)
(* browser sign under, which only keeps the lane closed for longer.        *)
(***************************************************************************)
EXTENDS Naturals, Sequences, Functions

CONSTANTS
    Messages,    \* what the app has to send
    Validity,    \* WALLET_EXTERNAL_VALIDITY_S
    Tolerance,   \* WALLET_CLOCK_TOLERANCE_MS
    Lag,         \* age of what an endpoint answers
    Grace,       \* WALLET_EXTERNAL_DEATH_GRACE_MS
    FloorGrace,  \* WALLET_SEQNO_FLOOR_GRACE_MS
    Fixed,       \* deadlines an app may set itself: instants, and 0 for none
    MaxChunks,   \* bound of the model on the chunks of one send
    MaxSeqno,    \* bound of the model on the seqno
    MaxTime      \* bound of the model on the clock

ASSUME WalletAssumption ==
    /\ Validity \in Nat /\ Tolerance \in Nat /\ Lag \in Nat
    /\ Grace \in Nat /\ FloorGrace \in Nat /\ Fixed \subseteq Nat
    /\ MaxChunks \in Nat /\ MaxSeqno \in Nat /\ MaxTime \in Nat

(* The grace covers the error of the clock and the age of an answer.       *)
ASSUME GraceAssumption == Tolerance + Lag <= Grace

VARIABLES
    log,       \* what the contract ran, oldest first: an external of this
               \* window, or none of its own; its seqno is their number
    net,       \* the externals of this window that a node may have, or may
               \* yet be sent again, as long as the contract would run them
    floor,     \* walletSeqnoFloors: the next seqno, and when it was noted
    pending,   \* walletPendingExternals: none or one
    pc, call,  \* where the send in the lane stands, and its locals
    free,      \* messages the app may send: new, or reported unsent
    open,      \* externals whose fate the app has yet to learn
    unproved,  \* messages counted as sent although another signer's external
               \* took the seqno: the history could not be read
    now

chainVars == <<log, net>>
sendVars == <<floor, pending>>
laneVars == <<pc, call>>
appVars == <<free, open, unproved>>
vars == <<chainVars, sendVars, laneVars, appVars, now>>

NoFloor == [seqno |-> 0, at |-> 0]
NoCall == [todo |-> <<>>, alone |-> TRUE, waits |-> FALSE, fixed |-> 0,
           first |-> TRUE, resigned |-> FALSE, seqno |-> 0, ext |-> {}]

Init ==
    /\ log = <<>> /\ net = {}
    /\ floor = NoFloor /\ pending = {} /\ pc = "idle" /\ call = NoCall
    /\ free = Messages /\ open = {} /\ unproved = {}
    /\ now = 0

-----------------------------------------------------------------------------
(* What the window can see.                                                *)

Clock == now..(now + Tolerance)
Seqno == Len(log)

(* getPlathoWalletSeqno: the seqno of a state at most Lag old              *)
Seqnos == {n \in 0..Seqno : n < Seqno => now < log[n + 1].at + Lag}

(* walletExternalRanAtSeqno: which external took its seqno, if the history *)
(* could be read that far                                                  *)
Verdicts(e) ==
    {"unverified"} \cup
    (IF e.seqno >= Seqno THEN {}
     ELSE IF log[e.seqno + 1].ext = {e} THEN {"consumed"} ELSE {"replaced"})

(* mutant: an external is dead at its deadline, by whatever clock          *)
PastDeadlineBare(e) == \E t \in Clock : t >= e.until

PastDeadline(e) == \E t \in Clock : t >= e.until + Grace

(* walletExternalRanByDeadline: what was run by the deadline ends below    *)
(* its seqno                                                               *)
ExpiredByHistory(e) ==
    /\ PastDeadline(e)
    /\ \A i \in DOMAIN log : log[i].at <= e.until => i <= e.seqno

(* awaitWalletSeqnoConsumed throws walletExternalExpired, the seqno read   *)
Expired(e) == PastDeadline(e) /\ \E n \in Seqnos : n <= e.seqno

-----------------------------------------------------------------------------
(* What the window remembers of its externals.                             *)

(* noteWalletSeqnoBroadcast on a floor                                     *)
Noted(f, e, t) ==
    IF e.seqno + 1 > f.seqno THEN [seqno |-> e.seqno + 1, at |-> t] ELSE f

(* noteWalletSeqnoBroadcast, notePendingWalletExternal                     *)
NoteBroadcast(f, e) ==
    /\ \E t \in Clock : floor' = Noted(f, e, t)
    /\ pending' = {e}

(* resetWalletSeqnoFloor, clearPendingWalletExternal                       *)
Forget == floor' = NoFloor /\ pending' = {}

(* what is pending once the seqno has reached target                       *)
PendingFrom(target) == {p \in pending : p.seqno >= target}

(* applyWalletSeqnoFloor: whether the floor stands above the seqno read    *)
Reserved(r, t) == \E p \in pending : p.seqno >= r /\ p.until > t
FloorHolds(r, t) ==
    IF r = 0 THEN \E p \in pending : p.seqno = 0 /\ p.until > t
    ELSE /\ r < floor.seqno
         /\ t <= floor.at + FloorGrace \/ Reserved(r, t)

-----------------------------------------------------------------------------
(* How a send goes on.                                                     *)

SignAt(n) ==
    /\ pc' = "sign"
    /\ call' = [call EXCEPT !.seqno = n, !.ext = {}]

(* the send ends with an error: the app keeps opened to ask about, and may *)
(* send the messages unsent again (notePartialSend)                        *)
Report(opened, unsent) ==
    /\ open' = open \cup opened
    /\ free' = free \cup unsent
    /\ pc' = "idle" /\ call' = NoCall
    /\ UNCHANGED unproved
ReportUncertain == Report(call.ext, Range(Tail(call.todo)))

(* mutant: the chunk in hand is not among those the caller sends again     *)
ReportUnsentRest == Report({}, Range(Tail(call.todo)))

ReportUnsent == Report({}, Range(call.todo))

(* the external counts as run; the next chunk is signed at n               *)
Advance(n) ==
    /\ IF Len(call.todo) = 1
       THEN pc' = "idle" /\ call' = NoCall
       ELSE /\ pc' = "sign"
            /\ call' = [call EXCEPT !.todo = Tail(@), !.seqno = n, !.ext = {},
                                    !.first = FALSE, !.resigned = FALSE]
    /\ UNCHANGED <<free, open>>

(* the external counts as dead; its chunk is signed again at n             *)
Resign(n) ==
    /\ pc' = "sign"
    /\ call' = [call EXCEPT !.seqno = n, !.ext = {}, !.resigned = TRUE]
    /\ UNCHANGED appVars

CanResign == call.fixed = 0 \/ \E t \in Clock : call.fixed > t
CannotResign == call.fixed # 0 /\ \E t \in Clock : call.fixed <= t

-----------------------------------------------------------------------------
(* The chain.                                                              *)

(* what the contract would still run at a seqno and a time                 *)
Runnable(externals, seqno, time) ==
    {e \in externals : e.seqno >= seqno /\ time < e.until}
Sent(externals) == net' = Runnable(net \cup externals, Seqno, now)

Take(ext) ==
    /\ Seqno < MaxSeqno
    /\ log' = Append(log, [ext |-> ext, at |-> now])
    /\ net' = Runnable(net, Seqno + 1, now)
    /\ UNCHANGED <<sendVars, laneVars, appVars, now>>

(* wallet_v5r1: an external with the current seqno, before its valid_until *)
Execute(e) == e.seqno = Seqno /\ Take({e})

(* another signer's external                                               *)
OtherSigner == Take({})

Tick ==
    /\ now < MaxTime
    /\ now' = now + 1
    /\ net' = Runnable(net, Seqno, now')
    /\ UNCHANGED <<log, sendVars, laneVars, appVars>>

-----------------------------------------------------------------------------
(* sendPlathoWalletTransaction                                             *)

(* the app starts a send of some messages; fixed is its own deadline, or 0 *)
Start(todo, waits, fixed) ==
    /\ pc = "idle"
    /\ waits => Len(todo) = 1
    /\ pc' = "resolve"
    /\ call' = [NoCall EXCEPT !.todo = todo, !.alone = Len(todo) = 1,
                              !.waits = waits, !.fixed = fixed]
    /\ free' = free \ Range(todo)
    /\ UNCHANGED <<chainVars, sendVars, open, unproved, now>>

(* resolveWalletSendSeqno                                                  *)
Resolve ==
    /\ pc = "resolve"
    /\ \E r \in Seqnos, t \in Clock :
          IF FloorHolds(r, t)
          THEN LET held == IF r = 0 THEN [seqno |-> 1, at |-> t] ELSE floor IN
               /\ floor' = held
               /\ pc' = "catchup"
               /\ call' = [call EXCEPT !.seqno = held.seqno, !.ext = pending]
               /\ UNCHANGED pending
          ELSE /\ floor' = [seqno |-> r, at |-> t]
               /\ pending' = {}
               /\ SignAt(r)
    /\ UNCHANGED <<chainVars, appVars, now>>

(* its wait: the seqno is reached                                          *)
CaughtUp ==
    /\ pc = "catchup"
    /\ \E n \in Seqnos : n >= call.seqno /\ SignAt(n)
    /\ pending' = PendingFrom(call.seqno)
    /\ UNCHANGED <<chainVars, floor, appVars, now>>

(* or what is pending is past its deadline, and the chain has the say      *)
PendingExpired ==
    /\ pc = "catchup"
    /\ \E p \in call.ext : PastDeadline(p)
    /\ \E n \in Seqnos : SignAt(n)
    /\ Forget
    /\ UNCHANGED <<chainVars, appVars, now>>

(* or it gives up, or the seqno or the balance cannot be read, or what was *)
(* signed cannot be kept (onSigned)                                        *)
NotSigned ==
    /\ \/ pc \in {"resolve", "sign"}
       \/ pc = "catchup" /\ \A p \in call.ext : PastDeadline(p)
    /\ ReportUnsent
    /\ UNCHANGED <<chainVars, sendVars, now>>

(* buildPlathoWalletExternalBoc                                            *)
Sign ==
    /\ pc = "sign"
    /\ \E t \in Clock :
          call' = [call EXCEPT !.ext =
                      {[msg |-> Head(call.todo), seqno |-> call.seqno,
                        until |-> IF call.fixed = 0 THEN t + Validity
                                  ELSE call.fixed]}]
    /\ pc' = "broadcast"
    /\ UNCHANGED <<chainVars, sendVars, appVars, now>>

(* sendBoc answers                                                         *)
Broadcast(e) ==
    /\ pc = "broadcast"
    /\ Sent({e})
    /\ NoteBroadcast(floor, e)
    /\ IF call.alone /\ ~call.waits
       THEN Report({e}, {})
       ELSE /\ pc' = "await"
            /\ UNCHANGED <<call, appVars>>
    /\ UNCHANGED <<log, now>>

(* mutant: a broadcast that fails is taken for one that never left         *)
BroadcastUncertainUnsent(e) ==
    /\ pc = "broadcast"
    /\ Sent({e})
    /\ ReportUnsent
    /\ UNCHANGED <<log, sendVars, now>>

(* it fails, and the external may have reached a node: one of several is   *)
(* waited for (waitOutUncertainExternal), unless it was signed again       *)
BroadcastUncertain(e) ==
    /\ pc = "broadcast"
    /\ Sent({e})
    /\ \E f \in {floor, NoFloor} : NoteBroadcast(f, e)
    /\ IF call.alone \/ call.resigned
       THEN ReportUncertain
       ELSE /\ pc' = "uncertain"
            /\ UNCHANGED <<call, appVars>>
    /\ UNCHANGED <<log, now>>

(* it fails, and the external never left or was refused: a later chunk is  *)
(* tried again                                                             *)
BroadcastRefused(e) ==
    /\ pc = "broadcast"
    /\ floor' \in {floor, NoFloor}
    /\ \/ /\ ~call.first
          /\ \E n \in Seqnos : n <= e.seqno
          /\ UNCHANGED <<laneVars, appVars>>
       \/ ReportUnsent
    /\ UNCHANGED <<chainVars, pending, now>>

(* awaitWalletSeqnoConsumed: the seqno is taken                            *)
Taken(e) ==
    /\ pc \in {"await", "uncertain"}
    /\ \E n \in Seqnos :
          /\ n > e.seqno
          /\ call' = [call EXCEPT !.seqno = n]
    /\ pc' = "settle"
    /\ pending' = PendingFrom(e.seqno + 1)
    /\ UNCHANGED <<chainVars, floor, appVars, now>>

(* the external is dead: it is signed again, once                          *)
Died(e) ==
    /\ pc = "uncertain" \/ (pc = "await" /\ ~call.resigned)
    /\ Expired(e)
    /\ CanResign
    /\ pc' = "death"
    /\ Forget
    /\ UNCHANGED <<chainVars, call, appVars, now>>

DiedForGood(e) ==
    /\ pc \in {"await", "uncertain"}
    /\ Expired(e)
    /\ CannotResign \/ (pc = "await" /\ call.resigned)
    /\ pending' = IF pc = "uncertain" THEN {} ELSE pending
    /\ ReportUnsent
    /\ UNCHANGED <<chainVars, floor, now>>

(* the deadline is past, but the seqno was not read or the clock is not to *)
(* be trusted                                                              *)
Undecided(e) ==
    /\ pc \in {"await", "uncertain"}
    /\ PastDeadline(e)
    /\ IF pc = "uncertain" THEN NoteBroadcast(floor, e)
       ELSE UNCHANGED sendVars
    /\ ReportUncertain
    /\ UNCHANGED <<chainVars, now>>

(* resignAfterDeath                                                        *)
ResignAfterDeath(e) ==
    /\ pc = "death"
    /\ \/ \E n \in Seqnos, v \in Verdicts(e) :
             IF n > e.seqno /\ v = "consumed"
             THEN Advance(n) /\ UNCHANGED unproved
             ELSE Resign(n)
       \/ ReportUnsent
    /\ UNCHANGED <<chainVars, sendVars, now>>

(* settleOurs: an external of which the history says nothing counts as run *)
SettleOurs(e) ==
    /\ pc = "settle"
    /\ Advance(call.seqno)
    /\ unproved' = unproved \cup
          (IF "replaced" \in Verdicts(e) THEN {e.msg} ELSE {})
    /\ UNCHANGED <<chainVars, sendVars, now>>

SettleReplaced(e) ==
    /\ pc = "settle"
    /\ "replaced" \in Verdicts(e)
    /\ pending' = {}
    /\ \/ ~call.resigned /\ CanResign /\ Resign(call.seqno)
       \/ (call.resigned \/ CannotResign) /\ ReportUnsent
    /\ UNCHANGED <<chainVars, floor, now>>

-----------------------------------------------------------------------------
(* The app and the externals whose fate it does not know.                  *)

(* awaitWalletExternalOutcome, which forgets what is pending, and          *)
(* walletExternalOutcomeNow, which does not                                *)
Learn(e) ==
    /\ open' = open \ {e}
    /\ pending' \in {pending, PendingFrom(e.seqno + 1)}
    /\ UNCHANGED <<chainVars, floor, laneVars, unproved, now>>

OutcomeConsumed(e) ==
    /\ "consumed" \in Verdicts(e)
    /\ Learn(e)
    /\ UNCHANGED free

OutcomeDead(e) ==
    /\ "replaced" \in Verdicts(e) \/ Expired(e) \/ ExpiredByHistory(e)
    /\ Learn(e)
    /\ free' = free \cup {e.msg}

(* the page is loaded again: it has the signed external it kept            *)
Reload ==
    /\ pc # "idle"
    /\ Forget
    /\ IF pc \in {"resolve", "catchup", "sign"}
       THEN ReportUnsent /\ UNCHANGED net
       ELSE ReportUncertain /\ Sent(call.ext)
    /\ UNCHANGED <<log, now>>

-----------------------------------------------------------------------------
(* Sends of one message or of several, in any order.                       *)
Chunkings ==
    {s \in UNION {[1..n -> free] : n \in 1..MaxChunks} : IsInjective(s)}

Lane(e) ==
    \/ Broadcast(e) \/ BroadcastUncertain(e) \/ BroadcastRefused(e)
    \/ Taken(e) \/ Died(e) \/ DiedForGood(e) \/ Undecided(e)
    \/ ResignAfterDeath(e) \/ SettleOurs(e) \/ SettleReplaced(e)

Next ==
    \/ \E e \in net : Execute(e)
    \/ OtherSigner
    \/ Tick
    \/ \E s \in Chunkings, w \in BOOLEAN, f \in Fixed : Start(s, w, f)
    \/ Resolve \/ CaughtUp \/ PendingExpired \/ NotSigned \/ Sign
    \/ \E e \in call.ext : Lane(e)
    \/ \E e \in open : OutcomeConsumed(e) \/ OutcomeDead(e)
    \/ Reload

Spec == Init /\ [][Next]_vars

-----------------------------------------------------------------------------
Ran == UNION {log[i].ext : i \in DOMAIN log}
MessagesOf(externals) == {e.msg : e \in externals}

(* The externals that the app, or the send in the lane, watches.           *)
InLane == IF pc \in {"await", "uncertain", "settle"} THEN call.ext ELSE {}
Held == open \cup InLane

(* Messages that no external carries: the app may send them, or the send   *)
(* in the lane has yet to sign them, or to sign them again.                *)
ToSign ==
    IF pc \in {"await", "uncertain", "settle"} THEN Tail(call.todo)
    ELSE call.todo
Unsent == free \cup Range(ToSign)

(* What the app sends is run at most once, however often it is signed, by  *)
(* whatever order the answers, the deadlines and other signers come in.    *)
AtMostOnce ==
    \A i, j \in DOMAIN log : \A e \in log[i].ext, f \in log[j].ext :
        e.msg = f.msg => i = j

(* What the app is told was not sent, and what is about to be signed       *)
(* again, was not run and cannot be any more: an external is taken for     *)
(* dead only when it is, and an uncertain broadcast is never taken for one *)
(* that did not leave.                                                     *)
UnsentNeverRuns == MessagesOf(net \cup Ran) \cap Unsent = {}

(* No message is lost: one that is neither to be sent nor watched was run, *)
(* unless the history that would tell could not be read.                   *)
Accounted ==
    Messages \subseteq Unsent \cup MessagesOf(Ran \cup Held) \cup unproved

=============================================================================
