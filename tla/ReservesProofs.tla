--------------------------- MODULE ReservesProofs ---------------------------
(***************************************************************************)
(* Proofs about the contracts that hold ATH in a wallet of their own, for  *)
(* every value of the constants: the FeeVault, the market stability seller *)
(* and the vesting, and BuybackBurn, one part each; at the end, what       *)
(* follows for whichever of them holds the ATH of Reserves.                *)
(***************************************************************************)
EXTENDS Reserves, Sums, SequenceTheorems, TLAPS

(***************************************************************************)
(* The FeeVault                                                            *)
(***************************************************************************)

(* Sums along a queue, from a place on.                                    *)
NotesFrom(k) ==
    SumFunctionOnSet([i \in DOMAIN toVault |-> NoteAmount(toVault[i])],
                     k..Len(toVault))
AsksFrom(k) ==
    SumFunctionOnSet([i \in DOMAIN toWallet |-> toWallet[i].amount],
                     k..Len(toWallet))

Requests == [qid : Nat, amount : Nat, unstake : BOOLEAN, sent : Nat]
Notices == [type : {"note"}, amount : Nat, sent : Nat]
Outcomes == [type : {"bounce", "failed"}, qid : Nat, sent : Nat]
Messages == Notices \cup Outcomes
Leaving == [qid : Nat, amount : Nat, unstake : BOOLEAN]

VaultTypeOK ==
    /\ staked \in Nat /\ pending \in Nat /\ pending_at \in Nat
    /\ unstake_seq \in Nat /\ exited \in Nat /\ exited_at \in Nat
    /\ accrued_fee \in Nat /\ posting \in Nat /\ landed \in Nat
    /\ treasury \in Nat
    /\ balance \in Nat /\ purse \in Nat
    /\ outgoing \subseteq Leaving /\ IsFiniteSet(outgoing)
    /\ toWallet \in Seq(Requests)
    /\ toVault \in Seq(Messages)
    /\ excesses \subseteq Nat
    /\ emergency \in BOOLEAN
    /\ now \in Nat

IsOutcome(m) == m.type \in {"bounce", "failed"}

(* No message is older than a transit, nor from the future.                *)
AsksTimely ==
    \A i \in DOMAIN toWallet :
        toWallet[i].sent <= now /\ now <= toWallet[i].sent + MaxTransit
AnswersTimely ==
    \A i \in DOMAIN toVault :
        toVault[i].sent <= now /\ now <= toVault[i].sent + MaxTransit
Timely == AsksTimely /\ AnswersTimely /\ exited_at <= now

(* Requests are numbered as they are made, and once the latest has left    *)
(* the queue there are none.                                               *)
AsksNumbered ==
    /\ \A i \in DOMAIN toWallet : toWallet[i].qid <= unstake_seq
    /\ \A i, j \in DOMAIN toWallet :
          i < j => toWallet[i].qid < toWallet[j].qid
LeavingNumbered ==
    \A t \in outgoing :
        t.qid <= unstake_seq /\ (t.qid = unstake_seq => toWallet = <<>>)
OutcomesNumbered ==
    \A i \in DOMAIN toVault : IsOutcome(toVault[i]) =>
        /\ toVault[i].qid <= unstake_seq
        /\ toVault[i].qid = unstake_seq => toWallet = <<>>
Numbered ==
    /\ AsksNumbered /\ LeavingNumbered /\ OutcomesNumbered
    /\ \A q \in excesses : q <= unstake_seq

(* What is pending is what the latest request asked for.                   *)
PendingAsked ==
    pending > 0 =>
        /\ \A i \in DOMAIN toWallet :
              toWallet[i].qid = unstake_seq => toWallet[i].amount = pending
        /\ \A t \in outgoing : t.qid = unstake_seq => t.amount = pending

(* What the vault counts, or will once all that is under way has arrived.  *)
Comes == IF Returning THEN pending ELSE 0
Claimed == staked + Comes + NotesFrom(1) + AsksFrom(1)

(* Only an exit can leave less than that in the wallet: then nothing is    *)
(* staked or pending, what is missing is remembered, no request is newer   *)
(* than the exit, and notes it cannot have spent are there.                *)
LateThere ==
    \A k \in DOMAIN toVault :
        toVault[k].sent > exited_at + MaxTransit => NotesFrom(k) <= balance
AskedBefore == \A i \in DOMAIN toWallet : toWallet[i].sent <= exited_at
ShortByExit ==
    Claimed > balance =>
        /\ staked = 0 /\ pending = 0
        /\ Claimed <= balance + Debt
        /\ AskedBefore /\ LateThere

(* Behind the refusal of the latest request there are only deposits that   *)
(* nothing was taken of.                                                   *)
BehindRefusal ==
    \A k \in DOMAIN toVault :
        toVault[k].type = "bounce" /\ toVault[k].qid = unstake_seq =>
            NotesFrom(k) <= balance

StakeInv ==
    /\ VaultTypeOK /\ Timely /\ Numbered /\ PendingAsked
    /\ ShortByExit /\ BehindRefusal

(* Without emergencies one request at most has its outcome open, and it is *)
(* the pending one.                                                        *)
NoOutcome == \A i \in DOMAIN toVault : ~IsOutcome(toVault[i])
Calm == outgoing = {} /\ excesses = {} /\ NoOutcome
Asking ==
    /\ Len(toWallet) = 1
    /\ toWallet[1].qid = unstake_seq /\ toWallet[1].amount = pending
    /\ toWallet[1].unstake
    /\ Calm
LeavingNow ==
    /\ toWallet = <<>> /\ excesses = {} /\ NoOutcome
    /\ outgoing = {[qid |-> unstake_seq, amount |-> pending, unstake |-> TRUE]}
OneOutcome ==
    \E k \in DOMAIN toVault :
        /\ IsOutcome(toVault[k]) /\ toVault[k].qid = unstake_seq
        /\ \A i \in DOMAIN toVault : IsOutcome(toVault[i]) => i = k
Answered == toWallet = <<>> /\ excesses = {} /\ outgoing = {} /\ OneOutcome
Settled ==
    /\ toWallet = <<>> /\ outgoing = {} /\ NoOutcome
    /\ excesses \subseteq {unstake_seq}
OneRequest ==
    /\ exited = 0
    /\ IF pending = 0 THEN toWallet = <<>> /\ Calm
       ELSE Asking \/ LeavingNow \/ Answered \/ Settled

(* What nothing took or brought yet is counted once.                       *)
OpenPart == IF Open THEN pending ELSE 0
Balanced ==
    staked + NotesFrom(1) + OpenPart = balance + TotalAmount(outgoing)
ExactInv == ~emergency => OneRequest /\ Balanced

-----------------------------------------------------------------------------
(* Queues                                                                  *)

LEMMA QueueShrinks ==
    ASSUME NEW S, NEW q \in Seq(S), q # <<>>
    PROVE  /\ Tail(q) \in Seq(S) /\ Head(q) \in S /\ Head(q) = q[1]
           /\ Len(q) \in Nat /\ Len(q) > 0
           /\ DOMAIN q = 1..Len(q) /\ 1 \in DOMAIN q
           /\ Len(Tail(q)) = Len(q) - 1
           /\ DOMAIN Tail(q) = 1..Len(q) - 1
           /\ \A i \in 1..Len(q) - 1 :
                 i + 1 \in DOMAIN q /\ Tail(q)[i] = q[i + 1]
<1>1. /\ Tail(q) \in Seq(S) /\ Head(q) \in S
      /\ Len(Tail(q)) = Len(q) - 1
      /\ \A i \in 1..Len(Tail(q)) : Tail(q)[i] = q[i + 1]
  BY HeadTailProperties
<1>2. Head(q) = q[1] /\ Len(q) \in Nat /\ DOMAIN q = 1..Len(q) /\ Len(q) > 0
  OBVIOUS
<1>3. DOMAIN Tail(q) = 1..Len(Tail(q))
  BY <1>1
<1>4. DOMAIN Tail(q) = 1..Len(q) - 1
  BY <1>1, <1>3
<1> QED BY <1>1, <1>2, <1>4

LEMMA QueueGrows ==
    ASSUME NEW S, NEW q \in Seq(S), NEW m \in S
    PROVE  /\ Append(q, m) \in Seq(S)
           /\ Len(q) \in Nat /\ DOMAIN q = 1..Len(q)
           /\ Len(Append(q, m)) = Len(q) + 1
           /\ DOMAIN Append(q, m) = 1..Len(q) + 1
           /\ Append(q, m) # <<>>
           /\ \A i \in 1..Len(q) : Append(q, m)[i] = q[i]
           /\ Append(q, m)[Len(q) + 1] = m
<1>1. /\ Append(q, m) \in Seq(S)
      /\ Len(Append(q, m)) = Len(q) + 1
      /\ Append(q, m) # <<>>
      /\ \A i \in 1..Len(q) : Append(q, m)[i] = q[i]
      /\ Append(q, m)[Len(q) + 1] = m
  BY AppendProperties
<1>2. DOMAIN Append(q, m) = 1..Len(Append(q, m))
  BY <1>1
<1>3. DOMAIN Append(q, m) = 1..Len(q) + 1
  BY <1>1, <1>2
<1> QED BY <1>1, <1>3

LEMMA QueueIs ==
    ASSUME NEW S, NEW q \in Seq(S)
    PROVE  /\ Len(q) \in Nat /\ DOMAIN q = 1..Len(q)
           /\ \A i \in DOMAIN q : q[i] \in S
           /\ q = <<>> <=> Len(q) = 0
OBVIOUS

LEMMA MessageParts ==
    /\ \A m \in Messages :
          /\ NoteAmount(m) \in Nat /\ m.sent \in Nat
          /\ IsOutcome(m) =>
                NoteAmount(m) = 0 /\ m.qid \in Nat /\ m \in Outcomes
          /\ m.type = "note" => NoteAmount(m) = m.amount /\ ~IsOutcome(m)
          /\ ~IsOutcome(m) => m.type = "note"
    /\ \A r \in Requests :
          /\ r.qid \in Nat /\ r.amount \in Nat /\ r.unstake \in BOOLEAN
          /\ r.sent \in Nat
    /\ \A t \in Leaving :
          t.qid \in Nat /\ t.amount \in Nat /\ t.unstake \in BOOLEAN
BY DEF Messages, Notices, Outcomes, NoteAmount, IsOutcome, Requests, Leaving

(* Sums along a queue.                                                     *)
LEMMA NotesTyped ==
    ASSUME VaultTypeOK, NEW k \in Nat \ {0}
    PROVE  NotesFrom(k) \in Nat
<1>1. /\ Len(toVault) \in Nat /\ DOMAIN toVault = 1..Len(toVault)
      /\ \A i \in DOMAIN toVault : NoteAmount(toVault[i]) \in Nat
  BY QueueIs, MessageParts DEF VaultTypeOK
<1> DEFINE f == [i \in DOMAIN toVault |-> NoteAmount(toVault[i])]
<1>2. \A i \in k..Len(toVault) : f[i] \in Nat
  BY <1>1
<1> HIDE DEF f
<1>3. SumFunctionOnSet(f, k..Len(toVault)) \in Nat
  BY <1>1, <1>2, SumIntervals
<1> QED BY <1>3 DEF NotesFrom, f

LEMMA NotesAppended ==
    ASSUME VaultTypeOK, NEW m \in Messages, toVault' = Append(toVault, m)
    PROVE  /\ \A k \in 1..Len(toVault) + 1 :
                 NotesFrom(k)' = NotesFrom(k) + NoteAmount(m)
           /\ NotesFrom(Len(toVault) + 1) = 0
<1> DEFINE n == Len(toVault)
           f == [i \in DOMAIN toVault |-> NoteAmount(toVault[i])]
           e == [i \in DOMAIN toVault' |-> NoteAmount(toVault'[i])]
<1>1. /\ n \in Nat /\ DOMAIN toVault = 1..n /\ DOMAIN toVault' = 1..n + 1
      /\ \A i \in 1..n : toVault'[i] = toVault[i] /\ toVault[i] \in Messages
      /\ toVault'[n + 1] = m /\ Len(toVault') = n + 1
  <2>1. toVault \in Seq(Messages)
    BY DEF VaultTypeOK
  <2> QED BY <2>1, QueueGrows, QueueIs
<1>2. /\ \A i \in 1..n : e[i] = f[i] /\ e[i] \in Nat
      /\ e[n + 1] = NoteAmount(m) /\ e[n + 1] \in Nat
  BY <1>1, MessageParts
<1>3. /\ \A k : NotesFrom(k)' = SumFunctionOnSet(e, k..Len(toVault'))
      /\ \A k : NotesFrom(k) = SumFunctionOnSet(f, k..n)
  BY DEF NotesFrom
<1> HIDE DEF e, f, n
<1>4. ASSUME NEW k \in 1..n + 1
      PROVE  SumFunctionOnSet(e, k..n + 1)
                 = SumFunctionOnSet(f, k..n) + e[n + 1]
  <2>1. /\ k \in Int /\ n \in Int /\ k <= n + 1
        /\ \A i \in k..n + 1 : e[i] \in Nat
        /\ \A i \in k..n : e[i] = f[i]
    BY <1>1, <1>2
  <2> QED BY <2>1, SumOfLonger
<1>5. SumFunctionOnSet(f, n + 1..n) = 0
  <2>1. n + 1..n = {}
    BY <1>1
  <2> QED BY <2>1, SumOfNothing
<1>6. \A k \in 1..n + 1 : NotesFrom(k)' = NotesFrom(k) + NoteAmount(m)
  BY <1>1, <1>2, <1>3, <1>4
<1>7. NotesFrom(n + 1) = 0
  BY <1>3, <1>5
<1> QED BY <1>6, <1>7 DEF n

LEMMA NotesTaken ==
    ASSUME VaultTypeOK, toVault # <<>>, toVault' = Tail(toVault)
    PROVE  /\ \A k \in 1..Len(toVault) : NotesFrom(k)' = NotesFrom(k + 1)
           /\ NotesFrom(1) = NoteAmount(Head(toVault)) + NotesFrom(2)
<1> DEFINE n == Len(toVault)
           f == [i \in DOMAIN toVault |-> NoteAmount(toVault[i])]
           e == [i \in DOMAIN toVault' |-> NoteAmount(toVault'[i])]
<1>1. /\ n \in Nat /\ n > 0
      /\ DOMAIN toVault = 1..n /\ DOMAIN toVault' = 1..n - 1
      /\ \A i \in 1..n - 1 : toVault'[i] = toVault[i + 1]
      /\ \A i \in 1..n : toVault[i] \in Messages
      /\ toVault[1] = Head(toVault) /\ Len(toVault') = n - 1
  <2>1. toVault \in Seq(Messages)
    BY DEF VaultTypeOK
  <2> QED BY <2>1, QueueShrinks, QueueIs
<1>2. /\ \A i \in 1..n - 1 : e[i] = f[i + 1] /\ e[i] \in Nat
      /\ f[1] = NoteAmount(Head(toVault))
      /\ \A i \in 1..n : f[i] \in Nat
  BY <1>1, MessageParts
<1>3. /\ \A k : NotesFrom(k)' = SumFunctionOnSet(e, k..Len(toVault'))
      /\ \A k : NotesFrom(k) = SumFunctionOnSet(f, k..n)
  BY DEF NotesFrom
<1> HIDE DEF e, f, n
<1>4. ASSUME NEW k \in 1..n
      PROVE  SumFunctionOnSet(e, k..n - 1) = SumFunctionOnSet(f, k + 1..n)
  <2>1. /\ k \in Int /\ n \in Int /\ k <= n
        /\ \A i \in k..n - 1 : e[i] \in Nat /\ e[i] = f[i + 1]
    BY <1>1, <1>2
  <2> QED BY <2>1, SumOfShift
<1>5. SumFunctionOnSet(f, 1..n) = f[1] + SumFunctionOnSet(f, 1 + 1..n)
  BY <1>1, <1>2, SumFromFirst
<1>6. \A k \in 1..n : NotesFrom(k)' = NotesFrom(k + 1)
  BY <1>1, <1>3, <1>4
<1>7. NotesFrom(1) = f[1] + NotesFrom(2)
  BY <1>3, <1>5
<1> QED BY <1>2, <1>6, <1>7 DEF n

LEMMA AsksTyped == ASSUME VaultTypeOK PROVE AsksFrom(1) \in Nat
<1>1. /\ Len(toWallet) \in Nat /\ DOMAIN toWallet = 1..Len(toWallet)
      /\ \A i \in DOMAIN toWallet : toWallet[i].amount \in Nat
  BY QueueIs, MessageParts DEF VaultTypeOK
<1> DEFINE f == [i \in DOMAIN toWallet |-> toWallet[i].amount]
<1>2. \A i \in 1..Len(toWallet) : f[i] \in Nat
  BY <1>1
<1> HIDE DEF f
<1>3. SumFunctionOnSet(f, 1..Len(toWallet)) \in Nat
  BY <1>1, <1>2, SumIntervals
<1> QED BY <1>3 DEF AsksFrom, f

LEMMA AskAppended ==
    ASSUME VaultTypeOK, NEW r \in Requests, toWallet' = Append(toWallet, r)
    PROVE  AsksFrom(1)' = AsksFrom(1) + r.amount
<1> DEFINE n == Len(toWallet)
           f == [i \in DOMAIN toWallet |-> toWallet[i].amount]
           e == [i \in DOMAIN toWallet' |-> toWallet'[i].amount]
<1>1. /\ n \in Nat /\ DOMAIN toWallet = 1..n /\ DOMAIN toWallet' = 1..n + 1
      /\ \A i \in 1..n : toWallet'[i] = toWallet[i] /\ toWallet[i] \in Requests
      /\ toWallet'[n + 1] = r /\ Len(toWallet') = n + 1
  <2>1. toWallet \in Seq(Requests)
    BY DEF VaultTypeOK
  <2> QED BY <2>1, QueueGrows, QueueIs
<1>2. /\ \A i \in 1..n : e[i] = f[i] /\ e[i] \in Nat
      /\ e[n + 1] = r.amount /\ e[n + 1] \in Nat
  BY <1>1, MessageParts
<1>3. /\ AsksFrom(1)' = SumFunctionOnSet(e, 1..Len(toWallet'))
      /\ AsksFrom(1) = SumFunctionOnSet(f, 1..n)
  BY DEF AsksFrom
<1> HIDE DEF e, f, n
<1>4. SumFunctionOnSet(e, 1..n + 1) = SumFunctionOnSet(f, 1..n) + e[n + 1]
  <2>1. /\ 1 \in Int /\ n \in Int /\ 1 <= n + 1
        /\ \A i \in 1..n + 1 : e[i] \in Nat
        /\ \A i \in 1..n : e[i] = f[i]
    BY <1>1, <1>2
  <2> QED BY <2>1, SumOfLonger
<1> QED BY <1>1, <1>2, <1>3, <1>4

LEMMA AskTaken ==
    ASSUME VaultTypeOK, toWallet # <<>>, toWallet' = Tail(toWallet)
    PROVE  AsksFrom(1) = Head(toWallet).amount + AsksFrom(1)'
<1> DEFINE n == Len(toWallet)
           f == [i \in DOMAIN toWallet |-> toWallet[i].amount]
           e == [i \in DOMAIN toWallet' |-> toWallet'[i].amount]
<1>1. /\ n \in Nat /\ n > 0
      /\ DOMAIN toWallet = 1..n /\ DOMAIN toWallet' = 1..n - 1
      /\ \A i \in 1..n - 1 : toWallet'[i] = toWallet[i + 1]
      /\ \A i \in 1..n : toWallet[i] \in Requests
      /\ toWallet[1] = Head(toWallet) /\ Len(toWallet') = n - 1
  <2>1. toWallet \in Seq(Requests)
    BY DEF VaultTypeOK
  <2> QED BY <2>1, QueueShrinks, QueueIs
<1>2. /\ \A i \in 1..n - 1 : e[i] = f[i + 1] /\ e[i] \in Nat
      /\ f[1] = Head(toWallet).amount
      /\ \A i \in 1..n : f[i] \in Nat
  BY <1>1, MessageParts
<1>3. /\ AsksFrom(1)' = SumFunctionOnSet(e, 1..Len(toWallet'))
      /\ AsksFrom(1) = SumFunctionOnSet(f, 1..n)
  BY DEF AsksFrom
<1> HIDE DEF e, f, n
<1>4. SumFunctionOnSet(e, 1..n - 1) = SumFunctionOnSet(f, 1 + 1..n)
  <2>1. /\ 1 \in Int /\ n \in Int /\ 1 <= n
        /\ \A i \in 1..n - 1 : e[i] \in Nat /\ e[i] = f[i + 1]
    BY <1>1, <1>2
  <2> QED BY <2>1, SumOfShift
<1>5. SumFunctionOnSet(f, 1..n) = f[1] + SumFunctionOnSet(f, 1 + 1..n)
  BY <1>1, <1>2, SumFromFirst
<1> QED BY <1>1, <1>2, <1>3, <1>4, <1>5

-----------------------------------------------------------------------------
(* Types                                                                   *)

LEMMA VaultConstants ==
    /\ Funds \in Nat /\ FeeFull \in Nat /\ Amort \in Nat /\ FlushMin \in Nat
    /\ AbsorbWindow \in Nat /\ UnjamGrace \in Nat /\ MaxTransit \in Nat
    /\ MaxTime \in Nat /\ MaxSeq \in Nat /\ MaxFees \in Nat
    /\ Cap \in Nat /\ Cap > 0
    /\ 2 * MaxTransit <= AbsorbWindow
BY VaultAssumption, WindowAssumption

LEMMA FeeTyped == ASSUME VaultTypeOK PROVE FeeTake \in Nat
<1> DEFINE part == Cap - (IF staked > Cap THEN Cap ELSE staked)
<1>1. part \in Nat
  BY VaultConstants DEF VaultTypeOK
<1> HIDE DEF part
<1>2. FeeFull * part \in Nat
  BY <1>1, VaultConstants
<1>3. \A n, d \in Nat : d > 0 => n \div d \in Nat
  OBVIOUS
<1>4. (FeeFull * part) \div Cap \in Nat
  BY <1>2, <1>3, VaultConstants
<1> QED BY <1>4, VaultConstants DEF FeeTake, FeeDue, part

LEMMA DebtTyped == ASSUME VaultTypeOK PROVE Debt \in Nat /\ Debt <= exited
BY VaultConstants DEF VaultTypeOK, Debt

LEMMA AppendTyped ==
    ASSUME VaultTypeOK, NEW m \in Messages, toVault' = Append(toVault, m)
    PROVE  toVault' \in Seq(Messages)
BY QueueGrows DEF VaultTypeOK

LEMMA TailTyped ==
    ASSUME VaultTypeOK
    PROVE  /\ toVault # <<>> =>
                Tail(toVault) \in Seq(Messages) /\ Head(toVault) \in Messages
           /\ toWallet # <<>> =>
                Tail(toWallet) \in Seq(Requests) /\ Head(toWallet) \in Requests
BY QueueShrinks DEF VaultTypeOK

LEMMA SentTyped ==
    ASSUME VaultTypeOK
    PROVE  /\ \A a \in Nat : Note(a) \in Messages
           /\ \A q \in Nat : Refusal(q) \in Messages /\ Failure(q) \in Messages
BY DEF VaultTypeOK, Note, Refusal, Failure, Messages, Notices, Outcomes

LEMMA AskTyped ==
    ASSUME VaultTypeOK, NEW a \in Nat, NEW u \in BOOLEAN
    PROVE  [qid |-> unstake_seq + 1, amount |-> a, unstake |-> u, sent |-> now]
               \in Requests
BY DEF VaultTypeOK, Requests

LEMMA WalletTypes ==
    ASSUME VaultTypeOK, Wallet PROVE VaultTypeOK'
<1>1. ASSUME NEW a \in 1..Funds, NEW notified \in BOOLEAN, Deposit(a, notified)
      PROVE  VaultTypeOK'
  <2>1. a \in Nat /\ Note(a) \in Messages
    BY SentTyped, VaultConstants
  <2>2. toVault' \in Seq(Messages)
    BY <1>1, <2>1, AppendTyped DEF Deposit, ToVault, VaultTypeOK
  <2>3. purse' \in Nat /\ balance' \in Nat
    BY <1>1, <2>1 DEF Deposit, VaultTypeOK
  <2> QED BY <1>1, <2>2, <2>3 DEF Deposit, VaultTypeOK, stakeVars, feeVars,
                                  setting
<1>2. CASE JettonTransfer
  <2> DEFINE m == Head(toWallet)
             t == [qid |-> m.qid, amount |-> m.amount, unstake |-> m.unstake]
  <2>1. /\ m.qid \in Nat /\ m.amount \in Nat /\ m.unstake \in BOOLEAN
        /\ Tail(toWallet) \in Seq(Requests)
    BY <1>2, TailTyped, MessageParts DEF JettonTransfer
  <2>2. t \in Leaving
    BY <2>1 DEF Leaving
  <2>3. /\ balance' \in Nat /\ toWallet' \in Seq(Requests)
        /\ outgoing' = outgoing \cup {t}
    BY <1>2, <2>1 DEF JettonTransfer, VaultTypeOK
  <2> HIDE DEF m, t
  <2>4. IsFiniteSet(outgoing') /\ outgoing' \subseteq Leaving
    BY <2>2, <2>3, FS_AddElement DEF VaultTypeOK
  <2> QED BY <1>2, <2>3, <2>4
          DEF JettonTransfer, VaultTypeOK, stakeVars, feeVars, setting
<1>3. CASE RefuseJettonTransfer
  <2>1. /\ Head(toWallet).qid \in Nat /\ Tail(toWallet) \in Seq(Requests)
        /\ Refusal(Head(toWallet).qid) \in Messages
    BY <1>3, TailTyped, MessageParts, SentTyped DEF RefuseJettonTransfer
  <2>2. toVault' \in Seq(Messages)
    BY <1>3, <2>1, AppendTyped DEF RefuseJettonTransfer, ToVault
  <2> QED BY <1>3, <2>1, <2>2
          DEF RefuseJettonTransfer, VaultTypeOK, stakeVars, feeVars,
              walletVars,
              setting
<1>4. ASSUME NEW t \in outgoing, TakeBack(t) PROVE VaultTypeOK'
  <2>1. t.qid \in Nat /\ t.amount \in Nat /\ Failure(t.qid) \in Messages
    BY MessageParts, SentTyped DEF VaultTypeOK
  <2>2. toVault' \in Seq(Messages)
    BY <1>4, <2>1, AppendTyped DEF TakeBack, ToVault, VaultTypeOK
  <2>3. /\ balance' \in Nat
        /\ IsFiniteSet(outgoing') /\ outgoing' \subseteq Leaving
    BY <1>4, <2>1, FS_RemoveElement DEF TakeBack, VaultTypeOK
  <2> QED BY <1>4, <2>2, <2>3
          DEF TakeBack, VaultTypeOK, stakeVars, feeVars, setting
<1>5. ASSUME NEW t \in outgoing, NEW answered \in BOOLEAN,
             CreditOwner(t, answered)
      PROVE  VaultTypeOK'
  <2>1. t.qid \in Nat /\ t.amount \in Nat
    BY MessageParts DEF VaultTypeOK
  <2>2. purse' \in Nat
    BY <1>5, <2>1 DEF CreditOwner, VaultTypeOK
  <2>3. excesses' \subseteq Nat
    BY <1>5, <2>1 DEF CreditOwner, VaultTypeOK
  <2>4. IsFiniteSet(outgoing') /\ outgoing' \subseteq Leaving
    BY <1>5, FS_RemoveElement DEF CreditOwner, VaultTypeOK
  <2> QED BY <1>5, <2>2, <2>3, <2>4
          DEF CreditOwner, VaultTypeOK, stakeVars, feeVars, setting
<1> QED BY <1>1, <1>2, <1>3, <1>4, <1>5 DEF Wallet

LEMMA StakeTypes ==
    ASSUME VaultTypeOK, Stake PROVE VaultTypeOK'
<1>1. CASE JettonTransferNotification
  <2> DEFINE amount == Head(toVault).amount
  <2>1. /\ toVault # <<>> /\ Head(toVault).type = "note"
        /\ Tail(toVault) \in Seq(Messages) /\ Head(toVault) \in Messages
    BY <1>1, TailTyped DEF JettonTransferNotification, Arrives
  <2>2. amount \in Nat
    BY <2>1, MessageParts DEF NoteAmount
  <2>3. staked' \in Nat /\ exited' \in Nat
    <3>1. \/ Debt >= amount /\ exited' = exited - amount /\ staked' = staked
          \/ ~(Debt >= amount) /\ staked' = staked + (amount - Debt)
             /\ exited' = 0
      BY <1>1 DEF JettonTransferNotification
    <3> HIDE DEF amount
    <3>2. Debt \in Nat /\ Debt <= exited /\ exited \in Nat /\ staked \in Nat
      BY DebtTyped DEF VaultTypeOK
    <3> QED BY <2>2, <3>1, <3>2
  <2> QED BY <1>1, <2>1, <2>3
          DEF JettonTransferNotification, VaultTypeOK, walletVars, feeVars,
              setting
<1>2. CASE BouncedJettonTransfer
  <2>1. Tail(toVault) \in Seq(Messages)
    BY <1>2, TailTyped DEF BouncedJettonTransfer, Arrives
  <2>2. /\ staked' \in Nat /\ pending' \in Nat /\ pending_at' \in Nat
        /\ unstake_seq' \in Nat /\ exited' \in Nat /\ exited_at' \in Nat
    BY <1>2 DEF BouncedJettonTransfer, VaultTypeOK, stakeVars
  <2> QED BY <1>2, <2>1, <2>2
          DEF BouncedJettonTransfer, VaultTypeOK, walletVars, feeVars, setting
<1>3. CASE TransferFailed
  <2>1. Tail(toVault) \in Seq(Messages)
    BY <1>3, TailTyped DEF TransferFailed, Arrives
  <2> QED BY <1>3, <2>1
          DEF TransferFailed, VaultTypeOK, walletVars, feeVars, setting
<1>4. CASE UnstakeUnjam
  BY <1>4 DEF UnstakeUnjam, VaultTypeOK, walletVars, netVars, feeVars, setting
<1>5. ASSUME NEW a \in 1..Funds, Unstake(a) PROVE VaultTypeOK'
  <2>1. a \in Nat
    BY VaultConstants
  <2>2. toWallet' \in Seq(Requests)
    BY <1>5, <2>1, AskTyped, QueueGrows DEF Unstake, AskTransfer, VaultTypeOK
  <2> QED BY <1>5, <2>1, <2>2
          DEF Unstake, VaultTypeOK, walletVars, feeVars, setting
<1>6. ASSUME NEW a \in 1..Funds, EmergencyExit(a) PROVE VaultTypeOK'
  <2>1. a \in Nat
    BY VaultConstants
  <2>2. toWallet' \in Seq(Requests)
    BY <1>6, <2>1, AskTyped, QueueGrows
       DEF EmergencyExit, AskTransfer, VaultTypeOK
  <2> QED BY <1>6, <2>1, <2>2
          DEF EmergencyExit, VaultTypeOK, walletVars, feeVars, setting
<1>7. ASSUME NEW q \in excesses, JettonExcesses(q) PROVE VaultTypeOK'
  BY <1>7 DEF JettonExcesses, VaultTypeOK, walletVars, feeVars, setting
<1> QED BY <1>1, <1>2, <1>3, <1>4, <1>5, <1>6, <1>7 DEF Stake

LEMMA FeeTypes ==
    ASSUME VaultTypeOK, Fees \/ Tick \/ UNCHANGED vars PROVE VaultTypeOK'
<1>1. ASSUME NEW flushed \in BOOLEAN, PublishViaVault(flushed)
      PROVE  VaultTypeOK'
  BY <1>1, FeeTyped DEF PublishViaVault, VaultTypeOK, stakeVars, walletVars,
                        netVars, setting
<1>2. ASSUME NEW fee \in 1..MaxFees,
             PublicationLands(fee) \/ BouncedVaultPublish(fee)
      PROVE  VaultTypeOK'
  <2>1. fee \in Nat
    BY VaultConstants
  <2>2. /\ accrued_fee' \in Nat /\ posting' \in Nat /\ landed' \in Nat
        /\ treasury' \in Nat
    BY <1>2, <2>1 DEF PublicationLands, BouncedVaultPublish, VaultTypeOK
  <2>3. UNCHANGED <<stakeVars, walletVars, netVars, setting>>
    BY <1>2 DEF PublicationLands, BouncedVaultPublish
  <2> QED BY <2>2, <2>3
          DEF VaultTypeOK, stakeVars, walletVars, netVars, setting
<1>3. CASE FlushFees
  BY <1>3 DEF FlushFees, VaultTypeOK, stakeVars, walletVars, netVars, setting
<1>4. CASE Tick
  BY <1>4 DEF Tick, VaultTypeOK, stakeVars, walletVars, netVars, feeVars
<1>5. CASE UNCHANGED vars
  BY <1>5 DEF vars, VaultTypeOK, stakeVars, walletVars, netVars, feeVars,
              setting
<1> QED BY <1>1, <1>2, <1>3, <1>4, <1>5 DEF Fees

LEMMA VaultTypesKept == ASSUME VaultTypeOK, [Next]_vars PROVE VaultTypeOK'
BY WalletTypes, StakeTypes, FeeTypes DEF Next

-----------------------------------------------------------------------------
(* The fees                                                                *)

LEMMA FeesKept ==
    ASSUME VaultTypeOK, FeesCovered, [Next]_vars
    PROVE  FeesCovered'
<1>1. ASSUME NEW flushed \in BOOLEAN, PublishViaVault(flushed)
      PROVE  FeesCovered'
  BY <1>1, FeeTyped DEF PublishViaVault, VaultTypeOK, FeesCovered
<1>2. ASSUME NEW fee \in 1..MaxFees,
             PublicationLands(fee) \/ BouncedVaultPublish(fee)
      PROVE  FeesCovered'
  <2>1. fee \in Nat
    BY VaultConstants
  <2> QED BY <1>2, <2>1
          DEF PublicationLands, BouncedVaultPublish, VaultTypeOK, FeesCovered
<1>3. CASE FlushFees
  BY <1>3 DEF FlushFees, VaultTypeOK, FeesCovered
<1>4. CASE UNCHANGED feeVars
  BY <1>4 DEF feeVars, FeesCovered
<1>5. Wallet \/ Stake \/ Tick \/ UNCHANGED vars => UNCHANGED feeVars
  BY DEF Wallet, Stake, Tick, vars, Deposit, JettonTransfer,
         RefuseJettonTransfer, TakeBack, CreditOwner,
         JettonTransferNotification, BouncedJettonTransfer, TransferFailed,
         UnstakeUnjam, Unstake, EmergencyExit, JettonExcesses
<1> QED BY <1>1, <1>2, <1>3, <1>4, <1>5 DEF Next, Fees

-----------------------------------------------------------------------------
(* The stake                                                               *)

(* What does not change.                                                   *)
LEMMA VaultQueueSame ==
    ASSUME toVault' = toVault
    PROVE  /\ \A k : NotesFrom(k)' = NotesFrom(k)
           /\ unstake_seq' = unstake_seq => (Returning' <=> Returning)
BY DEF NotesFrom, Returning, Elements

LEMMA WalletQueueSame ==
    ASSUME toWallet' = toWallet PROVE AsksFrom(1)' = AsksFrom(1)
BY DEF AsksFrom

LEMMA ReturningAt ==
    Returning <=> \E i \in DOMAIN toVault :
                     IsOutcome(toVault[i]) /\ toVault[i].qid = unstake_seq
BY DEF Returning, Elements, IsOutcome

ClaimTypeOK ==
    /\ Claimed \in Nat /\ Comes \in Nat /\ Comes <= pending
    /\ NotesFrom(1) \in Nat /\ AsksFrom(1) \in Nat
    /\ staked \in Nat /\ pending \in Nat /\ balance \in Nat
    /\ Debt \in Nat

LEMMA ClaimedTyped == VaultTypeOK => ClaimTypeOK
<1> SUFFICES ASSUME VaultTypeOK PROVE ClaimTypeOK
  OBVIOUS
<1>1. NotesFrom(1) \in Nat
  <2>1. 1 \in Nat \ {0}
    OBVIOUS
  <2> QED BY <2>1, NotesTyped
<1>2. Comes \in Nat /\ Comes <= pending
  BY DEF Comes, VaultTypeOK
<1> QED BY <1>1, <1>2, AsksTyped, DebtTyped
        DEF ClaimTypeOK, Claimed, VaultTypeOK

LEMMA ClaimedTypedNext == VaultTypeOK' => ClaimTypeOK'
BY ClaimedTyped, PTL

(* A step that leaves nothing more missing, and the exits as they are.     *)
LEMMA ShortStays ==
    ASSUME VaultTypeOK, VaultTypeOK', ShortByExit,
           Claimed' + balance <= Claimed + balance',
           staked = 0 /\ pending = 0 => staked' = 0 /\ pending' = 0,
           exited' = exited, exited_at' = exited_at, now' = now,
           AskedBefore => AskedBefore',
           AskedBefore /\ LateThere => LateThere'
    PROVE  ShortByExit'
<1>1. Debt' = Debt
  BY DEF Debt
<1>2. /\ Debt \in Nat /\ Claimed \in Nat /\ balance \in Nat
      /\ Claimed' \in Nat /\ balance' \in Nat
  BY ClaimedTyped, ClaimedTypedNext DEF ClaimTypeOK
<1>3. \A c1, c2, b1, b2, d \in Nat : c2 + b1 <= c1 + b2 =>
         /\ c1 <= b1 + d => c2 <= b2 + d
         /\ ~(c1 > b1) => ~(c2 > b2)
  OBVIOUS
<1>4. CASE Claimed > balance
  <2>1. /\ staked = 0 /\ pending = 0 /\ Claimed <= balance + Debt
        /\ AskedBefore /\ LateThere
    BY <1>4 DEF ShortByExit
  <2>2. Claimed' <= balance' + Debt'
    BY <1>1, <1>2, <1>3, <2>1, Zenon
  <2> QED BY <2>1, <2>2 DEF ShortByExit
<1>5. CASE ~(Claimed > balance)
  <2>1. ~(Claimed' > balance')
    BY <1>2, <1>3, <1>5, Zenon
  <2> QED BY <2>1 DEF ShortByExit
<1> QED BY <1>4, <1>5

QueueInv == Timely /\ Numbered /\ PendingAsked

(* In words of the sums: what the wallet lacks does not grow.              *)
LEMMA ClaimMoves ==
    ASSUME VaultTypeOK, VaultTypeOK',
           staked' + Comes' + NotesFrom(1)' + AsksFrom(1)' + balance
              <= staked + Comes + NotesFrom(1) + AsksFrom(1) + balance'
    PROVE  Claimed' + balance <= Claimed + balance'
BY DEF Claimed

LEMMA VaultQueueIs ==
    ASSUME VaultTypeOK
    PROVE  /\ Len(toVault) \in Nat /\ DOMAIN toVault = 1..Len(toVault)
           /\ \A i \in 1..Len(toVault) : toVault[i] \in Messages
           /\ \A k \in 1..Len(toVault) + 1 : NotesFrom(k) \in Nat
<1>1. /\ Len(toVault) \in Nat /\ DOMAIN toVault = 1..Len(toVault)
      /\ \A i \in 1..Len(toVault) : toVault[i] \in Messages
  BY QueueIs DEF VaultTypeOK
<1>2. ASSUME NEW k \in 1..Len(toVault) + 1 PROVE NotesFrom(k) \in Nat
  <2>1. k \in Nat \ {0}
    BY <1>1
  <2> QED BY <2>1, NotesTyped
<1> QED BY <1>1, <1>2

(* A message is added to the queue of the vault.                           *)
LEMMA VaultQueueGrown ==
    ASSUME VaultTypeOK, NEW m \in Messages, toVault' = Append(toVault, m)
    PROVE  /\ Len(toVault) \in Nat /\ DOMAIN toVault = 1..Len(toVault)
           /\ DOMAIN toVault' = 1..Len(toVault) + 1
           /\ \A i \in 1..Len(toVault) : toVault'[i] = toVault[i]
           /\ toVault'[Len(toVault) + 1] = m
           /\ \A k \in 1..Len(toVault) + 1 :
                 /\ NotesFrom(k)' = NotesFrom(k) + NoteAmount(m)
                 /\ NotesFrom(k) \in Nat
           /\ NotesFrom(1)' = NotesFrom(1) + NoteAmount(m)
           /\ NotesFrom(Len(toVault) + 1) = 0
           /\ unstake_seq' = unstake_seq =>
                 (Returning' <=>
                     Returning \/ (IsOutcome(m) /\ m.qid = unstake_seq))
<1> DEFINE n == Len(toVault)
<1>1. toVault \in Seq(Messages)
  BY DEF VaultTypeOK
<1>2. /\ n \in Nat /\ DOMAIN toVault = 1..n /\ DOMAIN toVault' = 1..n + 1
      /\ \A i \in 1..n : toVault'[i] = toVault[i]
      /\ toVault'[n + 1] = m
  BY <1>1, QueueGrows
<1>3. /\ \A k \in 1..n + 1 : NotesFrom(k)' = NotesFrom(k) + NoteAmount(m)
      /\ NotesFrom(n + 1) = 0
      /\ \A k \in 1..n + 1 : NotesFrom(k) \in Nat
  BY NotesAppended, VaultQueueIs
<1>4. Returning' <=> \E i \in DOMAIN toVault' :
          IsOutcome(toVault'[i]) /\ toVault'[i].qid = unstake_seq'
  BY DEF Returning, Elements, IsOutcome
<1> HIDE DEF n
<1>5. unstake_seq' = unstake_seq =>
         (Returning' <=> Returning \/ (IsOutcome(m) /\ m.qid = unstake_seq))
  BY <1>2, <1>4, ReturningAt
<1>6. NotesFrom(1)' = NotesFrom(1) + NoteAmount(m)
  BY <1>2, <1>3
<1> QED BY <1>2, <1>3, <1>5, <1>6 DEF n

(* The vault takes the first message of its queue.                         *)
LEMMA VaultQueueTaken ==
    ASSUME VaultTypeOK, toVault # <<>>, toVault' = Tail(toVault)
    PROVE  /\ Len(toVault) \in Nat /\ DOMAIN toVault = 1..Len(toVault)
           /\ Len(toVault) > 0 /\ DOMAIN toVault' = 1..Len(toVault) - 1
           /\ \A i \in 1..Len(toVault) - 1 : toVault'[i] = toVault[i + 1]
           /\ \A i \in DOMAIN toVault' :
                 /\ i + 1 \in DOMAIN toVault /\ toVault'[i] = toVault[i + 1]
                 /\ NotesFrom(i)' = NotesFrom(i + 1)
                 /\ NotesFrom(i + 1) \in Nat
           /\ Head(toVault) = toVault[1] /\ Head(toVault) \in Messages
           /\ \A k \in 1..Len(toVault) :
                 NotesFrom(k)' = NotesFrom(k + 1) /\ NotesFrom(k) \in Nat
           /\ NotesFrom(1)' \in Nat
           /\ NotesFrom(1) = NoteAmount(Head(toVault)) + NotesFrom(1)'
           /\ unstake_seq' = unstake_seq => (Returning' => Returning)
<1> DEFINE n == Len(toVault)
<1>1. toVault \in Seq(Messages)
  BY DEF VaultTypeOK
<1>2. /\ n \in Nat /\ DOMAIN toVault = 1..n /\ DOMAIN toVault' = 1..n - 1
      /\ \A i \in 1..n - 1 : toVault'[i] = toVault[i + 1]
      /\ n > 0 /\ Head(toVault) = toVault[1] /\ Head(toVault) \in Messages
  BY <1>1, QueueShrinks
<1>3. /\ \A k \in 1..n : NotesFrom(k)' = NotesFrom(k + 1)
      /\ NotesFrom(1) = NoteAmount(Head(toVault)) + NotesFrom(2)
      /\ \A k \in 1..n + 1 : NotesFrom(k) \in Nat
  BY NotesTaken, VaultQueueIs
<1>4. Returning' <=> \E i \in DOMAIN toVault' :
          IsOutcome(toVault'[i]) /\ toVault'[i].qid = unstake_seq'
  BY DEF Returning, Elements, IsOutcome
<1> HIDE DEF n
<1>5. unstake_seq' = unstake_seq => (Returning' => Returning)
  <2> SUFFICES ASSUME unstake_seq' = unstake_seq, Returning'
               PROVE  Returning
    OBVIOUS
  <2>1. PICK i \in 1..n - 1 :
           IsOutcome(toVault'[i]) /\ toVault'[i].qid = unstake_seq
    BY <1>2, <1>4
  <2>2. i + 1 \in DOMAIN toVault /\ toVault[i + 1] = toVault'[i]
    BY <1>2
  <2> QED BY <2>1, <2>2, ReturningAt
<1>6. /\ NotesFrom(1)' = NotesFrom(2) /\ NotesFrom(2) \in Nat
  <2>1. 1 \in 1..n /\ 1 + 1 = 2 /\ 2 \in 1..n + 1
    BY <1>2
  <2> QED BY <1>3, <2>1
<1>7. \A i \in DOMAIN toVault' :
         /\ i + 1 \in DOMAIN toVault /\ toVault'[i] = toVault[i + 1]
         /\ NotesFrom(i)' = NotesFrom(i + 1) /\ NotesFrom(i + 1) \in Nat
  BY <1>2, <1>3
<1> QED BY <1>2, <1>3, <1>5, <1>6, <1>7 DEF n

(* A request is added to the queue of the wallet, or taken from it.        *)
LEMMA WalletQueueIs ==
    ASSUME VaultTypeOK
    PROVE  /\ Len(toWallet) \in Nat /\ DOMAIN toWallet = 1..Len(toWallet)
           /\ \A i \in 1..Len(toWallet) : toWallet[i] \in Requests
           /\ toWallet = <<>> <=> Len(toWallet) = 0
BY QueueIs DEF VaultTypeOK

LEMMA WalletQueueGrown ==
    ASSUME VaultTypeOK, NEW r \in Requests, toWallet' = Append(toWallet, r)
    PROVE  /\ Len(toWallet) \in Nat /\ DOMAIN toWallet = 1..Len(toWallet)
           /\ DOMAIN toWallet' = 1..Len(toWallet) + 1
           /\ \A i \in 1..Len(toWallet) : toWallet'[i] = toWallet[i]
           /\ toWallet'[Len(toWallet) + 1] = r
           /\ AsksFrom(1)' = AsksFrom(1) + r.amount
<1>1. toWallet \in Seq(Requests)
  BY DEF VaultTypeOK
<1> QED BY <1>1, QueueGrows, AskAppended

LEMMA WalletQueueTaken ==
    ASSUME VaultTypeOK, toWallet # <<>>, toWallet' = Tail(toWallet)
    PROVE  /\ Len(toWallet) \in Nat /\ DOMAIN toWallet = 1..Len(toWallet)
           /\ Len(toWallet) > 0 /\ DOMAIN toWallet' = 1..Len(toWallet) - 1
           /\ \A i \in 1..Len(toWallet) - 1 : toWallet'[i] = toWallet[i + 1]
           /\ \A i \in DOMAIN toWallet' :
                 i + 1 \in DOMAIN toWallet /\ toWallet'[i] = toWallet[i + 1]
           /\ Head(toWallet) = toWallet[1] /\ Head(toWallet) \in Requests
           /\ AsksFrom(1) = Head(toWallet).amount + AsksFrom(1)'
           /\ Len(toWallet) = 1 => toWallet' = <<>>
<1>1. toWallet \in Seq(Requests)
  BY DEF VaultTypeOK
<1>2. Len(toWallet) = 1 => toWallet' = <<>>
  BY <1>1, QueueShrinks
<1> DEFINE n == Len(toWallet)
<1>3. /\ n \in Nat /\ DOMAIN toWallet = 1..n /\ DOMAIN toWallet' = 1..n - 1
      /\ \A i \in 1..n - 1 : toWallet'[i] = toWallet[i + 1]
  BY <1>1, QueueShrinks
<1> HIDE DEF n
<1>4. \A i \in DOMAIN toWallet' :
         i + 1 \in DOMAIN toWallet /\ toWallet'[i] = toWallet[i + 1]
  BY <1>3
<1> QED BY <1>1, <1>2, <1>4, QueueShrinks, AskTaken

-----------------------------------------------------------------------------
(* What a step on the queues keeps.                                        *)

LEMMA AsksTimelyKept ==
    ASSUME VaultTypeOK, AsksTimely, now' = now,
           \/ toWallet' = toWallet
           \/ toWallet # <<>> /\ toWallet' = Tail(toWallet)
           \/ \E r \in Requests :
                 r.sent = now /\ toWallet' = Append(toWallet, r)
    PROVE  AsksTimely'
<1>1. CASE toWallet' = toWallet
  BY <1>1 DEF AsksTimely
<1>2. CASE toWallet # <<>> /\ toWallet' = Tail(toWallet)
  <2> SUFFICES ASSUME NEW i \in DOMAIN toWallet'
               PROVE  /\ toWallet'[i].sent <= now
                      /\ now <= toWallet'[i].sent + MaxTransit
    BY DEF AsksTimely
  <2>1. i + 1 \in DOMAIN toWallet /\ toWallet'[i] = toWallet[i + 1]
    <3>1. \A j \in DOMAIN toWallet' :
             j + 1 \in DOMAIN toWallet /\ toWallet'[j] = toWallet[j + 1]
      BY <1>2, WalletQueueTaken, Zenon
    <3> QED BY <3>1
  <2> QED BY <2>1 DEF AsksTimely
<1>3. ASSUME NEW r \in Requests, r.sent = now,
             toWallet' = Append(toWallet, r)
      PROVE  AsksTimely'
  <2> SUFFICES ASSUME NEW i \in DOMAIN toWallet'
               PROVE  /\ toWallet'[i].sent <= now
                      /\ now <= toWallet'[i].sent + MaxTransit
    BY DEF AsksTimely
  <2>1. \/ i \in DOMAIN toWallet /\ toWallet'[i] = toWallet[i]
        \/ toWallet'[i] = r
    BY <1>3, WalletQueueGrown
  <2>2. now <= now /\ now <= now + MaxTransit
    BY VaultConstants DEF VaultTypeOK
  <2> QED BY <1>3, <2>1, <2>2 DEF AsksTimely
<1> QED BY <1>1, <1>2, <1>3

LEMMA AnswersTimelyKept ==
    ASSUME VaultTypeOK, AnswersTimely, now' = now,
           \/ toVault' = toVault
           \/ toVault # <<>> /\ toVault' = Tail(toVault)
           \/ \E m \in Messages :
                 m.sent = now /\ toVault' = Append(toVault, m)
    PROVE  AnswersTimely'
<1>1. CASE toVault' = toVault
  BY <1>1 DEF AnswersTimely
<1>2. CASE toVault # <<>> /\ toVault' = Tail(toVault)
  <2> SUFFICES ASSUME NEW i \in DOMAIN toVault'
               PROVE  /\ toVault'[i].sent <= now
                      /\ now <= toVault'[i].sent + MaxTransit
    BY DEF AnswersTimely
  <2>1. i + 1 \in DOMAIN toVault /\ toVault'[i] = toVault[i + 1]
    <3>1. \A j \in DOMAIN toVault' :
             j + 1 \in DOMAIN toVault /\ toVault'[j] = toVault[j + 1]
      BY <1>2, VaultQueueTaken, Zenon
    <3> QED BY <3>1
  <2> QED BY <2>1 DEF AnswersTimely
<1>3. ASSUME NEW m \in Messages, m.sent = now,
             toVault' = Append(toVault, m)
      PROVE  AnswersTimely'
  <2> SUFFICES ASSUME NEW i \in DOMAIN toVault'
               PROVE  /\ toVault'[i].sent <= now
                      /\ now <= toVault'[i].sent + MaxTransit
    BY DEF AnswersTimely
  <2>1. \/ i \in DOMAIN toVault /\ toVault'[i] = toVault[i]
        \/ toVault'[i] = m
    BY <1>3, VaultQueueGrown
  <2>2. now <= now /\ now <= now + MaxTransit
    BY VaultConstants DEF VaultTypeOK
  <2> QED BY <1>3, <2>1, <2>2 DEF AnswersTimely
<1> QED BY <1>1, <1>2, <1>3

(* What is left on the way from a place on stays backed, when no more is   *)
(* added to it than to the balance.                                        *)
LEMMA BackedKept ==
    ASSUME VaultTypeOK, balance' \in Nat,
           \/ toVault' = toVault /\ balance <= balance'
           \/ toVault # <<>> /\ toVault' = Tail(toVault) /\ balance <= balance'
           \/ \E m \in Messages :
                 /\ toVault' = Append(toVault, m)
                 /\ balance + NoteAmount(m) <= balance'
    PROVE  /\ exited_at' = exited_at => (LateThere => LateThere')
           /\ unstake_seq' = unstake_seq => (BehindRefusal => BehindRefusal')
<1>1. balance \in Nat
  BY DEF VaultTypeOK
<1>2. ASSUME NEW k \in DOMAIN toVault'
      PROVE  \/ NotesFrom(k)' <= balance'
             \/ \E i \in DOMAIN toVault :
                   /\ toVault'[k] = toVault[i]
                   /\ NotesFrom(i) <= balance => NotesFrom(k)' <= balance'
  <2>1. CASE toVault' = toVault /\ balance <= balance'
    <3>1. /\ k \in DOMAIN toVault
          /\ \A i : NotesFrom(i)' = NotesFrom(i)
      BY <2>1, VaultQueueSame
    <3>2. NotesFrom(k)' = NotesFrom(k) /\ toVault'[k] = toVault[k]
      BY <2>1, <3>1
    <3>3. NotesFrom(k) \in Nat
      BY <3>1, VaultQueueIs
    <3>4. NotesFrom(k) <= balance => NotesFrom(k)' <= balance'
      BY <1>1, <2>1, <3>2, <3>3
    <3> QED BY <3>1, <3>2, <3>4, Zenon
  <2>2. CASE toVault # <<>> /\ toVault' = Tail(toVault) /\ balance <= balance'
    <3>1. k + 1 \in DOMAIN toVault /\ toVault'[k] = toVault[k + 1]
          /\ NotesFrom(k)' = NotesFrom(k + 1)
          /\ NotesFrom(k + 1) \in Nat
      <4>1. \A j \in DOMAIN toVault' :
               /\ j + 1 \in DOMAIN toVault /\ toVault'[j] = toVault[j + 1]
               /\ NotesFrom(j)' = NotesFrom(j + 1)
               /\ NotesFrom(j + 1) \in Nat
        BY <2>2, VaultQueueTaken, Zenon
      <4> QED BY <4>1
    <3>3. NotesFrom(k + 1) <= balance => NotesFrom(k)' <= balance'
      BY <1>1, <2>2, <3>1
    <3> QED BY <3>1, <3>3, Zenon
  <2>3. ASSUME NEW m \in Messages, toVault' = Append(toVault, m),
               balance + NoteAmount(m) <= balance'
        PROVE  \/ NotesFrom(k)' <= balance'
               \/ \E i \in DOMAIN toVault :
                     /\ toVault'[k] = toVault[i]
                     /\ NotesFrom(i) <= balance => NotesFrom(k)' <= balance'
    <3> DEFINE n == Len(toVault)
    <3>1. /\ n \in Nat /\ DOMAIN toVault = 1..n /\ k \in 1..n + 1
          /\ k \in 1..n => toVault'[k] = toVault[k]
          /\ NotesFrom(k)' = NotesFrom(k) + NoteAmount(m)
          /\ NotesFrom(k) \in Nat /\ NotesFrom(n + 1) = 0
      BY <2>3, VaultQueueGrown
    <3> HIDE DEF n
    <3>2. NoteAmount(m) \in Nat
      BY MessageParts
    <3>3. CASE k = n + 1
      BY <1>1, <2>3, <3>1, <3>2, <3>3
    <3>4. CASE k \in 1..n
      <4>1. NotesFrom(k) <= balance => NotesFrom(k)' <= balance'
        BY <1>1, <2>3, <3>1, <3>2
      <4> QED BY <3>1, <3>4, <4>1, Zenon
    <3> QED BY <3>1, <3>3, <3>4
  <2> QED BY <2>1, <2>2, <2>3
<1>3. exited_at' = exited_at => (LateThere => LateThere')
  BY <1>2 DEF LateThere
<1>4. unstake_seq' = unstake_seq => (BehindRefusal => BehindRefusal')
  BY <1>2 DEF BehindRefusal
<1> QED BY <1>3, <1>4

(* The outcomes that stay on their way to the vault.                       *)
LEMMA OutcomesKept ==
    ASSUME VaultTypeOK, OutcomesNumbered, unstake_seq' = unstake_seq,
           toWallet = <<>> => toWallet' = <<>>,
           \/ toVault' = toVault
           \/ toVault # <<>> /\ toVault' = Tail(toVault)
           \/ \E m \in Messages :
                 /\ toVault' = Append(toVault, m)
                 /\ IsOutcome(m) => /\ m.qid <= unstake_seq
                                    /\ m.qid = unstake_seq => toWallet' = <<>>
    PROVE  OutcomesNumbered'
<1> SUFFICES ASSUME NEW i \in DOMAIN toVault', IsOutcome(toVault'[i])
             PROVE  /\ toVault'[i].qid <= unstake_seq
                    /\ toVault'[i].qid = unstake_seq => toWallet' = <<>>
  BY DEF OutcomesNumbered, IsOutcome
<1>1. CASE toVault' = toVault
  BY <1>1 DEF OutcomesNumbered
<1>2. CASE toVault # <<>> /\ toVault' = Tail(toVault)
  <2>1. i + 1 \in DOMAIN toVault /\ toVault'[i] = toVault[i + 1]
    <3>1. \A j \in DOMAIN toVault' :
             j + 1 \in DOMAIN toVault /\ toVault'[j] = toVault[j + 1]
      BY <1>2, VaultQueueTaken, Zenon
    <3> QED BY <3>1
  <2> QED BY <2>1 DEF OutcomesNumbered
<1>3. ASSUME NEW m \in Messages, toVault' = Append(toVault, m),
             IsOutcome(m) => /\ m.qid <= unstake_seq
                             /\ m.qid = unstake_seq => toWallet' = <<>>
      PROVE  /\ toVault'[i].qid <= unstake_seq
             /\ toVault'[i].qid = unstake_seq => toWallet' = <<>>
  <2>1. \/ i \in DOMAIN toVault /\ toVault'[i] = toVault[i]
        \/ toVault'[i] = m
    BY <1>3, VaultQueueGrown
  <2> QED BY <1>3, <2>1 DEF OutcomesNumbered
<1> QED BY <1>1, <1>2, <1>3

(* The wallet takes the oldest request.                                    *)
LEMMA AsksShrink ==
    ASSUME VaultTypeOK, AsksNumbered, toWallet # <<>>,
           toWallet' = Tail(toWallet), unstake_seq' = unstake_seq
    PROVE  /\ AsksNumbered'
           /\ Head(toWallet).qid <= unstake_seq
           /\ Head(toWallet).qid = unstake_seq => toWallet' = <<>>
<1> DEFINE n == Len(toWallet)
<1>1. /\ n \in Nat /\ n > 0
      /\ DOMAIN toWallet = 1..n /\ DOMAIN toWallet' = 1..n - 1
      /\ \A i \in 1..n - 1 : toWallet'[i] = toWallet[i + 1]
      /\ Head(toWallet) = toWallet[1]
      /\ n = 1 => toWallet' = <<>>
  BY WalletQueueTaken
<1>2. /\ \A i \in 1..n : toWallet[i].qid \in Nat
      /\ unstake_seq \in Nat
  BY WalletQueueIs, MessageParts DEF VaultTypeOK
<1> HIDE DEF n
<1>3. AsksNumbered'
  <2>1. ASSUME NEW i \in 1..n - 1
        PROVE  toWallet'[i].qid <= unstake_seq
    BY <1>1 DEF AsksNumbered
  <2>2. ASSUME NEW i \in 1..n - 1, NEW j \in 1..n - 1, i < j
        PROVE  toWallet'[i].qid < toWallet'[j].qid
    <3>1. i + 1 \in DOMAIN toWallet /\ j + 1 \in DOMAIN toWallet
          /\ i + 1 < j + 1
      BY <1>1, <2>2
    <3> QED BY <1>1, <3>1 DEF AsksNumbered
  <2> QED BY <1>1, <2>1, <2>2 DEF AsksNumbered
<1>4. n > 1 => Head(toWallet).qid < unstake_seq
  <2> SUFFICES ASSUME n > 1 PROVE Head(toWallet).qid < unstake_seq
    OBVIOUS
  <2>1. 1 \in 1..n /\ 2 \in 1..n
    BY <1>1
  <2>2. toWallet[1].qid < toWallet[2].qid /\ toWallet[2].qid <= unstake_seq
    BY <1>1, <2>1 DEF AsksNumbered
  <2> QED BY <1>1, <1>2, <2>1, <2>2
<1>5. Head(toWallet).qid <= unstake_seq
  BY <1>1 DEF AsksNumbered
<1> QED BY <1>1, <1>2, <1>3, <1>4, <1>5

-----------------------------------------------------------------------------
(* One lemma per action of the wallet.                                     *)

LEMMA DepositStake ==
    ASSUME StakeInv, VaultTypeOK', NEW a \in 1..Funds,
           NEW notified \in BOOLEAN, Deposit(a, notified)
    PROVE  StakeInv'
<1> USE DEF StakeInv
<1>1. a \in Nat /\ balance \in Nat /\ balance' = balance + a /\ now' = now
      /\ UNCHANGED <<staked, pending, pending_at, unstake_seq, exited,
                     exited_at, outgoing, toWallet, excesses>>
      /\ balance' \in Nat
  BY VaultConstants DEF Deposit, VaultTypeOK, stakeVars, setting
<1>2. Note(a) \in Messages /\ ~IsOutcome(Note(a)) /\ NoteAmount(Note(a)) = a
      /\ Note(a).sent = now
  BY <1>1, SentTyped DEF Note, IsOutcome, NoteAmount
<1>3. \/ toVault' = toVault
      \/ toVault' = Append(toVault, Note(a))
  BY DEF Deposit, ToVault
<1>4. Timely'
  BY <1>1, <1>2, <1>3, AsksTimelyKept, AnswersTimelyKept DEF Timely
<1>5. Numbered' /\ PendingAsked'
  <2>1. OutcomesNumbered'
    BY <1>1, <1>2, <1>3, OutcomesKept DEF Numbered
  <2> QED BY <1>1, <2>1
          DEF Numbered, PendingAsked, AsksNumbered, LeavingNumbered
<1>6. /\ LateThere => LateThere'
      /\ BehindRefusal'
  <2>1. \/ toVault' = toVault /\ balance <= balance'
        \/ \E m \in Messages :
              /\ toVault' = Append(toVault, m)
              /\ balance + NoteAmount(m) <= balance'
    <3>1. balance <= balance + a /\ balance + a <= balance + a
      BY <1>1
    <3> QED BY <1>1, <1>2, <1>3, <3>1
  <2> QED BY <1>1, <2>1, BackedKept
<1>7. Claimed' + balance <= Claimed + balance'
  <2>1. AsksFrom(1)' = AsksFrom(1)
    BY <1>1, WalletQueueSame
  <2>2. /\ NotesFrom(1)' = NotesFrom(1) \/ NotesFrom(1)' = NotesFrom(1) + a
        /\ Returning' <=> Returning
    <3>1. CASE toVault' = toVault
      BY <1>1, <3>1, VaultQueueSame
    <3>2. CASE toVault' = Append(toVault, Note(a))
      BY <1>1, <1>2, <3>2, VaultQueueGrown
    <3> QED BY <1>3, <3>1, <3>2
  <2>3. Comes' = Comes
    BY <1>1, <2>2 DEF Comes
  <2>4. /\ staked \in Nat /\ Comes \in Nat /\ NotesFrom(1) \in Nat
        /\ AsksFrom(1) \in Nat
    BY ClaimedTyped DEF ClaimTypeOK
  <2>5. staked' + Comes' + NotesFrom(1)' + AsksFrom(1)' + balance
           <= staked + Comes + NotesFrom(1) + AsksFrom(1) + balance'
    BY <1>1, <2>1, <2>2, <2>3, <2>4
  <2> QED BY <2>5, ClaimMoves
<1>8. ShortByExit'
  BY <1>1, <1>6, <1>7, ShortStays DEF AskedBefore
<1> QED BY <1>4, <1>5, <1>6, <1>8

(* The wallet takes what is asked for.  While it is short after an exit,   *)
(* no request is newer than the exit, so no note is late yet.              *)
LEMMA JettonTransferStake ==
    ASSUME StakeInv, VaultTypeOK', JettonTransfer
    PROVE  StakeInv'
<1> USE DEF StakeInv
<1> DEFINE m == Head(toWallet)
<1>1. /\ toWallet # <<>> /\ toWallet' = Tail(toWallet) /\ now' = now
      /\ UNCHANGED <<staked, pending, pending_at, unstake_seq, exited,
                     exited_at, toVault, excesses>>
      /\ balance \in Nat /\ balance' \in Nat
      /\ balance >= m.amount /\ balance' = balance - m.amount
      /\ outgoing' = outgoing \cup
            {[qid |-> m.qid, amount |-> m.amount, unstake |-> m.unstake]}
  BY DEF JettonTransfer, stakeVars, setting, VaultTypeOK
<1>2. /\ m = toWallet[1] /\ 1 \in DOMAIN toWallet /\ m \in Requests
      /\ m.amount \in Nat /\ m.qid \in Nat
  BY <1>1, WalletQueueTaken, MessageParts
<1> HIDE DEF m
<1>3. /\ AsksNumbered' /\ m.qid <= unstake_seq
      /\ m.qid = unstake_seq => toWallet' = <<>>
  BY <1>1, AsksShrink DEF Numbered, m
<1>4. Timely'
  BY <1>1, AsksTimelyKept, AnswersTimelyKept DEF Timely
<1>5. Numbered'
  <2>1. OutcomesNumbered'
    BY <1>1, OutcomesKept DEF Numbered
  <2>2. LeavingNumbered'
    BY <1>1, <1>3 DEF Numbered, LeavingNumbered
  <2> QED BY <1>1, <1>3, <2>1, <2>2 DEF Numbered
<1>6. PendingAsked'
  <2>1. \A i \in DOMAIN toWallet' :
           i + 1 \in DOMAIN toWallet /\ toWallet'[i] = toWallet[i + 1]
    BY <1>1, WalletQueueTaken, Zenon
  <2> QED BY <1>1, <1>2, <2>1 DEF PendingAsked
<1>7. Claimed' + balance <= Claimed + balance'
  <2>1. AsksFrom(1) = m.amount + AsksFrom(1)'
    BY <1>1, WalletQueueTaken DEF m
  <2>2. NotesFrom(1)' = NotesFrom(1) /\ Comes' = Comes
    BY <1>1, VaultQueueSame DEF Comes
  <2>3. /\ staked \in Nat /\ Comes \in Nat /\ NotesFrom(1) \in Nat
        /\ AsksFrom(1) \in Nat
    BY ClaimedTyped DEF ClaimTypeOK
  <2>4. AsksFrom(1)' \in Nat
    BY ClaimedTypedNext DEF ClaimTypeOK
  <2>5. staked' + Comes' + NotesFrom(1)' + AsksFrom(1)' + balance
           <= staked + Comes + NotesFrom(1) + AsksFrom(1) + balance'
    <3>1. \A x, y, z, d, u, v, b \in Nat :
             u = d + v => x + y + z + v + b <= x + y + z + u + (b - d)
      OBVIOUS
    <3>2. staked + Comes + NotesFrom(1) + AsksFrom(1)' + balance
             <= staked + Comes + NotesFrom(1) + AsksFrom(1)
                   + (balance - m.amount)
      BY <1>1, <1>2, <2>1, <2>3, <2>4, <3>1, Zenon
    <3> QED BY <1>1, <2>2, <3>2, Zenon
  <2> QED BY <2>5, ClaimMoves
<1>8. AskedBefore => AskedBefore'
  <2>1. \A i \in DOMAIN toWallet' :
           i + 1 \in DOMAIN toWallet /\ toWallet'[i] = toWallet[i + 1]
    BY <1>1, WalletQueueTaken, Zenon
  <2> QED BY <1>1, <2>1 DEF AskedBefore
<1>9. AskedBefore => LateThere'
  <2> SUFFICES ASSUME AskedBefore, NEW k \in DOMAIN toVault
               PROVE  ~(toVault[k].sent > exited_at + MaxTransit)
    BY <1>1 DEF LateThere
  <2>1. m.sent <= exited_at /\ now <= m.sent + MaxTransit
        /\ toVault[k].sent <= now
    BY <1>2 DEF AskedBefore, Timely, AsksTimely, AnswersTimely
  <2>2. /\ m.sent \in Nat /\ toVault[k].sent \in Nat /\ exited_at \in Nat
        /\ now \in Nat /\ MaxTransit \in Nat
    BY <1>2, VaultQueueIs, MessageParts, VaultConstants DEF VaultTypeOK
  <2> QED BY <2>1, <2>2
<1>10. ShortByExit'
  BY <1>1, <1>7, <1>8, <1>9, ShortStays
<1>11. BehindRefusal'
  <2> SUFFICES ASSUME NEW k \in DOMAIN toVault,
                      toVault[k].type = "bounce", toVault[k].qid = unstake_seq
               PROVE  FALSE
    BY <1>1 DEF BehindRefusal
  <2> QED BY <1>1 DEF Numbered, OutcomesNumbered, IsOutcome
<1> QED BY <1>4, <1>5, <1>6, <1>10, <1>11

(* The wallet refuses what is asked for: the refusal of the latest request *)
(* has nothing behind it yet.                                              *)
LEMMA RefuseStake ==
    ASSUME StakeInv, VaultTypeOK', RefuseJettonTransfer
    PROVE  StakeInv'
<1> USE DEF StakeInv
<1> DEFINE m == Head(toWallet)
           r == Refusal(m.qid)
<1>1. /\ toWallet # <<>> /\ toWallet' = Tail(toWallet) /\ now' = now
      /\ UNCHANGED <<staked, pending, pending_at, unstake_seq, exited,
                     exited_at, balance, outgoing, excesses>>
      /\ balance \in Nat /\ balance' \in Nat
      /\ toVault' = Append(toVault, r)
  BY DEF RefuseJettonTransfer, ToVault, stakeVars, walletVars, setting,
         VaultTypeOK
<1>2. /\ m = toWallet[1] /\ 1 \in DOMAIN toWallet /\ m \in Requests
      /\ m.amount \in Nat /\ m.qid \in Nat
  BY <1>1, WalletQueueTaken, MessageParts
<1> HIDE DEF m
<1>3. r \in Messages /\ IsOutcome(r) /\ NoteAmount(r) = 0 /\ r.sent = now
      /\ r.qid = m.qid
  BY <1>2, SentTyped DEF Refusal, IsOutcome, NoteAmount
<1> HIDE DEF r
<1>4. /\ AsksNumbered' /\ m.qid <= unstake_seq
      /\ m.qid = unstake_seq => toWallet' = <<>>
  BY <1>1, AsksShrink DEF Numbered, m
<1>5. Timely'
  BY <1>1, <1>3, AsksTimelyKept, AnswersTimelyKept DEF Timely
<1>6. Numbered'
  <2>1. OutcomesNumbered'
    BY <1>1, <1>3, <1>4, OutcomesKept DEF Numbered
  <2>2. LeavingNumbered'
    BY <1>1 DEF Numbered, LeavingNumbered
  <2> QED BY <1>1, <1>4, <2>1, <2>2 DEF Numbered
<1>7. \A i \in DOMAIN toWallet' :
         i + 1 \in DOMAIN toWallet /\ toWallet'[i] = toWallet[i + 1]
  BY <1>1, WalletQueueTaken, Zenon
<1>8. PendingAsked' /\ (AskedBefore => AskedBefore')
  BY <1>1, <1>7 DEF PendingAsked, AskedBefore
<1>9. (LateThere => LateThere') /\ BehindRefusal'
  <2>1. balance + NoteAmount(r) <= balance'
    BY <1>1, <1>3
  <2> QED BY <1>1, <1>3, <2>1, BackedKept
<1>10. Claimed' + balance <= Claimed + balance'
  <2>1. AsksFrom(1) = m.amount + AsksFrom(1)'
    BY <1>1, WalletQueueTaken DEF m
  <2>2. /\ NotesFrom(1)' = NotesFrom(1) + 0
        /\ Returning' => Returning \/ m.qid = unstake_seq
    BY <1>1, <1>3, VaultQueueGrown
  <2>3. /\ staked \in Nat /\ pending \in Nat
        /\ Comes \in Nat /\ NotesFrom(1) \in Nat
        /\ AsksFrom(1)' \in Nat /\ Comes' \in Nat
    BY ClaimedTyped, ClaimedTypedNext DEF ClaimTypeOK
  <2>4. Comes' <= Comes + m.amount
    <3>1. CASE pending = 0 \/ ~Returning'
      <4>1. Comes' = 0
        BY <1>1, <3>1 DEF Comes
      <4> QED BY <1>2, <2>3, <4>1
    <3>2. CASE pending # 0 /\ Returning'
      <4>1. Comes' = pending
        BY <1>1, <3>2 DEF Comes
      <4>2. CASE Returning
        BY <1>2, <2>3, <4>1, <4>2 DEF Comes
      <4>3. CASE m.qid = unstake_seq
        <5>1. m.amount = pending
          BY <1>2, <2>3, <3>2, <4>3 DEF PendingAsked
        <5> QED BY <2>3, <4>1, <5>1
      <4> QED BY <2>2, <3>2, <4>2, <4>3
    <3> QED BY <3>1, <3>2
  <2>5. staked' + Comes' + NotesFrom(1)' + AsksFrom(1)' + balance
           <= staked + Comes + NotesFrom(1) + AsksFrom(1) + balance'
    <3>1. \A x, c1, c2, z, d, v, b \in Nat :
             c2 <= c1 + d
             => x + c2 + (z + 0) + v + b <= x + c1 + z + (d + v) + b
      OBVIOUS
    <3>2. staked + Comes' + (NotesFrom(1) + 0) + AsksFrom(1)' + balance
             <= staked + Comes + NotesFrom(1) + (m.amount + AsksFrom(1)')
                   + balance
      BY <1>1, <1>2, <2>3, <2>4, <3>1, Zenon
    <3> QED BY <1>1, <2>1, <2>2, <3>2, Zenon
  <2> QED BY <2>5, ClaimMoves
<1>11. ShortByExit'
  BY <1>1, <1>8, <1>9, <1>10, ShortStays
<1> QED BY <1>5, <1>6, <1>8, <1>9, <1>11

LEMMA CreditStake ==
    ASSUME StakeInv, VaultTypeOK', NEW t \in outgoing,
           NEW answered \in BOOLEAN, CreditOwner(t, answered)
    PROVE  StakeInv'
<1> USE DEF StakeInv
<1>1. /\ UNCHANGED <<staked, pending, pending_at, unstake_seq, exited,
                     exited_at, balance, toWallet, toVault, now>>
      /\ balance \in Nat /\ balance' \in Nat /\ balance <= balance'
      /\ outgoing' \subseteq outgoing
      /\ excesses' \subseteq excesses \cup {t.qid}
  BY DEF CreditOwner, stakeVars, setting, VaultTypeOK
<1>2. Timely' /\ PendingAsked'
  BY <1>1 DEF Timely, AsksTimely, AnswersTimely, PendingAsked
<1>3. Numbered'
  BY <1>1 DEF Numbered, AsksNumbered, LeavingNumbered, OutcomesNumbered,
              IsOutcome
<1>4. (LateThere => LateThere') /\ BehindRefusal'
  BY <1>1, BackedKept
<1>5. Claimed' = Claimed
  BY <1>1, VaultQueueSame, WalletQueueSame DEF Claimed, Comes
<1>6. ShortByExit'
  <2>1. Claimed \in Nat
    BY ClaimedTyped DEF ClaimTypeOK
  <2>2. Claimed' + balance <= Claimed + balance'
    BY <1>1, <1>5, <2>1
  <2> QED BY <1>1, <1>4, <2>2, ShortStays DEF AskedBefore
<1> QED BY <1>2, <1>3, <1>4, <1>6

(* The wallet takes a transfer back: what comes of it is there again.      *)
LEMMA TakeBackStake ==
    ASSUME StakeInv, VaultTypeOK', NEW t \in outgoing, TakeBack(t)
    PROVE  StakeInv'
<1> USE DEF StakeInv
<1> DEFINE r == Failure(t.qid)
<1>1. /\ UNCHANGED <<staked, pending, pending_at, unstake_seq, exited,
                     exited_at, toWallet, excesses, now>>
      /\ outgoing' \subseteq outgoing
      /\ balance \in Nat /\ balance' \in Nat
      /\ balance' = balance + t.amount
      /\ toVault' = toVault \/ toVault' = Append(toVault, r)
  BY DEF TakeBack, ToVault, stakeVars, setting, VaultTypeOK
<1>2. t.amount \in Nat /\ t.qid \in Nat
  BY MessageParts DEF VaultTypeOK
<1>3. r \in Messages /\ IsOutcome(r) /\ NoteAmount(r) = 0 /\ r.sent = now
      /\ r.qid = t.qid
  BY <1>2, SentTyped DEF Failure, IsOutcome, NoteAmount
<1> HIDE DEF r
<1>4. Timely'
  BY <1>1, <1>3, AsksTimelyKept, AnswersTimelyKept DEF Timely
<1>5. Numbered'
  <2>1. t.qid <= unstake_seq /\ (t.qid = unstake_seq => toWallet' = <<>>)
    BY <1>1 DEF Numbered, LeavingNumbered
  <2>2. OutcomesNumbered'
    BY <1>1, <1>3, <2>1, OutcomesKept DEF Numbered
  <2> QED BY <1>1, <2>2 DEF Numbered, LeavingNumbered, AsksNumbered
<1>6. PendingAsked' /\ (AskedBefore => AskedBefore')
  BY <1>1 DEF PendingAsked, AskedBefore
<1>7. (LateThere => LateThere') /\ BehindRefusal'
  <2>1. balance <= balance' /\ balance + NoteAmount(r) <= balance'
    BY <1>1, <1>2, <1>3
  <2> QED BY <1>1, <1>3, <2>1, BackedKept
<1>8. Claimed' + balance <= Claimed + balance'
  <2>1. AsksFrom(1)' = AsksFrom(1)
    BY <1>1, WalletQueueSame
  <2>2. /\ staked \in Nat /\ pending \in Nat
        /\ Comes \in Nat /\ NotesFrom(1) \in Nat
        /\ AsksFrom(1) \in Nat /\ Comes' \in Nat
    BY ClaimedTyped, ClaimedTypedNext DEF ClaimTypeOK
  <2>3. /\ NotesFrom(1)' = NotesFrom(1)
        /\ Returning' => Returning \/ t.qid = unstake_seq
    <3>1. CASE toVault' = toVault
      BY <1>1, <3>1, VaultQueueSame
    <3>2. CASE toVault' = Append(toVault, r)
      <4>1. /\ NotesFrom(1)' = NotesFrom(1) + 0
            /\ Returning' => Returning \/ t.qid = unstake_seq
        BY <1>1, <1>3, <3>2, VaultQueueGrown
      <4> QED BY <2>2, <4>1
    <3> QED BY <1>1, <3>1, <3>2
  <2>4. Comes' <= Comes + t.amount
    <3>1. CASE pending = 0 \/ ~Returning'
      <4>1. Comes' = 0
        BY <1>1, <3>1 DEF Comes
      <4> QED BY <1>2, <2>2, <4>1
    <3>2. CASE pending # 0 /\ Returning'
      <4>1. Comes' = pending
        BY <1>1, <3>2 DEF Comes
      <4>2. CASE Returning
        BY <1>2, <2>2, <4>1, <4>2 DEF Comes
      <4>3. CASE t.qid = unstake_seq
        <5>1. t.amount = pending
          BY <2>2, <3>2, <4>3 DEF PendingAsked
        <5> QED BY <2>2, <4>1, <5>1
      <4> QED BY <2>3, <3>2, <4>2, <4>3
    <3> QED BY <3>1, <3>2
  <2>5. staked' + Comes' + NotesFrom(1)' + AsksFrom(1)' + balance
           <= staked + Comes + NotesFrom(1) + AsksFrom(1) + balance'
    <3>1. \A x, c1, c2, z, d, v, b \in Nat :
             c2 <= c1 + d => x + c2 + z + v + b <= x + c1 + z + v + (b + d)
      OBVIOUS
    <3>2. staked + Comes' + NotesFrom(1) + AsksFrom(1) + balance
             <= staked + Comes + NotesFrom(1) + AsksFrom(1)
                   + (balance + t.amount)
      BY <1>1, <1>2, <2>2, <2>4, <3>1, Zenon
    <3> QED BY <1>1, <2>1, <2>3, <3>2, Zenon
  <2> QED BY <2>5, ClaimMoves
<1>9. ShortByExit'
  BY <1>1, <1>6, <1>7, <1>8, ShortStays
<1> QED BY <1>4, <1>5, <1>6, <1>7, <1>9

(* A request of the vault is the latest: nothing that is under way is its  *)
(* outcome.                                                                *)
LEMMA NumberedNext ==
    ASSUME VaultTypeOK, Numbered,
           UNCHANGED <<outgoing, toVault, excesses>>,
           unstake_seq' = unstake_seq + 1,
           NEW r \in Requests, r.qid = unstake_seq',
           pending' \in {0, r.amount},
           toWallet' = Append(toWallet, r)
    PROVE  Numbered' /\ PendingAsked' /\ ~Returning' /\ BehindRefusal'
<1> DEFINE n == Len(toWallet)
<1>1. /\ n \in Nat /\ DOMAIN toWallet = 1..n /\ DOMAIN toWallet' = 1..n + 1
      /\ \A i \in 1..n : toWallet'[i] = toWallet[i]
      /\ toWallet'[n + 1] = r
  BY WalletQueueGrown
<1>2. /\ unstake_seq \in Nat /\ unstake_seq' = unstake_seq + 1
      /\ \A i \in 1..n : toWallet[i].qid \in Nat
      /\ \A t \in outgoing : t.qid \in Nat
      /\ excesses \subseteq Nat
      /\ \A i \in DOMAIN toVault : IsOutcome(toVault[i]) =>
            toVault[i].qid \in Nat
  BY WalletQueueIs, VaultQueueIs, MessageParts DEF VaultTypeOK
<1> HIDE DEF n
<1>3. \A i \in 1..n : toWallet'[i].qid <= unstake_seq
  BY <1>1 DEF Numbered, AsksNumbered
<1>4. AsksNumbered'
  <2>1. ASSUME NEW i \in 1..n + 1 PROVE toWallet'[i].qid <= unstake_seq'
    <3>1. CASE i \in 1..n
      BY <1>1, <1>2, <1>3, <3>1
    <3>2. CASE i = n + 1
      BY <1>1, <1>2, <3>2
    <3> QED BY <1>1, <3>1, <3>2
  <2>2. ASSUME NEW i \in 1..n + 1, NEW j \in 1..n + 1, i < j
        PROVE  toWallet'[i].qid < toWallet'[j].qid
    <3>1. i \in 1..n
      BY <1>1, <2>2
    <3>2. CASE j \in 1..n
      BY <1>1, <2>2, <3>1, <3>2 DEF Numbered, AsksNumbered
    <3>3. CASE j = n + 1
      BY <1>1, <1>2, <1>3, <3>1, <3>3
    <3> QED BY <1>1, <3>2, <3>3
  <2> QED BY <1>1, <2>1, <2>2 DEF AsksNumbered
<1>5. /\ \A t \in outgoing : t.qid < unstake_seq'
      /\ \A q \in excesses : q < unstake_seq'
      /\ \A i \in DOMAIN toVault : IsOutcome(toVault[i]) =>
            toVault[i].qid < unstake_seq'
  BY <1>2 DEF Numbered, LeavingNumbered, OutcomesNumbered
<1>6. Numbered'
  <2>1. LeavingNumbered'
    BY <1>2, <1>5 DEF LeavingNumbered
  <2>2. OutcomesNumbered'
    BY <1>2, <1>5 DEF OutcomesNumbered, IsOutcome
  <2>3. ASSUME NEW q \in excesses PROVE q <= unstake_seq'
    <3>1. q \in Nat /\ q < unstake_seq' /\ unstake_seq' \in Nat
      BY <1>2, <1>5
    <3> QED BY <3>1
  <2> QED BY <1>4, <2>1, <2>2, <2>3 DEF Numbered
<1>7. PendingAsked'
  <2> SUFFICES ASSUME pending' > 0
               PROVE  /\ \A i \in DOMAIN toWallet' :
                            toWallet'[i].qid = unstake_seq' =>
                               toWallet'[i].amount = pending'
                      /\ \A t \in outgoing' :
                            t.qid = unstake_seq' => t.amount = pending'
    BY DEF PendingAsked
  <2>1. pending' = r.amount
    OBVIOUS
  <2>2. ASSUME NEW i \in 1..n + 1, toWallet'[i].qid = unstake_seq'
        PROVE  toWallet'[i].amount = pending'
    <3>1. ~(i \in 1..n)
      BY <1>1, <1>2, <1>3, <2>2
    <3>2. i = n + 1
      BY <1>1, <3>1
    <3> QED BY <1>1, <2>1, <3>2
  <2>3. \A t \in outgoing : t.qid # unstake_seq'
    BY <1>2, <1>5
  <2> QED BY <1>1, <2>2, <2>3
<1>8. ~Returning' /\ BehindRefusal'
  <2>1. \A i \in DOMAIN toVault : IsOutcome(toVault[i]) =>
           toVault[i].qid # unstake_seq'
    BY <1>2, <1>5
  <2>2. Returning' => \E i \in DOMAIN toVault' :
           IsOutcome(toVault'[i]) /\ toVault'[i].qid = unstake_seq'
    BY DEF Returning, Elements, IsOutcome
  <2>3. toVault' = toVault
    OBVIOUS
  <2> QED BY <2>1, <2>2, <2>3 DEF BehindRefusal, IsOutcome
<1> QED BY <1>6, <1>7, <1>8

-----------------------------------------------------------------------------
(* One lemma per action of the vault on the stake.                         *)

(* A notification first pays off what an exit left to absorb.              *)
LEMMA NotificationStake ==
    ASSUME StakeInv, VaultTypeOK', JettonTransferNotification
    PROVE  StakeInv'
<1> USE DEF StakeInv
<1> DEFINE m == Head(toVault)
           a == m.amount
<1>1. /\ toVault # <<>> /\ toVault' = Tail(toVault) /\ m.type = "note"
      /\ UNCHANGED <<pending, pending_at, unstake_seq, exited_at, balance,
                     outgoing, toWallet, excesses, now>>
      /\ balance \in Nat /\ balance' \in Nat /\ balance <= balance'
      /\ staked \in Nat /\ pending \in Nat /\ exited \in Nat
  BY DEF JettonTransferNotification, Arrives, walletVars, setting, VaultTypeOK
<1>2. /\ m \in Messages /\ NoteAmount(m) = a /\ a \in Nat
  <2>1. m \in Messages
    BY <1>1, VaultQueueTaken
  <2> QED BY <1>1, <2>1, MessageParts
<1>3. \/ Debt >= a /\ exited' = exited - a /\ staked' = staked
      \/ ~(Debt >= a) /\ staked' = staked + (a - Debt) /\ exited' = 0
  BY DEF JettonTransferNotification
<1> HIDE DEF m, a
<1>4. Timely'
  BY <1>1, AsksTimelyKept, AnswersTimelyKept DEF Timely
<1>5. Numbered' /\ PendingAsked'
  <2>1. OutcomesNumbered'
    BY <1>1, OutcomesKept DEF Numbered
  <2> QED BY <1>1, <2>1
          DEF Numbered, PendingAsked, AsksNumbered, LeavingNumbered
<1>6. (LateThere => LateThere') /\ BehindRefusal'
  BY <1>1, BackedKept
<1>7. /\ NotesFrom(1) = a + NotesFrom(1)' /\ AsksFrom(1)' = AsksFrom(1)
      /\ Comes' <= Comes
      /\ Debt \in Nat /\ Comes \in Nat /\ AsksFrom(1) \in Nat
      /\ NotesFrom(1)' \in Nat /\ Comes' \in Nat
  <2>1. /\ NotesFrom(1) = NoteAmount(m) + NotesFrom(1)'
        /\ Returning' => Returning
    BY <1>1, VaultQueueTaken DEF m
  <2>2. /\ Debt \in Nat /\ Comes \in Nat /\ AsksFrom(1) \in Nat
        /\ NotesFrom(1)' \in Nat /\ Comes' \in Nat
    BY ClaimedTyped, ClaimedTypedNext DEF ClaimTypeOK
  <2>3. Comes' <= Comes
    BY <1>1, <2>1 DEF Comes
  <2> QED BY <1>1, <1>2, <2>1, <2>2, <2>3, WalletQueueSame
<1>8. CASE Debt >= a /\ exited' = exited - a /\ staked' = staked
  <2>1. Debt' = Debt - a
    <3>1. CASE now - exited_at <= AbsorbWindow
      BY <1>1, <1>8, <3>1 DEF Debt
    <3>2. CASE ~(now - exited_at <= AbsorbWindow)
      <4>1. Debt = 0 /\ Debt' = 0
        BY <1>1, <3>2 DEF Debt
      <4> QED BY <1>2, <1>8, <4>1
    <3> QED BY <3>1, <3>2
  <2>2. ASSUME Claimed' > balance'
        PROVE  /\ Claimed > balance
               /\ Claimed <= balance + Debt => Claimed' <= balance' + Debt'
    <3>1. \A s, c1, c2, n, k, d, x, b \in Nat :
             /\ c2 <= c1 /\ d <= x
             /\ s + c2 + n + k > b
             => /\ s + c1 + (d + n) + k > b
                /\ s + c1 + (d + n) + k <= b + x
                   => s + c2 + n + k <= b + (x - d)
      OBVIOUS
    <3>2. staked + Comes' + NotesFrom(1)' + AsksFrom(1) > balance
      BY <1>1, <1>7, <1>8, <2>2 DEF Claimed
    <3>3. a <= Debt
      BY <1>2, <1>7, <1>8
    <3>4. /\ staked + Comes + (a + NotesFrom(1)') + AsksFrom(1) > balance
          /\ staked + Comes + (a + NotesFrom(1)') + AsksFrom(1)
                <= balance + Debt =>
             staked + Comes' + NotesFrom(1)' + AsksFrom(1)
                <= balance + (Debt - a)
      BY <1>1, <1>2, <1>7, <3>1, <3>2, <3>3, Zenon
    <3>5. /\ Claimed = staked + Comes + (a + NotesFrom(1)') + AsksFrom(1)
          /\ Claimed' = staked + Comes' + NotesFrom(1)' + AsksFrom(1)
      BY <1>7, <1>8, Zenon DEF Claimed
    <3>6. balance' = balance
      BY <1>1
    <3> QED BY <2>1, <3>4, <3>5, <3>6, Zenon
  <2>3. ShortByExit'
    BY <1>1, <1>6, <1>8, <2>2 DEF ShortByExit, AskedBefore
  <2> QED BY <1>4, <1>5, <1>6, <2>3
<1>9. CASE ~(Debt >= a) /\ staked' = staked + (a - Debt) /\ exited' = 0
  <2>1. Claimed <= balance + Debt
    <3>1. Claimed \in Nat
      BY ClaimedTyped DEF ClaimTypeOK
    <3> QED BY <1>1, <1>7, <3>1 DEF ShortByExit
  <2>2. ~(Claimed' > balance')
    <3>1. \A s, c1, c2, n, k, d, x, b \in Nat :
             /\ c2 <= c1 /\ ~(x >= d)
             /\ s + c1 + (d + n) + k <= b + x
             => ~(s + (d - x) + c2 + n + k > b)
      OBVIOUS
    <3>2. /\ Claimed = staked + Comes + (a + NotesFrom(1)') + AsksFrom(1)
          /\ Claimed' = staked + (a - Debt) + Comes' + NotesFrom(1)'
                           + AsksFrom(1)
      BY <1>7, <1>9, Zenon DEF Claimed
    <3>3. staked + Comes + (a + NotesFrom(1)') + AsksFrom(1) <= balance + Debt
      BY <2>1, <3>2, Zenon
    <3>4. ~(Debt >= a)
      BY <1>9
    <3>5. ~(staked + (a - Debt) + Comes' + NotesFrom(1)' + AsksFrom(1)
               > balance)
      BY <1>1, <1>2, <1>7, <3>1, <3>3, <3>4, Zenon
    <3>6. balance' = balance
      BY <1>1
    <3> QED BY <3>2, <3>5, <3>6, Zenon
  <2>3. ShortByExit'
    BY <2>2 DEF ShortByExit
  <2> QED BY <1>4, <1>5, <1>6, <2>3
<1> QED BY <1>3, <1>8, <1>9

(* Somebody with a stake is owed by a wallet that holds it: an unstake     *)
(* asks for no more than is there.                                         *)
LEMMA UnstakeStake ==
    ASSUME StakeInv, VaultTypeOK', NEW a \in 1..Funds, Unstake(a)
    PROVE  StakeInv'
<1> USE DEF StakeInv
<1> DEFINE r == [qid |-> unstake_seq + 1, amount |-> a,
                 unstake |-> TRUE, sent |-> now]
<1>1. /\ pending = 0 /\ a <= staked /\ staked' = staked - a /\ pending' = a
      /\ unstake_seq' = unstake_seq + 1
      /\ UNCHANGED <<exited, exited_at, balance, outgoing, toVault,
                     excesses, now>>
      /\ toWallet' = Append(toWallet, r)
      /\ a \in Nat /\ a > 0 /\ unstake_seq \in Nat
      /\ staked \in Nat /\ balance \in Nat
  BY VaultConstants DEF Unstake, AskTransfer, walletVars, setting, VaultTypeOK
<1>2. r \in Requests /\ r.qid = unstake_seq' /\ r.amount = a /\ r.sent = now
  BY <1>1, AskTyped
<1> HIDE DEF r
<1>3. Timely'
  BY <1>1, <1>2, AsksTimelyKept, AnswersTimelyKept DEF Timely
<1>4. Numbered' /\ PendingAsked' /\ ~Returning' /\ BehindRefusal'
  BY <1>1, <1>2, NumberedNext
<1>5. ~(Claimed' > balance')
  <2>1. AsksFrom(1)' = AsksFrom(1) + a /\ NotesFrom(1)' = NotesFrom(1)
    BY <1>1, <1>2, WalletQueueGrown, VaultQueueSame
  <2>2. Comes' = 0
    BY <1>4 DEF Comes
  <2>3. Comes \in Nat /\ NotesFrom(1) \in Nat /\ AsksFrom(1) \in Nat
    BY ClaimedTyped DEF ClaimTypeOK
  <2>4. ~(Claimed > balance)
    BY <1>1 DEF ShortByExit
  <2>5. \A s, c, n, k, d, b \in Nat :
           /\ d <= s /\ ~(s + c + n + k > b)
           => ~((s - d) + 0 + n + (k + d) > b)
    OBVIOUS
  <2>6. ~(staked + Comes + NotesFrom(1) + AsksFrom(1) > balance)
    BY <2>4, Zenon DEF Claimed
  <2>7. ~((staked - a) + 0 + NotesFrom(1) + (AsksFrom(1) + a) > balance)
    BY <1>1, <2>3, <2>5, <2>6, Zenon
  <2>8. Claimed' = (staked - a) + 0 + NotesFrom(1) + (AsksFrom(1) + a)
    BY <1>1, <2>1, <2>2, Zenon DEF Claimed
  <2>9. balance' = balance
    BY <1>1
  <2> QED BY <2>7, <2>8, <2>9, Zenon
<1>6. ShortByExit'
  BY <1>5 DEF ShortByExit
<1> QED BY <1>3, <1>4, <1>6

(* An exit in an emergency remembers what it takes beyond the stake.       *)
LEMMA ExitStake ==
    ASSUME StakeInv, VaultTypeOK', NEW a \in 1..Funds, EmergencyExit(a)
    PROVE  StakeInv'
<1> USE DEF StakeInv
<1> DEFINE r == [qid |-> unstake_seq + 1, amount |-> a,
                 unstake |-> FALSE, sent |-> now]
<1>1. /\ staked' = IF staked > a THEN staked - a ELSE 0
      /\ exited' = exited + a /\ exited_at' = now /\ pending' = 0
      /\ unstake_seq' = unstake_seq + 1
      /\ UNCHANGED <<balance, outgoing, toVault, excesses, now>>
      /\ toWallet' = Append(toWallet, r)
      /\ a \in Nat /\ unstake_seq \in Nat /\ now \in Nat
      /\ staked \in Nat /\ balance \in Nat /\ exited \in Nat
  BY VaultConstants DEF EmergencyExit, AskTransfer, walletVars, setting,
                        VaultTypeOK
<1>2. r \in Requests /\ r.qid = unstake_seq' /\ r.amount = a /\ r.sent = now
  BY <1>1, AskTyped
<1> HIDE DEF r
<1>3. Timely'
  BY <1>1, <1>2, AsksTimelyKept, AnswersTimelyKept DEF Timely
<1>4. Numbered' /\ PendingAsked' /\ ~Returning' /\ BehindRefusal'
  BY <1>1, <1>2, NumberedNext
<1>5. /\ AsksFrom(1)' = AsksFrom(1) + a /\ NotesFrom(1)' = NotesFrom(1)
      /\ Comes' = 0
      /\ Comes \in Nat /\ NotesFrom(1) \in Nat /\ AsksFrom(1) \in Nat
      /\ Debt \in Nat /\ Debt <= exited
  BY <1>1, <1>2, <1>4, WalletQueueGrown, VaultQueueSame, ClaimedTyped,
     DebtTyped
     DEF Comes, ClaimTypeOK
<1>6. Debt' = exited + a
  BY <1>1, VaultConstants DEF Debt
<1>7. CASE staked > a
  <2>1. ~(staked + Comes + NotesFrom(1) + AsksFrom(1) > balance)
    BY <1>1, <1>7 DEF ShortByExit, Claimed
  <2>2. \A s, c, n, k, d, b \in Nat :
           /\ d < s /\ ~(s + c + n + k > b)
           => ~((s - d) + 0 + n + (k + d) > b)
    OBVIOUS
  <2>3. a < staked
    BY <1>1, <1>7
  <2>4. ~((staked - a) + 0 + NotesFrom(1) + (AsksFrom(1) + a) > balance)
    BY <1>1, <1>5, <2>1, <2>2, <2>3, Zenon
  <2>5. staked' = staked - a
    BY <1>1, <1>7
  <2>6. Claimed' = (staked - a) + 0 + NotesFrom(1) + (AsksFrom(1) + a)
    BY <1>5, <2>5, Zenon DEF Claimed
  <2>7. balance' = balance
    BY <1>1
  <2>8. ~(Claimed' > balance')
    BY <2>4, <2>6, <2>7, Zenon
  <2> QED BY <1>3, <1>4, <2>8 DEF ShortByExit
<1>8. CASE ~(staked > a)
  <2>1. Claimed <= balance + Debt
    <3>1. Claimed \in Nat
      BY ClaimedTyped DEF ClaimTypeOK
    <3> QED BY <1>1, <1>5, <3>1 DEF ShortByExit
  <2>2. staked' = 0
    BY <1>1, <1>8
  <2>3. Claimed' <= balance' + Debt'
    <3>1. \A s, c, n, k, d, x, e, b \in Nat :
             /\ x <= e /\ s + c + n + k <= b + x
             => 0 + 0 + n + (k + d) <= b + (e + d)
      OBVIOUS
    <3>2. staked + Comes + NotesFrom(1) + AsksFrom(1) <= balance + Debt
      BY <2>1, Zenon DEF Claimed
    <3>3. 0 + 0 + NotesFrom(1) + (AsksFrom(1) + a) <= balance + (exited + a)
      BY <1>1, <1>5, <3>1, <3>2, Zenon
    <3>4. Claimed' = 0 + 0 + NotesFrom(1) + (AsksFrom(1) + a)
      BY <1>5, <2>2, Zenon DEF Claimed
    <3>5. balance' = balance
      BY <1>1
    <3> QED BY <1>6, <3>3, <3>4, <3>5, Zenon
  <2>4. AskedBefore'
    BY <1>1, <1>3 DEF AskedBefore, Timely, AsksTimely
  <2>5. LateThere'
    <3> SUFFICES ASSUME NEW k \in DOMAIN toVault
                 PROVE  ~(toVault[k].sent > now + MaxTransit)
      BY <1>1 DEF LateThere
    <3>1. toVault[k].sent <= now /\ toVault[k].sent \in Nat
      BY VaultQueueIs, MessageParts DEF Timely, AnswersTimely
    <3> QED BY <1>1, <3>1, VaultConstants
  <2> QED BY <1>1, <1>3, <1>4, <2>2, <2>3, <2>4, <2>5 DEF ShortByExit
<1> QED BY <1>7, <1>8

LEMMA AsksOfNone == ASSUME toWallet = <<>> PROVE AsksFrom(1) = 0
<1>1. 1..Len(toWallet) = {}
  OBVIOUS
<1> QED BY <1>1, SumOfNothing DEF AsksFrom

LEMMA NotesOfNone ==
    ASSUME VaultTypeOK, ~(1 \in DOMAIN toVault) PROVE NotesFrom(1) = 0
<1>1. 1..Len(toVault) = {}
  BY QueueIs DEF VaultTypeOK
<1> QED BY <1>1, SumOfNothing DEF NotesFrom

(* The vault settles what is pending without an outcome: the unstake       *)
(* arrived, or the owner gives up waiting for it.                          *)
LEMMA SettledStake ==
    ASSUME StakeInv, VaultTypeOK',
           UNCHANGED <<staked, unstake_seq, exited, exited_at, balance,
                       outgoing, toWallet, toVault, now>>,
           pending' \in {0, pending}, excesses' \subseteq excesses
    PROVE  StakeInv'
<1> USE DEF StakeInv
<1>1. /\ balance \in Nat /\ balance' \in Nat /\ balance <= balance'
      /\ staked \in Nat /\ pending \in Nat
  BY DEF VaultTypeOK
<1>2. Timely' /\ PendingAsked'
  BY <1>1 DEF Timely, AsksTimely, AnswersTimely, PendingAsked
<1>3. Numbered'
  BY DEF Numbered, AsksNumbered, LeavingNumbered, OutcomesNumbered, IsOutcome
<1>4. (LateThere => LateThere') /\ BehindRefusal'
  BY <1>1, BackedKept
<1>5. /\ NotesFrom(1)' = NotesFrom(1) /\ AsksFrom(1)' = AsksFrom(1)
      /\ Returning' <=> Returning
      /\ Comes \in Nat /\ Comes' \in Nat
      /\ NotesFrom(1) \in Nat /\ AsksFrom(1) \in Nat
  BY VaultQueueSame, WalletQueueSame, ClaimedTyped, ClaimedTypedNext
     DEF ClaimTypeOK
<1>6. Comes' <= Comes
  BY <1>1, <1>5 DEF Comes
<1>7. Claimed' + balance <= Claimed + balance'
  <2>1. \A s, c1, c2, n, k, b \in Nat :
           c2 <= c1 => s + c2 + n + k + b <= s + c1 + n + k + b
    OBVIOUS
  <2>2. staked + Comes' + NotesFrom(1) + AsksFrom(1) + balance
           <= staked + Comes + NotesFrom(1) + AsksFrom(1) + balance
    BY <1>1, <1>5, <1>6, <2>1, Zenon
  <2>3. staked' + Comes' + NotesFrom(1)' + AsksFrom(1)' + balance
           <= staked + Comes + NotesFrom(1) + AsksFrom(1) + balance'
    BY <1>5, <2>2, Zenon
  <2> QED BY <2>3, ClaimMoves
<1>8. ShortByExit'
  BY <1>1, <1>4, <1>7, ShortStays DEF AskedBefore
<1> QED BY <1>2, <1>3, <1>4, <1>8

(* The vault reads the outcome of a request, and takes back what it had    *)
(* pending if it is the latest.                                            *)
LEMMA OutcomeStake ==
    ASSUME StakeInv, VaultTypeOK', toVault # <<>>, toVault' = Tail(toVault),
           IsOutcome(Head(toVault)),
           UNCHANGED <<unstake_seq, exited, exited_at, balance,
                       outgoing, toWallet, excesses, now>>,
           \/ UNCHANGED <<staked, pending>>
           \/ /\ Latest(Head(toVault).qid)
              /\ staked' = staked + pending /\ pending' = 0
    PROVE  StakeInv'
<1> USE DEF StakeInv
<1> DEFINE m == Head(toVault)
<1>1. /\ balance \in Nat /\ balance' \in Nat /\ balance <= balance'
      /\ staked \in Nat /\ pending \in Nat
  BY DEF VaultTypeOK
<1>2. m \in Messages /\ NoteAmount(m) = 0
      /\ m = toVault[1] /\ 1 \in DOMAIN toVault
  BY VaultQueueTaken, MessageParts
<1>3. Timely'
  BY AsksTimelyKept, AnswersTimelyKept DEF Timely
<1>4. Numbered' /\ PendingAsked'
  <2>1. OutcomesNumbered'
    BY OutcomesKept DEF Numbered
  <2> QED BY <1>1, <2>1
          DEF Numbered, PendingAsked, AsksNumbered, LeavingNumbered
<1>5. (LateThere => LateThere') /\ BehindRefusal'
  BY <1>1, BackedKept
<1>6. /\ NotesFrom(1) = 0 + NotesFrom(1)' /\ AsksFrom(1)' = AsksFrom(1)
      /\ Returning' => Returning
      /\ Comes \in Nat /\ Comes' \in Nat
      /\ NotesFrom(1) \in Nat /\ AsksFrom(1) \in Nat /\ NotesFrom(1)' \in Nat
  BY <1>2, VaultQueueTaken, WalletQueueSame, ClaimedTyped, ClaimedTypedNext
     DEF ClaimTypeOK
<1>7. staked' + Comes' <= staked + Comes
  <2>1. CASE UNCHANGED <<staked, pending>>
    <3>1. Comes' <= Comes
      BY <1>1, <1>6, <2>1 DEF Comes
    <3>2. \A x, c1, c2 \in Nat : c2 <= c1 => x + c2 <= x + c1
      OBVIOUS
    <3>3. staked + Comes' <= staked + Comes
      BY <1>1, <1>6, <3>1, <3>2, Zenon
    <3> QED BY <2>1, <3>3, Zenon
  <2>2. CASE /\ Latest(Head(toVault).qid)
             /\ staked' = staked + pending /\ pending' = 0
    <3>1. Returning
      BY <1>2, <2>2, ReturningAt DEF Latest
    <3>2. Comes = pending /\ Comes' = 0
      BY <2>2, <3>1 DEF Comes
    <3>3. staked + pending + 0 <= staked + pending
      BY <1>1
    <3> QED BY <2>2, <3>2, <3>3, Zenon
  <2> QED BY <2>1, <2>2
<1>8. Claimed' + balance <= Claimed + balance'
  <2>1. \A s1, s2, c1, c2, n, k, b \in Nat :
           s2 + c2 <= s1 + c1
           => s2 + c2 + n + k + b <= s1 + c1 + (0 + n) + k + b
    OBVIOUS
  <2>2. staked' \in Nat /\ balance' = balance
    BY DEF VaultTypeOK
  <2>3. staked' + Comes' + NotesFrom(1)' + AsksFrom(1) + balance
           <= staked + Comes + (0 + NotesFrom(1)') + AsksFrom(1) + balance
    BY <1>1, <1>6, <1>7, <2>1, <2>2, Zenon
  <2>4. staked' + Comes' + NotesFrom(1)' + AsksFrom(1)' + balance
           <= staked + Comes + NotesFrom(1) + AsksFrom(1) + balance'
    BY <1>6, <2>2, <2>3, Zenon
  <2> QED BY <2>4, ClaimMoves
<1>9. ShortByExit'
  BY <1>1, <1>5, <1>8, ShortStays DEF AskedBefore
<1> QED BY <1>3, <1>4, <1>5, <1>9

(* The refusal of the latest request, an exit: what was remembered of it   *)
(* may be forgotten, for the wallet is not short.                          *)
LEMMA RefusedExitStake ==
    ASSUME StakeInv, VaultTypeOK', toVault # <<>>, toVault' = Tail(toVault),
           Head(toVault).type = "bounce", Latest(Head(toVault).qid),
           pending = 0, exited' = 0, exited_at' = 0,
           UNCHANGED <<staked, pending, unstake_seq, balance,
                       outgoing, toWallet, excesses, now>>
    PROVE  StakeInv'
<1> USE DEF StakeInv
<1> DEFINE m == Head(toVault)
<1>1. /\ balance \in Nat /\ balance' \in Nat /\ balance <= balance'
      /\ staked \in Nat /\ now \in Nat
  BY DEF VaultTypeOK
<1>2. m \in Messages /\ NoteAmount(m) = 0 /\ IsOutcome(m)
      /\ m = toVault[1] /\ 1 \in DOMAIN toVault
  BY VaultQueueTaken, MessageParts DEF IsOutcome
<1>3. Timely'
  BY <1>1, AsksTimelyKept, AnswersTimelyKept DEF Timely
<1>4. Numbered' /\ PendingAsked'
  <2>1. OutcomesNumbered'
    BY OutcomesKept DEF Numbered
  <2> QED BY <1>1, <2>1
          DEF Numbered, PendingAsked, AsksNumbered, LeavingNumbered
<1>5. BehindRefusal'
  BY <1>1, BackedKept
<1>6. /\ NotesFrom(1) = 0 + NotesFrom(1)' /\ AsksFrom(1)' = AsksFrom(1)
      /\ NotesFrom(1) \in Nat /\ AsksFrom(1) \in Nat /\ NotesFrom(1)' \in Nat
      /\ Comes = 0 /\ Comes' = 0
  BY <1>2, VaultQueueTaken, WalletQueueSame, ClaimedTyped, ClaimedTypedNext
     DEF ClaimTypeOK, Comes
<1>7. AsksFrom(1) = 0
  <2>1. toWallet = <<>>
    BY <1>2 DEF Numbered, OutcomesNumbered, Latest
  <2> QED BY <2>1, AsksOfNone
<1>8. NotesFrom(1) <= balance
  BY <1>2 DEF BehindRefusal, Latest
<1>9. ~(Claimed > balance)
  <2>1. CASE staked = 0
    BY <1>1, <1>6, <1>7, <1>8, <2>1 DEF Claimed
  <2>2. CASE staked # 0
    BY <2>2 DEF ShortByExit
  <2> QED BY <2>1, <2>2
<1>10. ~(Claimed' > balance')
  <2>1. \A s, n, b \in Nat :
           ~(s + 0 + (0 + n) + 0 > b) => ~(s + 0 + n + 0 > b)
    OBVIOUS
  <2>2. /\ Claimed = staked + 0 + (0 + NotesFrom(1)') + 0
        /\ Claimed' = staked + 0 + NotesFrom(1)' + 0
    BY <1>6, <1>7, Zenon DEF Claimed
  <2>3. ~(staked + 0 + NotesFrom(1)' + 0 > balance)
    BY <1>1, <1>6, <1>9, <2>1, <2>2, Zenon
  <2> QED BY <2>2, <2>3, Zenon
<1>11. ShortByExit'
  BY <1>10 DEF ShortByExit
<1> QED BY <1>3, <1>4, <1>5, <1>11

LEMMA BouncedStake ==
    ASSUME StakeInv, VaultTypeOK', BouncedJettonTransfer PROVE StakeInv'
<1>1. /\ toVault # <<>> /\ toVault' = Tail(toVault)
      /\ Head(toVault).type = "bounce" /\ IsOutcome(Head(toVault))
      /\ UNCHANGED <<unstake_seq, balance, outgoing, toWallet, excesses, now>>
      /\ pending \in Nat
  BY DEF BouncedJettonTransfer, Arrives, IsOutcome, stakeVars, walletVars,
         setting, StakeInv, VaultTypeOK
<1>2. CASE ~Latest(Head(toVault).qid) \/ pending > 0
  <2>1. /\ UNCHANGED <<exited, exited_at>>
        /\ \/ UNCHANGED <<staked, pending>>
           \/ /\ Latest(Head(toVault).qid)
              /\ staked' = staked + pending /\ pending' = 0
    BY <1>2 DEF BouncedJettonTransfer, stakeVars
  <2> QED BY <1>1, <2>1, OutcomeStake
<1>3. CASE Latest(Head(toVault).qid) /\ ~(pending > 0)
  <2>1. /\ pending = 0 /\ exited' = 0 /\ exited_at' = 0
        /\ UNCHANGED <<staked, pending>>
    BY <1>1, <1>3 DEF BouncedJettonTransfer
  <2> QED BY <1>1, <1>3, <2>1, RefusedExitStake
<1> QED BY <1>2, <1>3

LEMMA FailedStake ==
    ASSUME StakeInv, VaultTypeOK', TransferFailed PROVE StakeInv'
<1>1. /\ toVault # <<>> /\ toVault' = Tail(toVault)
      /\ IsOutcome(Head(toVault))
      /\ UNCHANGED <<unstake_seq, exited, exited_at, balance, outgoing,
                     toWallet, excesses, now>>
      /\ \/ UNCHANGED <<staked, pending>>
         \/ /\ Latest(Head(toVault).qid)
            /\ staked' = staked + pending /\ pending' = 0
  BY DEF TransferFailed, Arrives, IsOutcome, walletVars, setting
<1> QED BY <1>1, OutcomeStake

(* Time passes.  When the window of an exit closes, the request of it has  *)
(* been answered and only notes sent too late for it to spend are left.    *)
LEMMA TickStake ==
    ASSUME StakeInv, VaultTypeOK', Tick PROVE StakeInv'
<1> USE DEF StakeInv
<1>1. /\ now' = now + 1
      /\ UNCHANGED <<staked, pending, pending_at, unstake_seq, exited,
                     exited_at, balance, outgoing, toWallet, toVault,
                     excesses>>
      /\ now \in Nat /\ exited_at \in Nat /\ staked \in Nat /\ pending \in Nat
      /\ balance \in Nat /\ balance' \in Nat /\ balance <= balance'
      /\ \A i \in DOMAIN toWallet : now < toWallet[i].sent + MaxTransit
      /\ \A i \in DOMAIN toVault : now < toVault[i].sent + MaxTransit
  BY DEF Tick, InTransit, Elements, stakeVars, walletVars, netVars, VaultTypeOK
<1>2. /\ \A i \in DOMAIN toWallet : toWallet[i].sent \in Nat
      /\ \A i \in DOMAIN toVault : toVault[i].sent \in Nat
  BY WalletQueueIs, VaultQueueIs, MessageParts
<1>3. Timely'
  <2>1. \A n, s, t \in Nat :
           /\ s <= n => s <= n + 1
           /\ n < s + t => n + 1 <= s + t
    OBVIOUS
  <2>2. MaxTransit \in Nat
    BY VaultConstants
  <2>3. AsksTimely'
    <3>1. ASSUME NEW i \in DOMAIN toWallet
          PROVE  /\ toWallet[i].sent <= now + 1
                 /\ now + 1 <= toWallet[i].sent + MaxTransit
      BY <1>1, <1>2, <2>1, <2>2 DEF Timely, AsksTimely
    <3> QED BY <1>1, <3>1 DEF AsksTimely
  <2>4. AnswersTimely'
    <3>1. ASSUME NEW i \in DOMAIN toVault
          PROVE  /\ toVault[i].sent <= now + 1
                 /\ now + 1 <= toVault[i].sent + MaxTransit
      BY <1>1, <1>2, <2>1, <2>2 DEF Timely, AnswersTimely
    <3> QED BY <1>1, <3>1 DEF AnswersTimely
  <2> QED BY <1>1, <2>1, <2>3, <2>4 DEF Timely
<1>4. Numbered' /\ PendingAsked'
  BY <1>1 DEF Numbered, AsksNumbered, LeavingNumbered, OutcomesNumbered,
              IsOutcome, PendingAsked
<1>5. (LateThere => LateThere') /\ BehindRefusal'
  BY <1>1, BackedKept
<1>6. Claimed' = Claimed
  BY <1>1, VaultQueueSame, WalletQueueSame DEF Claimed, Comes
<1>7. ShortByExit'
  <2> SUFFICES ASSUME Claimed > balance PROVE ShortByExit'
    BY <1>1, <1>6 DEF ShortByExit
  <2>1. /\ staked = 0 /\ pending = 0 /\ Claimed <= balance + Debt
        /\ AskedBefore /\ LateThere
    BY DEF ShortByExit
  <2>2. /\ Claimed \in Nat /\ NotesFrom(1) \in Nat /\ Comes = 0
    BY <2>1, ClaimedTyped DEF ClaimTypeOK, Comes
  <2>3. AbsorbWindow \in Nat /\ MaxTransit \in Nat
        /\ 2 * MaxTransit <= AbsorbWindow
    BY VaultConstants
  <2>4. CASE now + 1 - exited_at <= AbsorbWindow
    <3>1. Debt' = Debt
      BY <1>1, <2>3, <2>4 DEF Debt
    <3> QED BY <1>1, <1>5, <1>6, <2>1, <3>1 DEF ShortByExit, AskedBefore
  <2>5. CASE ~(now + 1 - exited_at <= AbsorbWindow)
    <3>1. exited_at + AbsorbWindow <= now
      BY <1>1, <2>3, <2>5
    <3>2. AsksFrom(1) = 0
      <4>1. ASSUME NEW i \in DOMAIN toWallet PROVE FALSE
        <5>1. toWallet[i].sent <= exited_at
          BY <2>1 DEF AskedBefore
        <5> QED BY <1>1, <1>2, <2>3, <3>1, <5>1
      <4>2. toWallet = <<>>
        BY <4>1, WalletQueueIs
      <4> QED BY <4>2, AsksOfNone
    <3>3. NotesFrom(1) <= balance
      <4>1. CASE 1 \in DOMAIN toVault
        <5>1. toVault[1].sent > exited_at + MaxTransit
          BY <1>1, <1>2, <2>3, <3>1, <4>1
        <5> QED BY <2>1, <4>1, <5>1 DEF LateThere
      <4>2. CASE ~(1 \in DOMAIN toVault)
        <5>1. NotesFrom(1) = 0
          BY <4>2, NotesOfNone
        <5> QED BY <1>1, <5>1
      <4> QED BY <4>1, <4>2
    <3>4. Claimed = NotesFrom(1)
      BY <2>1, <2>2, <3>2 DEF Claimed
    <3> QED BY <1>1, <2>2, <3>3, <3>4
  <2> QED BY <2>4, <2>5
<1> QED BY <1>3, <1>4, <1>5, <1>7

LEMMA StakeRests ==
    ASSUME StakeInv, VaultTypeOK', Fees \/ UNCHANGED vars PROVE StakeInv'
<1>1. UNCHANGED <<stakeVars, walletVars, netVars, setting>>
  BY DEF Fees, vars, PublishViaVault, PublicationLands, BouncedVaultPublish,
         FlushFees
<1>2. UNCHANGED <<staked, unstake_seq, exited, exited_at, balance,
                  outgoing, toWallet, toVault, now>>
      /\ pending' \in {0, pending} /\ excesses' \subseteq excesses
  BY <1>1 DEF stakeVars, walletVars, netVars, setting
<1> QED BY <1>2, SettledStake

LEMMA StakeInvKept ==
    ASSUME StakeInv, [Next]_vars PROVE StakeInv'
<1>1. VaultTypeOK'
  BY VaultTypesKept DEF StakeInv
<1>2. CASE Wallet
  BY <1>1, <1>2, DepositStake, JettonTransferStake, RefuseStake, CreditStake,
     TakeBackStake DEF Wallet
<1>3. ASSUME NEW q \in excesses, JettonExcesses(q) PROVE StakeInv'
  <2>1. UNCHANGED <<staked, unstake_seq, exited, exited_at, balance,
                    outgoing, toWallet, toVault, now>>
        /\ pending' \in {0, pending} /\ excesses' \subseteq excesses
    BY <1>3 DEF JettonExcesses, walletVars, setting
  <2> QED BY <1>1, <2>1, SettledStake
<1>4. CASE UnstakeUnjam
  <2>1. UNCHANGED <<staked, unstake_seq, exited, exited_at, balance,
                    outgoing, toWallet, toVault, now>>
        /\ pending' \in {0, pending} /\ excesses' \subseteq excesses
    BY <1>4 DEF UnstakeUnjam, walletVars, netVars, setting
  <2> QED BY <1>1, <2>1, SettledStake
<1>5. CASE Stake
  BY <1>1, <1>3, <1>4, <1>5, NotificationStake, BouncedStake, FailedStake,
     UnstakeStake, ExitStake DEF Stake
<1>6. CASE Tick
  BY <1>1, <1>6, TickStake
<1>7. CASE Fees \/ UNCHANGED vars
  BY <1>1, <1>7, StakeRests
<1> QED BY <1>2, <1>5, <1>6, <1>7 DEF Next

-----------------------------------------------------------------------------
(* Without emergencies the account is exact.                               *)

Quiet == toWallet = <<>> /\ outgoing = {} /\ NoOutcome

LEMMA OpenIs ==
    /\ Asking => Open
    /\ LeavingNow => Open
    /\ OneOutcome => Open
    /\ Quiet => ~Open
<1>1. Asking => Open
  <2>1. Asking => 1 \in DOMAIN toWallet /\ toWallet[1].qid = unstake_seq
    BY DEF Asking
  <2> QED BY <2>1 DEF Open, Elements
<1>2. LeavingNow => Open
  BY DEF LeavingNow, Open
<1>3. OneOutcome => Open
  BY ReturningAt DEF OneOutcome, Open
<1>4. Quiet => ~Open
  <2> SUFFICES ASSUME toWallet = <<>>, outgoing = {}, NoOutcome
               PROVE  ~Open
    BY DEF Quiet
  <2>1. ~Returning
    BY ReturningAt DEF NoOutcome
  <2>2. Elements(toWallet) = {}
    BY DEF Elements
  <2> QED BY <2>1, <2>2 DEF Open
<1> QED BY <1>1, <1>2, <1>3, <1>4

LEMMA QuietNext == Quiet' => ~Open'
BY OpenIs, PTL

(* The outcomes on their way, as the queue of the vault moves.             *)
LEMMA OutcomesMove ==
    ASSUME VaultTypeOK, unstake_seq' = unstake_seq
    PROVE  /\ toVault' = toVault =>
                 (NoOutcome' <=> NoOutcome) /\ (OneOutcome => OneOutcome')
           /\ \A m \in Messages : toVault' = Append(toVault, m) =>
                 /\ ~IsOutcome(m) /\ NoOutcome => NoOutcome'
                 /\ ~IsOutcome(m) /\ OneOutcome => OneOutcome'
                 /\ IsOutcome(m) /\ m.qid = unstake_seq /\ NoOutcome =>
                       OneOutcome'
           /\ toVault # <<>> /\ toVault' = Tail(toVault) =>
                 /\ NoOutcome => NoOutcome'
                 /\ ~IsOutcome(Head(toVault)) /\ OneOutcome => OneOutcome'
                 /\ IsOutcome(Head(toVault)) /\ OneOutcome =>
                       NoOutcome' /\ Head(toVault).qid = unstake_seq
<1>1. toVault' = toVault =>
         (NoOutcome' <=> NoOutcome) /\ (OneOutcome => OneOutcome')
  BY DEF NoOutcome, OneOutcome, IsOutcome
<1>2. ASSUME NEW m \in Messages, toVault' = Append(toVault, m)
      PROVE  /\ ~IsOutcome(m) /\ NoOutcome => NoOutcome'
             /\ ~IsOutcome(m) /\ OneOutcome => OneOutcome'
             /\ IsOutcome(m) /\ m.qid = unstake_seq /\ NoOutcome =>
                   OneOutcome'
  <2> DEFINE n == Len(toVault)
  <2>1. /\ n \in Nat /\ DOMAIN toVault = 1..n /\ DOMAIN toVault' = 1..n + 1
        /\ \A i \in 1..n : toVault'[i] = toVault[i]
        /\ toVault'[n + 1] = m
    BY <1>2, VaultQueueGrown
  <2> HIDE DEF n
  <2>2. NoOutcome' <=> \A i \in 1..n + 1 : ~IsOutcome(toVault'[i])
    BY <2>1 DEF NoOutcome, IsOutcome
  <2>3. OneOutcome' <=>
           \E k \in 1..n + 1 :
              /\ IsOutcome(toVault'[k]) /\ toVault'[k].qid = unstake_seq
              /\ \A i \in 1..n + 1 : IsOutcome(toVault'[i]) => i = k
    BY <2>1 DEF OneOutcome, IsOutcome
  <2>4. \A i \in 1..n + 1 : i \in 1..n \/ i = n + 1
    BY <2>1
  <2>5. \A i \in 1..n : i \in 1..n + 1
    BY <2>1
  <2>6. n + 1 \in 1..n + 1
    BY <2>1
  <2>7. ASSUME ~IsOutcome(m), NoOutcome PROVE NoOutcome'
    BY <2>1, <2>2, <2>4, <2>7 DEF NoOutcome
  <2>8. ASSUME ~IsOutcome(m), OneOutcome PROVE OneOutcome'
    <3>1. PICK k \in 1..n :
             /\ IsOutcome(toVault[k]) /\ toVault[k].qid = unstake_seq
             /\ \A i \in 1..n : IsOutcome(toVault[i]) => i = k
      BY <2>1, <2>8 DEF OneOutcome
    <3>2. IsOutcome(toVault'[k]) /\ toVault'[k].qid = unstake_seq
      BY <2>1, <3>1
    <3>3. \A i \in 1..n + 1 : IsOutcome(toVault'[i]) => i = k
      BY <2>1, <2>4, <2>8, <3>1
    <3> QED BY <2>3, <2>5, <3>2, <3>3
  <2>9. ASSUME IsOutcome(m), m.qid = unstake_seq, NoOutcome
        PROVE  OneOutcome'
    <3>1. \A i \in 1..n + 1 : IsOutcome(toVault'[i]) => i = n + 1
      BY <2>1, <2>4, <2>9 DEF NoOutcome
    <3>2. IsOutcome(toVault'[n + 1]) /\ toVault'[n + 1].qid = unstake_seq
      BY <2>1, <2>9
    <3> QED BY <2>3, <2>6, <3>1, <3>2
  <2> QED BY <2>7, <2>8, <2>9
<1>3. ASSUME toVault # <<>>, toVault' = Tail(toVault)
      PROVE  /\ NoOutcome => NoOutcome'
             /\ ~IsOutcome(Head(toVault)) /\ OneOutcome => OneOutcome'
             /\ IsOutcome(Head(toVault)) /\ OneOutcome =>
                   NoOutcome' /\ Head(toVault).qid = unstake_seq
  <2> DEFINE n == Len(toVault)
  <2>1. /\ n \in Nat /\ DOMAIN toVault = 1..n /\ DOMAIN toVault' = 1..n - 1
        /\ \A i \in 1..n - 1 : toVault'[i] = toVault[i + 1]
        /\ Head(toVault) = toVault[1] /\ n > 0
    BY <1>3, VaultQueueTaken
  <2> HIDE DEF n
  <2>2. NoOutcome' <=> \A i \in 1..n - 1 : ~IsOutcome(toVault'[i])
    BY <2>1 DEF NoOutcome, IsOutcome
  <2>3. OneOutcome' <=>
           \E k \in 1..n - 1 :
              /\ IsOutcome(toVault'[k]) /\ toVault'[k].qid = unstake_seq
              /\ \A i \in 1..n - 1 : IsOutcome(toVault'[i]) => i = k
    BY <2>1 DEF OneOutcome, IsOutcome
  <2>4. \A i \in 1..n - 1 : i \in Nat /\ i + 1 \in 1..n /\ i + 1 # 1
    BY <2>1
  <2>5. 1 \in 1..n
    BY <2>1
  <2>6. ASSUME NoOutcome PROVE NoOutcome'
    BY <2>1, <2>2, <2>4, <2>6 DEF NoOutcome
  <2>7. ASSUME OneOutcome
        PROVE  /\ ~IsOutcome(Head(toVault)) => OneOutcome'
               /\ IsOutcome(Head(toVault)) =>
                     NoOutcome' /\ Head(toVault).qid = unstake_seq
    <3>1. PICK k \in 1..n :
             /\ IsOutcome(toVault[k]) /\ toVault[k].qid = unstake_seq
             /\ \A i \in 1..n : IsOutcome(toVault[i]) => i = k
      BY <2>1, <2>7 DEF OneOutcome
    <3>2. ASSUME ~IsOutcome(Head(toVault)) PROVE OneOutcome'
      <4>1. k # 1
        BY <2>1, <3>1, <3>2
      <4>2. PICK j \in 1..n - 1 : j + 1 = k
        <5>1. k - 1 \in 1..n - 1 /\ (k - 1) + 1 = k
          BY <2>1, <4>1
        <5> QED BY <5>1
      <4>3. IsOutcome(toVault'[j]) /\ toVault'[j].qid = unstake_seq
        BY <2>1, <3>1, <4>2
      <4>4. ASSUME NEW i \in 1..n - 1, IsOutcome(toVault'[i]) PROVE i = j
        <5>1. i + 1 = k
          BY <2>1, <2>4, <3>1, <4>4
        <5> QED BY <2>1, <4>2, <5>1
      <4> QED BY <2>3, <4>3, <4>4
    <3>3. ASSUME IsOutcome(Head(toVault))
          PROVE  NoOutcome' /\ Head(toVault).qid = unstake_seq
      <4>1. k = 1
        BY <2>1, <2>5, <3>1, <3>3
      <4>2. ASSUME NEW i \in 1..n - 1 PROVE ~IsOutcome(toVault'[i])
        <5>1. i + 1 # k /\ i + 1 \in 1..n
          BY <2>4, <4>1
        <5> QED BY <2>1, <3>1, <5>1
      <4> QED BY <2>1, <2>2, <3>1, <4>1, <4>2
    <3> QED BY <3>2, <3>3
  <2> QED BY <2>6, <2>7
<1> QED BY <1>1, <1>2, <1>3

(* The parts of the account are numbers.                                   *)
LEMMA ExactTyped ==
    VaultTypeOK => /\ OpenPart \in Nat /\ NotesFrom(1) \in Nat
                   /\ TotalAmount(outgoing) \in Nat
                   /\ staked \in Nat /\ balance \in Nat /\ pending \in Nat
<1> SUFFICES ASSUME VaultTypeOK
             PROVE  /\ OpenPart \in Nat /\ NotesFrom(1) \in Nat
                    /\ TotalAmount(outgoing) \in Nat
                    /\ staked \in Nat /\ balance \in Nat /\ pending \in Nat
  OBVIOUS
<1>1. NotesFrom(1) \in Nat /\ pending \in Nat
  BY ClaimedTyped DEF ClaimTypeOK
<1>2. \A t \in outgoing : t.amount \in Nat
  BY MessageParts DEF VaultTypeOK
<1>3. TotalAmount(outgoing) \in Nat
  BY <1>2, AmountsNatural DEF VaultTypeOK
<1> QED BY <1>1, <1>3 DEF VaultTypeOK, OpenPart

(* The phases of a request.                                                *)
LEMMA RequestPhases ==
    ASSUME VaultTypeOK, OneRequest
    PROVE  /\ outgoing # {} => LeavingNow /\ pending # 0
           /\ toWallet # <<>> => Asking /\ pending # 0
           /\ excesses # {} => Settled /\ pending # 0
           /\ \A i \in DOMAIN toVault : IsOutcome(toVault[i]) =>
                 Answered /\ pending # 0
           /\ pending = 0 => NoOutcome
BY DEF OneRequest, Calm, Asking, LeavingNow, Answered, Settled, NoOutcome

LEMMA OneAmount ==
    ASSUME NEW t, t.amount \in Nat PROVE TotalAmount({t}) = t.amount
<1>1. /\ IsFiniteSet({}) /\ t \notin {} /\ \A u \in {} : u.amount \in Nat
  BY FS_EmptySet
<1>2. TotalAmount({} \cup {t}) = TotalAmount({}) + t.amount
  BY <1>1, AmountsWith
<1>3. {} \cup {t} = {t}
  OBVIOUS
<1>4. TotalAmount({t}) = 0 + t.amount
  BY <1>2, <1>3, NoAmounts, Zenon
<1> QED BY <1>4

LEMMA DepositExact ==
    ASSUME VaultTypeOK, VaultTypeOK', OneRequest, Balanced, ~emergency,
           NEW a \in 1..Funds, NEW notified \in BOOLEAN, Deposit(a, notified)
    PROVE  OneRequest' /\ Balanced'
<1>1. /\ a \in Nat /\ balance' = balance + a
      /\ UNCHANGED <<staked, pending, pending_at, unstake_seq, exited,
                     exited_at, outgoing, toWallet, excesses>>
      /\ toVault' = Append(toVault, Note(a))
  BY VaultConstants DEF Deposit, ToVault, stakeVars
<1>2. Note(a) \in Messages /\ ~IsOutcome(Note(a)) /\ NoteAmount(Note(a)) = a
  BY <1>1, SentTyped DEF Note, IsOutcome, NoteAmount
<1>3. /\ NoOutcome => NoOutcome'
      /\ OneOutcome => OneOutcome'
  BY <1>1, <1>2, OutcomesMove
<1>4. OneRequest'
  BY <1>1, <1>3
     DEF OneRequest, Calm, Asking, LeavingNow, Answered, Settled
<1>5. NotesFrom(1)' = NotesFrom(1) + a /\ (Returning' <=> Returning)
  BY <1>1, <1>2, VaultQueueGrown
<1>6. OpenPart' = OpenPart /\ TotalAmount(outgoing') = TotalAmount(outgoing)
  BY <1>1, <1>5 DEF OpenPart, Open
<1>7. staked + (NotesFrom(1) + a) + OpenPart
         = (balance + a) + TotalAmount(outgoing)
  <2> DEFINE n == NotesFrom(1)
             t == TotalAmount(outgoing)
  <2>1. /\ staked + n + OpenPart = balance + t
        /\ OpenPart \in Nat /\ n \in Nat /\ t \in Nat
        /\ staked \in Nat /\ balance \in Nat
    BY ExactTyped DEF Balanced
  <2>2. a \in Nat
    BY <1>1
  <2> HIDE DEF n, t
  <2>3. staked + (n + a) + OpenPart = (balance + a) + t
    BY <2>1, <2>2
  <2> QED BY <2>3 DEF n, t
<1>8. Balanced'
  BY <1>1, <1>5, <1>6, <1>7, Zenon DEF Balanced
<1> QED BY <1>4, <1>8

LEMMA TransferExact ==
    ASSUME VaultTypeOK, VaultTypeOK', OneRequest, Balanced, JettonTransfer
    PROVE  OneRequest' /\ Balanced'
<1> DEFINE m == Head(toWallet)
           t == [qid |-> m.qid, amount |-> m.amount, unstake |-> m.unstake]
<1>1. /\ toWallet # <<>> /\ toWallet' = Tail(toWallet)
      /\ UNCHANGED <<staked, pending, pending_at, unstake_seq, exited,
                     exited_at, toVault, excesses>>
      /\ balance >= m.amount /\ balance' = balance - m.amount
      /\ outgoing' = outgoing \cup {t}
  BY DEF JettonTransfer, stakeVars
<1>2. Asking /\ pending # 0 /\ m = toWallet[1]
  BY <1>1, RequestPhases, WalletQueueTaken
<1>3. /\ m.qid = unstake_seq /\ m.amount = pending /\ m.unstake
      /\ m.unstake \in BOOLEAN
      /\ outgoing = {} /\ excesses = {} /\ NoOutcome /\ toWallet' = <<>>
  BY <1>1, <1>2, WalletQueueTaken, MessageParts DEF Asking, Calm
<1>4. outgoing' = {[qid |-> unstake_seq, amount |-> pending,
                    unstake |-> TRUE]}
  <2>1. m.unstake = TRUE
    BY <1>3
  <2> QED BY <1>1, <1>3, <2>1
<1> HIDE DEF m, t
<1>5. NoOutcome'
  BY <1>1, <1>3, OutcomesMove
<1>6. LeavingNow'
  BY <1>1, <1>3, <1>4, <1>5 DEF LeavingNow
<1>7. OneRequest'
  BY <1>1, <1>2, <1>6 DEF OneRequest
<1>8. OpenPart = pending /\ OpenPart' = pending
  <2>1. Open' <=> \/ Returning'
                  \/ \E x \in Elements(toWallet') : x.qid = unstake_seq'
                  \/ \E x \in outgoing' : x.qid = unstake_seq'
    BY DEF Open, Elements
  <2>2. Open'
    BY <1>1, <1>4, <2>1
  <2> QED BY <1>1, <1>2, <2>2, OpenIs DEF OpenPart
<1>9. TotalAmount(outgoing) = 0 /\ TotalAmount(outgoing') = pending
  <2> DEFINE u == [qid |-> unstake_seq, amount |-> pending, unstake |-> TRUE]
  <2>1. u.amount = pending /\ pending \in Nat
    BY DEF VaultTypeOK
  <2> HIDE DEF u
  <2>2. TotalAmount({u}) = pending
    BY <2>1, OneAmount
  <2>3. outgoing' = {u}
    BY <1>4 DEF u
  <2> QED BY <1>3, <2>2, <2>3, NoAmounts, Zenon
<1>10. staked + NotesFrom(1) + pending = (balance - pending) + pending
  <2>1. staked + NotesFrom(1) + pending = balance + 0
    BY <1>8, <1>9, Zenon DEF Balanced
  <2>2. balance >= pending
    BY <1>1, <1>3
  <2> QED BY <2>1, <2>2, ExactTyped
<1>11. NotesFrom(1)' = NotesFrom(1) /\ staked' = staked
       /\ balance' = balance - pending
  BY <1>1, <1>3, VaultQueueSame
<1>12. Balanced'
  BY <1>8, <1>9, <1>10, <1>11, Zenon DEF Balanced
<1> QED BY <1>7, <1>12

LEMMA RefuseExact ==
    ASSUME VaultTypeOK, VaultTypeOK', OneRequest, Balanced,
           RefuseJettonTransfer
    PROVE  OneRequest' /\ Balanced'
<1> DEFINE m == Head(toWallet)
           r == Refusal(m.qid)
<1>1. /\ toWallet # <<>> /\ toWallet' = Tail(toWallet)
      /\ UNCHANGED <<staked, pending, pending_at, unstake_seq, exited,
                     exited_at, balance, outgoing, excesses>>
      /\ toVault' = Append(toVault, r)
  BY DEF RefuseJettonTransfer, ToVault, stakeVars, walletVars
<1>2. Asking /\ pending # 0 /\ m = toWallet[1] /\ m \in Requests
  BY <1>1, RequestPhases, WalletQueueTaken
<1>3. /\ m.qid = unstake_seq /\ m.qid \in Nat
      /\ outgoing = {} /\ excesses = {} /\ NoOutcome /\ toWallet' = <<>>
  BY <1>1, <1>2, WalletQueueTaken, MessageParts DEF Asking, Calm
<1> HIDE DEF m
<1>4. r \in Messages /\ IsOutcome(r) /\ NoteAmount(r) = 0
      /\ r.qid = unstake_seq
  BY <1>3, SentTyped DEF Refusal, IsOutcome, NoteAmount
<1> HIDE DEF r
<1>5. OneOutcome'
  BY <1>1, <1>3, <1>4, OutcomesMove
<1>6. OneRequest'
  <2>1. Answered'
    BY <1>1, <1>3, <1>5 DEF Answered
  <2> QED BY <1>1, <1>2, <2>1 DEF OneRequest
<1>7. /\ NotesFrom(1)' = NotesFrom(1) + 0 /\ Returning'
      /\ NotesFrom(1) \in Nat
  BY <1>1, <1>4, VaultQueueGrown, ExactTyped
<1>8. NotesFrom(1)' = NotesFrom(1) /\ OpenPart = pending /\ OpenPart' = pending
  BY <1>1, <1>2, <1>7, OpenIs DEF OpenPart, Open
<1>9. TotalAmount(outgoing') = TotalAmount(outgoing)
  BY <1>1
<1>10. Balanced'
  BY <1>1, <1>8, <1>9, Zenon DEF Balanced
<1> QED BY <1>6, <1>10

LEMMA CreditExact ==
    ASSUME VaultTypeOK, VaultTypeOK', OneRequest, Balanced,
           NEW t \in outgoing, NEW answered \in BOOLEAN,
           CreditOwner(t, answered)
    PROVE  OneRequest' /\ Balanced'
<1>1. /\ UNCHANGED <<staked, pending, pending_at, unstake_seq, exited,
                     exited_at, balance, toWallet, toVault>>
      /\ outgoing' = outgoing \ {t}
      /\ excesses' \subseteq excesses \cup {t.qid}
  BY DEF CreditOwner, stakeVars
<1>2. LeavingNow /\ pending # 0 /\ pending \in Nat
  BY RequestPhases DEF VaultTypeOK
<1>3. /\ outgoing = {t} /\ t.qid = unstake_seq /\ t.amount = pending
      /\ toWallet = <<>> /\ excesses = {} /\ NoOutcome
  <2>1. t = [qid |-> unstake_seq, amount |-> pending, unstake |-> TRUE]
    BY <1>2 DEF LeavingNow
  <2> QED BY <1>2, <2>1 DEF LeavingNow
<1>4. outgoing' = {} /\ excesses' \subseteq {unstake_seq'} /\ NoOutcome'
  BY <1>1, <1>3, OutcomesMove
<1>5. OneRequest'
  <2>1. Settled'
    BY <1>1, <1>3, <1>4 DEF Settled
  <2> QED BY <1>1, <1>2, <2>1 DEF OneRequest
<1>6. OpenPart = pending /\ OpenPart' = 0
  <2>1. ~Open'
    BY <1>1, <1>3, <1>4, QuietNext DEF Quiet
  <2> QED BY <1>1, <1>2, <2>1, OpenIs DEF OpenPart
<1>7. TotalAmount(outgoing) = pending /\ TotalAmount(outgoing') = 0
  <2>1. TotalAmount({t}) = t.amount
    BY <1>2, <1>3, OneAmount
  <2> QED BY <1>3, <1>4, <2>1, NoAmounts, Zenon
<1>8. staked + NotesFrom(1) + 0 = balance + 0
  <2>1. staked + NotesFrom(1) + pending = balance + pending
    BY <1>6, <1>7, Zenon DEF Balanced
  <2> QED BY <2>1, ExactTyped
<1>9. NotesFrom(1)' = NotesFrom(1)
  BY <1>1, VaultQueueSame
<1>10. Balanced'
  BY <1>1, <1>6, <1>7, <1>8, <1>9, Zenon DEF Balanced
<1> QED BY <1>5, <1>10

LEMMA TakeBackExact ==
    ASSUME VaultTypeOK, VaultTypeOK', OneRequest, Balanced,
           NEW t \in outgoing, TakeBack(t)
    PROVE  OneRequest' /\ Balanced'
<1> DEFINE r == Failure(t.qid)
<1>1. LeavingNow /\ pending # 0 /\ pending \in Nat
  BY RequestPhases DEF VaultTypeOK
<1>2. /\ outgoing = {t} /\ t.qid = unstake_seq /\ t.amount = pending
      /\ t.unstake /\ t.qid \in Nat
      /\ toWallet = <<>> /\ excesses = {} /\ NoOutcome
  <2>1. t = [qid |-> unstake_seq, amount |-> pending, unstake |-> TRUE]
    BY <1>1 DEF LeavingNow
  <2> QED BY <1>1, <2>1 DEF LeavingNow, VaultTypeOK
<1>3. /\ UNCHANGED <<staked, pending, pending_at, unstake_seq, exited,
                     exited_at, toWallet, excesses>>
      /\ outgoing' = outgoing \ {t}
      /\ balance' = balance + t.amount
      /\ toVault' = Append(toVault, r)
  BY <1>2 DEF TakeBack, ToVault, stakeVars
<1>4. r \in Messages /\ IsOutcome(r) /\ NoteAmount(r) = 0
      /\ r.qid = unstake_seq
  BY <1>2, SentTyped DEF Failure, IsOutcome, NoteAmount
<1> HIDE DEF r
<1>5. outgoing' = {} /\ OneOutcome'
  BY <1>2, <1>3, <1>4, OutcomesMove
<1>6. OneRequest'
  <2>1. Answered'
    BY <1>2, <1>3, <1>5 DEF Answered
  <2> QED BY <1>1, <1>3, <2>1 DEF OneRequest
<1>7. /\ NotesFrom(1)' = NotesFrom(1) + 0 /\ Returning'
      /\ NotesFrom(1) \in Nat
  BY <1>3, <1>4, VaultQueueGrown, ExactTyped
<1>8. NotesFrom(1)' = NotesFrom(1) /\ OpenPart = pending /\ OpenPart' = pending
  BY <1>1, <1>3, <1>7, OpenIs DEF OpenPart, Open
<1>9. TotalAmount(outgoing) = pending /\ TotalAmount(outgoing') = 0
  <2>1. TotalAmount({t}) = t.amount
    BY <1>1, <1>2, OneAmount
  <2> QED BY <1>2, <1>5, <2>1, NoAmounts, Zenon
<1>10. staked + NotesFrom(1) + pending = (balance + pending) + 0
  <2>1. staked + NotesFrom(1) + pending = balance + pending
    BY <1>8, <1>9, Zenon DEF Balanced
  <2> QED BY <2>1, ExactTyped
<1>11. balance' = balance + pending
  BY <1>2, <1>3
<1>12. Balanced'
  BY <1>3, <1>8, <1>9, <1>10, <1>11, Zenon DEF Balanced
<1> QED BY <1>6, <1>12

LEMMA NotificationExact ==
    ASSUME VaultTypeOK, VaultTypeOK', OneRequest, Balanced,
           JettonTransferNotification
    PROVE  OneRequest' /\ Balanced'
<1> DEFINE m == Head(toVault)
           a == m.amount
<1>1. /\ toVault # <<>> /\ toVault' = Tail(toVault) /\ m.type = "note"
      /\ UNCHANGED <<pending, pending_at, unstake_seq, exited_at, balance,
                     outgoing, toWallet, excesses>>
  BY DEF JettonTransferNotification, Arrives, walletVars
<1>2. /\ m \in Messages /\ ~IsOutcome(m) /\ NoteAmount(m) = a /\ a \in Nat
  <2>1. m \in Messages
    BY <1>1, VaultQueueTaken
  <2> QED BY <1>1, <2>1, MessageParts
<1>3. staked' = staked + a /\ exited' = 0
  <2>1. Debt = 0 /\ exited = 0 /\ staked \in Nat
    BY DEF Debt, OneRequest, VaultTypeOK
  <2>2. CASE Debt >= a
    <3>1. a = 0
      BY <1>2, <2>1, <2>2
    <3>2. exited' = exited - a /\ staked' = staked
      BY <2>2 DEF JettonTransferNotification
    <3> QED BY <2>1, <3>1, <3>2
  <2>3. CASE ~(Debt >= a)
    <3>1. staked' = staked + (a - Debt) /\ exited' = 0
      BY <2>3 DEF JettonTransferNotification
    <3> QED BY <1>2, <2>1, <3>1
  <2> QED BY <2>2, <2>3
<1> HIDE DEF a
<1>4. /\ NoOutcome => NoOutcome'
      /\ OneOutcome => OneOutcome'
  BY <1>1, <1>2, OutcomesMove
<1>5. OneRequest'
  BY <1>1, <1>3, <1>4
     DEF OneRequest, Calm, Asking, LeavingNow, Answered, Settled
<1>6. NotesFrom(1) = a + NotesFrom(1)' /\ NotesFrom(1)' \in Nat
  <2>1. NotesFrom(1) = NoteAmount(m) + NotesFrom(1)' /\ NotesFrom(1)' \in Nat
    BY <1>1, VaultQueueTaken
  <2> QED BY <1>2, <2>1
<1>7. Open' <=> Open
  <2>1. Returning' <=> Returning
    <3>1. Returning' => Returning
      BY <1>1, VaultQueueTaken
    <3>2. Returning => Returning'
      <4> SUFFICES ASSUME Returning PROVE Returning'
        OBVIOUS
      <4>1. \E i \in DOMAIN toVault : IsOutcome(toVault[i])
        BY ReturningAt
      <4>2. OneOutcome
        BY <4>1, RequestPhases DEF Answered
      <4>3. OneOutcome'
        BY <1>4, <4>2
      <4>4. OneOutcome => Returning
        BY ReturningAt DEF OneOutcome
      <4>5. OneOutcome' =>
               \E i \in DOMAIN toVault' : IsOutcome(toVault'[i])
                  /\ toVault'[i].qid = unstake_seq'
        BY DEF OneOutcome, IsOutcome
      <4> QED BY <4>3, <4>5 DEF Returning, Elements, IsOutcome
    <3> QED BY <3>1, <3>2
  <2> QED BY <1>1, <2>1 DEF Open
<1>8. Balanced'
  <2> DEFINE n == NotesFrom(1)'
             t == TotalAmount(outgoing)
  <2>1. /\ staked + (a + n) + OpenPart = balance + t
        /\ OpenPart \in Nat /\ n \in Nat /\ t \in Nat
        /\ staked \in Nat /\ balance \in Nat
    BY <1>6, ExactTyped DEF Balanced
  <2>2. /\ OpenPart' = OpenPart /\ TotalAmount(outgoing') = t
        /\ balance' = balance
    BY <1>1, <1>7 DEF OpenPart
  <2>3. Balanced' <=> (staked + a) + n + OpenPart = balance + t
    BY <1>3, <2>2, Zenon DEF Balanced
  <2> HIDE DEF n, t
  <2>4. (staked + a) + n + OpenPart = balance + t
    BY <1>2, <2>1
  <2> QED BY <2>3, <2>4
<1> QED BY <1>5, <1>8

(* The outcome of the request gives back what is pending.                  *)
LEMMA OutcomeExact ==
    ASSUME VaultTypeOK, VaultTypeOK', OneRequest, Balanced,
           BouncedJettonTransfer \/ TransferFailed
    PROVE  OneRequest' /\ Balanced'
<1> DEFINE m == Head(toVault)
<1>1. /\ toVault # <<>> /\ toVault' = Tail(toVault) /\ IsOutcome(m)
      /\ UNCHANGED <<unstake_seq, balance, outgoing, toWallet, excesses>>
  <2>1. CASE BouncedJettonTransfer
    BY <2>1
       DEF BouncedJettonTransfer, Arrives, IsOutcome, stakeVars, walletVars
  <2>2. CASE TransferFailed
    BY <2>2 DEF TransferFailed, Arrives, IsOutcome, walletVars
  <2> QED BY <2>1, <2>2
<1>2. m = toVault[1] /\ 1 \in DOMAIN toVault /\ m \in Messages
      /\ NoteAmount(m) = 0
  BY <1>1, VaultQueueTaken, MessageParts
<1>3. Answered /\ pending # 0 /\ pending \in Nat /\ exited = 0
  BY <1>1, <1>2, RequestPhases DEF VaultTypeOK, OneRequest
<1>4. NoOutcome' /\ m.qid = unstake_seq
  BY <1>1, <1>3, OutcomesMove DEF Answered
<1>5. staked' = staked + pending /\ pending' = 0 /\ exited' = exited
  <2>1. Latest(m.qid) /\ pending > 0
    BY <1>3, <1>4 DEF Latest
  <2>2. CASE BouncedJettonTransfer
    BY <2>1, <2>2 DEF BouncedJettonTransfer
  <2>3. CASE TransferFailed
    BY <2>1, <2>3 DEF TransferFailed
  <2> QED BY <2>2, <2>3
<1>6. OneRequest'
  <2>1. Calm'
    BY <1>1, <1>3, <1>4 DEF Answered, Calm
  <2> QED BY <1>1, <1>3, <1>5, <2>1 DEF OneRequest, Answered
<1>7. Balanced'
  <2> DEFINE n == NotesFrom(1)'
             t == TotalAmount(outgoing)
  <2>1. NotesFrom(1) = 0 + n /\ n \in Nat
    BY <1>1, <1>2, VaultQueueTaken
  <2>2. OpenPart = pending /\ OpenPart' = 0
    BY <1>3, <1>5, OpenIs DEF OpenPart, Answered
  <2>3. staked + (0 + n) + pending = balance + t
    BY <2>1, <2>2, Zenon DEF Balanced
  <2>4. staked \in Nat /\ balance \in Nat /\ t \in Nat
    BY ExactTyped
  <2>5. TotalAmount(outgoing') = t /\ balance' = balance
    BY <1>1
  <2>6. Balanced' <=> (staked + pending) + n + 0 = balance + t
    BY <1>5, <2>2, <2>5, Zenon DEF Balanced
  <2> HIDE DEF n, t
  <2>7. (staked + pending) + n + 0 = balance + t
    BY <1>3, <2>1, <2>3, <2>4
  <2> QED BY <2>6, <2>7
<1> QED BY <1>6, <1>7

LEMMA UnstakeExact ==
    ASSUME VaultTypeOK, VaultTypeOK', OneRequest, Balanced,
           NEW a \in 1..Funds, Unstake(a)
    PROVE  OneRequest' /\ Balanced'
<1> DEFINE r == [qid |-> unstake_seq + 1, amount |-> a,
                 unstake |-> TRUE, sent |-> now]
<1>1. /\ pending = 0 /\ a <= staked /\ staked' = staked - a /\ pending' = a
      /\ unstake_seq' = unstake_seq + 1
      /\ UNCHANGED <<exited, exited_at, balance, outgoing, toVault, excesses>>
      /\ toWallet' = Append(toWallet, r)
      /\ a \in Nat /\ a > 0 /\ staked \in Nat
  BY VaultConstants DEF Unstake, AskTransfer, walletVars, VaultTypeOK
<1>2. toWallet = <<>> /\ Calm /\ exited = 0
  BY <1>1 DEF OneRequest
<1>3. r \in Requests /\ r.qid = unstake_seq' /\ r.amount = a /\ r.unstake
  BY <1>1, AskTyped
<1> HIDE DEF r
<1>4. Len(toWallet') = 1 /\ toWallet'[1] = r
  BY <1>1, <1>2, <1>3
<1>5. NoOutcome'
  BY <1>1, <1>2 DEF Calm, NoOutcome, IsOutcome
<1>6. Asking'
  BY <1>1, <1>2, <1>3, <1>4, <1>5 DEF Asking, Calm
<1>7. OneRequest'
  BY <1>1, <1>2, <1>6 DEF OneRequest
<1>8. OpenPart = 0 /\ OpenPart' = a
  <2>1. 1 \in DOMAIN toWallet'
    BY <1>1, <1>2, <1>3
  <2>2. Open'
    BY <1>3, <1>4, <2>1 DEF Open, Elements
  <2> QED BY <1>1, <2>2 DEF OpenPart
<1>9. Balanced'
  <2> DEFINE n == NotesFrom(1)
             t == TotalAmount(outgoing)
  <2>1. NotesFrom(1)' = n /\ TotalAmount(outgoing') = t /\ balance' = balance
    BY <1>1, VaultQueueSame
  <2>2. /\ staked + n + 0 = balance + t
        /\ n \in Nat /\ t \in Nat /\ balance \in Nat
    BY <1>8, ExactTyped, Zenon DEF Balanced
  <2>3. Balanced' <=> (staked - a) + n + a = balance + t
    BY <1>1, <1>8, <2>1, Zenon DEF Balanced
  <2> HIDE DEF n, t
  <2>4. (staked - a) + n + a = balance + t
    BY <1>1, <2>2
  <2> QED BY <2>3, <2>4
<1> QED BY <1>7, <1>9

LEMMA ExcessesExact ==
    ASSUME VaultTypeOK, VaultTypeOK', OneRequest, Balanced,
           NEW q \in excesses, JettonExcesses(q)
    PROVE  OneRequest' /\ Balanced'
<1>1. Settled /\ pending # 0 /\ q = unstake_seq /\ excesses = {q}
  <2>1. Settled /\ pending # 0
    BY RequestPhases
  <2> QED BY <2>1 DEF Settled
<1>2. /\ excesses' = {} /\ pending' = 0
      /\ UNCHANGED <<staked, unstake_seq, exited, exited_at, balance,
                     outgoing, toWallet, toVault>>
  BY <1>1 DEF JettonExcesses, walletVars
<1>3. NoOutcome'
  BY <1>1, <1>2 DEF Settled, NoOutcome, IsOutcome
<1>4. OneRequest'
  BY <1>1, <1>2, <1>3 DEF OneRequest, Settled, Calm
<1>5. OpenPart = 0 /\ OpenPart' = 0
  BY <1>1, <1>2, OpenIs DEF OpenPart, Quiet, Settled
<1>6. NotesFrom(1)' = NotesFrom(1)
      /\ TotalAmount(outgoing') = TotalAmount(outgoing)
  BY <1>2, VaultQueueSame
<1>7. Balanced'
  BY <1>2, <1>5, <1>6, Zenon DEF Balanced
<1> QED BY <1>4, <1>7

LEMMA ExactRests ==
    ASSUME VaultTypeOK, OneRequest, Balanced, Fees \/ Tick \/ UNCHANGED vars
    PROVE  OneRequest' /\ Balanced'
<1>1. UNCHANGED <<stakeVars, walletVars, netVars>>
  BY DEF Fees, Tick, vars, PublishViaVault, PublicationLands,
         BouncedVaultPublish, FlushFees
<1>2. UNCHANGED <<staked, pending, unstake_seq, exited, balance, outgoing,
                  toWallet, toVault, excesses>>
  BY <1>1 DEF stakeVars, walletVars, netVars
<1>3. OneRequest'
  BY <1>2 DEF OneRequest, Calm, Asking, LeavingNow, Answered, OneOutcome,
              Settled, NoOutcome, IsOutcome
<1>4. Balanced'
  <2>1. NotesFrom(1)' = NotesFrom(1) /\ (Returning' <=> Returning)
    BY <1>2, VaultQueueSame
  <2>2. OpenPart' = OpenPart
        /\ TotalAmount(outgoing') = TotalAmount(outgoing)
    BY <1>2, <2>1 DEF OpenPart, Open
  <2> QED BY <1>2, <2>1, <2>2, Zenon DEF Balanced
<1> QED BY <1>3, <1>4

LEMMA ExactKept ==
    ASSUME VaultTypeOK, VaultTypeOK', ExactInv, [Next]_vars
    PROVE  ExactInv'
<1>1. emergency' = emergency
  BY DEF Next, Wallet, Stake, Fees, Tick, vars, setting, Deposit,
         JettonTransfer, RefuseJettonTransfer, TakeBack, CreditOwner,
         JettonTransferNotification, BouncedJettonTransfer, TransferFailed,
         UnstakeUnjam, Unstake, EmergencyExit, JettonExcesses,
         PublishViaVault, PublicationLands, BouncedVaultPublish, FlushFees
<1> SUFFICES ASSUME ~emergency, OneRequest, Balanced
             PROVE  OneRequest' /\ Balanced'
  BY <1>1 DEF ExactInv
<1>2. CASE Wallet
  BY <1>2, DepositExact, TransferExact, RefuseExact, CreditExact,
     TakeBackExact DEF Wallet
<1>3. CASE Stake
  <2>1. ~UnstakeUnjam /\ \A a \in 1..Funds : ~EmergencyExit(a)
    BY DEF UnstakeUnjam, EmergencyExit
  <2> QED BY <1>3, <2>1, NotificationExact, OutcomeExact, UnstakeExact,
             ExcessesExact DEF Stake
<1>4. CASE Fees \/ Tick \/ UNCHANGED vars
  BY <1>4, ExactRests
<1> QED BY <1>2, <1>3, <1>4 DEF Next

-----------------------------------------------------------------------------
VaultInv == StakeInv /\ ExactInv /\ FeesCovered

LEMMA VaultInvFromStart == Init => VaultInv
<1> SUFFICES ASSUME Init PROVE VaultInv
  OBVIOUS
<1>1. /\ staked = 0 /\ pending = 0 /\ pending_at = 0 /\ unstake_seq = 0
      /\ exited = 0 /\ exited_at = 0
      /\ balance = 0 /\ outgoing = {} /\ purse = Funds
      /\ toWallet = <<>> /\ toVault = <<>> /\ excesses = {}
      /\ accrued_fee = 0 /\ posting = 0 /\ landed = 0 /\ treasury = 0
      /\ now = 0 /\ emergency \in BOOLEAN
  BY VaultAssumption DEF Init
<1>2. VaultTypeOK
  BY <1>1, VaultConstants, FS_EmptySet DEF VaultTypeOK
<1>3. DOMAIN toWallet = {} /\ DOMAIN toVault = {}
  BY <1>1
<1>4. Timely /\ Numbered /\ PendingAsked /\ BehindRefusal
  BY <1>1, <1>3 DEF Timely, AsksTimely, AnswersTimely, Numbered, AsksNumbered,
     LeavingNumbered, OutcomesNumbered, PendingAsked, BehindRefusal
<1>5. NotesFrom(1) = 0 /\ AsksFrom(1) = 0 /\ Comes = 0
  BY <1>1, <1>2, <1>3, NotesOfNone, AsksOfNone DEF Comes
<1>6. Claimed = 0
  BY <1>1, <1>5 DEF Claimed
<1>7. ShortByExit
  BY <1>1, <1>6 DEF ShortByExit
<1>8. OneRequest /\ Balanced
  <2>1. OneRequest
    BY <1>1, <1>3 DEF OneRequest, Calm, NoOutcome
  <2>2. OpenPart = 0 /\ TotalAmount(outgoing) = 0
    BY <1>1, NoAmounts DEF OpenPart
  <2> QED BY <1>1, <1>5, <2>1, <2>2 DEF Balanced
<1>9. FeesCovered
  BY <1>1 DEF FeesCovered
<1> QED BY <1>2, <1>4, <1>7, <1>8, <1>9 DEF VaultInv, StakeInv, ExactInv

LEMMA VaultInvKept == VaultInv /\ [Next]_vars => VaultInv'
<1> SUFFICES ASSUME VaultInv, [Next]_vars PROVE VaultInv'
  OBVIOUS
<1>1. VaultTypeOK /\ VaultTypeOK'
  BY VaultTypesKept DEF VaultInv, StakeInv
<1> QED BY <1>1, StakeInvKept, ExactKept, FeesKept DEF VaultInv

LEMMA VaultInvBacks == VaultInv => VaultBacked
<1> SUFFICES ASSUME VaultInv PROVE VaultBacked
  OBVIOUS
<1>1. VaultTypeOK
  BY DEF VaultInv, StakeInv
<1>2. StakeBacked
  <2>1. /\ staked \in Nat /\ Comes \in Nat /\ NotesFrom(1) \in Nat
        /\ AsksFrom(1) \in Nat /\ balance \in Nat /\ pending \in Nat
    BY <1>1, ClaimedTyped DEF ClaimTypeOK
  <2>2. staked + Comes <= balance
    <3>1. CASE Claimed > balance
      <4>1. staked = 0 /\ pending = 0
        BY <3>1 DEF VaultInv, StakeInv, ShortByExit
      <4> QED BY <2>1, <4>1 DEF Comes
    <3>2. CASE ~(Claimed > balance)
      BY <2>1, <3>2 DEF Claimed
    <3> QED BY <3>1, <3>2
  <2> QED BY <2>2 DEF StakeBacked, Comes
<1>3. StakeExact
  <2>1. NotesInTransit = NotesFrom(1)
    <3>1. DOMAIN toVault = 1..Len(toVault)
      BY <1>1, VaultQueueIs
    <3> QED BY <3>1 DEF NotesInTransit, NotesFrom, SumFunction
  <2> QED BY <2>1 DEF VaultInv, ExactInv, Balanced, OpenPart, StakeExact,
                      TotalAmount
<1> QED BY <1>2, <1>3 DEF VaultBacked, StakeKept, VaultInv

(* The vault owes nobody what it has not, whatever its wallet answers and  *)
(* when, whatever exits the owner makes, and for any window that covers    *)
(* two transits (FeeVault.tact: JettonTransferNotification, Unstake,       *)
(* EmergencyExit, the bounces and the fees).                               *)
THEOREM VaultIsBacked == Spec => []VaultBacked
<1>1. Init => VaultInv
  BY VaultInvFromStart
<1>2. VaultInv /\ [Next]_vars => VaultInv'
  BY VaultInvKept
<1>3. VaultInv => VaultBacked
  BY VaultInvBacks
<1> QED BY <1>1, <1>2, <1>3, PTL DEF Spec

-----------------------------------------------------------------------------
(***************************************************************************)
(* The market stability seller and the vesting                             *)
(***************************************************************************)

(* A sale waited for has a price, a claim has none.                        *)
Sales == [id : Nat \ {0}, amount : Nat, paid : Nat]
Claims == [id : Nat \ {0}, amount : Nat]
Transfers == [id : Nat, amount : Nat]
Letters ==
    [type : {"request", "bounced", "failed", "ack"}, id : Nat, amount : Nat]

PayoutTypeOK ==
    /\ payout \in {NoPayout} \cup Sales \cup Claims
    /\ last_id \in Nat /\ held \in Nat
    /\ mail \subseteq Letters
    /\ moving \subseteq Transfers /\ IsFiniteSet(moving)
    /\ delivered \subseteq Transfers /\ IsFiniteSet(delivered)

(* The transfer that is waited for is at one place, and what arrived       *)
(* before it has been answered for.                                        *)
ThePayout == [id |-> payout.id, amount |-> payout.amount]
EarlierDelivered == \A t \in delivered : t.id <= last_id
OnItsWay ==
    /\ EarlierDelivered
    /\ \/ moving = {} /\ \E type \in {"request", "bounced", "failed"} :
                            mail = {Message(type, payout)}
       \/ moving = {ThePayout} /\ mail = {}
ThereBefore ==
    /\ moving = {} /\ mail \subseteq {Message("ack", payout)}
    /\ ThePayout \in delivered
    /\ \A t \in delivered : t = ThePayout \/ t.id <= last_id
OneStage ==
    IF Idle THEN mail = {} /\ moving = {} /\ EarlierDelivered
    ELSE /\ payout.id > last_id
         /\ OnItsWay \/ ThereBefore

TransferInv == PayoutTypeOK /\ OneStage

ArrivedAmount == IF Arrived THEN PendingAmount ELSE 0
MissingAmount == IF Arrived THEN 0 ELSE PendingAmount

-----------------------------------------------------------------------------
LEMMA PayoutIs ==
    ASSUME PayoutTypeOK
    PROVE  /\ payout.id \in Nat
           /\ Idle <=> payout.id = 0
           /\ ~Idle => payout \in Sales \cup Claims /\ payout.amount \in Nat
                       /\ ThePayout \in Transfers
           /\ PendingAmount \in Nat
           /\ \A m \in mail : m.id \in Nat /\ m.amount \in Nat
           /\ \A t \in moving : t.id \in Nat /\ t.amount \in Nat
           /\ \A t \in delivered : t.id \in Nat /\ t.amount \in Nat
<1>1. /\ payout.id \in Nat
      /\ Idle <=> payout.id = 0
  <2>1. CASE payout = NoPayout
    BY <2>1 DEF NoPayout, Idle
  <2>2. CASE payout \in Sales \cup Claims
    <3>1. payout.id \in Nat \ {0}
      BY <2>2 DEF Sales, Claims
    <3> QED BY <3>1 DEF NoPayout, Idle
  <2> QED BY <2>1, <2>2 DEF PayoutTypeOK
<1>2. ~Idle => payout \in Sales \cup Claims /\ payout.amount \in Nat
  BY DEF PayoutTypeOK, Idle, Sales, Claims
<1>3. ~Idle => ThePayout \in Transfers
  BY <1>1, <1>2 DEF ThePayout, Transfers
<1>4. PendingAmount \in Nat
  BY <1>2 DEF PendingAmount
<1>5. /\ \A m \in mail : m.id \in Nat /\ m.amount \in Nat
      /\ \A t \in moving : t.id \in Nat /\ t.amount \in Nat
      /\ \A t \in delivered : t.id \in Nat /\ t.amount \in Nat
  BY DEF PayoutTypeOK, Letters, Transfers
<1> QED BY <1>1, <1>2, <1>3, <1>4, <1>5

LEMMA LetterIs ==
    ASSUME NEW type \in {"request", "bounced", "failed", "ack"}, NEW p,
           p.id \in Nat, p.amount \in Nat
    PROVE  /\ Message(type, p) \in Letters
           /\ Message(type, p).type = type
           /\ Message(type, p).id = p.id
           /\ Message(type, p).amount = p.amount
BY DEF Message, Letters

LEMMA OneTransfer ==
    ASSUME NEW t \in Transfers
    PROVE  IsFiniteSet({t}) /\ AmountOf({t}) = t.amount /\ t.amount \in Nat
<1>1. t.amount \in Nat
  BY DEF Transfers
<1>2. /\ IsFiniteSet({}) /\ t \notin {} /\ \A u \in {} : u.amount \in Nat
  BY FS_EmptySet
<1>3. TotalAmount({} \cup {t}) = TotalAmount({}) + t.amount
  BY <1>1, <1>2, AmountsWith
<1>4. {} \cup {t} = {t}
  OBVIOUS
<1>5. TotalAmount({t}) = 0 + t.amount
  BY <1>3, <1>4, NoAmounts, Zenon
<1>6. AmountOf({t}) = TotalAmount({t})
  BY DEF AmountOf, TotalAmount
<1>7. IsFiniteSet({t})
  BY FS_Singleton
<1> QED BY <1>1, <1>5, <1>6, <1>7

LEMMA NoTransfers == AmountOf({}) = 0
BY NoAmounts DEF AmountOf, TotalAmount

LEMMA AmountsAre ==
    ASSUME PayoutTypeOK
    PROVE  AmountOf(moving) \in Nat /\ PaidOut \in Nat
<1>1. /\ \A t \in moving : t.amount \in Nat
      /\ \A t \in delivered : t.amount \in Nat
  BY PayoutIs
<1>2. TotalAmount(moving) \in Nat /\ TotalAmount(delivered) \in Nat
  BY <1>1, AmountsNatural DEF PayoutTypeOK
<1> QED BY <1>2 DEF AmountOf, PaidOut, TotalAmount

(* Where the transfer is decides what has arrived and what is missing.     *)
LEMMA StageAmounts ==
    ASSUME TransferInv
    PROVE  /\ Idle => ArrivedAmount = 0 /\ MissingAmount = 0
           /\ ~Idle /\ OnItsWay =>
                 ArrivedAmount = 0 /\ MissingAmount = payout.amount
           /\ ~Idle /\ ThereBefore =>
                 ArrivedAmount = payout.amount /\ MissingAmount = 0
<1>1. Idle => ArrivedAmount = 0 /\ MissingAmount = 0
  BY DEF ArrivedAmount, MissingAmount, PendingAmount
<1>2. ASSUME ~Idle, OnItsWay
      PROVE  ArrivedAmount = 0 /\ MissingAmount = payout.amount
  <2>1. ~Arrived
    <3> SUFFICES ASSUME NEW t \in delivered, t.id = payout.id PROVE FALSE
      BY DEF Arrived
    <3>1. t.id <= last_id /\ payout.id > last_id
      BY <1>2 DEF TransferInv, OneStage, OnItsWay, EarlierDelivered
    <3> QED BY <3>1, PayoutIs DEF TransferInv, PayoutTypeOK
  <2> QED BY <1>2, <2>1 DEF ArrivedAmount, MissingAmount, PendingAmount
<1>3. ASSUME ~Idle, ThereBefore
      PROVE  ArrivedAmount = payout.amount /\ MissingAmount = 0
  <2>1. Arrived
    BY <1>3 DEF Arrived, ThereBefore, ThePayout
  <2> QED BY <1>3, <2>1 DEF ArrivedAmount, MissingAmount, PendingAmount
<1> QED BY <1>1, <1>2, <1>3

-----------------------------------------------------------------------------
(* The steps of the exchange.                                              *)

(* A payout begins.                                                        *)
LEMMA AskStage ==
    ASSUME TransferInv, NEW p \in Sales \cup Claims, p.id > last_id, Ask(p)
    PROVE  /\ TransferInv'
           /\ ArrivedAmount = 0 /\ ArrivedAmount' = 0
           /\ MissingAmount = 0 /\ MissingAmount' = p.amount
           /\ PendingAmount = 0 /\ PendingAmount' = p.amount
<1>1. /\ Idle /\ payout' = p
      /\ mail' = mail \cup {Message("request", p)}
      /\ UNCHANGED <<last_id, held, moving, delivered, lossless>>
  BY DEF Ask
<1>2. mail = {} /\ moving = {} /\ EarlierDelivered
  BY <1>1 DEF TransferInv, OneStage
<1>3. p.id \in Nat \ {0} /\ p.amount \in Nat
  BY DEF Sales, Claims
<1>4. mail' = {Message("request", payout')} /\ mail' \subseteq Letters
  BY <1>1, <1>2, <1>3, LetterIs
<1>5. ~Idle'
  BY <1>1, <1>3 DEF Idle, NoPayout
<1>6. PayoutTypeOK'
  BY <1>1, <1>4 DEF TransferInv, PayoutTypeOK
<1>7. EarlierDelivered' /\ moving' = {}
  BY <1>1, <1>2 DEF EarlierDelivered
<1>8. OnItsWay'
  BY <1>4, <1>7 DEF OnItsWay, Message
<1>9. TransferInv'
  BY <1>1, <1>5, <1>6, <1>8 DEF TransferInv, OneStage
<1>10. PendingAmount = 0 /\ PendingAmount' = p.amount
  BY <1>1, <1>5 DEF PendingAmount
<1>11. ~Arrived'
  <2> SUFFICES ASSUME NEW t \in delivered, t.id = p.id PROVE FALSE
    BY <1>1 DEF Arrived
  <2>1. t.id <= last_id
    BY <1>2 DEF EarlierDelivered
  <2> QED BY <1>3, <2>1 DEF TransferInv, PayoutTypeOK
<1>12. ArrivedAmount = 0 /\ MissingAmount = 0
  BY <1>1, StageAmounts
<1> QED BY <1>9, <1>10, <1>11, <1>12 DEF ArrivedAmount, MissingAmount

(* It ends with the answer: the transfer has arrived if it is acknowledged,*)
(* and has not if it failed or was refused.                                *)
LEMMA CloseStage ==
    ASSUME TransferInv, NEW m \in mail, Answers(m), Close(m),
           m.type \in {"ack", "failed", "bounced"}
    PROVE  /\ TransferInv' /\ Idle' /\ payout.amount \in Nat
           /\ last_id' \in Nat /\ last_id' > last_id
           /\ PendingAmount = payout.amount /\ PendingAmount' = 0
           /\ ArrivedAmount' = 0 /\ MissingAmount' = 0
           /\ m.type = "ack" =>
                 ArrivedAmount = payout.amount /\ MissingAmount = 0
           /\ m.type # "ack" =>
                 ArrivedAmount = 0 /\ MissingAmount = payout.amount
<1>1. /\ payout' = NoPayout /\ last_id' = payout.id /\ mail' = mail \ {m}
      /\ UNCHANGED <<held, moving, delivered>>
      /\ ~Idle
  BY DEF Close, Answers
<1>2. /\ payout.id \in Nat /\ payout.amount \in Nat /\ last_id \in Nat
      /\ payout.id > last_id /\ Idle'
      /\ \A t \in delivered : t.id \in Nat
  BY <1>1, PayoutIs DEF TransferInv, OneStage, PayoutTypeOK, Idle
<1>3. \A type \in {"request", "bounced", "failed", "ack"} :
         Message(type, payout).type = type
  BY <1>2, LetterIs
<1>4. /\ moving = {} /\ mail = {m}
      /\ m.type = "ack" => ThereBefore
      /\ m.type # "ack" => OnItsWay
  <2>1. CASE OnItsWay
    <3>1. moving = {} /\ \E type \in {"request", "bounced", "failed"} :
                            mail = {Message(type, payout)}
      BY <2>1 DEF OnItsWay
    <3>2. PICK type \in {"request", "bounced", "failed"} :
             mail = {Message(type, payout)}
      BY <3>1
    <3>3. m = Message(type, payout) /\ m.type = type
      BY <1>3, <3>2
    <3> QED BY <2>1, <3>1, <3>2, <3>3
  <2>2. CASE ThereBefore
    <3>1. moving = {} /\ m = Message("ack", payout) /\ mail = {m}
      BY <2>2 DEF ThereBefore
    <3>2. m.type = "ack"
      BY <1>3, <3>1
    <3> QED BY <2>2, <3>1, <3>2
  <2> QED BY <1>1, <2>1, <2>2 DEF TransferInv, OneStage
<1>5. EarlierDelivered'
  <2>1. ASSUME NEW t \in delivered PROVE t.id <= payout.id
    <3>1. t.id = payout.id \/ t.id <= last_id
      BY <1>1 DEF TransferInv, OneStage, OnItsWay, EarlierDelivered,
                  ThereBefore, ThePayout
    <3> QED BY <1>2, <3>1
  <2> QED BY <1>1, <2>1 DEF EarlierDelivered
<1>6. PayoutTypeOK'
  BY <1>1, <1>2 DEF TransferInv, PayoutTypeOK
<1>7. TransferInv'
  BY <1>1, <1>2, <1>4, <1>5, <1>6 DEF TransferInv, OneStage
<1>8. /\ PendingAmount = payout.amount /\ PendingAmount' = 0
      /\ ArrivedAmount' = 0 /\ MissingAmount' = 0
  BY <1>1, <1>2 DEF PendingAmount, ArrivedAmount, MissingAmount
<1> QED BY <1>1, <1>2, <1>4, <1>7, <1>8, StageAmounts

(* What the wallets do in between; nothing is counted by it but what       *)
(* arrives.                                                                *)
LEMMA RequestStage ==
    ASSUME TransferInv, NEW m \in Mail("request"),
           TransferRequest(m) \/ RefuseTransferRequest(m)
    PROVE  /\ TransferInv'
           /\ ArrivedAmount' = ArrivedAmount
           /\ MissingAmount' = MissingAmount
           /\ PendingAmount' = PendingAmount
           /\ PaidOut' = PaidOut
           /\ held' + AmountOf(moving)' = held + AmountOf(moving)
<1>1. m \in mail /\ m.type = "request"
  BY DEF Mail
<1>2. ~Idle
  BY <1>1 DEF TransferInv, OneStage
<1>3. /\ payout.id \in Nat /\ payout.amount \in Nat /\ held \in Nat
      /\ ThePayout \in Transfers
  BY <1>2, PayoutIs DEF TransferInv, PayoutTypeOK
<1>4. \A type \in {"request", "bounced", "failed", "ack"} :
         Message(type, payout).type = type
  BY <1>3, LetterIs
<1>5. OnItsWay /\ moving = {} /\ mail = {m} /\ m = Message("request", payout)
  <2>1. ~ThereBefore
    BY <1>1, <1>4 DEF ThereBefore
  <2>2. OnItsWay
    BY <1>2, <2>1 DEF TransferInv, OneStage
  <2>3. moving = {} /\ \E type \in {"request", "bounced", "failed"} :
                          mail = {Message(type, payout)}
    BY <1>1, <2>2 DEF OnItsWay
  <2> QED BY <1>1, <1>4, <2>2, <2>3
<1>6. /\ m.id = payout.id /\ m.amount = payout.amount
      /\ Message("bounced", m) = Message("bounced", payout)
      /\ Message("bounced", payout) \in Letters
  BY <1>3, <1>5, LetterIs DEF Message
<1>7. UNCHANGED <<payout, last_id, delivered>>
  BY DEF TransferRequest, RefuseTransferRequest
<1>8. /\ EarlierDelivered' /\ ThePayout' = ThePayout /\ (Idle' <=> Idle)
      /\ PendingAmount' = PendingAmount /\ PaidOut' = PaidOut
      /\ ArrivedAmount' = ArrivedAmount /\ MissingAmount' = MissingAmount
  BY <1>5, <1>7 DEF OnItsWay, EarlierDelivered, ThePayout, Idle, PendingAmount,
                    PaidOut, ArrivedAmount, MissingAmount, Arrived
<1>9. CASE TransferRequest(m)
  <2>1. /\ held >= m.amount /\ held' = held - m.amount
        /\ moving' = {ThePayout} /\ mail' = {}
    BY <1>5, <1>6, <1>9 DEF TransferRequest, ThePayout
  <2>2. OnItsWay'
    BY <1>8, <2>1 DEF OnItsWay
  <2>3. IsFiniteSet(moving') /\ moving' \subseteq Transfers /\ held' \in Nat
    BY <1>3, <1>6, <2>1, OneTransfer
  <2>4. PayoutTypeOK'
    BY <1>7, <2>1, <2>3 DEF TransferInv, PayoutTypeOK
  <2>5. TransferInv'
    BY <1>2, <1>7, <1>8, <2>2, <2>4 DEF TransferInv, OneStage
  <2>6. /\ AmountOf(moving) = 0 /\ AmountOf(moving') = payout.amount
    <3>1. ThePayout.amount = payout.amount
      BY DEF ThePayout
    <3>2. AmountOf({ThePayout}) = payout.amount
      BY <1>3, <3>1, OneTransfer
    <3> QED BY <1>5, <2>1, <3>2, NoTransfers, Zenon
  <2>7. (held - payout.amount) + payout.amount = held + 0
    BY <1>3
  <2>8. AmountOf(moving)' = AmountOf(moving')
    BY DEF AmountOf
  <2>9. held' + AmountOf(moving)' = held + AmountOf(moving)
    BY <1>6, <2>1, <2>6, <2>7, <2>8, Zenon
  <2> QED BY <1>8, <2>5, <2>9
<1>10. CASE RefuseTransferRequest(m)
  <2>1. /\ UNCHANGED <<held, moving>>
        /\ mail' = {Message("bounced", payout)}
    BY <1>5, <1>6, <1>10 DEF RefuseTransferRequest
  <2>2. OnItsWay'
    BY <1>5, <1>7, <1>8, <2>1 DEF OnItsWay, Message
  <2>3. PayoutTypeOK'
    BY <1>6, <1>7, <2>1 DEF TransferInv, PayoutTypeOK
  <2>4. TransferInv'
    BY <1>2, <1>7, <1>8, <2>2, <2>3 DEF TransferInv, OneStage
  <2> QED BY <1>8, <2>1, <2>4
<1> QED BY <1>9, <1>10

LEMMA DeliverStage ==
    ASSUME TransferInv, NEW t \in moving, Deliver(t)
    PROVE  /\ TransferInv' /\ ~Idle /\ payout.amount \in Nat
           /\ ArrivedAmount = 0 /\ ArrivedAmount' = payout.amount
           /\ MissingAmount = payout.amount /\ MissingAmount' = 0
           /\ PendingAmount' = PendingAmount
           /\ PaidOut' = PaidOut + payout.amount
           /\ held' = held /\ AmountOf(moving) = payout.amount
           /\ AmountOf(moving)' = 0
<1>1. ~Idle /\ OnItsWay /\ moving = {ThePayout} /\ mail = {} /\ t = ThePayout
      /\ EarlierDelivered /\ payout.id > last_id
  BY DEF TransferInv, OneStage, OnItsWay, ThereBefore
<1>2. /\ payout.id \in Nat /\ payout.amount \in Nat /\ t \in Transfers
      /\ \A u \in delivered : u.id \in Nat /\ u.amount \in Nat
      /\ last_id \in Nat
  BY <1>1, PayoutIs DEF TransferInv, PayoutTypeOK
<1>3. /\ t.id = payout.id /\ t.amount = payout.amount
      /\ Message("ack", t) = Message("ack", payout)
      /\ Message("ack", payout) \in Letters
  BY <1>1, <1>2, LetterIs DEF ThePayout, Message
<1>4. /\ moving' = {} /\ mail' = {Message("ack", payout)}
      /\ delivered' = delivered \cup {t}
      /\ UNCHANGED <<payout, last_id, held>>
  BY <1>1, <1>3 DEF Deliver
<1>5. t \notin delivered
  <2>1. ASSUME t \in delivered PROVE FALSE
    <3>1. t.id <= last_id
      BY <1>1, <2>1 DEF EarlierDelivered
    <3> QED BY <1>1, <1>2, <1>3, <3>1
  <2> QED BY <2>1
<1>6. ThereBefore' /\ ~Idle'
  BY <1>1, <1>4 DEF ThereBefore, ThePayout, EarlierDelivered, Idle, Message
<1>7. PayoutTypeOK'
  <2>1. IsFiniteSet(delivered') /\ IsFiniteSet(moving')
    BY <1>4, FS_AddElement, FS_EmptySet DEF TransferInv, PayoutTypeOK
  <2> QED BY <1>2, <1>3, <1>4, <2>1 DEF TransferInv, PayoutTypeOK
<1>8. TransferInv'
  BY <1>1, <1>4, <1>6, <1>7 DEF TransferInv, OneStage
<1>9. PaidOut' = PaidOut + payout.amount
  <2>1. TotalAmount(delivered \cup {t}) = TotalAmount(delivered) + t.amount
    BY <1>2, <1>3, <1>5, AmountsWith DEF TransferInv, PayoutTypeOK
  <2>2. PaidOut = TotalAmount(delivered) /\ PaidOut' = TotalAmount(delivered')
    BY DEF PaidOut, AmountOf, TotalAmount
  <2> QED BY <1>3, <1>4, <2>1, <2>2, Zenon
<1>10. AmountOf(moving) = payout.amount /\ AmountOf(moving)' = 0
  <2>1. AmountOf(moving)' = AmountOf(moving')
    BY DEF AmountOf
  <2>2. AmountOf({t}) = payout.amount
    BY <1>2, <1>3, OneTransfer
  <2> QED BY <1>1, <1>4, <2>1, <2>2, NoTransfers, Zenon
<1>11. /\ ArrivedAmount = 0 /\ MissingAmount = payout.amount
  BY <1>1, StageAmounts
<1>12. ArrivedAmount' = payout.amount /\ MissingAmount' = 0
       /\ PendingAmount' = PendingAmount
  <2>1. Arrived'
    BY <1>3, <1>4 DEF Arrived
  <2> QED BY <1>4, <1>6, <2>1
          DEF ArrivedAmount, MissingAmount, PendingAmount, Idle
<1> QED BY <1>1, <1>2, <1>4, <1>8, <1>9, <1>10, <1>11, <1>12

LEMMA TakeBackStage ==
    ASSUME TransferInv, NEW t \in moving, TakeBackPayout(t)
    PROVE  /\ TransferInv'
           /\ ArrivedAmount' = ArrivedAmount
           /\ MissingAmount' = MissingAmount
           /\ PendingAmount' = PendingAmount
           /\ PaidOut' = PaidOut
           /\ held' + AmountOf(moving)' = held + AmountOf(moving)
<1>1. ~Idle /\ OnItsWay /\ moving = {ThePayout} /\ mail = {} /\ t = ThePayout
      /\ EarlierDelivered /\ payout.id > last_id
  BY DEF TransferInv, OneStage, OnItsWay, ThereBefore
<1>2. /\ payout.id \in Nat /\ payout.amount \in Nat /\ t \in Transfers
      /\ held \in Nat
  BY <1>1, PayoutIs DEF TransferInv, PayoutTypeOK
<1>3. /\ t.id = payout.id /\ t.amount = payout.amount
      /\ Message("failed", t) = Message("failed", payout)
      /\ Message("failed", payout) \in Letters
  BY <1>1, <1>2, LetterIs DEF ThePayout, Message
<1>4. /\ moving' = {} /\ mail' = {Message("failed", payout)}
      /\ held' = held + payout.amount
      /\ UNCHANGED <<payout, last_id, delivered>>
  BY <1>1, <1>3 DEF TakeBackPayout
<1>5. /\ EarlierDelivered' /\ (Idle' <=> Idle)
      /\ PendingAmount' = PendingAmount /\ PaidOut' = PaidOut
      /\ ArrivedAmount' = ArrivedAmount /\ MissingAmount' = MissingAmount
  BY <1>1, <1>4 DEF EarlierDelivered, Idle, PendingAmount,
                    PaidOut, ArrivedAmount, MissingAmount, Arrived
<1>6. OnItsWay'
  BY <1>4, <1>5 DEF OnItsWay, Message
<1>7. PayoutTypeOK'
  BY <1>2, <1>3, <1>4, FS_EmptySet DEF TransferInv, PayoutTypeOK
<1>8. TransferInv'
  BY <1>1, <1>4, <1>5, <1>6, <1>7 DEF TransferInv, OneStage
<1>9. held' + AmountOf(moving)' = held + AmountOf(moving)
  <2>1. AmountOf(moving)' = AmountOf(moving')
    BY DEF AmountOf
  <2>2. AmountOf({t}) = payout.amount
    BY <1>2, <1>3, OneTransfer
  <2>3. (held + payout.amount) + 0 = held + payout.amount
    BY <1>2
  <2> QED BY <1>1, <1>4, <2>1, <2>2, <2>3, NoTransfers, Zenon
<1> QED BY <1>5, <1>8, <1>9

LEMMA LostAckStage ==
    ASSUME TransferInv, NEW m \in Mail("ack"), LoseAck(m)
    PROVE  /\ TransferInv'
           /\ ArrivedAmount' = ArrivedAmount
           /\ MissingAmount' = MissingAmount
           /\ PendingAmount' = PendingAmount
           /\ PaidOut' = PaidOut
           /\ held' = held /\ AmountOf(moving)' = AmountOf(moving)
<1>1. /\ UNCHANGED <<payout, last_id, held, moving, delivered>>
      /\ mail' \subseteq mail /\ m \in mail /\ m.type = "ack"
  BY DEF LoseAck, Mail
<1>2. ~Idle /\ payout.id \in Nat /\ payout.amount \in Nat
  BY <1>1, PayoutIs DEF TransferInv, OneStage
<1>3. \A type \in {"request", "bounced", "failed", "ack"} :
         Message(type, payout).type = type
  BY <1>2, LetterIs
<1>4. ThereBefore
  <2>1. ~OnItsWay
    BY <1>1, <1>3 DEF OnItsWay
  <2> QED BY <1>2, <2>1 DEF TransferInv, OneStage
<1>5. ThereBefore' /\ (Idle' <=> Idle)
  BY <1>1, <1>4 DEF ThereBefore, ThePayout, Message, Idle
<1>6. PayoutTypeOK'
  BY <1>1 DEF TransferInv, PayoutTypeOK
<1>7. TransferInv'
  BY <1>1, <1>2, <1>5, <1>6 DEF TransferInv, OneStage
<1> QED BY <1>1, <1>5, <1>7 DEF PendingAmount, PaidOut, ArrivedAmount,
                                MissingAmount, Arrived, AmountOf

(* Steps that leave the transfer alone.                                    *)
LEMMA RestStage ==
    ASSUME TransferInv, held' \in Nat,
           UNCHANGED <<payout, last_id, mail, moving, delivered>>
    PROVE  /\ TransferInv'
           /\ ArrivedAmount' = ArrivedAmount
           /\ MissingAmount' = MissingAmount
           /\ PendingAmount' = PendingAmount
           /\ PaidOut' = PaidOut
           /\ AmountOf(moving)' = AmountOf(moving)
<1>1. PayoutTypeOK'
  BY DEF TransferInv, PayoutTypeOK
<1>2. TransferInv'
  BY <1>1 DEF TransferInv, OneStage, OnItsWay, ThereBefore, EarlierDelivered,
              ThePayout, Message, Idle
<1> QED BY <1>2 DEF PendingAmount, PaidOut, ArrivedAmount, MissingAmount,
                    Arrived, AmountOf, Idle

-----------------------------------------------------------------------------
(* ATHVesting                                                              *)

VestingInv ==
    /\ TransferInv
    /\ claimed \in Nat /\ elapsed \in Nat
    /\ PaidOut = claimed + ArrivedAmount
    /\ claimed + PendingAmount <= PeriodUnlock * ElapsedPeriods

LEMMA VestingConstants ==
    /\ PeriodCount \in Nat /\ PeriodUnlock \in Nat /\ MaxElapsed \in Nat
    /\ PeriodLength \in Nat /\ PeriodLength # 0
    /\ PeriodLength \in Nat \ {0}
BY VestingAssumption

LEMMA PeriodsAre ==
    ASSUME elapsed \in Nat
    PROVE  /\ ElapsedPeriods \in 0..PeriodCount
           /\ PeriodLength * ElapsedPeriods <= elapsed
<1> DEFINE p == elapsed \div PeriodLength
<1>1. p \in Nat /\ PeriodLength * p <= elapsed
  BY FloorIs, VestingConstants
<1>2. ElapsedPeriods = IF p > PeriodCount THEN PeriodCount ELSE p
  BY DEF ElapsedPeriods
<1> HIDE DEF p
<1>3. ElapsedPeriods \in Nat /\ ElapsedPeriods <= PeriodCount
      /\ ElapsedPeriods <= p
  BY <1>1, <1>2, VestingConstants
<1>4. PeriodLength * ElapsedPeriods <= PeriodLength * p
      /\ PeriodLength * ElapsedPeriods \in Nat /\ PeriodLength * p \in Nat
  BY <1>1, <1>3, VestingConstants, ProductGrows
<1> QED BY <1>1, <1>3, <1>4, VestingConstants

LEMMA PeriodsGrow ==
    ASSUME elapsed \in Nat, elapsed' = elapsed + 1
    PROVE  /\ ElapsedPeriods \in Nat /\ ElapsedPeriods' \in Nat
           /\ ElapsedPeriods <= ElapsedPeriods'
<1> DEFINE p == elapsed \div PeriodLength
           q == (elapsed + 1) \div PeriodLength
<1>1. p \in Nat /\ q \in Nat /\ p <= q
  <2>1. elapsed + 1 \in Nat /\ elapsed <= elapsed + 1
    OBVIOUS
  <2> QED BY <2>1, FloorIs, FloorGrows, VestingConstants
<1>2. /\ ElapsedPeriods = IF p > PeriodCount THEN PeriodCount ELSE p
      /\ ElapsedPeriods' = IF q > PeriodCount THEN PeriodCount ELSE q
  BY DEF ElapsedPeriods
<1> HIDE DEF p, q
<1> QED BY <1>1, <1>2, VestingConstants

(* What is unlocked, and what of it is claimable, are amounts.             *)
LEMMA ClaimableIs ==
    ASSUME elapsed \in Nat, claimed \in Nat,
           claimed <= PeriodUnlock * ElapsedPeriods
    PROVE  /\ Claimable \in Nat
           /\ claimed + Claimable = PeriodUnlock * ElapsedPeriods
<1> DEFINE u == ElapsedPeriods * PeriodUnlock
<1>1. ElapsedPeriods \in Nat
  BY PeriodsAre, VestingConstants
<1>2. u \in Nat /\ u = PeriodUnlock * ElapsedPeriods
  BY <1>1, VestingConstants
<1>3. Claimable = IF u <= claimed THEN 0 ELSE u - claimed
  BY DEF Claimable
<1> HIDE DEF u
<1> QED BY <1>2, <1>3

(* A step of the wallets leaves what the contract counts.                  *)
LEMMA WalletsVesting ==
    ASSUME VestingInv, WalletsMove, UNCHANGED vestingVars
    PROVE  VestingInv'
<1>1. UNCHANGED <<claimed, elapsed>> /\ ElapsedPeriods' = ElapsedPeriods
  BY DEF vestingVars, ElapsedPeriods
<1>2. ASSUME TransferInv', PendingAmount' = PendingAmount,
             PaidOut' = PaidOut, ArrivedAmount' = ArrivedAmount
      PROVE  VestingInv'
  BY <1>1, <1>2 DEF VestingInv
<1>3. ASSUME NEW m \in Mail("request"),
             TransferRequest(m) \/ RefuseTransferRequest(m)
      PROVE  VestingInv'
  BY <1>2, <1>3, RequestStage DEF VestingInv
<1>4. ASSUME NEW t \in moving, TakeBackPayout(t) PROVE VestingInv'
  BY <1>2, <1>4, TakeBackStage DEF VestingInv
<1>5. ASSUME NEW m \in Mail("ack"), LoseAck(m) PROVE VestingInv'
  BY <1>2, <1>5, LostAckStage DEF VestingInv
<1>6. ASSUME NEW t \in moving, Deliver(t) PROVE VestingInv'
  <2>1. /\ TransferInv' /\ payout.amount \in Nat /\ ArrivedAmount = 0
        /\ ArrivedAmount' = payout.amount
        /\ PendingAmount' = PendingAmount
        /\ PaidOut' = PaidOut + payout.amount
    BY <1>6, DeliverStage DEF VestingInv
  <2>2. PaidOut = claimed + 0 /\ claimed \in Nat
    BY <2>1 DEF VestingInv
  <2>3. (claimed + 0) + payout.amount = claimed + payout.amount
    BY <2>1, <2>2
  <2>4. PaidOut' = claimed' + ArrivedAmount'
    BY <1>1, <2>1, <2>2, <2>3, Zenon
  <2> QED BY <1>1, <2>1, <2>4 DEF VestingInv
<1> QED BY <1>3, <1>4, <1>5, <1>6 DEF WalletsMove

(* A claim asks for all that is unlocked and not claimed.                  *)
LEMMA ClaimVesting ==
    ASSUME VestingInv, ClaimAthVesting PROVE VestingInv'
<1> DEFINE p == [id |-> last_id + 1, amount |-> Claimable]
<1>1. /\ Ask(p) /\ UNCHANGED <<claimed, elapsed>>
      /\ ElapsedPeriods' = ElapsedPeriods
  BY DEF ClaimAthVesting, vestingVars, ElapsedPeriods
<1>2. /\ claimed \in Nat /\ elapsed \in Nat /\ last_id \in Nat
      /\ PendingAmount = 0 /\ PaidOut = claimed + ArrivedAmount
      /\ ElapsedPeriods \in Nat
      /\ claimed + PendingAmount <= PeriodUnlock * ElapsedPeriods
  BY <1>1, PeriodsAre, VestingConstants
     DEF VestingInv, TransferInv, PayoutTypeOK, Ask, PendingAmount
<1>3. claimed <= PeriodUnlock * ElapsedPeriods
  BY <1>2
<1>4. Claimable \in Nat /\ claimed + Claimable = PeriodUnlock * ElapsedPeriods
  BY <1>2, <1>3, ClaimableIs
<1>5. p \in Sales \cup Claims /\ p.id > last_id /\ p.amount = Claimable
  BY <1>2, <1>4 DEF Claims
<1> HIDE DEF p
<1>6. /\ TransferInv' /\ ArrivedAmount = 0 /\ ArrivedAmount' = 0
      /\ PendingAmount' = Claimable
  BY <1>1, <1>5, AskStage DEF VestingInv
<1>7. PaidOut' = PaidOut
  BY <1>1 DEF Ask, PaidOut, AmountOf
<1>8. claimed' + PendingAmount' <= PeriodUnlock * ElapsedPeriods'
  <2>1. PeriodUnlock * ElapsedPeriods \in Nat
    BY <1>2, VestingConstants
  <2>2. claimed + Claimable <= PeriodUnlock * ElapsedPeriods
    BY <1>4, <2>1
  <2> QED BY <1>1, <1>6, <2>2, Zenon
<1> QED BY <1>1, <1>2, <1>6, <1>7, <1>8 DEF VestingInv

LEMMA AnsweredVesting ==
    ASSUME VestingInv, NEW m \in mail,
           \/ m.type = "ack" /\ ClaimPaid(m)
           \/ m.type \in {"failed", "bounced"} /\ ClaimFailed(m)
    PROVE  VestingInv'
<1>1. /\ Answers(m) /\ Close(m) /\ elapsed' = elapsed
      /\ ElapsedPeriods' = ElapsedPeriods
      /\ m.type = "ack" => claimed' = claimed + payout.amount
      /\ m.type # "ack" => claimed' = claimed
  BY DEF ClaimPaid, ClaimFailed, vestingVars, ElapsedPeriods
<1>2. /\ TransferInv' /\ payout.amount \in Nat
      /\ PendingAmount = payout.amount /\ PendingAmount' = 0
      /\ ArrivedAmount' = 0
      /\ m.type = "ack" => ArrivedAmount = payout.amount
      /\ m.type # "ack" => ArrivedAmount = 0
  BY <1>1, CloseStage DEF VestingInv
<1>3. /\ claimed \in Nat /\ elapsed \in Nat
      /\ PaidOut = claimed + ArrivedAmount
      /\ claimed + payout.amount <= PeriodUnlock * ElapsedPeriods
      /\ PeriodUnlock * ElapsedPeriods \in Nat
  <2>1. ElapsedPeriods \in Nat
    BY PeriodsAre, VestingConstants DEF VestingInv
  <2> QED BY <1>2, <2>1, VestingConstants DEF VestingInv
<1>4. PaidOut' = PaidOut
  BY <1>1 DEF Close, PaidOut, AmountOf
<1>5. CASE m.type = "ack"
  <2>1. /\ claimed' = claimed + payout.amount /\ claimed' \in Nat
        /\ claimed' + 0 <= PeriodUnlock * ElapsedPeriods
        /\ PaidOut = claimed' + 0
    BY <1>1, <1>2, <1>3, <1>5
  <2> QED BY <1>1, <1>2, <1>3, <1>4, <2>1 DEF VestingInv
<1>6. CASE m.type # "ack"
  <2>1. /\ claimed' = claimed /\ claimed' \in Nat
        /\ claimed' + 0 <= PeriodUnlock * ElapsedPeriods
        /\ PaidOut = claimed' + 0
    BY <1>1, <1>2, <1>3, <1>6
  <2> QED BY <1>1, <1>2, <1>3, <1>4, <2>1 DEF VestingInv
<1> QED BY <1>5, <1>6

LEMMA AgesVesting ==
    ASSUME VestingInv, Ages PROVE VestingInv'
<1>1. /\ elapsed' = elapsed + 1 /\ claimed' = claimed
      /\ UNCHANGED <<payout, last_id, held, mail, moving, delivered>>
  BY DEF Ages, payoutVars
<1>2. /\ claimed \in Nat /\ elapsed \in Nat /\ held' \in Nat
      /\ PendingAmount \in Nat
      /\ claimed + PendingAmount <= PeriodUnlock * ElapsedPeriods
      /\ PaidOut = claimed + ArrivedAmount
  BY <1>1, PayoutIs DEF VestingInv, TransferInv, PayoutTypeOK
<1>3. /\ TransferInv' /\ ArrivedAmount' = ArrivedAmount
      /\ PendingAmount' = PendingAmount /\ PaidOut' = PaidOut
  BY <1>1, <1>2, RestStage DEF VestingInv
<1>4. claimed' + PendingAmount' <= PeriodUnlock * ElapsedPeriods'
  <2>1. /\ PeriodUnlock * ElapsedPeriods \in Nat
        /\ PeriodUnlock * ElapsedPeriods' \in Nat
        /\ PeriodUnlock * ElapsedPeriods <= PeriodUnlock * ElapsedPeriods'
    BY <1>1, <1>2, PeriodsGrow, ProductGrows, VestingConstants
  <2>2. \A x, y, z \in Nat : x <= y /\ y <= z => x <= z
    OBVIOUS
  <2>3. claimed + PendingAmount \in Nat
    BY <1>2
  <2>4. claimed + PendingAmount <= PeriodUnlock * ElapsedPeriods'
    BY <1>2, <2>1, <2>2, <2>3, Zenon
  <2> QED BY <1>1, <1>3, <2>4, Zenon
<1> QED BY <1>1, <1>2, <1>3, <1>4 DEF VestingInv

LEMMA VestingKept ==
    ASSUME VestingInv, VestingStep \/ (WalletsMove /\ UNCHANGED vestingVars)
    PROVE  VestingInv'
<1>1. ASSUME NEW m \in Mail("ack"), ClaimPaid(m) PROVE VestingInv'
  BY <1>1, AnsweredVesting DEF Mail
<1>2. ASSUME NEW m \in Mail("failed") \cup Mail("bounced"), ClaimFailed(m)
      PROVE  VestingInv'
  BY <1>2, AnsweredVesting DEF Mail
<1> QED BY <1>1, <1>2, WalletsVesting, ClaimVesting, AgesVesting
        DEF VestingStep

(* What the beneficiary has was claimed, and unlocked before.              *)
LEMMA VestingCounts ==
    ASSUME VestingInv
    PROVE  NotBeforeVested /\ PaidOut = claimed + ArrivedAmount
<1>1. /\ elapsed \in Nat /\ claimed \in Nat /\ PendingAmount \in Nat
      /\ claimed + PendingAmount <= PeriodUnlock * ElapsedPeriods
      /\ PaidOut = claimed + ArrivedAmount
  BY PayoutIs DEF VestingInv, TransferInv
<1>2. /\ ElapsedPeriods \in 0..PeriodCount
      /\ PeriodLength * ElapsedPeriods <= elapsed
  BY <1>1, PeriodsAre
<1>3. PeriodUnlock * ElapsedPeriods \in Nat
  BY <1>2, VestingConstants
<1>4. ArrivedAmount \in Nat /\ ArrivedAmount <= PendingAmount
  BY <1>1 DEF ArrivedAmount
<1>5. PaidOut <= PeriodUnlock * ElapsedPeriods
  BY <1>1, <1>3, <1>4
<1> QED BY <1>1, <1>2, <1>5 DEF NotBeforeVested

-----------------------------------------------------------------------------
(* MarketStabilitySeller                                                   *)

DueOf(S) == SumFunction([a \in S |-> a])
PaidFor == IF Idle THEN 0 ELSE payout.paid
Proceeds == treasury_due + flushed_total
Units(n) ==
    SumFunction([u \in 0..n - 1 |-> StartMultiplier + u \div TrancheAth])

SellerTypeOK ==
    /\ reserve_due_ath \in Nat /\ treasury_due \in Nat
    /\ completed_tranche_count \in Nat /\ current_tranche_sold \in Nat
    /\ funded_total \in Nat /\ sold_total \in Nat /\ flushed_total \in Nat
    /\ paid_ton \in Nat
    /\ payout \in {NoPayout} \cup Sales
    /\ fundings = {} \/ \E a \in Nat : fundings = {a}

(* Where the ATH is.                                                       *)
StockInv ==
    /\ PaidOut = sold_total + ArrivedAmount
    /\ held + AmountOf(moving) =
           reserve_due_ath + DueOf(fundings) + MissingAmount
    /\ funded_total = reserve_due_ath + sold_total + PendingAmount

(* The tranche that is sold from, and the sale out of it.                  *)
TrancheInv ==
    /\ sold_total = TrancheAth * completed_tranche_count
                        + current_tranche_sold
    /\ current_tranche_sold < TrancheAth
SaleRight ==
    ~Idle => /\ payout.amount >= 1
             /\ payout.amount + current_tranche_sold <= TrancheAth
             /\ payout.paid = Quote(payout.amount)

SellerInv ==
    /\ TransferInv /\ SellerTypeOK /\ StockInv /\ TrancheInv /\ SaleRight
    /\ paid_ton >= treasury_due + PaidFor
    /\ PricedByTranche

LEMMA SellerConstants ==
    /\ TrancheAth \in Nat /\ TrancheAth # 0 /\ TrancheAth \in Nat \ {0}
    /\ TrancheAth - 1 \in Nat
    /\ TrancheCount \in Nat /\ StartMultiplier \in Nat
    /\ BaseTranchePrice \in Nat /\ ExcessRefundMin \in Nat
    /\ TonFlushMin \in Nat
BY SellerAssumption

LEMMA DuesAre ==
    /\ DueOf({}) = 0
    /\ \A a \in Nat : DueOf({a}) = a
<1>1. DueOf({}) = 0
  <2>1. DOMAIN [a \in {} |-> a] = {}
    OBVIOUS
  <2> QED BY <2>1, SumOfNothing DEF DueOf, SumFunction
<1>2. ASSUME NEW a \in Nat PROVE DueOf({a}) = a
  <2> DEFINE f == [x \in {a} |-> x]
  <2>1. f[a] = a /\ DOMAIN f = {a} /\ a \notin {} /\ {} \cup {a} = {a}
        /\ \A x \in {} \cup {a} : f[x] \in Int
    OBVIOUS
  <2> HIDE DEF f
  <2>2. SumFunctionOnSet(f, {} \cup {a}) = f[a] + SumFunctionOnSet(f, {})
    BY <2>1, SumWith, FS_EmptySet
  <2>3. SumFunctionOnSet(f, {a}) = a + 0
    BY <2>1, <2>2, SumOfNothing, Zenon
  <2>4. SumFunction(f) = SumFunctionOnSet(f, {a})
    BY <2>1 DEF SumFunction
  <2>5. SumFunction(f) = a
    BY <2>3, <2>4
  <2> QED BY <2>5 DEF DueOf, f
<1> QED BY <1>1, <1>2

LEMMA SellerNumbers ==
    ASSUME SellerInv
    PROVE  /\ held \in Nat /\ AmountOf(moving) \in Nat /\ PaidOut \in Nat
           /\ last_id \in Nat /\ DueOf(fundings) \in Nat
           /\ PendingAmount \in Nat /\ ArrivedAmount \in Nat
           /\ MissingAmount \in Nat /\ PaidFor \in Nat
           /\ ~Idle => payout.paid \in Nat /\ payout.amount \in Nat
<1>1. held \in Nat /\ last_id \in Nat
  BY DEF SellerInv, TransferInv, PayoutTypeOK
<1>2. AmountOf(moving) \in Nat /\ PaidOut \in Nat
  BY AmountsAre DEF SellerInv, TransferInv
<1>3. DueOf(fundings) \in Nat
  <2>1. CASE fundings = {}
    <3>1. DueOf(fundings) = 0
      BY <2>1, DuesAre, Zenon
    <3> QED BY <3>1
  <2>2. ASSUME NEW a \in Nat, fundings = {a} PROVE DueOf(fundings) \in Nat
    BY <2>2, DuesAre, Zenon
  <2>3. fundings = {} \/ \E a \in Nat : fundings = {a}
    BY DEF SellerInv, SellerTypeOK
  <2> QED BY <2>1, <2>2, <2>3, Zenon
<1>4. ~Idle => payout.paid \in Nat /\ payout.amount \in Nat
  BY DEF SellerInv, SellerTypeOK, Idle, Sales
<1> QED BY <1>1, <1>2, <1>3, <1>4
        DEF PendingAmount, ArrivedAmount, MissingAmount, PaidFor

(* The price bounds are about what has been sold, what it brought in, and  *)
(* how many sales there can have been.                                     *)
Bounds(n, proceeds, sales) ==
    /\ BaseTranchePrice * Units(n) <= TrancheAth * proceeds
    /\ TrancheAth * proceeds
           <= BaseTranchePrice * Units(n) + (TrancheAth - 1) * sales

LEMMA PricesAre ==
    PricedByTranche <=> Bounds(sold_total, Proceeds, last_id)
BY DEF PricedByTranche, FloorPrice, Bounds, Units, Proceeds

LEMMA UnitsTyped == ASSUME NEW n \in Nat PROVE Units(n) \in Nat
<1> DEFINE f == [u \in 0..n - 1 |-> StartMultiplier + u \div TrancheAth]
<1>1. DOMAIN f = 0..n - 1
      /\ \A u \in 0..n - 1 : f[u] = StartMultiplier + u \div TrancheAth
  OBVIOUS
<1>2. \A u \in 0..n - 1 : f[u] \in Nat
  <2>1. ASSUME NEW u \in 0..n - 1 PROVE f[u] \in Nat
    <3>1. u \in Nat /\ u \div TrancheAth \in Nat
      BY SellerConstants, FloorIs
    <3> QED BY <1>1, <3>1, SellerConstants
  <2> QED BY <2>1
<1> HIDE DEF f
<1>3. SumFunctionOnSet(f, 0..n - 1) \in Nat
  BY <1>2, SumIntervals
<1>4. SumFunction(f) \in Nat
  BY <1>1, <1>3 DEF SumFunction
<1> QED BY <1>4 DEF Units, f

LEMMA UnitsNext ==
    ASSUME NEW n \in Nat
    PROVE  Units(n + 1) = Units(n) + (StartMultiplier + n \div TrancheAth)
<1> DEFINE f == [u \in 0..n - 1 |-> StartMultiplier + u \div TrancheAth]
           e == [u \in 0..n |-> StartMultiplier + u \div TrancheAth]
<1>1. /\ DOMAIN f = 0..n - 1 /\ DOMAIN e = 0..n
      /\ \A u \in 0..n - 1 : e[u] = f[u]
      /\ e[n] = StartMultiplier + n \div TrancheAth
      /\ \A u \in 0..n : e[u] = StartMultiplier + u \div TrancheAth
  OBVIOUS
<1>2. \A u \in 0..n : e[u] \in Nat
  <2>1. ASSUME NEW u \in 0..n PROVE e[u] \in Nat
    <3>1. u \in Nat /\ u \div TrancheAth \in Nat
      BY SellerConstants, FloorIs
    <3> QED BY <1>1, <3>1, SellerConstants
  <2> QED BY <2>1
<1> HIDE DEF e, f
<1>3. n - 1 + 1 = n /\ n + 1 - 1 = n /\ n - 1 \in Int /\ 0 <= n - 1 + 1
  OBVIOUS
<1>4. SumFunctionOnSet(e, 0..n - 1 + 1) =
         SumFunctionOnSet(f, 0..n - 1) + e[n - 1 + 1]
  <2>1. \A u \in 0..n - 1 + 1 : e[u] \in Nat
    BY <1>2, <1>3
  <2> QED BY <1>1, <1>3, <2>1, SumOfLonger
<1>5. SumFunction(e) = SumFunction(f) + e[n]
  BY <1>1, <1>3, <1>4 DEF SumFunction
<1>6. Units(n) = SumFunction(f)
  BY DEF Units, f
<1>7. Units(n + 1) = SumFunction(e)
  <2>1. 0..(n + 1) - 1 = 0..n
    OBVIOUS
  <2>2. [u \in 0..(n + 1) - 1 |-> StartMultiplier + u \div TrancheAth] = e
    BY <2>1, Zenon DEF e
  <2> QED BY <2>2, Zenon DEF Units
<1> QED BY <1>1, <1>5, <1>6, <1>7

(* ATH sold from one tranche is of the price of that tranche.              *)
LEMMA UnitsOfSale ==
    ASSUME NEW c \in Nat, NEW s \in Nat, NEW a \in Nat, s + a <= TrancheAth
    PROVE  Units(TrancheAth * c + s + a)
               = Units(TrancheAth * c + s) + (StartMultiplier + c) * a
<1> DEFINE n == TrancheAth * c + s
           Right(x) == Units(n + x) = Units(n) + (StartMultiplier + c) * x
           N == {x \in Nat : s + x <= TrancheAth => Right(x)}
<1>1. n \in Nat
  BY SellerConstants
<1>2. 0 \in N
  <2>1. n + 0 = n /\ (StartMultiplier + c) * 0 = 0
    BY <1>1, SellerConstants
  <2>2. Units(n) \in Nat
    BY <1>1, UnitsTyped
  <2>3. Units(n) + 0 = Units(n)
    BY <2>2
  <2> QED BY <2>1, <2>3
<1>3. ASSUME NEW x \in N PROVE x + 1 \in N
  <2> SUFFICES ASSUME s + (x + 1) <= TrancheAth PROVE Right(x + 1)
    OBVIOUS
  <2>1. x \in Nat /\ s + x < TrancheAth /\ n + x \in Nat /\ s + x \in Nat
    BY <1>1, SellerConstants
  <2>2. Right(x)
    BY <2>1, SellerConstants
  <2>3. (n + x) \div TrancheAth = c
    <3>1. n + x = TrancheAth * c + (s + x)
      BY <2>1, SellerConstants
    <3>2. /\ s + x \in Nat /\ s + x < TrancheAth
          /\ TrancheAth \in Nat \ {0}
      BY <2>1, SellerConstants
    <3>3. (TrancheAth * c + (s + x)) \div TrancheAth = c
      BY <3>2, FloorOfParts
    <3> QED BY <3>1, <3>3
  <2>4. Units((n + x) + 1) = Units(n + x) + (StartMultiplier + c)
    BY <2>1, <2>3, UnitsNext
  <2>5. (n + x) + 1 = n + (x + 1)
    BY <1>1, <2>1
  <2>6. (StartMultiplier + c) * (x + 1)
           = (StartMultiplier + c) * x + (StartMultiplier + c)
    BY <2>1, SellerConstants
  <2>7. Units(n) \in Nat /\ (StartMultiplier + c) * x \in Nat
    BY <1>1, <2>1, SellerConstants, UnitsTyped
  <2> HIDE DEF n
  <2> QED BY <2>2, <2>4, <2>5, <2>6, <2>7, SellerConstants
<1>4. N = Nat
  <2> HIDE DEF Right
  <2> QED BY <1>2, <1>3, CountUp
<1>5. Right(a)
  BY <1>4
<1>6. TrancheAth * c + s + a = n + a
  BY SellerConstants
<1> QED BY <1>5, <1>6

(* A sale adds the price of its tranche, rounded up.                       *)
LEMMA PriceOfSale ==
    ASSUME NEW c \in Nat, NEW s \in Nat, NEW a \in Nat, s + a <= TrancheAth,
           NEW proceeds \in Nat, NEW l \in Nat, NEW k \in Nat, l < k,
           Bounds(TrancheAth * c + s, proceeds, l),
           NEW paid,
           paid = (BaseTranchePrice * (StartMultiplier + c) * a
                      + TrancheAth - 1) \div TrancheAth
    PROVE  /\ paid \in Nat
           /\ Bounds(TrancheAth * c + s + a, proceeds + paid, k)
<1> DEFINE x == BaseTranchePrice * (StartMultiplier + c) * a
           n == TrancheAth * c + s
           u == Units(n)
           v == Units(n + a)
           Bu == BaseTranchePrice * u
           Bv == BaseTranchePrice * v
           Td == TrancheAth * proceeds
           Te == TrancheAth * (proceeds + paid)
           Tp == TrancheAth * paid
           Rl == (TrancheAth - 1) * l
           Rk == (TrancheAth - 1) * k
<1>1. n \in Nat /\ n + a \in Nat /\ x \in Nat
  BY SellerConstants
<1>2. u \in Nat /\ v \in Nat
  BY <1>1, UnitsTyped
<1>3. v = u + (StartMultiplier + c) * a
  BY UnitsOfSale
<1>4. Bv = Bu + x /\ Bu \in Nat /\ Bv \in Nat
  <2>1. (StartMultiplier + c) * a \in Nat
    BY SellerConstants
  <2>2. \A b, y, z \in Nat : b * (y + z) = b * y + b * z /\ b * y \in Nat
    OBVIOUS
  <2>3. \A b, y, z \in Nat : b * y * z = b * (y * z)
    OBVIOUS
  <2>4. x = BaseTranchePrice * ((StartMultiplier + c) * a)
    BY <2>3, SellerConstants
  <2> HIDE DEF u, v, x, n
  <2>5. BaseTranchePrice * (u + (StartMultiplier + c) * a) = Bu + x
    BY <1>2, <2>1, <2>2, <2>4, SellerConstants
  <2> QED BY <1>1, <1>2, <1>3, <2>2, <2>5, SellerConstants
<1>5. /\ paid \in Nat /\ x <= Tp /\ Tp <= x + (TrancheAth - 1) /\ Tp \in Nat
  <2>1. x + TrancheAth - 1 \in Nat
    BY <1>1, SellerConstants
  <2> HIDE DEF x
  <2>2. /\ paid \in Nat /\ Tp <= x + TrancheAth - 1
        /\ x + TrancheAth - 1 < Tp + TrancheAth
    <3>1. paid = (x + TrancheAth - 1) \div TrancheAth
      BY DEF x
    <3> QED BY <2>1, <3>1, SellerConstants, FloorIs
  <2>3. Tp \in Nat
    BY <2>2, SellerConstants
  <2> HIDE DEF Tp
  <2> QED BY <1>1, <2>2, <2>3, SellerConstants
<1>6. Te = Td + Tp /\ Td \in Nat /\ Te \in Nat
  BY <1>5, SellerConstants
<1>7. Rl + (TrancheAth - 1) <= Rk /\ Rl \in Nat /\ Rk \in Nat
  <2>1. l + 1 \in Nat /\ l + 1 <= k
    OBVIOUS
  <2>2. (TrancheAth - 1) * (l + 1) <= Rk /\ Rk \in Nat
    BY <2>1, SellerConstants, ProductGrows
  <2>3. (TrancheAth - 1) * (l + 1) = Rl + (TrancheAth - 1) /\ Rl \in Nat
    BY SellerConstants
  <2> QED BY <2>2, <2>3
<1>8. Bu <= Td /\ Td <= Bu + Rl
  BY DEF Bounds
<1> HIDE DEF x, Bu, Bv, Td, Te, Tp, Rl, Rk
<1>9. Bv <= Te /\ Te <= Bv + Rk
  BY <1>1, <1>4, <1>5, <1>6, <1>7, <1>8, SellerConstants
<1> QED BY <1>5, <1>9 DEF Bounds, Bv, Te, Rk, n, v

LEMMA BoundsLast ==
    ASSUME NEW n \in Nat, NEW proceeds \in Nat, NEW l \in Nat, NEW k \in Nat,
           l <= k, Bounds(n, proceeds, l)
    PROVE  Bounds(n, proceeds, k)
<1> DEFINE Bu == BaseTranchePrice * Units(n)
           Td == TrancheAth * proceeds
           Rl == (TrancheAth - 1) * l
           Rk == (TrancheAth - 1) * k
<1>1. Rl <= Rk /\ Rl \in Nat /\ Rk \in Nat
  BY SellerConstants, ProductGrows
<1>2. Bu \in Nat /\ Td \in Nat
  BY UnitsTyped, SellerConstants
<1>3. Bu <= Td /\ Td <= Bu + Rl
  BY DEF Bounds
<1> HIDE DEF Bu, Td, Rl, Rk
<1>4. Bu <= Td /\ Td <= Bu + Rk
  BY <1>1, <1>2, <1>3
<1> QED BY <1>4 DEF Bounds, Bu, Td, Rk

(* A step that leaves the sale alone, and what was sold and brought in.    *)
LEMMA SaleStays ==
    ASSUME SellerInv, UNCHANGED <<payout, last_id, trancheVars>>,
           Proceeds' = Proceeds
    PROVE  /\ TrancheInv' /\ SaleRight' /\ PaidFor' = PaidFor
           /\ PricedByTranche'
<1>1. UNCHANGED <<payout, last_id, completed_tranche_count,
                  current_tranche_sold, sold_total>>
  BY DEF trancheVars
<1>2. TrancheInv'
  BY <1>1 DEF SellerInv, TrancheInv
<1>3. (Idle' <=> Idle) /\ Quote(payout.amount)' = Quote(payout.amount)
  BY <1>1, Zenon DEF Idle, Quote
<1>4. SaleRight'
  BY <1>1, <1>3 DEF SellerInv, SaleRight
<1>5. PaidFor' = PaidFor
  BY <1>1, <1>3 DEF PaidFor
<1>6. Bounds(sold_total, Proceeds, last_id)
  BY PricesAre DEF SellerInv
<1>7. Bounds(sold_total', Proceeds', last_id')
  BY <1>1, <1>6, Zenon
<1>8. PricedByTranche'
  BY <1>7 DEF PricedByTranche, FloorPrice, Bounds, Units, Proceeds
<1> QED BY <1>2, <1>4, <1>5, <1>8

(* A step of the wallets.                                                  *)
LEMMA WalletsSeller ==
    ASSUME SellerInv, WalletsMove, UNCHANGED saleVars
    PROVE  SellerInv'
<1>1. /\ UNCHANGED <<reserve_due_ath, treasury_due, trancheVars, funded_total,
                     flushed_total, fundings, paid_ton>>
      /\ UNCHANGED <<payout, last_id>>
  BY DEF saleVars, WalletsMove, TransferRequest, RefuseTransferRequest,
         Deliver, TakeBackPayout, LoseAck
<1>2. UNCHANGED <<reserve_due_ath, treasury_due, completed_tranche_count,
                  current_tranche_sold, sold_total, funded_total,
                  flushed_total, fundings, paid_ton, payout>>
  BY <1>1 DEF trancheVars
<1>3. SellerTypeOK'
  BY <1>2 DEF SellerInv, SellerTypeOK
<1>4. /\ TrancheInv' /\ SaleRight' /\ PaidFor' = PaidFor
      /\ PricedByTranche'
  <2>1. Proceeds' = Proceeds
    BY <1>1 DEF Proceeds
  <2> QED BY <1>1, <2>1, SaleStays
<1>5. paid_ton' >= treasury_due' + PaidFor'
  BY <1>2, <1>4 DEF SellerInv
<1>6. DueOf(fundings)' = DueOf(fundings)
  BY <1>1 DEF DueOf
<1>7. /\ PaidOut = sold_total + ArrivedAmount
      /\ held + AmountOf(moving) =
             reserve_due_ath + DueOf(fundings) + MissingAmount
      /\ funded_total = reserve_due_ath + sold_total + PendingAmount
      /\ sold_total \in Nat /\ reserve_due_ath \in Nat
      /\ held \in Nat /\ DueOf(fundings) \in Nat
  BY SellerNumbers DEF SellerInv, SellerTypeOK, StockInv
<1>8. ASSUME TransferInv', StockInv' PROVE SellerInv'
  BY <1>3, <1>4, <1>5, <1>8 DEF SellerInv
<1>9. ASSUME TransferInv', PaidOut' = PaidOut, ArrivedAmount' = ArrivedAmount,
             MissingAmount' = MissingAmount, PendingAmount' = PendingAmount,
             held' + AmountOf(moving)' = held + AmountOf(moving)
      PROVE  SellerInv'
  <2>1. StockInv'
    BY <1>2, <1>6, <1>7, <1>9 DEF StockInv
  <2> QED BY <1>8, <1>9, <2>1
<1>10. ASSUME NEW m \in Mail("request"),
              TransferRequest(m) \/ RefuseTransferRequest(m)
       PROVE  SellerInv'
  BY <1>9, <1>10, RequestStage DEF SellerInv
<1>11. ASSUME NEW t \in moving, TakeBackPayout(t) PROVE SellerInv'
  BY <1>9, <1>11, TakeBackStage DEF SellerInv
<1>12. ASSUME NEW m \in Mail("ack"), LoseAck(m) PROVE SellerInv'
  <2>1. /\ TransferInv' /\ PaidOut' = PaidOut /\ ArrivedAmount' = ArrivedAmount
        /\ MissingAmount' = MissingAmount /\ PendingAmount' = PendingAmount
        /\ held' = held /\ AmountOf(moving)' = AmountOf(moving)
    BY <1>12, LostAckStage DEF SellerInv
  <2> QED BY <1>9, <2>1
<1>13. ASSUME NEW t \in moving, Deliver(t) PROVE SellerInv'
  <2>1. /\ TransferInv' /\ payout.amount \in Nat
        /\ ArrivedAmount = 0 /\ ArrivedAmount' = payout.amount
        /\ MissingAmount = payout.amount /\ MissingAmount' = 0
        /\ PendingAmount' = PendingAmount
        /\ PaidOut' = PaidOut + payout.amount
        /\ held' = held /\ AmountOf(moving) = payout.amount
        /\ AmountOf(moving)' = 0
    BY <1>13, DeliverStage DEF SellerInv
  <2>2. /\ (sold_total + 0) + payout.amount = sold_total + payout.amount
        /\ held + 0 = reserve_due_ath + DueOf(fundings) + 0
    BY <1>7, <2>1
  <2>3. PaidOut' = sold_total' + ArrivedAmount'
    BY <1>2, <1>7, <2>1, <2>2, Zenon
  <2>4. held' + AmountOf(moving)' =
           reserve_due_ath' + DueOf(fundings)' + MissingAmount'
    BY <1>2, <1>6, <2>1, <2>2, Zenon
  <2>5. StockInv'
    BY <1>2, <1>7, <2>1, <2>3, <2>4 DEF StockInv
  <2> QED BY <1>8, <2>1, <2>5
<1> QED BY <1>1, <1>10, <1>11, <1>12, <1>13 DEF WalletsMove

(* The funder's ATH comes, and is accepted or sent back; the treasury's    *)
(* TON is flushed.                                                         *)
LEMMA RestSeller ==
    ASSUME SellerInv, SellerTypeOK', held' \in Nat,
           UNCHANGED <<payout, last_id, mail, moving, delivered, trancheVars>>,
           Proceeds' = Proceeds,
           held' + reserve_due_ath + DueOf(fundings)
               = held + reserve_due_ath' + DueOf(fundings)',
           funded_total' + reserve_due_ath = funded_total + reserve_due_ath',
           paid_ton' + treasury_due = paid_ton + treasury_due',
           DueOf(fundings)' \in Nat
    PROVE  SellerInv'
<1>1. /\ TransferInv'
      /\ ArrivedAmount' = ArrivedAmount /\ MissingAmount' = MissingAmount
      /\ PendingAmount' = PendingAmount /\ PaidOut' = PaidOut
      /\ AmountOf(moving)' = AmountOf(moving)
  BY RestStage DEF SellerInv
<1>2. /\ TrancheInv' /\ SaleRight' /\ PaidFor' = PaidFor
      /\ PricedByTranche'
  BY SaleStays
<1> DEFINE m == AmountOf(moving)
           d == DueOf(fundings)
           e == DueOf(fundings)'
           x == MissingAmount
           y == PendingAmount
           z == PaidFor
<1>3. /\ m \in Nat /\ d \in Nat /\ e \in Nat /\ x \in Nat
      /\ y \in Nat /\ z \in Nat
      /\ held \in Nat /\ held' \in Nat
      /\ held + m = reserve_due_ath + d + x
      /\ held' + reserve_due_ath + d = held + reserve_due_ath' + e
      /\ reserve_due_ath \in Nat /\ reserve_due_ath' \in Nat
      /\ funded_total \in Nat /\ funded_total' \in Nat
      /\ treasury_due \in Nat /\ treasury_due' \in Nat
      /\ paid_ton \in Nat /\ paid_ton' \in Nat
      /\ sold_total \in Nat /\ sold_total' = sold_total
      /\ funded_total = reserve_due_ath + sold_total + y
      /\ paid_ton >= treasury_due + z
      /\ PaidOut = sold_total + ArrivedAmount
      /\ funded_total' + reserve_due_ath = funded_total + reserve_due_ath'
      /\ paid_ton' + treasury_due = paid_ton + treasury_due'
  BY SellerNumbers DEF SellerInv, SellerTypeOK, StockInv, trancheVars
<1>4. /\ AmountOf(moving)' = m /\ DueOf(fundings)' = e /\ MissingAmount' = x
      /\ PendingAmount' = y /\ PaidFor' = z
  BY <1>1, <1>2
<1> HIDE DEF m, d, e, x, y, z
<1>5. held' + m = reserve_due_ath' + e + x
  BY <1>3
<1>6. funded_total' = reserve_due_ath' + sold_total + y
  <2> DEFINE f == funded_total
             g == funded_total'
             r == reserve_due_ath
             q == reserve_due_ath'
             s == sold_total
  <2>1. /\ f \in Nat /\ g \in Nat /\ r \in Nat /\ q \in Nat
        /\ s \in Nat /\ y \in Nat
        /\ g + r = f + q /\ f = r + s + y
    BY <1>3
  <2> HIDE DEF f, g, r, q, s
  <2>2. g = q + s + y
    BY <2>1
  <2> QED BY <2>2 DEF f, g, r, q, s
<1>7. paid_ton' >= treasury_due' + z
  <2>1. \A f, g, r, q, b \in Nat :
           g + r = f + q /\ f >= r + b => g >= q + b
    OBVIOUS
  <2> QED BY <1>3, <2>1, Zenon
<1>8. StockInv'
  BY <1>1, <1>3, <1>4, <1>5, <1>6 DEF StockInv
<1> QED BY <1>1, <1>2, <1>4, <1>7, <1>8 DEF SellerInv

LEMMA FundSeller ==
    ASSUME SellerInv, NEW a \in Nat, FundReserve(a)
    PROVE  SellerInv'
<1>1. /\ UNCHANGED <<payout, last_id, mail, moving, delivered, trancheVars>>
      /\ held' = held + a /\ fundings = {} /\ fundings' = {a}
      /\ UNCHANGED <<reserve_due_ath, treasury_due, funded_total,
                     flushed_total, paid_ton>>
  BY DEF FundReserve
<1>2. DueOf(fundings) = 0 /\ DueOf(fundings)' = a
  <2>1. DueOf(fundings)' = DueOf(fundings')
    BY DEF DueOf
  <2> QED BY <1>1, <2>1, DuesAre, Zenon
<1>3. SellerTypeOK'
  BY <1>1 DEF SellerInv, SellerTypeOK, trancheVars
<1>4. /\ held' \in Nat /\ DueOf(fundings)' \in Nat
      /\ held' + reserve_due_ath + DueOf(fundings)
             = held + reserve_due_ath' + DueOf(fundings)'
      /\ funded_total' + reserve_due_ath = funded_total + reserve_due_ath'
      /\ paid_ton' + treasury_due = paid_ton + treasury_due'
  BY <1>1, <1>2, SellerNumbers DEF SellerInv, SellerTypeOK
<1>5. Proceeds' = Proceeds
  BY <1>1 DEF Proceeds
<1> QED BY <1>1, <1>3, <1>4, <1>5, RestSeller

LEMMA FundedSeller ==
    ASSUME SellerInv, NEW a \in fundings, AcceptFunding(a) \/ RefuseFunding(a)
    PROVE  SellerInv'
<1>1. /\ UNCHANGED <<payout, last_id, mail, moving, delivered, trancheVars>>
      /\ UNCHANGED <<treasury_due, flushed_total, paid_ton>>
      /\ fundings' = {}
      /\ \/ /\ reserve_due_ath' = reserve_due_ath + a
            /\ funded_total' = funded_total + a
            /\ held' = held
         \/ /\ held >= a /\ held' = held - a
            /\ UNCHANGED <<reserve_due_ath, funded_total>>
  BY DEF AcceptFunding, RefuseFunding, payoutVars
<1>2. a \in Nat /\ fundings = {a}
  <2>1. fundings = {} \/ \E b \in Nat : fundings = {b}
    BY DEF SellerInv, SellerTypeOK
  <2> QED BY <2>1
<1>3. DueOf(fundings) = a /\ DueOf(fundings)' = 0
  <2>1. DueOf(fundings)' = DueOf(fundings')
    BY DEF DueOf
  <2> QED BY <1>1, <1>2, <2>1, DuesAre, Zenon
<1>4. SellerTypeOK'
  BY <1>1, <1>2 DEF SellerInv, SellerTypeOK, trancheVars
<1>5. /\ held' \in Nat /\ DueOf(fundings)' \in Nat
      /\ held' + reserve_due_ath + DueOf(fundings)
             = held + reserve_due_ath' + DueOf(fundings)'
      /\ funded_total' + reserve_due_ath = funded_total + reserve_due_ath'
      /\ paid_ton' + treasury_due = paid_ton + treasury_due'
  BY <1>1, <1>2, <1>3, SellerNumbers DEF SellerInv, SellerTypeOK
<1>6. Proceeds' = Proceeds
  BY <1>1 DEF Proceeds
<1> QED BY <1>1, <1>4, <1>5, <1>6, RestSeller

LEMMA FlushSeller ==
    ASSUME SellerInv, NEW a \in Nat, FlushTreasuryTon(a)
    PROVE  SellerInv'
<1>1. /\ UNCHANGED <<payout, last_id, mail, moving, delivered, trancheVars>>
      /\ UNCHANGED <<held, reserve_due_ath, funded_total, fundings>>
      /\ a <= treasury_due
      /\ treasury_due' = treasury_due - a
      /\ flushed_total' = flushed_total + a
      /\ paid_ton' = paid_ton - a
  BY DEF FlushTreasuryTon, payoutVars
<1>2. /\ treasury_due \in Nat /\ flushed_total \in Nat /\ paid_ton \in Nat
      /\ paid_ton >= treasury_due + PaidFor /\ PaidFor \in Nat
  BY SellerNumbers DEF SellerInv, SellerTypeOK
<1>3. SellerTypeOK'
  <2>1. treasury_due' \in Nat /\ flushed_total' \in Nat /\ paid_ton' \in Nat
    BY <1>1, <1>2
  <2> QED BY <1>1, <2>1 DEF SellerInv, SellerTypeOK, trancheVars
<1>4. DueOf(fundings)' = DueOf(fundings)
  BY <1>1 DEF DueOf
<1>5. /\ held' \in Nat /\ DueOf(fundings)' \in Nat
      /\ held' + reserve_due_ath + DueOf(fundings)
             = held + reserve_due_ath' + DueOf(fundings)'
      /\ funded_total' + reserve_due_ath = funded_total + reserve_due_ath'
      /\ paid_ton' + treasury_due = paid_ton + treasury_due'
  BY <1>1, <1>2, <1>4, SellerNumbers DEF SellerInv, SellerTypeOK
<1>6. Proceeds' = Proceeds
  BY <1>1, <1>2 DEF Proceeds
<1> QED BY <1>1, <1>3, <1>5, <1>6, RestSeller

(* A sale begins.                                                          *)
LEMMA BuySeller ==
    ASSUME SellerInv, NEW a \in Nat \ {0}, NEW id \in Nat \ {0},
           BuyMarketStabilityAth(a, id)
    PROVE  SellerInv'
<1> DEFINE q == Quote(a)
           p == [id |-> id, amount |-> a, paid |-> q]
<1>1. /\ id > last_id /\ a <= Remaining /\ a <= reserve_due_ath
      /\ Ask(p) /\ Idle /\ payout' = p
      /\ reserve_due_ath' = reserve_due_ath - a
      /\ paid_ton' = paid_ton + q
      /\ UNCHANGED <<treasury_due, trancheVars, funded_total, flushed_total,
                     fundings>>
      /\ UNCHANGED <<last_id, held, moving, delivered>>
  BY DEF BuyMarketStabilityAth, Ask
<1>2. UNCHANGED <<completed_tranche_count, current_tranche_sold, sold_total>>
  BY <1>1 DEF trancheVars
<1>3. /\ completed_tranche_count \in Nat /\ current_tranche_sold \in Nat
      /\ current_tranche_sold < TrancheAth
      /\ sold_total = TrancheAth * completed_tranche_count
                          + current_tranche_sold
      /\ reserve_due_ath \in Nat /\ paid_ton \in Nat /\ treasury_due \in Nat
      /\ flushed_total \in Nat /\ sold_total \in Nat /\ last_id \in Nat
      /\ Bounds(sold_total, Proceeds, last_id)
  BY PricesAre, SellerNumbers DEF SellerInv, SellerTypeOK, TrancheInv
<1>4. a + current_tranche_sold <= TrancheAth
  BY <1>1, <1>3, SellerConstants DEF Remaining
<1>5. q \in Nat
  <2>1. /\ current_tranche_sold + a <= TrancheAth /\ Proceeds \in Nat
        /\ last_id + 1 \in Nat /\ last_id < last_id + 1
    BY <1>3, <1>4, SellerConstants DEF Proceeds
  <2>2. q = (BaseTranchePrice * (StartMultiplier + completed_tranche_count)
                * a + TrancheAth - 1) \div TrancheAth
    BY DEF Quote
  <2>3. Bounds(TrancheAth * completed_tranche_count + current_tranche_sold,
               Proceeds, last_id)
    BY <1>3
  <2> HIDE DEF q
  <2>4. /\ q \in Nat
        /\ Bounds(TrancheAth * completed_tranche_count
                      + current_tranche_sold + a, Proceeds + q, last_id + 1)
    BY <1>3, <2>1, <2>2, <2>3, PriceOfSale
  <2> QED BY <2>4
<1>6. Quote(payout.amount)' = q /\ payout'.amount = a /\ payout'.paid = q
      /\ payout'.id = id
  <2>1. payout'.amount = a /\ payout'.paid = q /\ payout'.id = id
    BY <1>1
  <2>2. Quote(payout.amount)' = Quote(a)
    BY <1>2, <2>1, Zenon DEF Quote
  <2> QED BY <2>1, <2>2
<1> HIDE DEF q
<1>7. p \in Sales /\ p.id > last_id /\ p.amount = a
  BY <1>1, <1>5 DEF Sales
<1> HIDE DEF p
<1>8. /\ TransferInv' /\ ArrivedAmount = 0 /\ ArrivedAmount' = 0
      /\ MissingAmount = 0 /\ MissingAmount' = a
      /\ PendingAmount = 0 /\ PendingAmount' = a
  BY <1>1, <1>7, AskStage DEF SellerInv
<1>9. ~Idle'
  BY <1>6 DEF Idle, NoPayout
<1>10. /\ PaidOut' = PaidOut /\ AmountOf(moving)' = AmountOf(moving)
       /\ DueOf(fundings)' = DueOf(fundings)
  BY <1>1 DEF PaidOut, AmountOf, DueOf
<1>11. SellerTypeOK'
  <2>1. reserve_due_ath' \in Nat /\ paid_ton' \in Nat
    BY <1>1, <1>3, <1>5
  <2> QED BY <1>1, <1>2, <1>7, <2>1 DEF SellerInv, SellerTypeOK
<1>12. TrancheInv'
  BY <1>2 DEF SellerInv, TrancheInv
<1>13. SaleRight'
  BY <1>2, <1>4, <1>6 DEF SaleRight
<1>14. StockInv'
  <2>1. /\ AmountOf(moving) \in Nat /\ DueOf(fundings) \in Nat /\ held \in Nat
        /\ PaidOut \in Nat
        /\ PaidOut = sold_total + 0
        /\ held + AmountOf(moving) = reserve_due_ath + DueOf(fundings) + 0
        /\ funded_total = reserve_due_ath + sold_total + 0
    BY <1>8, SellerNumbers DEF SellerInv, StockInv
  <2> DEFINE m == AmountOf(moving)
             d == DueOf(fundings)
  <2>2. m \in Nat /\ d \in Nat
    BY <2>1
  <2> HIDE DEF m, d
  <2>3. /\ held + m = (reserve_due_ath - a) + d + a
        /\ funded_total = (reserve_due_ath - a) + sold_total + a
    <3>1. held + m = reserve_due_ath + d + 0
      BY <2>1 DEF m, d
    <3> QED BY <1>1, <1>3, <2>1, <2>2, <3>1
  <2>4. held + AmountOf(moving) = (reserve_due_ath - a) + DueOf(fundings) + a
    BY <2>3 DEF m, d
  <2> QED BY <1>1, <1>2, <1>8, <1>10, <2>1, <2>3, <2>4, Zenon DEF StockInv
<1>15. PaidFor = 0 /\ PaidFor' = q
  BY <1>1, <1>6, <1>9 DEF PaidFor
<1>16. paid_ton' >= treasury_due' + PaidFor'
  <2>1. paid_ton >= treasury_due + 0
    BY <1>15 DEF SellerInv
  <2>2. paid_ton + q >= treasury_due + q
    BY <1>3, <1>5, <2>1
  <2> QED BY <1>1, <1>15, <2>2, Zenon
<1>17. PricedByTranche'
  <2>1. Proceeds' = Proceeds
    BY <1>1 DEF Proceeds
  <2>2. Bounds(sold_total', Proceeds', last_id')
    BY <1>1, <1>2, <1>3, <2>1, Zenon
  <2> QED BY <2>2 DEF PricedByTranche, FloorPrice, Bounds, Units, Proceeds
<1> QED BY <1>8, <1>11, <1>12, <1>13, <1>14, <1>16, <1>17 DEF SellerInv

(* It ends with the ATH delivered.                                         *)
LEMMA SoldSeller ==
    ASSUME SellerInv, NEW m \in mail, m.type = "ack", FinalizePendingSale(m)
    PROVE  SellerInv'
<1> DEFINE a == payout.amount
           q == payout.paid
<1>1. /\ Answers(m) /\ Close(m) /\ ~Idle /\ payout' = NoPayout
      /\ treasury_due' = treasury_due + q
      /\ sold_total' = sold_total + a
      /\ CountSale(a)
      /\ UNCHANGED <<reserve_due_ath, funded_total, flushed_total, fundings,
                     paid_ton>>
      /\ UNCHANGED <<held, moving, delivered>>
  BY DEF FinalizePendingSale, Answers, Close
<1>2. /\ TransferInv' /\ Idle'
      /\ last_id' \in Nat /\ last_id' > last_id
      /\ PendingAmount = a /\ PendingAmount' = 0
      /\ ArrivedAmount' = 0 /\ MissingAmount' = 0
      /\ ArrivedAmount = a /\ MissingAmount = 0
  BY <1>1, CloseStage DEF SellerInv
<1>3. /\ a \in Nat /\ q \in Nat /\ a >= 1
      /\ a + current_tranche_sold <= TrancheAth
      /\ q = Quote(a)
      /\ completed_tranche_count \in Nat /\ current_tranche_sold \in Nat
      /\ sold_total = TrancheAth * completed_tranche_count
                          + current_tranche_sold
      /\ current_tranche_sold < TrancheAth
      /\ reserve_due_ath \in Nat /\ paid_ton \in Nat /\ treasury_due \in Nat
      /\ flushed_total \in Nat /\ sold_total \in Nat /\ last_id \in Nat
      /\ Bounds(sold_total, Proceeds, last_id)
  BY <1>1, PricesAre, SellerNumbers
     DEF SellerInv, SellerTypeOK, TrancheInv, SaleRight
<1> HIDE DEF a, q
<1>4. /\ completed_tranche_count' \in Nat /\ current_tranche_sold' \in Nat
      /\ current_tranche_sold' < TrancheAth
      /\ sold_total + a = TrancheAth * completed_tranche_count'
                              + current_tranche_sold'
  <2>1. CASE current_tranche_sold + a = TrancheAth
    <3>1. /\ completed_tranche_count' = completed_tranche_count + 1
          /\ current_tranche_sold' = 0
      BY <1>1, <2>1 DEF CountSale
    <3>2. TrancheAth * (completed_tranche_count + 1)
             = TrancheAth * completed_tranche_count + TrancheAth
      BY <1>3, SellerConstants
    <3>3. TrancheAth * completed_tranche_count \in Nat
      BY <1>3, SellerConstants
    <3> QED BY <1>3, <2>1, <3>1, <3>2, <3>3, SellerConstants
  <2>2. CASE current_tranche_sold + a # TrancheAth
    <3>1. /\ completed_tranche_count' = completed_tranche_count
          /\ current_tranche_sold' = current_tranche_sold + a
      BY <1>1, <2>2 DEF CountSale
    <3>2. TrancheAth * completed_tranche_count \in Nat
      BY <1>3, SellerConstants
    <3>3. /\ current_tranche_sold + a \in Nat
          /\ current_tranche_sold + a < TrancheAth
          /\ sold_total + a = TrancheAth * completed_tranche_count
                                  + (current_tranche_sold + a)
      BY <1>3, <2>2, <3>2, SellerConstants
    <3> QED BY <1>3, <3>1, <3>3, Zenon
  <2> QED BY <2>1, <2>2
<1>5. SellerTypeOK'
  <2>1. treasury_due' \in Nat /\ sold_total' \in Nat
    BY <1>1, <1>3
  <2> QED BY <1>1, <1>4, <2>1 DEF SellerInv, SellerTypeOK
<1>6. TrancheInv'
  BY <1>1, <1>4 DEF TrancheInv
<1>7. SaleRight'
  BY <1>2 DEF SaleRight
<1>8. StockInv'
  <2>1. /\ PaidOut' = PaidOut /\ AmountOf(moving)' = AmountOf(moving)
        /\ DueOf(fundings)' = DueOf(fundings)
    BY <1>1 DEF PaidOut, AmountOf, DueOf
  <2>2. /\ PaidOut = sold_total + a
        /\ held + AmountOf(moving) = reserve_due_ath + DueOf(fundings) + 0
        /\ funded_total = reserve_due_ath + sold_total + a
    BY <1>2 DEF SellerInv, StockInv
  <2>3. /\ sold_total + a = (sold_total + a) + 0
        /\ reserve_due_ath + sold_total + a
               = reserve_due_ath + (sold_total + a) + 0
    BY <1>3
  <2> QED BY <1>1, <1>2, <2>1, <2>2, <2>3, Zenon DEF StockInv
<1>9. paid_ton' >= treasury_due' + PaidFor'
  <2>1. PaidFor = q /\ PaidFor' = 0
    BY <1>1, <1>2 DEF PaidFor, q
  <2>2. paid_ton >= treasury_due + q
    BY <2>1 DEF SellerInv
  <2>3. paid_ton >= (treasury_due + q) + 0
    BY <1>3, <2>2
  <2> QED BY <1>1, <2>1, <2>3, Zenon
<1>10. PricedByTranche'
  <2>1. /\ current_tranche_sold + a <= TrancheAth
        /\ Proceeds \in Nat /\ Proceeds' = Proceeds + q
        /\ last_id < last_id'
    BY <1>1, <1>2, <1>3, SellerConstants DEF Proceeds
  <2>2. q = (BaseTranchePrice * (StartMultiplier + completed_tranche_count)
                * a + TrancheAth - 1) \div TrancheAth
    BY <1>3 DEF Quote
  <2>3. Bounds(TrancheAth * completed_tranche_count + current_tranche_sold,
               Proceeds, last_id)
    BY <1>3
  <2>4. Bounds(TrancheAth * completed_tranche_count + current_tranche_sold
                   + a, Proceeds + q, last_id')
    BY <1>2, <1>3, <2>1, <2>2, <2>3, PriceOfSale
  <2>5. TrancheAth * completed_tranche_count + current_tranche_sold + a
           = sold_total'
    BY <1>1, <1>3
  <2>6. Bounds(sold_total', Proceeds', last_id')
    BY <2>1, <2>4, <2>5, Zenon
  <2> QED BY <2>6 DEF PricedByTranche, FloorPrice, Bounds, Units, Proceeds
<1> QED BY <1>2, <1>5, <1>6, <1>7, <1>8, <1>9, <1>10 DEF SellerInv

(* It ends without: the ATH is for sale again, and the buyer's TON is not  *)
(* the treasury's.                                                         *)
LEMMA FailedSeller ==
    ASSUME SellerInv, NEW m \in mail, m.type \in {"failed", "bounced"},
           FailPendingSale(m)
    PROVE  SellerInv'
<1> DEFINE a == payout.amount
           q == payout.paid
<1>1. /\ Answers(m) /\ Close(m) /\ ~Idle /\ payout' = NoPayout
      /\ reserve_due_ath' = reserve_due_ath + a
      /\ paid_ton' = IF q >= ExcessRefundMin THEN paid_ton - q ELSE paid_ton
      /\ UNCHANGED <<treasury_due, trancheVars, funded_total, flushed_total,
                     fundings>>
      /\ UNCHANGED <<held, moving, delivered>>
  BY DEF FailPendingSale, Answers, Close
<1>2. UNCHANGED <<completed_tranche_count, current_tranche_sold, sold_total>>
  BY <1>1 DEF trancheVars
<1>3. /\ TransferInv' /\ Idle'
      /\ last_id' \in Nat /\ last_id' > last_id
      /\ PendingAmount = a /\ PendingAmount' = 0
      /\ ArrivedAmount' = 0 /\ MissingAmount' = 0
      /\ ArrivedAmount = 0 /\ MissingAmount = a
  BY <1>1, CloseStage DEF SellerInv
<1>4. PaidFor = q /\ PaidFor' = 0
  BY <1>1, <1>3 DEF PaidFor
<1>5. /\ a \in Nat /\ q \in Nat
      /\ reserve_due_ath \in Nat /\ paid_ton \in Nat /\ treasury_due \in Nat
      /\ flushed_total \in Nat /\ sold_total \in Nat /\ last_id \in Nat
      /\ paid_ton >= treasury_due + q
      /\ Bounds(sold_total, Proceeds, last_id)
  BY <1>1, <1>4, PricesAre, SellerNumbers DEF SellerInv, SellerTypeOK
<1> HIDE DEF a, q
<1>6. paid_ton' \in Nat /\ paid_ton' >= treasury_due + 0
  BY <1>1, <1>5, SellerConstants
<1>7. SellerTypeOK'
  <2>1. reserve_due_ath' \in Nat
    BY <1>1, <1>5
  <2> QED BY <1>1, <1>2, <1>6, <2>1 DEF SellerInv, SellerTypeOK
<1>8. TrancheInv'
  BY <1>2 DEF SellerInv, TrancheInv
<1>9. SaleRight'
  BY <1>3 DEF SaleRight
<1>10. StockInv'
  <2>1. /\ PaidOut' = PaidOut /\ AmountOf(moving)' = AmountOf(moving)
        /\ DueOf(fundings)' = DueOf(fundings)
    BY <1>1 DEF PaidOut, AmountOf, DueOf
  <2>2. /\ PaidOut = sold_total + 0
        /\ held + AmountOf(moving) = reserve_due_ath + DueOf(fundings) + a
        /\ funded_total = reserve_due_ath + sold_total + a
    BY <1>3 DEF SellerInv, StockInv
  <2>3. \A r, d, b \in Nat : r + d + b = (r + b) + d + 0
    OBVIOUS
  <2>4. DueOf(fundings) \in Nat
    BY SellerNumbers
  <2>5. reserve_due_ath + DueOf(fundings) + a
           = (reserve_due_ath + a) + DueOf(fundings) + 0
    BY <1>5, <2>3, <2>4
  <2>6. reserve_due_ath + sold_total + a
           = (reserve_due_ath + a) + sold_total + 0
    BY <1>5, <2>3
  <2> QED BY <1>1, <1>2, <1>3, <2>1, <2>2, <2>5, <2>6, Zenon DEF StockInv
<1>11. paid_ton' >= treasury_due' + PaidFor'
  BY <1>1, <1>4, <1>6, Zenon
<1>12. PricedByTranche'
  <2>1. Proceeds \in Nat /\ Proceeds' = Proceeds /\ last_id <= last_id'
    BY <1>1, <1>3, <1>5 DEF Proceeds
  <2>2. Bounds(sold_total, Proceeds, last_id')
    BY <1>3, <1>5, <2>1, BoundsLast
  <2>3. Bounds(sold_total', Proceeds', last_id')
    BY <1>2, <2>1, <2>2, Zenon
  <2> QED BY <2>3 DEF PricedByTranche, FloorPrice, Bounds, Units, Proceeds
<1> QED BY <1>3, <1>7, <1>8, <1>9, <1>10, <1>11, <1>12 DEF SellerInv

LEMMA SellerKept ==
    ASSUME SellerInv, SellerStep \/ (WalletsMove /\ UNCHANGED saleVars)
    PROVE  SellerInv'
<1>1. ASSUME NEW a \in 1..TotalReserve + 1, FundReserve(a)
      PROVE  SellerInv'
  <2>1. a \in Nat
    BY SellerConstants DEF TotalReserve
  <2> QED BY <1>1, <2>1, FundSeller
<1>2. ASSUME NEW a \in 1..TrancheAth, NEW id \in 1..MaxPayouts,
             BuyMarketStabilityAth(a, id)
      PROVE  SellerInv'
  <2>1. a \in Nat \ {0} /\ id \in Nat \ {0}
    BY SellerConstants, PayoutAssumption
  <2> QED BY <1>2, <2>1, BuySeller
<1>3. ASSUME NEW m \in Mail("ack"), FinalizePendingSale(m) PROVE SellerInv'
  BY <1>3, SoldSeller DEF Mail
<1>4. ASSUME NEW m \in Mail("failed") \cup Mail("bounced"),
             FailPendingSale(m)
      PROVE  SellerInv'
  BY <1>4, FailedSeller DEF Mail
<1>5. ASSUME NEW a \in 1..treasury_due, FlushTreasuryTon(a)
      PROVE  SellerInv'
  <2>1. a \in Nat
    BY DEF SellerInv, SellerTypeOK
  <2> QED BY <1>5, <2>1, FlushSeller
<1> QED BY <1>1, <1>2, <1>3, <1>4, <1>5, FundedSeller, WalletsSeller
        DEF SellerStep

LEMMA SellerCounts ==
    ASSUME SellerInv
    PROVE  /\ PaidOut = sold_total + ArrivedAmount
           /\ SellerExact /\ PricedByTranche
<1>1. completed_tranche_count = sold_total \div TrancheAth
      /\ current_tranche_sold = sold_total % TrancheAth
  <2>1. /\ completed_tranche_count \in Nat /\ current_tranche_sold \in Nat
        /\ current_tranche_sold < TrancheAth /\ TrancheAth \in Nat \ {0}
        /\ sold_total = TrancheAth * completed_tranche_count
                            + current_tranche_sold
    BY SellerConstants DEF SellerInv, SellerTypeOK, TrancheInv
  <2>2. /\ (TrancheAth * completed_tranche_count + current_tranche_sold)
               \div TrancheAth = completed_tranche_count
        /\ (TrancheAth * completed_tranche_count + current_tranche_sold)
               % TrancheAth = current_tranche_sold
    BY <2>1, FloorOfParts
  <2> QED BY <2>1, <2>2, Zenon
<1>2. /\ PaidOut = sold_total + ArrivedAmount
      /\ held + AmountOf(moving) =
             reserve_due_ath + DueOf(fundings) + MissingAmount
      /\ funded_total = reserve_due_ath + sold_total + PendingAmount
      /\ paid_ton >= treasury_due + PaidFor
      /\ PricedByTranche
  BY DEF SellerInv, StockInv
<1>3. SellerExact
  BY <1>1, <1>2, Zenon DEF SellerExact, DueOf, MissingAmount, PaidFor
<1> QED BY <1>2, <1>3

-----------------------------------------------------------------------------
(* Whoever holds the ATH                                                   *)

NothingSold ==
    /\ sold_total = 0 /\ treasury_due = 0 /\ flushed_total = 0
    /\ last_id \in Nat

PayoutsInv ==
    /\ holder \in {"vault", "seller", "vesting", "buyback"}
    /\ holder = "seller" => SellerInv
    /\ holder = "vesting" => VestingInv
    /\ holder # "seller" => NothingSold

LEMMA NoUnits == Units(0) = 0
<1> DEFINE f == [u \in {} |-> StartMultiplier + u \div TrancheAth]
<1>1. 0..0 - 1 = {} /\ DOMAIN f = {}
  OBVIOUS
<1>2. SumFunction(f) = 0
  BY <1>1, SumOfNothing DEF SumFunction
<1>3. Units(0) = SumFunction(f)
  BY <1>1, Zenon DEF Units
<1> QED BY <1>2, <1>3

(* Nothing sold is priced as nothing.                                      *)
LEMMA NothingPriced == NothingSold => PricedByTranche
<1> SUFFICES ASSUME NothingSold PROVE PricedByTranche
  OBVIOUS
<1> DEFINE r == (TrancheAth - 1) * last_id
<1>1. r \in Nat
  BY SellerConstants DEF NothingSold
<1> HIDE DEF r
<1>2. /\ BaseTranchePrice * 0 = 0 /\ TrancheAth * 0 = 0
      /\ 0 + 0 = 0 /\ 0 <= 0 /\ 0 <= 0 + r
  BY <1>1, SellerConstants
<1>3. sold_total = 0 /\ Proceeds = 0
  BY DEF NothingSold, Proceeds
<1>4. Bounds(sold_total, Proceeds, last_id)
  BY <1>2, <1>3, NoUnits, Zenon DEF Bounds, r
<1> QED BY <1>4, PricesAre

LEMMA StageFromStart ==
    ASSUME NEW stock \in Nat, PayoutInit(stock)
    PROVE  /\ TransferInv /\ Idle /\ PaidOut = 0 /\ ArrivedAmount = 0
           /\ PendingAmount = 0 /\ MissingAmount = 0
           /\ held = stock /\ AmountOf(moving) = 0 /\ last_id = 0
<1>1. /\ payout = NoPayout /\ last_id = 0 /\ held = stock /\ mail = {}
      /\ moving = {} /\ delivered = {}
  BY DEF PayoutInit
<1>2. PayoutTypeOK
  BY <1>1, FS_EmptySet DEF PayoutTypeOK
<1>3. TransferInv
  BY <1>1, <1>2 DEF TransferInv, OneStage, Idle, EarlierDelivered
<1>4. PaidOut = 0 /\ AmountOf(moving) = 0
  BY <1>1, NoTransfers, Zenon DEF PaidOut
<1> QED BY <1>1, <1>3, <1>4
        DEF Idle, ArrivedAmount, PendingAmount, MissingAmount

LEMMA PayoutsFromStart == ReservesInit => PayoutsInv
<1> SUFFICES ASSUME ReservesInit PROVE PayoutsInv
  OBVIOUS
<1>1. TotalVesting \in Nat
  BY VestingConstants DEF TotalVesting
<1>2. PICK stock \in 0..TotalVesting :
         (holder # "vesting" => stock = 0) /\ PayoutInit(stock)
  BY DEF ReservesInit
<1>3. stock \in Nat
  BY <1>1
<1>4. /\ TransferInv /\ Idle /\ PaidOut = 0 /\ ArrivedAmount = 0
      /\ PendingAmount = 0 /\ MissingAmount = 0
      /\ held = stock /\ AmountOf(moving) = 0 /\ last_id = 0
  BY <1>2, <1>3, StageFromStart
<1>5. /\ reserve_due_ath = 0 /\ treasury_due = 0
      /\ completed_tranche_count = 0 /\ current_tranche_sold = 0
      /\ funded_total = 0 /\ sold_total = 0 /\ flushed_total = 0
      /\ fundings = {} /\ paid_ton = 0
      /\ claimed = 0 /\ elapsed = 0
      /\ holder \in {"vault", "seller", "vesting", "buyback"}
  BY DEF ReservesInit, SellerInit, VestingInit
<1>6. NothingSold
  BY <1>4, <1>5 DEF NothingSold
<1>7. ASSUME holder = "seller" PROVE SellerInv
  <2>1. SellerTypeOK
    BY <1>4, <1>5 DEF SellerTypeOK, Idle
  <2>2. StockInv
    <3>1. held = 0
      BY <1>2, <1>4, <1>7
    <3>2. DueOf(fundings) = 0
      BY <1>5, DuesAre, Zenon
    <3>3. 0 = 0 + 0 /\ 0 + 0 = 0 + 0 + 0 /\ 0 = 0 + 0 + 0
      OBVIOUS
    <3> QED BY <1>4, <1>5, <3>1, <3>2, <3>3, Zenon DEF StockInv
  <2>3. TrancheInv
    BY <1>5, SellerConstants DEF TrancheInv
  <2>4. SaleRight /\ PaidFor = 0
    BY <1>4 DEF SaleRight, PaidFor
  <2>5. paid_ton >= treasury_due + PaidFor
    BY <1>5, <2>4
  <2> QED BY <1>4, <1>6, <2>1, <2>2, <2>3, <2>4, <2>5, NothingPriced
          DEF SellerInv
<1>8. VestingInv
  <2>1. ElapsedPeriods \in Nat
    BY <1>5, PeriodsAre, VestingConstants
  <2>2. PeriodUnlock * ElapsedPeriods \in Nat
    BY <2>1, VestingConstants
  <2>3. claimed + PendingAmount <= PeriodUnlock * ElapsedPeriods
    BY <1>4, <1>5, <2>2
  <2> QED BY <1>4, <1>5, <2>3 DEF VestingInv
<1> QED BY <1>5, <1>6, <1>7, <1>8 DEF PayoutsInv

LEMMA PayoutsKept ==
    PayoutsInv /\ [ReservesNext]_reserveVars => PayoutsInv'
<1> SUFFICES ASSUME PayoutsInv, [ReservesNext]_reserveVars PROVE PayoutsInv'
  OBVIOUS
<1>1. /\ holder' = holder
      /\ holder \in {"vault", "seller", "vesting", "buyback"}
  BY DEF PayoutsInv, ReservesNext, reserveVars
<1>2. CASE holder = "seller"
  <2>1. SellerInv
    BY <1>2 DEF PayoutsInv
  <2>2. \/ SellerStep \/ (WalletsMove /\ UNCHANGED saleVars)
        \/ UNCHANGED <<payoutVars, saleVars>>
    BY <1>2 DEF ReservesNext, reserveVars, otherVars
  <2>3. CASE UNCHANGED <<payoutVars, saleVars>>
    <3>1. /\ UNCHANGED <<payout, last_id, mail, moving, delivered, held>>
          /\ UNCHANGED <<reserve_due_ath, treasury_due, trancheVars,
                         funded_total, flushed_total, fundings, paid_ton>>
      BY <2>3 DEF payoutVars, saleVars
    <3>2. SellerTypeOK' /\ DueOf(fundings)' = DueOf(fundings)
          /\ Proceeds' = Proceeds
      BY <2>1, <3>1 DEF SellerInv, SellerTypeOK, trancheVars, DueOf, Proceeds
    <3>3. held' \in Nat /\ DueOf(fundings)' \in Nat
      BY <2>1, <3>1, <3>2, SellerNumbers
    <3> QED BY <1>1, <1>2, <2>1, <3>1, <3>2, <3>3, RestSeller
            DEF PayoutsInv
  <2>4. CASE SellerStep \/ (WalletsMove /\ UNCHANGED saleVars)
    BY <1>1, <1>2, <2>1, <2>4, SellerKept DEF PayoutsInv
  <2> QED BY <2>2, <2>3, <2>4
<1>3. CASE holder # "seller"
  <2>1. NothingSold
    BY <1>3 DEF PayoutsInv
  <2>2. UNCHANGED saleVars
    BY <1>1, <1>3 DEF ReservesNext, reserveVars, otherVars
  <2>3. UNCHANGED <<sold_total, treasury_due, flushed_total>>
    BY <2>2 DEF saleVars, trancheVars
  <2>4. CASE holder = "vesting"
    <3>1. VestingInv
      BY <2>4 DEF PayoutsInv
    <3>2. \/ VestingStep \/ (WalletsMove /\ UNCHANGED vestingVars)
          \/ UNCHANGED <<payoutVars, vestingVars>>
      BY <2>4 DEF ReservesNext, reserveVars, otherVars
    <3>3. VestingInv'
      <4>1. CASE UNCHANGED <<payoutVars, vestingVars>>
        <5>1. UNCHANGED <<payout, last_id, mail, moving, delivered, held,
                          claimed, elapsed>>
          BY <4>1 DEF payoutVars, vestingVars
        <5>2. /\ claimed \in Nat /\ elapsed \in Nat /\ held' \in Nat
              /\ TransferInv /\ PaidOut = claimed + ArrivedAmount
              /\ claimed + PendingAmount <= PeriodUnlock * ElapsedPeriods
          BY <3>1, <5>1 DEF VestingInv, TransferInv, PayoutTypeOK
        <5>3. ElapsedPeriods' = ElapsedPeriods
          BY <5>1 DEF ElapsedPeriods
        <5>4. /\ TransferInv' /\ ArrivedAmount' = ArrivedAmount
              /\ PendingAmount' = PendingAmount /\ PaidOut' = PaidOut
          BY <5>1, <5>2, RestStage
        <5> QED BY <5>1, <5>2, <5>3, <5>4 DEF VestingInv
      <4> QED BY <3>1, <3>2, <4>1, VestingKept
    <3>4. last_id' \in Nat
      BY <3>3 DEF VestingInv, TransferInv, PayoutTypeOK
    <3> QED BY <1>1, <1>3, <2>1, <2>3, <3>3, <3>4
            DEF PayoutsInv, NothingSold
  <2>5. CASE holder # "vesting"
    <3>1. UNCHANGED payoutVars
      BY <1>1, <1>3, <2>5 DEF ReservesNext, reserveVars, otherVars
    <3>2. last_id' = last_id
      BY <3>1 DEF payoutVars
    <3> QED BY <1>1, <1>3, <2>1, <2>3, <2>5, <3>2
            DEF PayoutsInv, NothingSold
  <2> QED BY <2>4, <2>5
<1> QED BY <1>2, <1>3

LEMMA PayoutsInvariant == ReservesSpec => []PayoutsInv
BY PayoutsFromStart, PayoutsKept, PTL DEF ReservesSpec

(* What MarketStabilitySeller and ATHVesting count as sold and as claimed  *)
(* is what the recipients have, the seller's books are exact, and the      *)
(* beneficiary has nothing before it is vested, for every way in which the *)
(* transfers arrive, come back, fail or are acknowledged                   *)
(* (finalizePendingSale, failPendingSale, claimAthVesting).                *)
THEOREM PayoutsAreExact == ReservesSpec => []PayoutsExact
<1>1. ASSUME PayoutsInv PROVE PayoutsExact
  <2>1. ASSUME holder = "seller" PROVE CountsExact /\ SellerExact
    <3>1. PaidOut = sold_total + ArrivedAmount /\ SellerExact
      BY <1>1, <2>1, SellerCounts DEF PayoutsInv
    <3> QED BY <2>1, <3>1 DEF CountsExact, ArrivedAmount
  <2>2. ASSUME holder = "vesting" PROVE CountsExact /\ NotBeforeVested
    <3>1. PaidOut = claimed + ArrivedAmount /\ NotBeforeVested
      BY <1>1, <2>2, VestingCounts DEF PayoutsInv
    <3> QED BY <2>2, <3>1 DEF CountsExact, ArrivedAmount
  <2> QED BY <2>1, <2>2 DEF PayoutsExact
<1> QED BY <1>1, PayoutsInvariant, PTL

(* What MarketStabilitySeller sold brought in the price of its tranches,   *)
(* whatever the price, the size of a tranche and the cuts                  *)
(* (quoteTonForAmount, finalizePendingSale).                               *)
THEOREM SalesArePriced == ReservesSpec => []PricedByTranche
<1>1. PayoutsInv => PricedByTranche
  <2> SUFFICES ASSUME PayoutsInv PROVE PricedByTranche
    OBVIOUS
  <2>1. CASE holder = "seller"
    BY <2>1, SellerCounts DEF PayoutsInv
  <2>2. CASE holder # "seller"
    BY <2>2, NothingPriced DEF PayoutsInv
  <2> QED BY <2>1, <2>2
<1> QED BY <1>1, PayoutsInvariant, PTL

-----------------------------------------------------------------------------
(***************************************************************************)
(* BuybackBurn                                                             *)
(***************************************************************************)

USE BuybackAssumption, BurnTransitAssumption

LEMMA MaxAgeIsNat == MaxAge \in Nat
BY DEF MaxAge, AtLeast

LEMMA BuybackInitInv == BuybackInit => BuybackInv
<1> SUFFICES ASSUME BuybackInit PROVE BuybackInv
  OBVIOUS
<1>1. BuybackTypeOK
  <2>1. age \in 0..MaxAge /\ armed \in 0..(SweepGrace + 1)
    BY MaxAgeIsNat DEF BuybackInit
  <2>2. burn \in [stage : Stages, qid : Nat, amount : Nat]
    BY DEF BuybackInit, NoBurn, Stages
  <2> QED BY <2>1, <2>2 DEF BuybackInit, BuybackTypeOK, Phases
<1>2. NextQueryPending /\ ArrivalsBacked /\ TonBacked
  BY DEF BuybackInit, NextQueryPending, ArrivalsBacked, TonBacked
<1>3. BurnTimely /\ BurnTracked /\ BurnBacked
  BY DEF BuybackInit, BurnTimely, BurnTracked, BurnBacked, NoBurn, InWallet
<1> QED BY <1>1, <1>2, <1>3 DEF BuybackInv

(* Where no pending field, amount or message changes, only TON can.        *)
LEMMA TonOnly ==
    ASSUME BuybackInv, BuybackTypeOK', TonBacked',
           UNCHANGED <<cycleVars, ath_burn_retry_due, burned_ath_total, ath,
                       burnt, burn, arrivals>>
    PROVE  BuybackInv'
<1>1. NextQueryPending' /\ ArrivalsBacked'
  BY DEF BuybackInv, cycleVars, NextQueryPending, ArrivalsBacked, Accepts
<1>2. BurnTimely' /\ BurnTracked' /\ BurnBacked'
  BY DEF BuybackInv, cycleVars, BurnTimely, BurnTracked, BurnBacked, Pending,
         InWallet
<1> QED BY <1>1, <1>2 DEF BuybackInv

(* Genesis.                                                                *)
LEMMA GenesisInv == BuybackInv /\ (FreezeRoute \/ Seal) => BuybackInv'
<1> SUFFICES ASSUME BuybackInv, FreezeRoute \/ Seal PROVE BuybackInv'
  OBVIOUS
<1>1. UNCHANGED <<cycleVars, dueVars, accepted_reserve_count,
                  burned_ath_total, worldVars>>
  BY DEF FreezeRoute, Seal
<1>2. sealed' \in BOOLEAN /\ route_frozen' \in BOOLEAN
      /\ controller' \in BOOLEAN /\ armed' \in 0..(SweepGrace + 1)
  <2>1. CASE FreezeRoute
    BY <2>1 DEF FreezeRoute, BuybackInv, BuybackTypeOK
  <2>2. CASE Seal
    BY <2>2 DEF Seal, BuybackInv, BuybackTypeOK
  <2> QED BY <2>1, <2>2
<1>3. BuybackTypeOK' /\ TonBacked'
  BY <1>1, <1>2
     DEF BuybackInv, BuybackTypeOK, TonBacked, cycleVars, dueVars, worldVars
<1> QED BY <1>1, <1>3, TonOnly DEF dueVars, worldVars

(* The reserve comes in, and an envelope of it is spent.                   *)
LEMMA ReserveInv == BuybackInv /\ AcceptBurnReserve => BuybackInv'
<1> SUFFICES ASSUME BuybackInv, AcceptBurnReserve PROVE BuybackInv'
  OBVIOUS
<1>1. BuybackTypeOK' /\ TonBacked'
  BY DEF AcceptBurnReserve, BuybackInv, BuybackTypeOK, TonBacked, cycleVars,
         genesisVars
<1> QED BY <1>1, TonOnly DEF AcceptBurnReserve

LEMMA ExecuteInv == BuybackInv /\ ExecuteBuybackChunk => BuybackInv'
<1> SUFFICES ASSUME BuybackInv, ExecuteBuybackChunk PROVE BuybackInv'
  OBVIOUS
<1> USE DEF BuybackInv
<1>1. BuybackTypeOK'
  <2>1. age' \in 0..MaxAge
    BY MaxAgeIsNat DEF ExecuteBuybackChunk
  <2>2. phase' \in Phases
    BY DEF ExecuteBuybackChunk, Phases
  <2>3. ton' \in Nat /\ reserve_due' \in Nat /\ exchange' \in Nat
    BY DEF ExecuteBuybackChunk, BuybackTypeOK, TonBacked
  <2> QED BY <2>1, <2>2, <2>3
       DEF ExecuteBuybackChunk, BuybackTypeOK, genesisVars, countVars
<1>2. TonBacked'
  BY DEF ExecuteBuybackChunk, BuybackTypeOK, TonBacked
<1>3. NextQueryPending'
  BY DEF ExecuteBuybackChunk, NextQueryPending, BuybackTypeOK
<1>4. ArrivalsBacked'
  BY DEF ExecuteBuybackChunk, ArrivalsBacked, NextQueryPending, Accepts,
         AtLeast, BuybackTypeOK
<1>5. BurnTimely' /\ BurnTracked' /\ BurnBacked'
  BY DEF ExecuteBuybackChunk, BurnTimely, BurnTracked, BurnBacked, Pending,
         InWallet, BuybackTypeOK, countVars
<1> QED BY <1>1, <1>2, <1>3, <1>4, <1>5

(* A cycle that ends leaves nothing pending, and used the next query id.   *)
LEMMA FinishEnds ==
    ASSUME BuybackInv, phase # "IDLE", FinishPendingCycle,
           arrivals' \subseteq arrivals
    PROVE  /\ phase' = "IDLE" /\ phase' \in Phases
           /\ pending_query_id' \in Nat /\ last_terminal_query_id' \in Nat
           /\ pending_route_refund_start' \in Nat
           /\ pending_received_ath' \in Nat
           /\ age' \in 0..MaxAge
           /\ NextQueryPending' /\ ArrivalsBacked'
<1>1. /\ phase' = "IDLE" /\ pending_query_id' = 0 /\ age' = 0
      /\ pending_route_refund_start' = 0 /\ pending_received_ath' = 0
      /\ last_terminal_query_id' = pending_query_id
  BY DEF FinishPendingCycle, ClearPending
<1>2. ArrivalsBacked'
  <2> SUFFICES ASSUME NEW n \in arrivals'
               PROVE  /\ n.qid <= AtLeast(pending_query_id',
                                          last_terminal_query_id')
                      /\ ~Accepts(n)'
    BY DEF ArrivalsBacked
  <2>1. n.qid <= AtLeast(pending_query_id, last_terminal_query_id)
    BY DEF BuybackInv, ArrivalsBacked
  <2>2. pending_query_id = last_terminal_query_id + 1
    BY DEF BuybackInv, NextQueryPending
  <2>3. n.qid \in Nat
    BY DEF BuybackInv, BuybackTypeOK
  <2>4. n.qid <= AtLeast(pending_query_id', last_terminal_query_id')
    BY <1>1, <2>1, <2>2, <2>3 DEF AtLeast, BuybackInv, BuybackTypeOK
  <2> QED BY <1>1, <2>4 DEF Accepts
<1>3. NextQueryPending'
  BY <1>1 DEF NextQueryPending
<1> QED BY <1>1, <1>2, <1>3, MaxAgeIsNat DEF Phases, BuybackInv, BuybackTypeOK

(* The exchange.                                                           *)
LEMMA ExchangePaysInv ==
    ASSUME BuybackInv, NEW q \in 1..MaxQuery, NEW a \in 1..MaxAth,
           ExchangePays(q, a)
    PROVE  BuybackInv'
<1> USE DEF BuybackInv
<1> DEFINE n == [qid |-> q, amount |-> a]
<1>1. ath' = ath + a /\ a \in Nat /\ q \in Nat /\ ath \in Nat
  BY DEF ExchangePays, BuybackTypeOK
<1>2. BuybackTypeOK' /\ TonBacked'
  <2>1. n \in [qid : Nat, amount : Nat]
    BY <1>1
  <2>2. arrivals' = arrivals \cup {n} /\ exchange' \in Nat /\ ath' \in Nat
    BY <1>1 DEF ExchangePays, BuybackTypeOK
  <2> HIDE DEF n
  <2> QED BY <2>1, <2>2
       DEF ExchangePays, BuybackTypeOK, TonBacked, genesisVars, cycleVars,
           dueVars,
           countVars
<1>3. NextQueryPending'
  BY DEF ExchangePays, NextQueryPending, cycleVars
<1>4. ArrivalsBacked'
  <2> SUFFICES ASSUME NEW m \in arrivals'
               PROVE  /\ m.qid <= AtLeast(pending_query_id,
                                          last_terminal_query_id)
                      /\ Accepts(m) => ath' >= ath_burn_retry_due + m.amount
    BY DEF ArrivalsBacked, Accepts, ExchangePays, cycleVars, dueVars
  <2>1. CASE m = n
    <3>1. m.qid = q /\ m.amount = a
      BY <2>1
    <3>2. ath >= ath_burn_retry_due
      BY DEF BurnBacked, BuybackTypeOK
    <3> QED BY <1>1, <3>1, <3>2 DEF ExchangePays, BuybackTypeOK
  <2>2. CASE m \in arrivals
    <3>1. m.amount \in Nat
      BY <2>2 DEF BuybackTypeOK
    <3> QED BY <1>1, <2>2, <3>1 DEF ArrivalsBacked, BuybackTypeOK
  <2> QED BY <2>1, <2>2 DEF ExchangePays
<1>5. BurnTimely' /\ BurnTracked' /\ BurnBacked'
  BY <1>1 DEF ExchangePays, BurnTimely, BurnTracked, BurnBacked, Pending,
              InWallet, BuybackTypeOK, cycleVars, dueVars, countVars
<1> QED BY <1>2, <1>3, <1>4, <1>5

LEMMA TonReturnsInv ==
    ASSUME BuybackInv, NEW value \in 1..exchange,
           RouteRefund(value) \/ UnbookedTon(value)
    PROVE  BuybackInv'
<1>1. value \in Nat /\ value <= exchange
  BY DEF BuybackInv, BuybackTypeOK
<1>2. BuybackTypeOK' /\ TonBacked'
  <2>1. CASE RouteRefund(value)
    BY <1>1, <2>1 DEF RouteRefund, CreditRouteRefund, BuybackInv,
                      BuybackTypeOK,
                      TonBacked, genesisVars, cycleVars, countVars
  <2>2. CASE UnbookedTon(value)
    BY <1>1, <2>2 DEF UnbookedTon, BuybackInv, BuybackTypeOK, TonBacked,
                      genesisVars, cycleVars, dueVars, countVars
  <2> QED BY <2>1, <2>2
<1> QED BY <1>2, TonOnly DEF RouteRefund, UnbookedTon, dueVars, countVars

LEMMA PtonTransferBounceInv ==
    ASSUME BuybackInv, NEW value \in 1..exchange, PtonTransferBounce(value)
    PROVE  BuybackInv'
<1> USE DEF BuybackInv
<1>1. /\ phase' = "IDLE" /\ phase' \in Phases
      /\ pending_query_id' \in Nat /\ last_terminal_query_id' \in Nat
      /\ pending_route_refund_start' \in Nat /\ pending_received_ath' \in Nat
      /\ age' \in 0..MaxAge
      /\ NextQueryPending' /\ ArrivalsBacked'
  BY FinishEnds DEF PtonTransferBounce
<1>2. /\ value \in Nat /\ value <= exchange
      /\ route_refund_due' = route_refund_due + value /\ ton' = ton + value
      /\ exchange' = exchange - value
      /\ UNCHANGED <<genesisVars, reserve_due, ath_burn_retry_due, countVars,
                     ath, burnt, burn, arrivals>>
  BY DEF PtonTransferBounce, CreditRouteRefund, BuybackTypeOK
<1>3. BuybackTypeOK' /\ TonBacked'
  BY <1>1, <1>2 DEF BuybackTypeOK, TonBacked, genesisVars, countVars
<1>4. burn.stage = "none"
  BY DEF PtonTransferBounce, BurnTracked, Pending
<1>5. BurnTimely' /\ BurnTracked' /\ BurnBacked'
  BY <1>1, <1>2, <1>4 DEF BurnTimely, BurnTracked, BurnBacked, InWallet,
                          BuybackTypeOK, countVars
<1> QED BY <1>1, <1>3, <1>5

-----------------------------------------------------------------------------
(* ATH arrives.                                                            *)

LEMMA BurnArrivalInv ==
    ASSUME BuybackInv, NEW n \in arrivals, NEW surplus \in 0..1,
           BurnArrival(n, surplus)
    PROVE  BuybackInv'
<1> USE DEF BuybackInv
<1>1. /\ phase = "PENDING_STONFI_SWAP" /\ n.qid = pending_query_id
      /\ n.qid \in Nat /\ n.amount \in Nat /\ surplus \in Nat
      /\ ath >= ath_burn_retry_due + n.amount
  BY DEF BurnArrival, Accepts, ArrivalsBacked, BuybackTypeOK
<1>2. /\ phase' = "PENDING_ATH_BURN" /\ pending_received_ath' = n.amount
      /\ age' = 0
      /\ route_refund_due' = route_refund_due + surplus
      /\ ton' = ton + surplus
      /\ burn' = [stage |-> "request", qid |-> n.qid, amount |-> n.amount]
      /\ arrivals' \subseteq arrivals
      /\ UNCHANGED <<genesisVars, pending_query_id, pending_route_refund_start,
                     last_terminal_query_id, reserve_due, ath_burn_retry_due,
                     countVars, ath, burnt, exchange>>
  BY DEF BurnArrival, CreditRouteRefund, SendAthBurn
<1>3. BuybackTypeOK' /\ TonBacked'
  <2>1. age' \in 0..MaxAge
    BY <1>2, MaxAgeIsNat
  <2>2. burn' \in [stage : Stages, qid : Nat, amount : Nat]
    BY <1>1, <1>2 DEF Stages
  <2>3. phase' \in Phases
    BY <1>2 DEF Phases
  <2>4. arrivals' \subseteq [qid : Nat, amount : Nat]
    BY <1>2 DEF BuybackTypeOK
  <2> QED BY <1>1, <1>2, <2>1, <2>2, <2>3, <2>4
          DEF BuybackTypeOK, TonBacked, genesisVars, countVars
<1>4. NextQueryPending'
  BY <1>1, <1>2 DEF NextQueryPending
<1>5. ArrivalsBacked'
  BY <1>2 DEF ArrivalsBacked, Accepts
<1>6. burn.stage = "none"
  BY <1>1 DEF BurnTracked, Pending
<1>7. BurnTimely' /\ BurnTracked'
  BY <1>1, <1>2, <1>6 DEF BurnTimely, BurnTracked, Pending, BuybackTypeOK,
                          countVars
<1>8. BurnBacked'
  BY <1>1, <1>2 DEF BurnBacked
<1> QED BY <1>3, <1>4, <1>5, <1>7, <1>8

LEMMA RetryArrivalLaterInv ==
    ASSUME BuybackInv, NEW n \in arrivals, NEW surplus \in 0..1,
           RetryArrivalLater(n, surplus)
    PROVE  BuybackInv'
<1> USE DEF BuybackInv
<1>1. /\ phase = "PENDING_STONFI_SWAP"
      /\ n.amount \in Nat /\ surplus \in Nat
      /\ ath >= ath_burn_retry_due + n.amount
  BY DEF RetryArrivalLater, Accepts, ArrivalsBacked, BuybackTypeOK
<1>2. /\ phase' = "IDLE" /\ phase' \in Phases
      /\ pending_query_id' \in Nat /\ last_terminal_query_id' \in Nat
      /\ pending_route_refund_start' \in Nat /\ pending_received_ath' \in Nat
      /\ age' \in 0..MaxAge
      /\ NextQueryPending' /\ ArrivalsBacked'
  BY <1>1, FinishEnds DEF RetryArrivalLater
<1>3. /\ ath_burn_retry_due' = ath_burn_retry_due + n.amount
      /\ route_refund_due' = route_refund_due + surplus
      /\ ton' = ton + surplus
      /\ arrivals' \subseteq arrivals
      /\ UNCHANGED <<genesisVars, reserve_due, countVars, ath, burnt, burn,
                     exchange>>
  BY DEF RetryArrivalLater, CreditRouteRefund
<1>4. BuybackTypeOK' /\ TonBacked'
  <2>1. arrivals' \subseteq [qid : Nat, amount : Nat]
    BY <1>3 DEF BuybackTypeOK
  <2> QED BY <1>1, <1>2, <1>3, <2>1
          DEF BuybackTypeOK, TonBacked, genesisVars, countVars
<1>5. burn.stage = "none"
  BY <1>1 DEF BurnTracked, Pending
<1>6. BurnTimely' /\ BurnTracked' /\ BurnBacked'
  BY <1>1, <1>2, <1>3, <1>5 DEF BurnTimely, BurnTracked, BurnBacked,
                                BuybackTypeOK,
                                countVars
<1> QED BY <1>2, <1>4, <1>6

LEMMA RefuseArrivalInv ==
    ASSUME BuybackInv, NEW n \in arrivals, RefuseArrival(n)
    PROVE  BuybackInv'
<1> USE DEF BuybackInv
<1>1. BuybackTypeOK' /\ TonBacked'
  BY DEF RefuseArrival, BuybackTypeOK, TonBacked, genesisVars, cycleVars,
         dueVars,
         countVars
<1>2. NextQueryPending' /\ ArrivalsBacked'
  BY DEF RefuseArrival, NextQueryPending, ArrivalsBacked, Accepts, cycleVars,
         dueVars
<1>3. BurnTimely' /\ BurnTracked' /\ BurnBacked'
  BY DEF RefuseArrival, BurnTimely, BurnTracked, BurnBacked, Pending,
         InWallet, cycleVars, dueVars, countVars
<1> QED BY <1>1, <1>2, <1>3

LEMMA RetryAthBurnDueInv == BuybackInv /\ RetryAthBurnDue => BuybackInv'
<1> SUFFICES ASSUME BuybackInv, RetryAthBurnDue PROVE BuybackInv'
  OBVIOUS
<1> USE DEF BuybackInv
<1>1. /\ phase = "IDLE"
      /\ phase' = "PENDING_ATH_BURN" /\ age' = 0 /\ ath_burn_retry_due' = 0
      /\ pending_query_id' = last_terminal_query_id + 1
      /\ pending_received_ath' = ath_burn_retry_due
      /\ burn' = [stage |-> "request", qid |-> last_terminal_query_id + 1,
                  amount |-> ath_burn_retry_due]
      /\ UNCHANGED <<genesisVars, pending_route_refund_start,
                     last_terminal_query_id, reserve_due, route_refund_due,
                     countVars, ton, ath, burnt, arrivals, exchange>>
  BY DEF RetryAthBurnDue, SendAthBurn
<1>2. BuybackTypeOK' /\ TonBacked'
  <2>1. age' \in 0..MaxAge
    BY <1>1, MaxAgeIsNat
  <2>2. burn' \in [stage : Stages, qid : Nat, amount : Nat]
    BY <1>1 DEF Stages, BuybackTypeOK
  <2>3. phase' \in Phases
    BY <1>1 DEF Phases
  <2> QED BY <1>1, <2>1, <2>2, <2>3 DEF BuybackTypeOK, TonBacked, genesisVars,
                                        countVars
<1>3. NextQueryPending'
  BY <1>1 DEF NextQueryPending
<1>4. ArrivalsBacked'
  BY <1>1 DEF ArrivalsBacked, Accepts, NextQueryPending, AtLeast, BuybackTypeOK
<1>5. burn.stage = "none"
  BY <1>1 DEF BurnTracked, Pending
<1>6. BurnTimely' /\ BurnTracked' /\ BurnBacked'
  BY <1>1, <1>5 DEF BurnTimely, BurnTracked, BurnBacked, Pending,
                    BuybackTypeOK,
                    countVars
<1> QED BY <1>2, <1>3, <1>4, <1>6

-----------------------------------------------------------------------------
(* The burn.                                                               *)

LEMMA StageInv ==
    ASSUME BuybackInv, burn.stage # "none",
           WalletBurns \/ WalletRefuses \/ MasterBurns \/ MasterRefuses
    PROVE  BuybackInv'
<1> USE DEF BuybackInv
<1>1. /\ burn.qid \in Nat /\ burn.amount \in Nat
      /\ phase = "PENDING_ATH_BURN" /\ burn.amount = pending_received_ath
      /\ burn.qid = pending_query_id
  BY DEF BuybackTypeOK, BurnTracked, Pending
<1>2. /\ UNCHANGED <<genesisVars, cycleVars, dueVars, countVars, ton,
                     arrivals, exchange>>
      /\ burn'.qid = burn.qid /\ burn'.amount = burn.amount
      /\ burn' \in [stage : Stages, qid : Nat, amount : Nat]
  BY DEF WalletBurns, WalletRefuses, MasterBurns, MasterRefuses, Stage,
         BuybackTypeOK, Stages
<1>3. \/ /\ burn'.stage = "refused" /\ burn.stage = "request"
         /\ ath' = ath /\ burnt' = burnt
      \/ /\ burn'.stage = "burning" /\ burn.stage = "request"
         /\ ath' = ath - burn.amount /\ ath >= burn.amount /\ burnt' = burnt
      \/ /\ burn'.stage = "finalized" /\ burn.stage = "burning"
         /\ ath' = ath /\ burnt' = burnt + burn.amount
      \/ /\ burn'.stage = "failed" /\ burn.stage = "burning"
         /\ ath' = ath + burn.amount /\ burnt' = burnt
  BY DEF WalletBurns, WalletRefuses, MasterBurns, MasterRefuses, Stage,
         BuybackTypeOK
<1>4. ath' \in Nat /\ burnt' \in Nat
  BY <1>1, <1>3 DEF BuybackTypeOK
<1>5. BuybackTypeOK' /\ TonBacked'
  BY <1>2, <1>4 DEF BuybackTypeOK, TonBacked, genesisVars, cycleVars, dueVars,
                    countVars
<1>6. NextQueryPending'
  BY <1>2 DEF NextQueryPending, cycleVars
<1>7. ArrivalsBacked'
  BY <1>1, <1>2 DEF ArrivalsBacked, Accepts, cycleVars
<1>8. BurnTimely' /\ BurnTracked'
  BY <1>1, <1>2, <1>3 DEF BurnTimely, BurnTracked, Pending, BuybackTypeOK,
                          cycleVars, countVars
<1>9. BurnBacked'
  BY <1>1, <1>2, <1>3 DEF BurnBacked, InWallet, BuybackTypeOK, cycleVars,
                          dueVars
<1> QED BY <1>5, <1>6, <1>7, <1>8, <1>9

LEMMA LoseRequestInv == BuybackInv /\ LoseRequest => BuybackInv'
<1> SUFFICES ASSUME BuybackInv, LoseRequest PROVE BuybackInv'
  OBVIOUS
<1> USE DEF BuybackInv
<1>1. /\ burn.stage = "request" /\ burn'.stage = "none"
      /\ burn' \in [stage : Stages, qid : Nat, amount : Nat]
      /\ UNCHANGED <<genesisVars, cycleVars, dueVars, countVars, ton, ath,
                     burnt, arrivals, exchange>>
  BY DEF LoseRequest, NoBurn, Stages
<1>2. BuybackTypeOK' /\ TonBacked'
  BY <1>1 DEF BuybackTypeOK, TonBacked, genesisVars, cycleVars, dueVars,
              countVars
<1>3. NextQueryPending' /\ ArrivalsBacked'
  BY <1>1 DEF NextQueryPending, ArrivalsBacked, Accepts, cycleVars, dueVars
<1>4. BurnTimely' /\ BurnTracked' /\ BurnBacked'
  BY <1>1 DEF BurnTimely, BurnTracked, BurnBacked, InWallet, cycleVars,
              dueVars, countVars
<1> QED BY <1>2, <1>3, <1>4

LEMMA BurnFinalizedInv == BuybackInv /\ BurnFinalized => BuybackInv'
<1> SUFFICES ASSUME BuybackInv, BurnFinalized PROVE BuybackInv'
  OBVIOUS
<1> USE DEF BuybackInv
<1>1. /\ phase = "PENDING_ATH_BURN" /\ burn.stage = "finalized"
      /\ burn.amount \in Nat
  BY DEF BurnFinalized, Pending, BuybackTypeOK
<1>2. /\ phase' = "IDLE" /\ phase' \in Phases
      /\ pending_query_id' \in Nat /\ last_terminal_query_id' \in Nat
      /\ pending_route_refund_start' \in Nat /\ pending_received_ath' \in Nat
      /\ age' \in 0..MaxAge
      /\ NextQueryPending' /\ ArrivalsBacked'
  BY <1>1, FinishEnds DEF BurnFinalized
<1>3. /\ burned_ath_total' = burned_ath_total + burn.amount /\ armed' = 0
      /\ burn'.stage = "none"
      /\ burn' \in [stage : Stages, qid : Nat, amount : Nat]
      /\ UNCHANGED <<genesisVars, dueVars, accepted_reserve_count, ton, ath,
                     burnt, arrivals, exchange>>
  BY DEF BurnFinalized, NoBurn, Stages
<1>4. BuybackTypeOK' /\ TonBacked'
  BY <1>1, <1>2, <1>3 DEF BuybackTypeOK, TonBacked, genesisVars, dueVars
<1>5. BurnTimely' /\ BurnTracked' /\ BurnBacked'
  BY <1>1, <1>2, <1>3 DEF BurnTimely, BurnTracked, BurnBacked, InWallet,
                          BuybackTypeOK, dueVars
<1> QED BY <1>2, <1>4, <1>5

(* A burn that failed, or is taken for lost, leaves its ATH to a retry.    *)
LEMMA BackToRetryInv ==
    ASSUME BuybackInv, BurnFailed \/ RecoverStuckAthBurn
    PROVE  BuybackInv'
<1> USE DEF BuybackInv
<1>1. /\ phase = "PENDING_ATH_BURN" /\ InWallet /\ FinishPendingCycle
      /\ ath_burn_retry_due' = ath_burn_retry_due + pending_received_ath
      /\ burn'.stage = "none"
      /\ burn' \in [stage : Stages, qid : Nat, amount : Nat]
      /\ UNCHANGED <<genesisVars, reserve_due, route_refund_due, countVars,
                     ton, ath, burnt, arrivals, exchange>>
  <2>1. CASE BurnFailed
    BY <2>1 DEF BurnFailed, Pending, InWallet, NoBurn, Stages
  <2>2. CASE RecoverStuckAthBurn
    <3>1. burn.stage = "none"
      BY <2>2 DEF RecoverStuckAthBurn, BurnTimely, BuybackTypeOK
    <3> QED BY <2>2, <3>1
            DEF RecoverStuckAthBurn, InWallet, BuybackTypeOK, worldVars
  <2> QED BY <2>1, <2>2
<1>2. /\ phase' = "IDLE" /\ phase' \in Phases
      /\ pending_query_id' \in Nat /\ last_terminal_query_id' \in Nat
      /\ pending_route_refund_start' \in Nat /\ pending_received_ath' \in Nat
      /\ age' \in 0..MaxAge
      /\ NextQueryPending' /\ ArrivalsBacked'
  BY <1>1, FinishEnds
<1>3. BuybackTypeOK' /\ TonBacked'
  BY <1>1, <1>2 DEF BuybackTypeOK, TonBacked, genesisVars, countVars
<1>4. BurnTimely' /\ BurnTracked' /\ BurnBacked'
  BY <1>1, <1>2 DEF BurnTimely, BurnTracked, BurnBacked, InWallet,
                    BuybackTypeOK,
                    countVars
<1> QED BY <1>2, <1>3, <1>4

-----------------------------------------------------------------------------
(* Recovery and time.                                                      *)

LEMMA SwapEndsInv ==
    ASSUME BuybackInv, RecoverStonfiRouteRefund \/ RecoverStuckStonfiSwap
    PROVE  BuybackInv'
<1> USE DEF BuybackInv
<1>1. /\ phase = "PENDING_STONFI_SWAP" /\ FinishPendingCycle
      /\ UNCHANGED <<genesisVars, dueVars, countVars, worldVars>>
  BY DEF RecoverStonfiRouteRefund, RecoverStuckStonfiSwap
<1>2. /\ phase' = "IDLE" /\ phase' \in Phases
      /\ pending_query_id' \in Nat /\ last_terminal_query_id' \in Nat
      /\ pending_route_refund_start' \in Nat /\ pending_received_ath' \in Nat
      /\ age' \in 0..MaxAge
      /\ NextQueryPending' /\ ArrivalsBacked'
  BY <1>1, FinishEnds DEF worldVars
<1>3. BuybackTypeOK' /\ TonBacked'
  BY <1>1, <1>2 DEF BuybackTypeOK, TonBacked, genesisVars, dueVars, countVars,
                    worldVars
<1>4. burn.stage = "none"
  BY <1>1 DEF BurnTracked, Pending
<1>5. BurnTimely' /\ BurnTracked' /\ BurnBacked'
  BY <1>1, <1>2, <1>4 DEF BurnTimely, BurnTracked, BurnBacked, BuybackTypeOK,
                          dueVars, countVars, worldVars
<1> QED BY <1>2, <1>3, <1>5

LEMMA RecycleInv ==
    ASSUME BuybackInv, NEW topUp \in 0..1, RecycleRouteRefundReserve(topUp)
    PROVE  BuybackInv'
<1>1. BuybackTypeOK' /\ TonBacked'
  BY DEF RecycleRouteRefundReserve, BuybackInv, BuybackTypeOK, TonBacked,
         genesisVars, cycleVars, countVars
<1> QED BY <1>1, TonOnly DEF RecycleRouteRefundReserve, countVars

LEMMA SweepInv == BuybackInv /\ SweepStuckReserveToTreasury => BuybackInv'
<1> SUFFICES ASSUME BuybackInv, SweepStuckReserveToTreasury
             PROVE  BuybackInv'
  OBVIOUS
<1>1. BuybackTypeOK' /\ TonBacked'
  BY DEF SweepStuckReserveToTreasury, BuybackInv, BuybackTypeOK, TonBacked,
         genesisVars, cycleVars
<1> QED BY <1>1, TonOnly DEF SweepStuckReserveToTreasury

LEMMA TickInv == BuybackInv /\ BuybackTick => BuybackInv'
<1> SUFFICES ASSUME BuybackInv, BuybackTick PROVE BuybackInv'
  OBVIOUS
<1> USE DEF BuybackInv
<1>1. /\ UNCHANGED <<genesisVars, phase, pending_query_id,
                     pending_route_refund_start, pending_received_ath,
                     last_terminal_query_id, dueVars, accepted_reserve_count,
                     burned_ath_total, worldVars>>
      /\ age' \in {age, age + 1}
      /\ burn.stage # "none" => age < BurnTransit
  BY DEF BuybackTick
<1>2. age' \in 0..MaxAge /\ armed' \in 0..(SweepGrace + 1)
  BY MaxAgeIsNat DEF BuybackTick, BuybackTypeOK
<1>3. BuybackTypeOK' /\ TonBacked'
  BY <1>1, <1>2 DEF BuybackTypeOK, TonBacked, genesisVars, dueVars, worldVars
<1>4. NextQueryPending' /\ ArrivalsBacked'
  BY <1>1 DEF NextQueryPending, ArrivalsBacked, Accepts, dueVars, worldVars
<1>5. BurnTimely' /\ BurnTracked' /\ BurnBacked'
  BY <1>1 DEF BurnTimely, BurnTracked, BurnBacked, Pending, InWallet,
              BuybackTypeOK,
              dueVars, worldVars
<1> QED BY <1>3, <1>4, <1>5

-----------------------------------------------------------------------------

LEMMA StutterInv == BuybackInv /\ UNCHANGED buybackVars => BuybackInv'
<1> SUFFICES ASSUME BuybackInv, UNCHANGED buybackVars PROVE BuybackInv'
  OBVIOUS
<1>1. BuybackTypeOK' /\ TonBacked'
  BY DEF BuybackInv, buybackVars, BuybackTypeOK, TonBacked, genesisVars,
         cycleVars,
         dueVars, countVars, worldVars
<1> QED BY <1>1, TonOnly DEF buybackVars, dueVars, countVars, worldVars

LEMMA BuybackNextInv == BuybackInv /\ BuybackNext => BuybackInv'
<1> SUFFICES ASSUME BuybackInv, BuybackNext PROVE BuybackInv'
  OBVIOUS
<1>1. CASE FreezeRoute \/ Seal
  BY <1>1, GenesisInv
<1>2. CASE Cycle
  BY <1>2, ReserveInv, ExecuteInv, RetryAthBurnDueInv, BurnArrivalInv,
     RetryArrivalLaterInv, RefuseArrivalInv DEF Cycle
<1>3. CASE Exchange
  BY <1>3, ExchangePaysInv, TonReturnsInv, PtonTransferBounceInv
     DEF Exchange
<1>4. CASE Burn
  <2>1. CASE WalletBurns \/ WalletRefuses \/ MasterBurns \/ MasterRefuses
    <3>1. burn.stage # "none"
      BY <2>1 DEF WalletBurns, WalletRefuses, MasterBurns, MasterRefuses,
                  Stage
    <3> QED BY <2>1, <3>1, StageInv
  <2> QED BY <1>4, <2>1, LoseRequestInv, BurnFinalizedInv, BackToRetryInv
          DEF Burn
<1>5. CASE Recover
  BY <1>5, SwapEndsInv, BackToRetryInv, RecycleInv, SweepInv DEF Recover
<1>6. CASE BuybackTick
  BY <1>6, TickInv
<1> QED BY <1>1, <1>2, <1>3, <1>4, <1>5, <1>6 DEF BuybackNext

LEMMA BuybackInvariant == BuybackSpec => []BuybackInv
<1>1. BuybackInv /\ [BuybackNext]_buybackVars => BuybackInv'
  BY BuybackNextInv, StutterInv
<1> QED BY <1>1, BuybackInitInv, PTL DEF BuybackSpec

(* Every variable of BuybackBurn keeps its declared type.                  *)
THEOREM BuybackTypes == BuybackSpec => []BuybackTypeOK
<1>1. BuybackInv => BuybackTypeOK
  BY DEF BuybackInv
<1> QED BY <1>1, BuybackInvariant, PTL

(* The TON the books promise is there: reserve_due and                 *)
(* route_refund_due never exceed what BuybackBurn holds, through late  *)
(* refunds, recycling and the sweep.                                       *)
THEOREM ReservesAreBacked == BuybackSpec => []TonBacked
<1>1. BuybackInv => TonBacked
  BY DEF BuybackInv
<1> QED BY <1>1, BuybackInvariant, PTL

(* The ATH BuybackBurn means to burn is in its wallet, so that             *)
(* RecoverStuckAthBurn never promises ATH that was burned already.         *)
THEOREM RetriesAreBacked == BuybackSpec => []BurnBacked
<1>1. BuybackInv => BurnBacked
  BY DEF BuybackInv
<1> QED BY <1>1, BuybackInvariant, PTL

(* What BuybackBurn promises to spend or to burn is there.                 *)
THEOREM BooksAreBacked == BuybackSpec => []BooksBacked
<1>1. BuybackInv => BooksBacked
  BY DEF BuybackInv, BooksBacked
<1> QED BY <1>1, BuybackInvariant, PTL

(* ATHBurnFinalized and ATHBurnFailed find the cycle they are about, and   *)
(* burned_ath_total_atomic is what the master burned.                      *)
THEOREM BurnsAreTracked == BuybackSpec => []BurnTracked
<1>1. BuybackInv => BurnTracked
  BY DEF BuybackInv
<1> QED BY <1>1, BuybackInvariant, PTL

(* Only the end of a cycle records a terminal query id.                    *)
LEMMA TerminalAtEnd ==
    ASSUME BuybackNext, last_terminal_query_id' # last_terminal_query_id
    PROVE  phase' = "IDLE"
<1> USE DEF cycleVars, FinishPendingCycle, ClearPending
<1>1. CASE FreezeRoute \/ Seal \/ BuybackTick
  BY <1>1 DEF FreezeRoute, Seal, BuybackTick
<1>2. CASE Cycle
  BY <1>2 DEF Cycle, AcceptBurnReserve, ExecuteBuybackChunk, RetryAthBurnDue,
              BurnArrival, RetryArrivalLater, RefuseArrival
<1>3. CASE Exchange
  BY <1>3 DEF Exchange, ExchangePays, RouteRefund, PtonTransferBounce,
              UnbookedTon
<1>4. CASE Burn
  BY <1>4 DEF Burn, WalletBurns, WalletRefuses, LoseRequest, MasterBurns,
              MasterRefuses, BurnFinalized, BurnFailed, Stage
<1>5. CASE Recover
  BY <1>5 DEF Recover, RecoverStonfiRouteRefund, RecoverStuckStonfiSwap,
              RecoverStuckAthBurn, RecycleRouteRefundReserve,
              SweepStuckReserveToTreasury
<1> QED BY <1>1, <1>2, <1>3, <1>4, <1>5 DEF BuybackNext

(* A cycle never starts with the query id of a notification still to come, *)
(* so JettonTransferNotification never takes ATH of an earlier swap for    *)
(* that of the pending one.                                                *)
THEOREM CyclesHaveFreshIds == BuybackSpec => FreshCycleIds
<1> DEFINE Fresh == \A n \in arrivals : ~StartsWith(n.qid)
<1>1. BuybackInv /\ BuybackInv' /\ [BuybackNext]_buybackVars
        => [Fresh]_buybackVars
  <2> SUFFICES ASSUME BuybackInv, BuybackInv', BuybackNext, NEW n \in arrivals,
                      StartsWith(n.qid)
               PROVE  FALSE
    BY DEF StartsWith
  <2>1. phase = "IDLE" /\ phase' # "IDLE" /\ pending_query_id' = n.qid
    BY DEF StartsWith
  <2>2. last_terminal_query_id' = last_terminal_query_id
    BY <2>1, TerminalAtEnd
  <2>3. n.qid = last_terminal_query_id + 1
    BY <2>1, <2>2 DEF BuybackInv, NextQueryPending
  <2>4. n.qid <= last_terminal_query_id
    BY <2>1 DEF BuybackInv, ArrivalsBacked, NextQueryPending, AtLeast,
                BuybackTypeOK
  <2> QED BY <2>3, <2>4 DEF BuybackInv, BuybackTypeOK
<1> QED BY <1>1, BuybackInvariant, PTL DEF BuybackSpec, FreshCycleIds

-----------------------------------------------------------------------------
(* Whichever holds the ATH                                                 *)

(* A behaviour of Reserves is one of the FeeVault and one of BuybackBurn,  *)
(* of which one, or both, only stutter.                                    *)
LEMMA EachOnItsOwn == ReservesSpec => Spec /\ BuybackSpec
<1>1. ReservesInit => Init /\ BuybackInit
  BY DEF ReservesInit
<1>2. PayoutsInv /\ [ReservesNext]_reserveVars
         => [Next]_vars /\ [BuybackNext]_buybackVars
  <2>1. CASE UNCHANGED reserveVars
    BY <2>1 DEF reserveVars
  <2>2. ASSUME holder \in {"vault", "seller", "vesting", "buyback"},
               ReservesNext
        PROVE  /\ Next \/ UNCHANGED vars
               /\ BuybackNext \/ UNCHANGED buybackVars
    <3>1. CASE holder = "vault"
      BY <2>2, <3>1 DEF ReservesNext
    <3>2. CASE holder = "seller" \/ holder = "vesting"
      BY <2>2, <3>2 DEF ReservesNext
    <3>3. CASE holder = "buyback"
      BY <2>2, <3>3 DEF ReservesNext
    <3> QED BY <2>2, <3>1, <3>2, <3>3
  <2> QED BY <2>1, <2>2 DEF PayoutsInv
<1> QED BY <1>1, <1>2, PayoutsInvariant, PTL
        DEF ReservesSpec, Spec, BuybackSpec

(* The vault has what it owes, and BuybackBurn what its books promise, in  *)
(* every behaviour of Reserves.                                            *)
THEOREM HoldersAreBacked == ReservesSpec => [](VaultBacked /\ BooksBacked)
BY EachOnItsOwn, VaultIsBacked, BooksAreBacked, PTL

=============================================================================
