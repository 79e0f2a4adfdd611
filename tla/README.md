# Platho: a formal model

Platho is an encrypted messenger without a server of its own.  Two programs make it up:

* **the contracts** (`src/contracts18/contracts/*.tact`, TON/Tact): the ATH token, the
  registry that sells usernames, the vaults that pay for publications, the buyback that burns
  ATH, the moderation of the public space, and the append-only shards that messages are
  written to.  `src/contracts/` is the previous generation of the same contracts.
* **the client** (`src/web/`, JavaScript): one page per browser window that seals messages,
  publishes them to the shards, reads them back, and keeps keys and cursors in IndexedDB.

Both are concurrent in ways their tests hardly reach.  A contract handles one message at a
time, but a user's operation is a chain of messages over several contracts, any of which can
be delayed, reordered, refused (it bounces) or, when an action phase fails, silently lost,
while anybody may send a recovery or a prune.  The client awaits between every read and
write, several windows share one database, and the page may be closed at any point.

This directory holds TLA+ models of the parts where such interleavings decide whether
money, names, standing or keys are kept, TLC configurations that check them on small
instances, and proofs, checked by TLAPS, of the results that matter most for every instance.

## 1. The system

| Component | State it keeps | Operations | Interacts with | What is hard | What makes it correct | Modelled |
|---|---|---|---|---|---|---|
| ATH jetton (`ATHWallet`, `ATHMaster`) | balance, pending outgoing transfers, pending notifications; total supply, genesis flag | transfer (five lanes), notify/ack/refund, recover stuck transfer, prune notification, burn, genesis credit | every contract that holds ATH, by messages | bounces, lost messages, recovery by anybody after a grace, reused query ids | no ATH created or lost, every answer finds the entry it is for, every debit settles | yes |
| Username purchase (`UsernameRegistry`, `UsernameNFTItem`) | mint sequence, pending mints, amounts due, pending flushes; owner and nonce of each item | pay, mint, initialise item, acknowledge, resend, refund, flush to treasury and to burn | its ATH wallet, the items, treasury, master | late or repeated acknowledgements, mints refunded and repeated, flush answers in any order | a name is paid for once, other payments go back, what is owed is held | mostly |
| `FeeVault` | stake, pending unstake, exit debt, fees accrued | deposit, unstake, unjam, emergency exit, publish, flush | its ATH wallet, the owner, shards, `FeeSink` | an exit racing a deposit's notification, answers to unstakes given up | the discount is backed by ATH held; fees of what landed are paid | mostly |
| `BuybackBurn` | phase and id of the cycle, reserve, refund and retry amounts | swap, burn, retry, three recoveries, recycle, sweep | StonFi, its ATH wallet, master, treasury | an exchange that pays late or never, a burn recovered while under way | promised TON and ATH are held, answers meet their cycle, every cycle ends | mostly |
| `ModerationLedger` | roots, their proposals, moderators, quotas | propose, approve (second, enact), verdicts | gate, shards | approvals that arrive late for a proposal replaced or a root replaced | three roots name what is enacted; the council keeps its size; quotas hold | mostly |
| `ModerationGate` | the ledger it obeys, the one offered | forward, handover | ledger, shards | verdicts of the old ledger during a handover | only the current ledger is obeyed | forwarding |
| `SanctionShard` | warnings, restriction, its date and cause | warn, restrict and their reversals, retire | gate | automatic and manual restrictions overlap and expire | restricted exactly while a cause stands | yes |
| `ReportShard` | rows of counted reports | report, review, retire | gate, users | a review racing a report | nothing is promised about a report that comes just before its review | no |
| `PublicShard` | entries, index of hidden entries, beacons, reactions in one map | publish, hide, react | vaults, gate | dense index and inverse kept by swaps, packed counters, beacons rewritten | index and inverse agree; verdicts alone hide and show | yes |
| `IntroShard`, `RecordShard`, `RecoveryShard` | sequence number, epoch | append, retire | vaults | epochs ending while writes are on the way | append only | no |
| `ProfileRegistry`, `KeyShard` | pending avatar writes, due amounts; identity keys | avatar payment, shard write, flush, prune, adoption from the old generation | ATH wallet, shards | prune racing a late acknowledgement, proofs that arrive late | what a shard shows is paid for and never gets older; payments are decided | mostly |
| `MarketStabilitySeller` | tranches sold, reserve, TON due, one pending sale | fund, buy, flush | ATH wallet, treasury | no timeout for the answer, rounded prices | a sale is counted exactly when delivered, at the price of its tranche | mostly |
| `ATHVesting` | claimed ATH, one pending claim | claim | ATH wallet | answers periods later, or never | never more than vested, counted exactly when delivered | yes |
| Conversation keys (`conv-key-store.mjs`, `conv-key-persist.mjs`) | roots and sequence numbers in memory of each window, one sealed record on disk | adopt, claim a number, import, save, merge, reload | introduction lane, conversation lane, recovery | overlapping calls, several windows, failed writes, reload in the middle | no number used twice, nothing rolled back, nothing said to be saved that is not | mostly |
| Introduction lane (`intro-scan-runner.mjs`, `intro-receive*.mjs`, `intro-cursor-store.mjs`) | cursors, ledger of deliveries, entries no build could open | scan passes, deliveries, retries | shard reader, keys, replay guard | a crash between two saves, failing reads, several builds | no cursor passes an introduction that is not kept; every one arrives | mostly |
| Replay guard (`replay-store.mjs`) | nonces in a base and parts | add, fold, reload | introduction lane | two tabs fold at once, failed writes | a nonce added stays | mostly |
| Wallet sends (`platho-wallet.mjs`) | floor of the sequence number, pending externals, the send in the lane | resolve a number, sign, broadcast, wait, sign again | RPC endpoints, the wallet contract | answers that lag, clocks that err, broadcasts of unknown fate, other signers | nothing runs twice, nothing is dropped without a trace | mostly |
| Groups (`group-store.mjs`, `group-runtime.mjs`) | roster, keys and log of a room on every device, pending control writes | admit, remove, read and fold lanes, settle, take back, remove again | lanes of the admins, `app.js` | writes of two admins cross, a write during a pass, rows read in different passes, lanes read one after another | every device comes to one key that keeps out whoever was removed with it; no write is lost or undone | control rows |
| Conversation lane, public lane, local storage | see the sources in `PROJECT.json` | | | sends and reads over the above | | no |
| RPC, swaps, page, service worker | | network, encoding, rendering | | | | no |

`PROJECT.json` lists every component with its sources and what of it is left out, the
hazards at the line where they bite, and for every definition of a model the lines it
translates.

## 2. The modules

| Module | Models | Uses |
|---|---|---|
| `ATHLedger` | what the token promises: payments through escrow, one supply | |
| `ATHToken` | every wallet, the master, the messages between them | refines `ATHLedger` |
| `ATHTokenProofs` | theorems about it, the refinement among them | `ATHToken`, `Sums` |
| `Sums` | lemmas about sums over finite sets, division and digits | |
| `UsernameMint` | registry, items, the registry's wallet | relies on what `ATHLedger` states for its transfers |
| `UsernameMintProofs` | theorems about it | `UsernameMint`, `Sums` |
| `FeeVault` | a vault and its wallet | |
| `BuybackBurn` | the buyback, the exchange, the burn | |
| `AthPayout` | a contract that pays ATH out of its own wallet, one transfer at a time | |
| `MarketStabilitySeller`, `ATHVesting` | the sale of the reserve, the vesting | `AthPayout` |
| `Reserves` | the four holders of ATH in one specification, one per behaviour | `FeeVault`, `BuybackBurn`, `MarketStabilitySeller`, `ATHVesting` |
| `ReservesProofs` | theorems about the four, a part for each | `Reserves`, `Sums` |
| `ModerationCouncil` | the council of the ledger | |
| `VerdictQuota` | a moderator's quota | |
| `SanctionShard` | a wallet's standing | |
| `PublicShard` | a shard of public entries: hidden index, beacons, reactions | |
| `Verdicts` | the relay of verdicts by ledger and gate, and the shards | `SanctionShard`, `PublicShard`, `VerdictQuota` |
| `ModerationLedger` | both halves of the ledger in one specification | `ModerationCouncil`, `Verdicts` |
| `ModerationProofs` | theorems about the council, the quota, a wallet's standing and a shard of entries | `ModerationLedger`, `Sums` |
| `KeyShard` | a wallet's keys and avatar, in two generations | |
| `ProfileAvatars` | avatars paid for: registry, its wallet, the shards | `KeyShard` |
| `ProfileProofs` | theorems about it | `ProfileAvatars`, `Sums` |
| `ConvKeys` | the conversation keys of a device | |
| `ReplayGuard` | the nonces of introductions in a database of several windows | |
| `IntroLane`, `IntroLaneProofs` | reading introductions: passes, receiver, keys, guard; theorems about it and the guard | `ReplayGuard` |
| `WalletSend` | a window's sends and the wallet contract | |
| `GroupRoom` | the control rows of a private room, on the chain and on the devices of its admins | |
| `DeviceProofs` | theorems about the three parts of a device: its keys, its sends, its rooms | `ConvKeys`, `WalletSend`, `GroupRoom`, `Sums` |
| `MC_*` | sets, symmetries and scenes of the instances TLC checks | |

Definitions whose comment begins with "mutant:" are plausible bugs of the definition after
them.  No specification uses them; each is there because some property of a run fails when
it takes that definition's place, which shows that the property depends on the code.

Conventions.  A contract is named by its owner or its name, for addresses are derived from
these: `sender() == derive(x)` becomes the field `src = x` of the message.  Hashes are
injective.  TON enters only as what it decides: a handler may run out of gas (its message
bounces), an action phase may fail (the message vanishes, where the code's reserves do not
exclude it), and in `BuybackBurn` and `FeeVault` the amounts the contract books.  Network and
time are bounded by `MaxTransit`, which the contracts' graces, hours to days, exceed by far; the
assumption each model needs of it is named in its `ASSUME`.

### ATHToken

`balance`, `pending_outgoing_transfers` and `pending_notifications` are the maps of all the
wallets together; `total_supply` and `treasury_supply_deployed` the master's fields; `net` the
messages between wallets and owners; `burning`, `unburning` and `genesisCredit` the burns, their
bounces and the credit in flight.  `TransferRequest` is the owner's request in any of the five
lanes (which differ in whether they notify the recipient's owner, and in how long its answer may
take); `InternalTransfer` and `InternalTransferWithNotify` the recipient wallet; `RefuseTransfer`
a guard or an exhausted handler; `RestoreBouncedOutgoing`, `TransferAck`, `RecoverStuckOutgoing`
the three ends of a debit; `NotificationAck`, `NotificationRefund`, `NotificationRefused`,
`RefundBouncedNotification` and `PruneStaleNotification` the answers of the notified owner; `Burn`
to `BouncedBurn` the burns; `LoseTransfer` and `LoseBurn` what a failing action phase does.

`ATHLedger` is the abstract token: a payment moves from the payer into escrow in one step and in
one later step to the payee or back.  `ATHToken` refines it with `Escrow` as the debits
whose acknowledgement is not yet on its way.

### UsernameMint

`mint_seq`, `pending_mints`, `due` and `pending_flushes` are the registry's; `item` the NFT items;
`balance`, `pending_notifications` and `transfers` its official wallet; `settled` what reached the
treasury or was burned.  `Pay` is a user's notified transfer; `AcceptUsernameMint` or
`RefuseUsernameMint` the registry's handler; `InitializeUsernameItem` the item's; `ItemDeployedAck`
(with a nonce), `StaleDeployedAck`, `BouncedInitialize` and `ResendDeployedAck` the outcomes;
`FlushDue` and the actions after it the flush of a due amount through its request, its transfer or
burn, its acknowledgement or its failure.  A transfer of the official wallet is an entry that
is credited once or taken back: what `ATHToken` is shown to guarantee.

### FeeVault

`staked`, `pending`, `pending_at`, `unstake_seq`, `exited`, `exited_at` and `accrued_fee` are the
vault's fields; `balance` and `outgoing` its wallet's.  `toWallet` and `toVault` are queues: TON
keeps the order of messages from one contract to another, and the vault relies on it (see 5).
`EmergencyExit` takes ATH without waiting for the wallet and books what a deposit's notification
still to come may claim, which `JettonTransferNotification` absorbs within `AbsorbWindow`.

### BuybackBurn

The three-phase cycle, with the exchange as an actor that may pay late, in several pieces, refund,
bounce or stay silent, the burn as a little machine of its own (`burn.stage`), and the requests
that anybody may send after a grace.  Clocks are ages that stop at the longest grace, so that time
needs no bound.

### AthPayout, MarketStabilitySeller, ATHVesting, Reserves

`payout` is the transfer a contract waits for (`pending_*` and the phase), `held` the ATH of its
wallet, `mail` the messages between the two and the recipient's wallet, `moving` the transfers that
may still come back.  `MarketStabilitySeller` adds the tranches, the reserve and the TON due
(`Fund`, `Buy`, `FlushTreasury`), `ATHVesting` the schedule (`Claim`).  The two have no timeout:
only an acknowledgement, a bounce or a failure ends the pending phase.  `Reserves` puts them beside
the vault and the buyback; the rigid variable `holder` says which of the four a behaviour is about, and `emergency`
and `lossless` whether a vault is emptied by force and whether acknowledgements get lost.

### ModerationCouncil, VerdictQuota, SanctionShard, PublicShard, Verdicts, ModerationLedger

`ModerationCouncil` is the ledger's council: `proposals` per root, `named` (history) who named the
contents of each open proposal while a root, `enacted` (history) what the last step enacted and who
had named it.  `VerdictQuota` is the entry of one moderator in thousandths of a verdict;
`SanctionShard` the shard of a wallet; `PublicShard` a shard of entries, whose one map
(`beacon_slot`) holds the beacons, the index of hidden entries with its inverse, and counters of
reactions packed several to a number.  `Verdicts` composes them: a verdict takes from the quota at
the ledger, passes the gate in order, and is obeyed or refused by the shard, which may meanwhile
have expired or been retired.  The rigid variable `about` says whether a behaviour judges the wallet,
with the quota of one moderator, or the entries, with verdicts of as many moderators as it takes.
`ModerationLedger` puts council and verdicts side by side, told apart by the rigid variable `half`: in the
contract the one reads no state of the other but the seat and quota of a moderator, which `SeatAgain` changes.

### KeyShard, ProfileAvatars

`pending_avatar_writes`, `due` and `pending_flushes` are the registry's; `balance`, `notifications` and
`leaving` its wallet's; `shard` the KeyShard of each user and `old` the one of the generation before;
`applied` and `abandoned` (history) what became of each write.  A payment is notified, written to the
shard, acknowledged, or given up after `StaleTTL` by anybody (`PruneStaleAvatarWrite`) and refunded.
`proofs` are copies of what the old shard held, which arrive in any order (`AdoptIdentity`).

### ConvKeys

`disk` is the sealed record of a conversation, `mem` the copy of each store (window), `dirty` its flag,
`calls` the calls that wait for the lock, `writing` what is being written under it, `claims`
(history) the numbers handed out.  A call changes `mem` at once (`Upsert`, `NextOutgoingSeq`,
`ImportConversations`, `Save`), then waits for `Merge` (disk read and merged with whatever the
memory holds by then) and `Write` (disk written, memory replaced by the result, call returned).
`Fail` is a read or write that throws; `Reload` closes and reopens the window at any point.

### ReplayGuard, IntroLane

The chain is a list of entries per shard; `cursors`, `ledger` and `keys` are on disk, one sealed record
each, `folded` and `parts` the replay guard's.  `pass` is where the pass of a window stands: it loads
(`Load`), reads states and pages, hands entries to the receiver (`Hand`, `Receive`), which adopts the
root (`WriteKeys`), shows the contact (`Show`) and records the nonce (`Flush`), tries again what
another build marked (`Take`), and saves cursors and then the ledger.  Every step may fail;
`Reload` closes a window, perhaps for a newer build, between any two.

### WalletSend

`log` is what the wallet contract ran, `net` the externals a node may have, `floor` and `pending` the
window's memory of what it broadcast, `pc` and `call` the send in the lane, `free`, `open` and `unproved`
what the app knows of its messages.  A send resolves a number (`Resolve`, `CaughtUp`,
`PendingExpired`), signs, broadcasts with one of three outcomes, waits until the number is taken or the
external dead, settles whose external it was, and signs again at most once.  Answers of an
endpoint may be `Lag` old and clocks ahead by `Tolerance`.

### GroupRoom

`record` is what the device of an admin holds of the room (`members`, the `epochs` of the key, the
control log `log`, the `pending` writes), `marks` the rows of the lanes in the state in which it last marked them read (the state of
the probe, as in the code, so that a lane that grew between its probe and its read is read again),
`chain` the rows that landed in the order of their stamps and `flying` those that were sent. `Admit` and
`RemoveMember` are the operations of the page (`api.admit`, `api.remove`), which write a row, believe it
at once (`notePendingControl`) and, when reading is cut, adopt a new key with no stamp yet
(`Speculative`). A pass has two halves. Without the lock, `Probe` asks for the states of all lanes it wants
(`Asked`) at once, any of which may fail, and `ReadLane` then reads those that had changed, whole and one after
another; rows land before, between and after these reads. `Fold` does under the lock all of `walkRoom` and
`finishRoom`: rows applied in order (`ApplyGroupRows`), rival keys decided (`Adopt`), what was written
meanwhile kept (`KeepWrites`, but for one that a row stamped later outranks), own writes settled or taken back (`Settled`, `Reverted`, `RevertControl`),
removals that lost made again (`LostRekeys`, `RemoveAgain`). Anybody may write while a pass is under way.
`Restart` loads the page again: a pass under way is dropped, the record is on disk.

Abstractions: a row's name is its place among all rows written and its stamp its place on the chain; a
key has the name of the row that carries it; the rows of one admin land in the order they were sent (a wallet
sends one at a time). A row not on the chain when its ten minutes are over never will be; the
week after which a write is given up passes only for a write whose lane is beyond reach.  The rigid
set of wishes in `scene`, with bounds on losses, failures and restarts, bounds a behaviour.

## 3. What the runs show

Several runs hold behaviours of more than one kind, told apart by a variable that never changes: so each
question keeps an instance small enough for it, and one run answers the questions of one component.

| Run | Instance | Properties | Distinct states |
|---|---|---|---|
| `token_payments` | two owners; either two coins in plain transfers of which any may vanish, or the whole supply at once in every lane and nothing lost (`lossless`) | `TransfersTracked`, `TimeoutsAreLate`, `SupplyKept`, `ImplementsLedger`, `Settled` | 234 thousand |
| `mints` | two users, two names of price 3, each purse enough for one; either wrong amounts and query ids reused at once, or both shares flushed, or the burn flushed and acknowledgements of items lost (`scene`) | `OneAnswer`, `Solvent`, `PaymentsAccounted`, `MintOutcome`, `EachDecided` | 500 thousand |
| `reserves` | a vault with two coins, exits and three units of fees; a buyback of two envelopes, three query ids, two coins per swap; a reserve of two tranches of two; a vesting of three periods (`holder`) | `VaultBacked`, `PayoutsExact`, `PricedByTranche`, `BooksBacked`, `PayoutsEnd`, `CyclesEnd` | 1.4 million |
| `ledger_halves` | three roots and a fourth wallet, one moderator, expiring proposals; a wallet with a quota of two a day of five instants, or a shard of up to three entries and four reactions, two verdicts in flight (`half`, `about`) | `ThreeRoots`, `CouncilKept`, `RestrictedForCause`, `QuotaHolds`, `SlotsExact`, `SinceKept`, `HiddenByVerdict` | 1.3 million |
| `avatars` | one wallet: two payments at once, or one after another with flushes, or one with keys and avatars of both generations (`scene`) | `AvatarsPaid`, `NeverOlder`, `WritesDecided` | 742 thousand |
| `conv_windows` | two windows, two introductions with copies, a backup, two calls in flight | `SeqOnce`, `CleanIsSaved`, `NeverRolledBack` | 914 thousand |
| `conv_overlap` | one window, two introductions | `AdoptedKept`: **violated**, see 6 | |
| `intro_lane` | one shard, two entries; one window with three faults and an update, or two windows with one fault | `NothingPassedOver`, `NoncesKept`, `ContactsArrive` | 1.2 million |
| `wallet_send` | two messages, sent one by one or together, with and without a deadline of their own, three numbers, five instants | `AtMostOnce`, `UnsentNeverRuns`, `Accounted` | 5.6 million |
| `group_crossings` | two admins, three people, eight scenes of two or three writes that cross, with up to one lost broadcast, one failing read and two restarts | `EarliestKey`, `RoomAgrees`, `LandedStands`, `WritesKept`, `ControlDecided` | 877 thousand |
| `group_returns` | admitted by one, removed by the other, and the first writes again; no faults | `RemovedStayOut`: **violated**, see 6 | |
| `group_settled_first` | two removals that cut reading, the second after another row of its admin; no faults | `CutOff`: **violated**, see 6 | |

Why these bounds are enough to be interesting:

* Token: two owners suffice for a payment and its answer to cross, one query id is reused in
  every behaviour, and two messages in flight let a refund meet a bounce; time runs past both graces,
  so recoveries and prunes happen with answers as late as `MaxTransit` allows.  Moving the whole supply at once
  keeps all interleavings of one payment, its refund and its answers.
* Mint: two users and two names give a name contested, refunded and sold to another with the answers
  of the first mint still around; the odd price makes the halves round.  Both shares are flushed under one
  query id, so that a reused id meets its first flush.
* Reserves: `AbsorbWindow` is exactly twice the transit bound and `UnjamGrace` as long, the tightest
  the assumption allows; two sequence numbers let an answer be late by a request.  Two tranches with
  different prices, sold in pieces, round each way; a claim may cross one period or two, and a
  vesting that holds less than it owes has claims refused.  Four payouts give two answers a chance to be late.
* Buyback (in `reserves`): the graces are one step long and a swap may pay in both of two pieces, so that a late
  payment can meet either of two later cycles.
* Groups: three admissions and removals are the fewest with which a loser removes again while another row
  comes between; a key that lost is written under only if a third write follows.  Lanes of one pass are read in every
  order, with every row landing before, between or after them.  One scene has an admin remove somebody during a pass that then
  reads a later admission of theirs, the one case in which such a write does not stand (`outranked`).  Where two writes cross a broadcast may be lost, a
  read fail and a page be loaded again in one behaviour; three writes at once leave room for fewer faults.
* Council: replacing a root needs a wallet outside; four wallets let two roots be replaced while the
  third's proposal waits.
* Verdicts: two warnings restrict; a retention of two instants expires between verdicts in
  flight; the refill, 6 thirds in 5 instants, is whole only after a full day.  Three entries are the fewest in which
  taking one out of the index moves another that is not the last; counters hold two and overflow at the third; of the kinds
  of shards a thread is left out, being a channel with more writers.
* Avatars: the second payment meets the late answer of the first; two proofs overtake each other while keys and
  avatars change in both generations.
* Introductions: two entries give one behind another in the same shard, one of which only a later build opens; three faults
  stop a pass at any two of its saves and make one retry fail too.
* Wallet: a message, its second signing and another signer's external compete for one number; five instants are
  time enough for an external to die, grace included, twice.
* Keys: two windows can each hold what the other lacks; `MaxReadRoots` 1 makes lists overflow; the copy
  of an introduction with a later time exercises the correction of times and the backup.

Symmetry is used where the permuted values occur nowhere as constants of a formula (users of the
mint, the first roots, the windows of the keys, the messages), and never in a run with a liveness property.

Deadlock is not checked: in each model the clock or a counter is bounded, and the system stops at the
bound.

## 4. Liveness and fairness

* `Settled` assumes, where nothing is lost, that the next message of each payment is delivered or bounced eventually
  (TON guarantees delivery or a bounce).  Nobody is assumed to recover anything.
* `EachDecided` assumes delivery likewise, and that somebody resends a lost
  acknowledgement: `ResendDeployedAck` is open to anybody and the payer gains by it.  The
  fairness of its arrival is strong: the acknowledgement may be lost any number of times, but not for ever.
* `PayoutsEnd` assumes that messages are handled and transfers arrive or come back, and that no
  acknowledgement is lost.  With one lost, a sale or a claim stays open for ever: the code has no timeout for it.
* `WritesDecided` assumes delivery, and that somebody gives up a write that was refused without enough value for its
  refund (`PruneStaleAvatarWrite` is open to anybody; the payer gains by it).
* `CyclesEnd` assumes that time passes, that wallet and master answer, and that somebody sends
  the two recoveries once they are due; of the exchange it assumes nothing.
* `ControlDecided` assumes that each broadcast is decided, and that every pass ends and another begins: the
  page's timer starts them as long as it is open.
* `ContactsArrive` assumes that windows go on with their passes, that the last build opens what was published,
  and that failures end (a bound on faults); a reload may interrupt anything.

## 5. What is proved

Seven modules of theorems, and one of lemmas they share, checked by TLAPS without open obligations, for every
value of the constants that meets the named assumptions.  The bounds of a model (on time, messages,
calls, faults) are constants too, so what is proved does not depend on how small an instance is.

**Sums** (`Sums`).  Balances, dues and prices are added up over finite sets, with the folds of the community modules.
The induction principles of the library take a predicate as parameter, which no backend can instantiate; `LeastNumber`, `CountUp` and
`SubsetsUp` state them of sets instead, from well-foundedness, and give the one recursion that all else follows from:
any term can be taken out of a sum.  The same induction gives the powers of a number, and with them `DigitAdded`:
adding one to a digit that is not the last there is changes no other digit.

**Token** (`ATHTokenProofs`; from `TokenAssumption` and `GraceAssumption`, that two transits fit into
each grace).  `TransfersTracked` is not inductive: that a bounce finds its entry depends on the entry
not having been recovered, which depends on how old it is.  `TokenInv` therefore adds the ages: a
message is never older than `MaxTransit`, a transfer left when its entry was made, and its answer
within one transit of that.  The proof speaks of an entry set and a traffic set in the abstract
(`Ordered`) and has one lemma per way in which these change (a debit, an answer, a settlement, a
recovery, a loss), and one per action.  From it: `TransfersAreTracked`, and `RecoveryIsLate`, which proves `TimeoutsAreLate`.

`ImplementsTheLedger`, in the same module: every step of the wallets is a
step of `ATHLedger` or leaves it unchanged.  The escrow is a set of payments, so the point of the proof
is that an entry and its payment determine each other (from `TransfersTracked`) and that a credit
removes exactly one of them.  `SupplyIsKept` follows along the refinement: each step of the ledger moves
an amount between two of balances, escrow, burns and what vanished, and the sums over them change by that amount.

**Mint** (`UsernameMintProofs`; from `MintAssumption`).  Five invariants, proved one after another.
* `AnswerInv`, from which `OneAnswer` follows: at most one initialization of a mint, or its bounce, is in flight, exactly when its
  item is not its own; a nonce is below `mint_seq`, so that a late acknowledgement of an earlier mint of the
  name is never taken for this one's.  `MintsAreSettled` (`MintOutcome`) needs it to know which of the two ways a mint leaves by.
* `Solvent` is proved over books: every message, mint and transfer is worth an amount, and `Owed` is the sum of what they are
  worth.  A step that moves an amount from one book to the other is one lemma; a handler is one of
  these moves, once what it consumes is known to be in the books and what it makes known not to be.
* `FlushInv`: query ids of pending flushes differ, each message or debit of a flush belongs to one, and each flush has one
  message or one debit, of its amount.  Cardinalities enter only at the end (`FlushesAreTracked`).
* `PaidInv`: the names minted are finitely many - of a set of names that need not be - and the price of what was booked is
  theirs (`MintsArePaidOnce`).  Only the deployment that is acknowledged first adds a name, and it books its price.
* `NoteInv`, where no query id is reused whose refund is under way and no acknowledgement is lost (`Careful`): a payment still
  to be decided, minted or refunded has its notification in the wallet and there is one of
  these only.  So a refund finds what it refunds and, the wallet being solvent, is paid (`RefundsAreFound`).
`PaymentsAreAccounted` puts the last three together.

**Vault** (`ReservesProofs`; from `VaultAssumption` and `WindowAssumption`, that two transits fit into the absorption window).
`VaultInv` counts what the vault has staked, what it will have when the outcome of its request returns, the deposits
announced and the ATH its requests will take, with sums along the two queues.  `StakeInv` says that the wallet has all of it,
unless an emergency exit took it; then (`ShortByExit`) nothing is staked or pending, what is missing is no more than the exit
debt that deposits are absorbed against, no request is newer than the exit, and the deposits announced more than a transit
after it are in the wallet, for what the exit asked for has left it by then; those announced before arrive while the window
is open, and the debt absorbs them.
It rests on the age of messages (`Timely`), on requests being numbered along the queue (`Numbered`), and on what lies behind the refusal
of the latest request (`BehindRefusal`): only deposits whose ATH is in the wallet.  `ExactInv`
is for the vault that is never emptied by force: one request at most has its outcome open, at one of four
places, and the books balance to the unit.  `VaultIsBacked` follows.

**Seller and vesting** (`ReservesProofs`; from `SellerAssumption`, `VestingAssumption` and `PayoutAssumption`).  `TransferInv` follows the one transfer that is waited for:
it is on its way at one place, or it is there and at most its acknowledgement is under way; what arrived before
has a smaller id.  Hence what arrived and is not counted yet is the pending amount or nothing.  `SellerInv`
adds the tranche that is sold from, and that a pending sale has its price and fits into it; `VestingInv`, that what is claimed and pending has
been unlocked.  The price of what was sold is a sum over its units, of which a sale adds as many terms as it has, all of one
tranche (`UnitsOfSale`), and each sale rounds up by less than one unit of the currency (`PriceOfSale`).  `PayoutsAreExact`
and `SalesArePriced` follow.

**Buyback** (`ReservesProofs`; from `BuybackAssumption` and `BurnTransitAssumption`, that a
burn is answered within its grace).  `BuybackInv` adds that the pending id is the next after the last that ended, that every
notification under way has an id already used, that the one that would be accepted is in the wallet,
and that a burn is younger than its transit.  `TonBacked` and `BurnBacked`, together `BooksBacked`, follow (`BooksAreBacked`); so do `BurnTracked` and the
action property `FreshCycleIds`, which are proved only.  A behaviour of `Reserves` is one of the vault and one of the buyback, so both hold
there (`HoldersAreBacked`).

**Council** (`ModerationProofs`): `OpenValid`, that each open proposal is still valid and its
proposer and seconder are roots that named its contents, is what makes late approvals harmless; the
code keeps it by closing every proposal when the council changes (`CloseAll`).  From it three
distinct roots are counted with a lemma about sets of three elements.

**Standing** (`ModerationProofs`; from `SanctionAssumption`): `RestrictedForCause` needs `AutoUnlessManual`, that a restriction counts as
automatic exactly when no moderator's decision stands behind it (`RestrictionsHaveCause`).  To its wallet a case is a behaviour of
`SanctionShard`, whatever is relayed, refused or about entries (`CaseIsStanding`); so this holds of the ledger (`CasesHaveCause`), and
so does the action property `SinceKept` (`SinceIsKept`).

**Entries** (`ModerationProofs`; from `PublicAssumption`): `PublicInv` has a part for each content of the one map.  `IndexInv`: the
places below `hidden_count` and the hidden entries point at each other, both ways; showing an entry moves the last one into its
place, which is the same entry or another, and the two cases need each other's direction.  `BeaconInv`: the entry of a beacon is its
publisher's.  `ReactionInv`: each counter in a packed number is the digit that its reactions make, up to the limit; one reaction more changes
that digit and no other, for a digit at the limit is left alone (`CountedOnce`).  A step changes keys of one kind, and leaves the other parts
by `IndexFrame`, `BeaconFrame` and `ReactionFrame`.  From it `SlotsAreExact` (`SlotsExact`) and, since a new entry is never one
that exists and a beacon is rewritten in place, the action property `HiddenOnlyByVerdict` (`HiddenByVerdict`).

**Quota** (`ModerationProofs`; from `VerdictsAssumption`): `QuotaHolds` speaks of every moment at once, and so does `QuotaInv`: for each moment since
the moderator was seated, the verdicts given since fit in what is used now and what refilled up to the last verdict.  A verdict refills by an
integer division of the time since the one before; `FloorAdds`, that parts rounded down are together no more than the whole
rounded down, is why many small refills gain nothing.

**Avatars** (`ProfileProofs`; from `StaleAssumption`, that a write and its answer arrive before it may be given up).  `WritesTracked`: a write has one
message on its way at most, the call, its bounce or its acknowledgement; a pending write that a shard applied has its acknowledgement
under way; and one whose call is still under way is younger than a transit, one whose answer is, younger than two.  So
`PruneStaleAvatarWrite` meets no write that was or will be applied (`AppliedIsPaid`).  `IdsUsed` keeps ids apart - a write's id is below
`write_seq`, and those of messages and history are ids of writes made - and `FlushesMatch` gives each flush one message or transfer.  `PaymentsCovered`, that
the registry's wallet holds what the registry owes, is proved with sums over the writes and flushes: each handler moves an amount
from one of them to another, or takes it from the wallet and from what is owed.  Both together are `AvatarsPaid`
(`AvatarsArePaid`).  The action property `NeverOlder` (`NeverShowsOlder`) needs of the invariant that no date of a shard is in the future.

**Conversation keys** (`DeviceProofs`; from `ConvKeysAssumption`).  `LockHeld` says what the lock is for: one store writes at a time,
what it writes is at least as new as the disk, and a number it claims is larger.  With `ClaimsOnDisk`, that no claim exceeds the
disk's number, this gives `ClaimedOnce` (`SeqOnce`), `SavedWhenClean` (`CleanIsSaved`) and the action property `DiskMovesForward` (`NeverRolledBack`).

**Introduction lane and replay guard** (`IntroLaneProofs`; from `IntroLaneAssumption`).  `GuardInv`: one window folds at a time, the parts it
read are still those there, and it has seen all that it will write; so a fold drops nothing
(`NoncesAreKept`).  `LaneInv` adds, for the disk, that cursors are past introductions that are kept, or that the first build does not open, only; that
a nonce is recorded only after its key is on disk; and, for each window at each step of its pass, what it still owes for the entries between the
cursors it began with and those it will save.  Entries, keys and chains only grow, which one lemma (`PassGrows`) turns into:
a step of one window keeps what the others rely on.  For the marks of a wallet with one window there is a second invariant over it,
`MarkInv`: while the ledger was not lost (`~lapsed`) a pass began with the cursors and the ledger on disk, has lost nothing of either
(`Continues`), and all behind the cursors is done or marked in the ledger on disk or, between the two saves, in the one about to be
saved.  A step in the middle of a pass `CarriesOn`; the saves have a lemma each.  From both `NothingIsPassedOver`, whose three parts say: what
the first build of the windows opens is never behind a saved cursor without its key on disk (`KeysKept`, whatever fails); a pass has in its ledger
all it moves past (`PassAccounts`); and the marks of one window stay behind its cursors (`MarksKept`), unless a load or save of the ledger
failed or the page was loaded again between the two saves.  The exceptions are the code's, not the proof's: TLC refutes `MarksKept` without
either of them (section 6).

**Wallet** (`DeviceProofs`; from `WalletAssumption` and `GraceAssumption`, that the error of the clock and
the age of an answer together stay within the grace).  `SendInv` has four parts: types; `Chain`, what the contract ran and what nodes
may still give it; `Shape`, what the send in the lane holds at each of its steps; and `Carried`, that no two
externals that ran, may run or are watched carry one message.  The heart is that an external is signed again only when it is dead: its
deadline plus the grace has passed on a clock that errs, so it has passed on the chain's, and an answer as
old as `Lag` that does not show it shows that it never will be.  Every action is one of three kinds - it
keeps what is alive, raises one external, or drops some - with one lemma each.  From it: `AtMostOnce`,
`UnsentNeverRuns` and `Accounted`.

**Rooms** (`DeviceProofs`; from `GroupRoomAssumption`).  `RoomInv` speaks of each device relative to what has been written and what
has landed.  Both only grow, and nothing written or landed is changed (`RecordKept`, `DeviceKept`); so a step of one device keeps what the others rely on,
and the proof is about one device at a time.  `RecordInv`: what a device holds pending is its own and not in its log; a key it holds
with a stamp is that of a row in its log with this stamp; and of the rows in
its log that claim a generation it holds the earliest (`EarliestOf`), which makes `EarliestKey` inductive (`EarliestKeyHeld`).
`PassOK` is about a pass from `Probe` to `Fold`: what was overdue at the probe is not in flight any more, and if it had landed and its
lane answered it was read, is still to be read, or was marked before (`OverdueRead`); what was probed and read has landed; and of the writes
made since the probe the last about a person is what the record says of them (`SaidDuring`).  Marks are of rows in the log.  Reading a lane only adds to what was read.  From it `LandedWritesStand`: the rows a pass takes for lost are not on the chain.
`WritesDuringKept` follows the last write about a person through `Fold`: rows applied, rivals adopted, writes of meanwhile
applied again, and removals repeated; `RemoveAgain` is a recursive function on sets, of which only what it keeps is needed, by
the induction of `SubsetsUp`.
`RoomComesToAgree` (`RoomAgrees`) compares devices, from a second invariant over `RoomInv`, again about one device at a time.  `KeyInv`: every row
with a key is wrapped for all admins and not for the one it removes, and names the key of the generation it was written in (`RowsFit`); and each
generation a device holds, after the first, it has from such a row, in its log or, without a stamp, still pending (`KeysFrom`).
When nothing is pending and nothing left to read, each device has read every row with a key that is as new
as the generation it stands at (`QuietKeys`).  So none stands at an older generation than another,
and of the rows that claim the newest each holds the one that came first on the chain (`KeysSettle`): that is `KeysAgree`.  The keys of
a device are then a chain in which each row was written under the key before (`KeysLinked`), so that a path by which somebody reads the current key
passes every key from the one they were last admitted with; at the one that removed them it was not wrapped for them (`VictimsCut`): that
is `WinnersCut`.

Only model-checked: every liveness property (`Settled`, `EachDecided`, `PayoutsEnd`, `CyclesEnd`, `WritesDecided`, `ContactsArrive`, `ControlDecided`),
for liveness under fairness and `ENABLED` are beyond the prover.
That the devices of a room come to one roster is neither checked nor proved: the code does not promise it for any
wishes of any admins (`group_returns` refutes it), nor that every removal in the end cuts reading (`group_settled_first`).

Assumptions that matter, and what happens without them:

* *Two transits fit into the vault's absorption window* (`WindowAssumption`) and *messages between a vault and
  its wallet keep their order*.  Without either, TLC finds stake that no ATH backs: a deposit's
  notification that arrives after the window counts ATH already taken out.
* *Token acknowledgements are never lost*: the code sizes their value so
  (tests/ath-wallet-pending-outgoing-ratchet.test.ts).  If one were, a recovery after the
  grace would repeat a payment that was credited.
* *Buyback: the answer to a burn is not lost* (only the request may be).  If it were,
  `RecoverStuckAthBurn` would count again ATH already burned.
* *Mint: nobody reuses a query id whose refund is on its way* (`fresh`), where a scene says so.  The
  refund goes back under the payment's own id; when that key is taken the payment waits in the wallet until the
  other refund ends, and is pruned if that takes longer than the notification lives.
* *Conservation* holds where nothing vanishes; where messages may vanish, `NoInflation`.
* *A sanction shard destroyed is gone*: the destruction itself does not fail.
* *Payouts*: the wallet never takes back a transfer that was credited (what `ATHToken` is shown to guarantee); one
  funding is on its way at a time.
* *Avatars: a write and its answer arrive before it may be given up* (`StaleAssumption`), and a shard's
  acknowledgement carries the gas it needs.  Otherwise a refund could follow a write that was applied.
* *Public shards*: the ranges of keys in `beacon_slot` are disjoint and hashes do not collide; ledger, gate and shard keep
  the order of messages.
* *Wallet: a number is used within `Lag` of being read* - a page frozen between the two is outside the model - and
  `Tolerance + Lag <= Grace`.
* *Introductions: a page of entries is never older than the state read before it*, and a window makes one pass at a time.
* *Web Locks exist*: without them `withAtRestLock` runs the work unguarded, and two windows may write
  over each other.

## 6. What was found

`conv_overlap` (`src/web/conv-key-store.mjs:156`).  Two calls of one window overlap: the first has merged
and is writing when the second adopts a new root, in memory, and waits for the lock.  When the first
write returns, its result replaces the whole memory, and the second call then merges and writes a memory
without the root, reports success, and leaves the store not dirty, so that the receiver lets the
introduction go.  The run states what the receiver is told, `AdoptedKept`, and TLC shows the seven states.
Claims of sequence numbers survive the same overlap because they compare with the disk inside the lock
(`SeqOnce` holds).

`group_returns` (`src/web/group-store.mjs:735`).  Rows are applied in the order of their stamps among those just
read, and a removal older than an admission in the log is passed over (`readmittedAfter`); but an admission is
applied without asking the log for a later removal.  A lane that changed is read whole, one that did not is not
read.  So when an admin who admitted somebody writes any further row, the admission is applied again on every device,
and the removal by another admin, whose lane did not change, does not follow it: who was removed is a member again.
`RemovedStayOut` states what the page says of a removal (`i18n-strings.mjs:1523`).

`group_settled_first` (`src/web/group-runtime.mjs:382`).  Of two removals that each carry a new key the earlier wins, and the
admin of the other is to remove again, lest the victim, for whom the key that won is wrapped, reads on.
`republishLostRekeys` looks for the removal among the writes pending when the pass began.  But a pass asks for the states of all lanes
once (`:685`) and then reads those that had changed one after another (`:691`).  If the rival's lane was still empty at
the probe, both rows land, and the admin's own lane, changed by an earlier row, is then read whole, the admin's row is settled in this pass and the
rival's read in the next; nothing is pending any more, and
the victim is not cut off.  No lane has to fail and no broadcast to be lost.  `CutOff` states what the dialog promises (`i18n-strings.mjs:1522`);
`WinnersCut`, in `RoomAgrees`, is what remains true: the victim of the removal whose key won is kept out.

Behaviour noticed on the way, which no property states:

* Groups: somebody admitted in the lane of a reissued key that then loses to an earlier one stays a member for the admin who
  admitted them and is unknown to the others, for the lane of a key that lost is not read (`group-runtime.mjs:1405`);
  `LandedStands` leaves out rows in such lanes, and `RoomAgrees`, which says nothing of rosters, rooms with a row with a key in one.
* Groups: a device asks for the lanes of the newest generation and of the one before (`rosterReadsOfPreviousGeneration`,
  `group-runtime.mjs:23`, and `walkRoom`, `:652`).  An admin who makes two removals that cut reading before a pass reads is two generations ahead, and never reads
  what another admin wrote meanwhile in the generation both were in: somebody admitted there is a member for one and not for
  the other.  If it was a removal with a key that came first on the chain, the two go on under different keys.  TLC shows both with
  scenes of three writes and no fault.  `RoomAgrees` does not claim the second: the later of the two removals is then
  a row with a key in a lane whose key lost (`RekeysReach`).
* Conversation keys: merging with the disk brings back the later time
  of a root whose time was just corrected, and gap floors just cleared; when two windows adopt different
  roots, the one that loses is not kept among the roots for reading; an import drops the
  roots for reading that were there.
* Introductions: a copy, or an introduction that a newer one overtook, comes back as replayed and is not shown after a
  show that failed (`intro-receive-handler.mjs:99`), so `ContactsArrive` promises the showing only of those published
  once, and of those every build opens: it is no claim about marks.
* Introductions: the cursors are saved before the ledger (`intro-scan-runner.mjs:201`, `:202`).  When the second save fails, or the page is loaded
  again between the two, the mark of an entry that this build could not open is lost with the cursor past it, and no later build
  reads that entry again; so it is when another window saves the ledger it had loaded before, or a load of the ledger fails, which is taken for an empty one.
  `MarksKept` says what remains: with one window (`scene.windows = {w}`) and no such loss (`lapsed`) every mark stays.  Introductions that the build
  opens are not affected (`KeysKept`).
* Wallet: a late answer that still shows number 0 drops the floor, and a clock ahead lets a number be used again while its
  first external is still valid.  Both cost an external, never a second execution (`AtMostOnce`).
* Avatars: a refund is stranded when the wallet has pruned the payment's notification (seven days) before the write is given up,
  or when the key of the refund is taken, for the registry handles no bounce of it.  A flush pruned after its 45 days and taken back
  later leaves ATH in the registry's wallet that it does not count.  A flush is refused when
  its query id happens to be the id of one under way, which the registry numbers itself (`requireNoDueFlushQuery`).
* Gate: verdicts that the ledger before relayed bounce after a handover, and their quota stays used.
* Seller and vesting: a lost acknowledgement stops them for good.

## 7. What is not modelled, and why

* Gas and storage arithmetic, message layouts, hashes, art and metadata, getters: no property is about them.
* Genesis of the registries, the seller and the buyback: a fixed sequence by one deployer, before anybody else can act.
  The supply's own genesis, which can bounce and be repeated, is modelled.
* `WithdrawFloat`, `FeeSink`, the registries' sweeps: they move TON only.
* `ReportShard`: rows are counted by one assignment each and a review names no count of reports, so the code promises
  nothing about a report that comes just before its review.
* The handover of the gate: the code promises nothing about verdicts under way but that they bounce.
* `IntroShard`, `RecordShard`, `RecoveryShard`: each appends under one number; what depends on them is the readers, modelled.
* Of the conversation keys, the wallets of the peer, the scan cursor, the gap floors, and the move from an
  earlier format.  A memory-only store has nothing to merge.
* Of the introduction lane, which shards and epochs a pass plans to read, the pruning of the ledger, entries for others, the
  back-off between passes (a failing step stands for all), and a second pass of the same window over the first, whose writes
  of the keys overlap (section 6).  After a lock of the session the contact is not shown but its nonce recorded.
* Of the wallet, the messages themselves, swaps, balances, and the lock windows of one browser sign under, which only keeps
  the lane closed for longer.
* Profiles: recovery keys, the sweep of TON.
* The page (`app.js`), translations, transports, swaps, the service worker, build scripts, the previous generation of the contracts:
  rendering, I/O, tooling, or earlier forms of what is modelled.  They are more than two thirds of the client's lines.
* Of groups, the rows ROSTER, ADMIN, LEAVE, PROFILE, MUTE and HIDE, snapshots for newcomers, messages, the queue at the door,
  and devices of members who write nothing (they fold the same rows as those of admins do).
* The conversation lane and the local storage of messages are planned, below.

## 8. Plan

In order of weight; a run is replaced or widened rather than added where an existing question contains the new one.

1. Done: token with ledger and proofs; mint with proofs; vault, seller, vesting and buyback with proofs; council, quota, sanctions, public
   shard and their composition with proofs; avatars and keys of profiles with proofs; conversation keys with proofs; introduction lane and replay guard with proofs; wallet sends with proofs;
   control rows of groups with proofs.
2. The conversation lane: numbers of `ConvKeys` claimed by several devices and read back; gaps.
3. Groups: rows that make and unmake admins, and a member's own leaving.
4. Re-encryption of the local storage, interrupted between two steps.
