------------------------------ MODULE Verdicts ------------------------------
(***************************************************************************)
(* The way of a verdict: a moderator gives it to the ledger                *)
(* (contracts18/contracts/ModerationLedger.tact, receive(Verdict)), which  *)
(* takes it from the moderator's quota; the gate forwards it               *)
(* (ModerationGate.tact, receive(Forward)); the shard of the wallet        *)
(* (SanctionShard.tact) or of the entry (PublicShard.tact) obeys or        *)
(* refuses.  A refusal bounces to the gate, which drops it: the quota      *)
(* stays used.                                                             *)
(*                                                                         *)
(* The two shards share nothing but the moderators' quotas.  A behaviour   *)
(* is about one of them, so that their states do not multiply: the wallet, *)
(* with one moderator's quota, or the entries, with verdicts of as many    *)
(* moderators as it takes, each within its quota.                          *)
(***************************************************************************)
EXTENDS SanctionShard, PublicShard, Sequences

CONSTANTS
    VerdictsPerDay, Unit, Day,   \* see VerdictQuota
    MaxOrders                    \* bound of the model on verdicts in flight

ASSUME VerdictsAssumption ==
    /\ {VerdictsPerDay, Unit, MaxOrders} \subseteq Nat
    /\ Day \in Nat \ {0}

VARIABLES
    about,                       \* what is judged: it never changes
    quota, seated, verdicts,     \* see VerdictQuota
    orders                       \* the verdicts between ledger and shard

Moderator == INSTANCE VerdictQuota

quotaVars == <<quota, seated, verdicts>>
caseVars == <<about, vars, quotaVars, publicVars, orders>>

WalletActions == {"warn", "restrict", "unwarn", "unrestrict"}
EntryActions == {"hide", "unhide"}

Orders ==
    IF about = "wallet" THEN {<<action>> : action \in WalletActions}
                        ELSE EntryActions \X (0..SafeCap - 1)

CaseInit ==
    /\ about \in {"wallet", "entries"}
    /\ Init
    /\ PublicInit
    /\ about = "wallet" => kind = CHOOSE k \in ShardKinds : TRUE
    /\ Moderator!Init
    /\ orders = <<>>

(* receive(Verdict), about a wallet or an entry: quota and relay           *)
Verdict(order) ==
    /\ Len(orders) < MaxOrders
    /\ IF about = "wallet" THEN Moderator!Verdict
                           ELSE UNCHANGED <<quotaVars, now>>
    /\ orders' = Append(orders, order)
    /\ UNCHANGED <<about, shard, manual, publicVars>>

(* execute, ML_KIND_REMOVE_MODERATOR and then ML_KIND_ADD_MODERATOR        *)
SeatAgain ==
    /\ about = "wallet"
    /\ Moderator!SeatAgain
    /\ UNCHANGED <<about, shard, manual, publicVars, orders>>

(* receive(Forward): the next verdict reaches its shard                    *)
Forward(order) ==
    /\ orders # <<>>
    /\ Head(orders) = order
    /\ orders' = Tail(orders)
    /\ UNCHANGED <<about, quotaVars>>

(* receive(SetWalletSanction)                                              *)
SetWalletSanction(action) ==
    /\ Forward(<<action>>)
    /\ UNCHANGED publicVars

(* receive(SetEntryHidden)                                                 *)
SetEntryHidden(action, e) ==
    /\ Forward(<<action, e>>)
    /\ UNCHANGED vars

(* a guard of the shard throws: no such entry, nothing to lift, or too     *)
(* little value for what the shard lacks                                   *)
Refuse ==
    /\ \E order \in Orders : Forward(order)
    /\ UNCHANGED <<vars, publicVars>>

(* what others do to the shard of the wallet, or of the entries            *)
Others ==
    /\ \/ about = "wallet" /\ RetireSanction /\ UNCHANGED publicVars
       \/ about = "entries" /\ PublicStep /\ UNCHANGED vars
    /\ UNCHANGED <<about, quotaVars, orders>>

Pass ==
    /\ about = "wallet"
    /\ Tick
    /\ UNCHANGED <<about, quotaVars, publicVars, orders>>

CaseNext ==
    \/ \E order \in Orders : Verdict(order)
    \/ SeatAgain
    \/ SetWalletSanction("warn") /\ WarnWallet
    \/ SetWalletSanction("restrict") /\ RestrictWallet
    \/ SetWalletSanction("unwarn") /\ UnwarnWallet
    \/ SetWalletSanction("unrestrict") /\ UnrestrictWallet
    \/ \E e \in DOMAIN entries :
          \/ SetEntryHidden("hide", e) /\ (HideEntry(e) \/ Kept(e, TRUE))
          \/ SetEntryHidden("unhide", e) /\ (ShowEntry(e) \/ Kept(e, FALSE))
    \/ Refuse
    \/ Others
    \/ Pass

CaseSpec == CaseInit /\ [][CaseNext]_caseVars

-----------------------------------------------------------------------------
GivenSince(t) == SumFunctionOnSet(verdicts, t..now)

(* However a moderator's verdicts are spread, no period of a seat sees     *)
(* more of them than a full quota and what refills in that period: no      *)
(* rounding adds up, and no rest is saved beyond a full quota.             *)
QuotaHolds ==
    \A t \in seated..now :
        Unit * GivenSince(t) <= Moderator!Quota + Moderator!Refill(now - t)

(* An entry of PublicShard is hidden or shown by the verdict that says so  *)
(* and by nothing else: the publisher of a hidden beacon does not bring it *)
(* back by publishing again, whoever rewrites what and in whatever order.  *)
HiddenByVerdict ==
    [][\A e \in DOMAIN entries :
          /\ e \in DOMAIN entries'
          /\ entries'[e].hidden # entries[e].hidden
          => /\ Forward(<<IF entries'[e].hidden THEN "hide" ELSE "unhide", e>>)
             /\ \A d \in DOMAIN entries \ {e} : entries'[d] = entries[d]
      ]_caseVars

=============================================================================
