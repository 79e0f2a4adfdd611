-------------------------- MODULE ModerationLedger --------------------------
(***************************************************************************)
(* The two halves of contracts18/contracts/ModerationLedger.tact: the      *)
(* council, which seats the moderators, and the verdicts the moderators    *)
(* give.  A verdict reads nothing of the proposals and a proposal nothing  *)
(* of the verdicts; the seating of a moderator whose quota is used is in   *)
(* Verdicts (SeatAgain).  A behaviour is about one of the halves.          *)
(***************************************************************************)
EXTENDS Verdicts, ModerationCouncil

VARIABLE half   \* which of them: it never changes

ledgerVars == <<half, caseVars, councilVars>>

LedgerInit ==
    /\ half \in {"council", "verdicts"}
    /\ CaseInit
    /\ CouncilInit
    /\ half = "council" => about = "wallet"

CouncilStep ==
    /\ half = "council"
    /\ CouncilNext
    /\ UNCHANGED <<half, caseVars>>

VerdictStep ==
    /\ half = "verdicts"
    /\ CaseNext
    /\ UNCHANGED <<half, councilVars>>

LedgerNext == CouncilStep \/ VerdictStep

LedgerSpec == LedgerInit /\ [][LedgerNext]_ledgerVars

=============================================================================
