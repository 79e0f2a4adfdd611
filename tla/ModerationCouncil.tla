------------------------- MODULE ModerationCouncil -------------------------
(***************************************************************************)
(* The council of a ModerationLedger                                       *)
(* (contracts18/contracts/ModerationLedger.tact): its roots propose,       *)
(* second and enact the replacement of a root, the seating and unseating   *)
(* of moderators, and orders to the moderation gate.                       *)
(*                                                                         *)
(* A root has at most one proposal open, may replace it while others are   *)
(* approving it, and may be replaced itself while its proposal waits.  An  *)
(* approval names the contents it is meant for; it may arrive long after   *)
(* it was sent.                                                            *)
(*                                                                         *)
(* Abstractions.  The orders to the gate (SET_LEDGER, SWEEP_GATE,          *)
(* ACCEPT_GATE, WITHDRAW) are one kind that changes nothing here.  A       *)
(* message short of value is refused and changes nothing.                  *)
(***************************************************************************)
EXTENDS Naturals, FiniteSets

CONSTANTS
    People,        \* wallets that are or may become roots
    FirstRoots,    \* the roots the ledger is deployed with
    Candidates,    \* wallets that may become moderators
    ProposalTTL,   \* ML_PROPOSAL_TTL
    MaxClock        \* bound of the model on the clock

ASSUME CouncilAssumption ==
    /\ IsFiniteSet(People) /\ IsFiniteSet(Candidates)
    /\ "none" \notin People
    /\ FirstRoots \subseteq People
    /\ ProposalTTL \in Nat /\ MaxClock \in Nat

VARIABLES
    roots, moderators, moderator_count,
    proposals,   \* the open proposal of each root
    named,       \* who named the contents of each open proposal, and is root
    enacted,     \* whose proposal the last step enacted, and which roots
                 \* had named its contents
    clock

seatVars == <<roots, moderators, moderator_count>>
councilVars == <<seatVars, proposals, named, enacted, clock>>

Kinds == {"REPLACE_ROOT", "ADD_MODERATOR", "REMOVE_MODERATOR", "GATE"}

Contents ==
    [kind : {"REPLACE_ROOT"}, a : People, b : People]
    \cup [kind : {"ADD_MODERATOR", "REMOVE_MODERATOR"}, a : Candidates]
    \cup [kind : {"GATE"}]

NoOne == "none"
NoProposal == [open |-> FALSE]
Proposals ==
    [open : {TRUE}, contents : Contents, created_at : 0..MaxClock,
     second : People \cup {NoOne}]

Nothing == [proposer |-> NoOne, by |-> {}]
Closed == [r \in People |-> NoProposal]

CouncilInit ==
    /\ roots = FirstRoots
    /\ moderators = {}
    /\ moderator_count = 0
    /\ proposals = Closed
    /\ named = [r \in People |-> {}]
    /\ enacted = Nothing
    /\ clock = 0

(* validate: what would make no sense when proposed                        *)
Valid(c) ==
    \/ c.kind = "REPLACE_ROOT" /\ c.a \in roots /\ c.b \notin roots
    \/ c.kind = "ADD_MODERATOR" /\ c.a \notin moderators
    \/ c.kind = "REMOVE_MODERATOR" /\ c.a \in moderators
    \/ c.kind = "GATE"

(* receive(Propose): replaces the root's open proposal                     *)
Propose(r, c) ==
    /\ r \in roots
    /\ Valid(c)
    /\ proposals' = [proposals EXCEPT ![r] =
           [open |-> TRUE, contents |-> c, created_at |-> clock,
            second |-> NoOne]]
    /\ named' = [named EXCEPT ![r] = {r}]
    /\ enacted' = Nothing
    /\ UNCHANGED <<seatVars, clock>>

(* execute                                                                 *)
Execute(c) ==
    CASE c.kind = "REPLACE_ROOT" ->
           /\ roots' = (roots \ {c.a}) \cup {c.b}
           /\ UNCHANGED <<moderators, moderator_count>>
      [] c.kind = "ADD_MODERATOR" ->
           /\ moderators' = moderators \cup {c.a}
           /\ moderator_count' = moderator_count + 1
           /\ UNCHANGED roots
      [] c.kind = "REMOVE_MODERATOR" ->
           /\ moderators' = moderators \ {c.a}
           /\ moderator_count' = moderator_count - 1
           /\ UNCHANGED roots
      [] c.kind = "GATE" -> UNCHANGED seatVars

(* mutant: the contents approved are not compared (29046 is missing)       *)
ApprovableUnread(r, p, c) ==
    /\ r \in roots /\ p \in roots
    /\ r # p
    /\ proposals[p].open
    /\ clock <= proposals[p].created_at + ProposalTTL

(* receive(Approve), guards: both are roots, and the contents named are    *)
(* those of the proposal as it is now                                      *)
Approvable(r, p, c) ==
    /\ r \in roots /\ p \in roots
    /\ r # p
    /\ proposals[p].open
    /\ clock <= proposals[p].created_at + ProposalTTL
    /\ proposals[p].contents = c

Named(r, p, c) ==
    named[p] \cup (IF proposals[p].contents = c THEN {r} ELSE {})

(* the first approval                                                      *)
Second(r, p, c) ==
    /\ Approvable(r, p, c)
    /\ proposals[p].second = NoOne
    /\ proposals' = [proposals EXCEPT ![p].second = r]
    /\ named' = [named EXCEPT ![p] = Named(r, p, c)]
    /\ enacted' = Nothing
    /\ UNCHANGED <<seatVars, clock>>

(* mutant: the other proposals stay open                                   *)
CloseOne(p) == proposals' = [proposals EXCEPT ![p] = NoProposal]

(* every proposal is closed, the others too                                *)
CloseAll(p) == proposals' = Closed

(* the second approval, by somebody else                                   *)
Enact(r, p, c) ==
    /\ Approvable(r, p, c)
    /\ proposals[p].second \notin {NoOne, r}
    /\ Execute(proposals[p].contents)
    /\ enacted' = [proposer |-> p, by |-> Named(r, p, c) \cap roots]
    /\ CloseAll(p)
    /\ named' = [q \in People |->
                   IF proposals'[q].open THEN named[q] ELSE {}]
    /\ UNCHANGED clock

CouncilTick ==
    /\ clock < MaxClock
    /\ clock' = clock + 1
    /\ enacted' = Nothing
    /\ UNCHANGED <<seatVars, proposals, named>>

CouncilNext ==
    \/ \E r \in People, c \in Contents : Propose(r, c)
    \/ \E r \in People, p \in People, c \in Contents :
          Second(r, p, c) \/ Enact(r, p, c)
    \/ CouncilTick

CouncilSpec == CouncilInit /\ [][CouncilNext]_councilVars

-----------------------------------------------------------------------------
(* Every variable of ModerationLedger holds what its type allows.          *)
CouncilTypeOK ==
    /\ roots \subseteq People
    /\ moderators \subseteq Candidates
    /\ moderator_count \in Nat
    /\ proposals \in [People -> Proposals \cup {NoProposal}]
    /\ named \in [People -> SUBSET People]
    /\ enacted \in [proposer : People \cup {NoOne}, by : SUBSET People]
    /\ clock \in 0..MaxClock

(* What was enacted was named by three different wallets that were roots   *)
(* when it was: two never suffice, whatever they propose, replace and      *)
(* approve in between, and no approval counts for contents it did not name.*)
ThreeRoots == enacted # Nothing => Cardinality(enacted.by) >= 3

(* The council never grows nor shrinks, although a proposal is validated   *)
(* only when it is made: what it replaces is a root, and what it seats is  *)
(* not, still when it is enacted; and the count of moderators is exact.    *)
CouncilKept ==
    /\ Cardinality(roots) = Cardinality(FirstRoots)
    /\ moderator_count = Cardinality(moderators)

(* What these rest on: an open proposal is still valid, and those who made *)
(* and seconded it are roots that named its contents.                      *)
OpenValid ==
    \A p \in People :
        proposals[p].open =>
            /\ p \in roots \cap named[p]
            /\ Valid(proposals[p].contents)
            /\ proposals[p].second # NoOne =>
                 proposals[p].second \in (roots \cap named[p]) \ {p}

CouncilInv == CouncilTypeOK /\ OpenValid /\ CouncilKept /\ ThreeRoots

=============================================================================
