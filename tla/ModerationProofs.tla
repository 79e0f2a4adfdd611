-------------------------- MODULE ModerationProofs --------------------------
(***************************************************************************)
(* Proofs about the moderation of the public space: the council of the     *)
(* ModerationLedger and the quota of its moderators, the sanctions of a    *)
(* wallet and the map of a shard of entries, for every number of people,   *)
(* entries, reactions and verdicts, and every life of a proposal or a      *)
(* sanction.                                                               *)
(***************************************************************************)
EXTENDS ModerationLedger, Sums, TLAPS

USE SanctionAssumption

-----------------------------------------------------------------------------
(* The sanctions of a wallet.  What the cause rests on: the restriction    *)
(* that is not automatic is the moderators'.                               *)
AutoUnlessManual == shard.auto <=> shard.restricted /\ ~manual
StandingInv == TypeOK /\ AutoUnlessManual /\ RestrictedForCause

(* What a verdict finds, an expired record being Blank, is consistent too. *)
LEMMA CurrentConsistent ==
    ASSUME StandingInv
    PROVE  /\ Current \in [warnings : 0..MaxWarnings, restricted : BOOLEAN,
                           auto : BOOLEAN, since : 0..MaxTime,
                           updated_at : 0..MaxTime]
           /\ Current.auto <=> Current.restricted /\ ~CurrentManual
           /\ Current.restricted
                <=> CurrentManual \/ Current.warnings >= WarningsToRestrict
<1>1. CASE Expired
  BY <1>1 DEF Current, CurrentManual, Blank
<1>2. CASE ~Expired
  BY <1>2 DEF Current, CurrentManual, StandingInv, TypeOK, AutoUnlessManual,
              RestrictedForCause
<1> QED BY <1>1, <1>2

LEMMA BlankFields ==
    /\ Blank \in [warnings : 0..MaxWarnings, restricted : BOOLEAN,
                  auto : BOOLEAN, since : 0..MaxTime, updated_at : 0..MaxTime]
    /\ ~Blank.restricted /\ ~Blank.auto
    /\ ~(Blank.warnings >= WarningsToRestrict)
BY DEF Blank

LEMMA BlankConsistent ==
    ASSUME shard' = Blank, manual' = FALSE, now' \in 1..MaxTime
    PROVE  StandingInv'
<1>1. TypeOK'
  BY BlankFields DEF TypeOK
<1>2. AutoUnlessManual' /\ RestrictedForCause'
  BY BlankFields, Zenon DEF AutoUnlessManual, RestrictedForCause
<1> QED BY <1>1, <1>2 DEF StandingInv

LEMMA StandingStep == StandingInv /\ [Next]_vars => StandingInv'
<1> SUFFICES ASSUME StandingInv, [Next]_vars PROVE StandingInv'
  OBVIOUS
<1> DEFINE c == Current
           m == CurrentManual
<1>1. /\ c \in [warnings : 0..MaxWarnings, restricted : BOOLEAN,
                auto : BOOLEAN, since : 0..MaxTime, updated_at : 0..MaxTime]
      /\ c.auto <=> c.restricted /\ ~m
      /\ c.restricted <=> m \/ c.warnings >= WarningsToRestrict
      /\ m \in BOOLEAN
  BY CurrentConsistent DEF StandingInv, TypeOK, CurrentManual
<1>2. now \in 1..MaxTime
  BY DEF StandingInv, TypeOK
<1>3. ASSUME NEW r \in BOOLEAN PROVE Since(r) \in 0..MaxTime
  BY <1>1, <1>2 DEF Since
<1>4. CASE WarnWallet
  <2> DEFINE w == IF c.warnings < MaxWarnings THEN c.warnings + 1
                                              ELSE MaxWarnings
             e == w >= WarningsToRestrict
             r == c.restricted \/ e
  <2>1. /\ shard' = [warnings |-> w, restricted |-> r,
                     auto |-> IF c.restricted THEN c.auto ELSE e,
                     since |-> Since(r), updated_at |-> now]
        /\ manual' = m /\ now' = now
    BY <1>4 DEF WarnWallet
  <2>2. w \in 0..MaxWarnings /\ w >= c.warnings /\ r \in BOOLEAN
    BY <1>1
  <2>3. Since(r) \in 0..MaxTime
    BY <2>2, <1>3
  <2>4. TypeOK'
    <3>0. c.auto \in BOOLEAN /\ e \in BOOLEAN
      BY <1>1
    <3>1. (IF c.restricted THEN c.auto ELSE e) \in BOOLEAN
      BY <3>0, Zenon
    <3>2. now' \in 1..MaxTime /\ manual' \in BOOLEAN /\ now \in 0..MaxTime
      BY <2>1, <1>1, <1>2
    <3> HIDE DEF w, e, r
    <3> QED BY <2>1, <2>2, <2>3, <3>1, <3>2 DEF TypeOK
  <2>5. RestrictedForCause' /\ AutoUnlessManual'
    <3>1. /\ shard'.warnings = w /\ shard'.restricted = r
          /\ shard'.auto = (IF c.restricted THEN c.auto ELSE e)
      BY <2>1
    <3>2. r <=> m \/ w >= WarningsToRestrict
      BY <2>2, <1>1
    <3>3. (IF c.restricted THEN c.auto ELSE e) <=> r /\ ~m
      BY <2>2, <1>1
    <3> HIDE DEF w, e, r, c, m
    <3> QED BY <2>1, <3>1, <3>2, <3>3 DEF RestrictedForCause, AutoUnlessManual
  <2> QED BY <2>4, <2>5 DEF StandingInv
<1>5. CASE RestrictWallet
  <2>1. /\ shard' = [c EXCEPT !.restricted = TRUE, !.auto = FALSE,
                              !.since = Since(TRUE), !.updated_at = now]
        /\ manual' = TRUE /\ now' = now
    BY <1>5 DEF RestrictWallet
  <2>2. /\ shard' \in [warnings : 0..MaxWarnings, restricted : BOOLEAN,
                        auto : BOOLEAN, since : 0..MaxTime,
                        updated_at : 0..MaxTime]
        /\ shard'.restricted = TRUE /\ shard'.auto = FALSE
    <3>1. Since(TRUE) \in 0..MaxTime
      BY <1>3, Zenon
    <3>2. now \in 0..MaxTime
      BY <1>2
    <3> HIDE DEF c
    <3> QED BY <2>1, <3>1, <3>2, <1>1
  <2>3. TypeOK'
    BY <2>1, <2>2, <1>2 DEF TypeOK
  <2>4. RestrictedForCause' /\ AutoUnlessManual'
    BY <2>1, <2>2 DEF RestrictedForCause, AutoUnlessManual
  <2> QED BY <2>3, <2>4 DEF StandingInv
<1>6. CASE UnwarnWallet
  <2> DEFINE w == c.warnings - 1
             r == c.restricted /\ ~(c.auto /\ w < WarningsToRestrict)
  <2>1. /\ c.warnings > 0
        /\ shard' = IF w > 0 \/ r
                    THEN [warnings |-> w, restricted |-> r,
                          auto |-> c.auto /\ r,
                          since |-> IF r THEN c.since ELSE 0,
                          updated_at |-> now]
                    ELSE Blank
        /\ manual' = m /\ now' = now
    BY <1>6 DEF UnwarnWallet
  <2>2. w \in 0..MaxWarnings /\ r \in BOOLEAN
    BY <1>1, <2>1
  <2>3. r <=> m \/ w >= WarningsToRestrict
    BY <1>1, <2>1
  <2>4. CASE w > 0 \/ r
    <3>1. TypeOK'
      BY <2>1, <2>2, <2>4, <1>1, <1>2 DEF TypeOK
    <3>2. RestrictedForCause' /\ AutoUnlessManual'
      BY <2>1, <2>2, <2>3, <2>4, <1>1 DEF RestrictedForCause, AutoUnlessManual
    <3> QED BY <3>1, <3>2 DEF StandingInv
  <2>5. CASE ~(w > 0 \/ r)
    BY <2>1, <2>3, <2>5, <1>1, <1>2, BlankConsistent
  <2> QED BY <2>4, <2>5
<1>7. CASE UnrestrictWallet \/ RetireSanction
  BY <1>7, <1>2, BlankConsistent DEF UnrestrictWallet, RetireSanction
<1>8. CASE Tick \/ UNCHANGED vars
  BY <1>8 DEF Tick, vars, StandingInv, TypeOK, RestrictedForCause,
              AutoUnlessManual
<1> QED BY <1>4, <1>5, <1>6, <1>7, <1>8 DEF Next

LEMMA InitStanding == Init => StandingInv
<1> SUFFICES ASSUME Init PROVE StandingInv
  OBVIOUS
<1>1. now \in 1..MaxTime
  BY DEF Init
<1>2. TypeOK
  BY <1>1, BlankFields DEF Init, TypeOK
<1>3. AutoUnlessManual /\ RestrictedForCause
  BY BlankFields, Zenon DEF Init, AutoUnlessManual, RestrictedForCause
<1> QED BY <1>2, <1>3 DEF StandingInv

(* SanctionShard restricts a wallet exactly while a cause for it stands,   *)
(* for every threshold and retention.                                      *)
THEOREM RestrictionsHaveCause == Spec => []RestrictedForCause
<1>1. StandingInv => RestrictedForCause
  BY DEF StandingInv
<1> QED BY <1>1, InitStanding, StandingStep, PTL DEF Spec

-----------------------------------------------------------------------------
(* The council                                                             *)

USE CouncilAssumption

LEMMA ContentsKinds ==
    ASSUME NEW c \in Contents
    PROVE  \/ c.kind = "REPLACE_ROOT" /\ c.a \in People /\ c.b \in People
           \/ c.kind = "ADD_MODERATOR" /\ c.a \in Candidates
           \/ c.kind = "REMOVE_MODERATOR" /\ c.a \in Candidates
           \/ c.kind = "GATE"
<1>1. CASE c \in [kind : {"REPLACE_ROOT"}, a : People, b : People]
  BY <1>1
<1>2. CASE c \in [kind : {"ADD_MODERATOR", "REMOVE_MODERATOR"},
                  a : Candidates]
  BY <1>2
<1>3. CASE c \in [kind : {"GATE"}]
  BY <1>3
<1> QED BY <1>1, <1>2, <1>3 DEF Contents

(* What an open proposal is made of.                                       *)
LEMMA OpenFields ==
    ASSUME CouncilTypeOK, NEW p \in People, proposals[p].open
    PROVE  /\ proposals[p] \in Proposals
           /\ proposals[p].contents \in Contents
           /\ proposals[p].created_at \in 0..MaxClock
           /\ proposals[p].second \in People \cup {NoOne}
<1>1. proposals[p] \in Proposals \cup {NoProposal}
  BY DEF CouncilTypeOK
<1>2. ~NoProposal.open
  BY DEF NoProposal
<1>3. proposals[p] \in Proposals
  BY <1>1, <1>2
<1> QED BY <1>3 DEF Proposals

LEMMA Finite ==
    ASSUME CouncilTypeOK
    PROVE  IsFiniteSet(roots) /\ IsFiniteSet(moderators)
BY FS_Subset DEF CouncilTypeOK

LEMMA InitCouncil == CouncilInit => CouncilInv
<1> SUFFICES ASSUME CouncilInit PROVE CouncilInv
  OBVIOUS
<1>1. CouncilTypeOK
  <2>1. NoProposal \in Proposals \cup {NoProposal}
    OBVIOUS
  <2>2. enacted \in [proposer : People \cup {NoOne}, by : SUBSET People]
    BY DEF CouncilInit, Nothing
  <2> QED BY <2>1, <2>2 DEF CouncilInit, CouncilTypeOK, Closed
<1>2. OpenValid
  BY DEF CouncilInit, Closed, NoProposal, OpenValid
<1>3. CouncilKept
  BY FS_EmptySet DEF CouncilInit, CouncilKept
<1>4. ThreeRoots
  BY DEF CouncilInit, ThreeRoots
<1> QED BY <1>1, <1>2, <1>3, <1>4 DEF CouncilInv

LEMMA ProposeInv ==
    ASSUME CouncilInv, NEW r \in People, NEW c \in Contents, Propose(r, c)
    PROVE  CouncilInv'
<1> USE DEF CouncilInv
<1> DEFINE x == [open |-> TRUE, contents |-> c, created_at |-> clock,
                 second |-> NoOne]
<1>1. /\ r \in roots /\ Valid(c)
      /\ proposals' = [proposals EXCEPT ![r] = x]
      /\ named' = [named EXCEPT ![r] = {r}]
      /\ enacted' = Nothing
      /\ UNCHANGED <<roots, moderators, moderator_count, clock>>
  BY DEF Propose, seatVars
<1>2. x \in Proposals /\ x.open /\ x.contents = c /\ x.second = NoOne
  BY DEF CouncilTypeOK, Proposals
<1> HIDE DEF x
<1>3. CouncilTypeOK'
  BY <1>1, <1>2 DEF CouncilTypeOK, Nothing
<1>4. OpenValid'
  <2> SUFFICES ASSUME NEW p \in People, proposals'[p].open
               PROVE  /\ p \in roots \cap named'[p]
                      /\ Valid(proposals'[p].contents)
                      /\ proposals'[p].second # NoOne =>
                           proposals'[p].second
                             \in (roots \cap named'[p]) \ {p}
    BY <1>1 DEF OpenValid, Valid
  <2>1. CASE p = r
    BY <1>1, <1>2, <2>1 DEF CouncilTypeOK
  <2>2. CASE p # r
    BY <1>1, <2>2 DEF CouncilTypeOK, OpenValid
  <2> QED BY <2>1, <2>2
<1>5. CouncilKept' /\ ThreeRoots'
  BY <1>1 DEF CouncilKept, ThreeRoots
<1> QED BY <1>3, <1>4, <1>5

LEMMA SecondInv ==
    ASSUME CouncilInv, NEW r \in People, NEW p \in People, NEW c \in Contents,
           Second(r, p, c)
    PROVE  CouncilInv'
<1> USE DEF CouncilInv
<1>1. /\ r \in roots /\ p \in roots /\ r # p
      /\ proposals[p].open /\ proposals[p].contents = c
      /\ proposals' = [proposals EXCEPT ![p] =
                         [proposals[p] EXCEPT !.second = r]]
      /\ named' = [named EXCEPT ![p] = named[p] \cup {r}]
      /\ enacted' = Nothing
      /\ UNCHANGED <<roots, moderators, moderator_count, clock>>
  BY DEF Second, Approvable, Named, seatVars
<1>2. /\ [proposals[p] EXCEPT !.second = r] \in Proposals
      /\ [proposals[p] EXCEPT !.second = r].open
      /\ [proposals[p] EXCEPT !.second = r].contents = c
      /\ [proposals[p] EXCEPT !.second = r].second = r
  BY <1>1, OpenFields DEF Proposals
<1>3. CouncilTypeOK'
  BY <1>1, <1>2 DEF CouncilTypeOK, Nothing
<1>4. OpenValid'
  <2> SUFFICES ASSUME NEW q \in People, proposals'[q].open
               PROVE  /\ q \in roots \cap named'[q]
                      /\ Valid(proposals'[q].contents)
                      /\ proposals'[q].second # NoOne =>
                           proposals'[q].second
                             \in (roots \cap named'[q]) \ {q}
    BY <1>1 DEF OpenValid, Valid
  <2>1. CASE q = p
    BY <1>1, <1>2, <2>1 DEF CouncilTypeOK, OpenValid
  <2>2. CASE q # p
    BY <1>1, <2>2 DEF CouncilTypeOK, OpenValid
  <2> QED BY <2>1, <2>2
<1>5. CouncilKept' /\ ThreeRoots'
  BY <1>1 DEF CouncilKept, ThreeRoots
<1> QED BY <1>3, <1>4, <1>5

(* Enacting what is valid keeps the council.                               *)
LEMMA ExecuteKeeps ==
    ASSUME CouncilTypeOK, CouncilKept, NEW c \in Contents, Valid(c), Execute(c)
    PROVE  /\ CouncilKept'
           /\ roots' \subseteq People /\ moderators' \subseteq Candidates
           /\ moderator_count' \in Nat
<1>1. IsFiniteSet(roots) /\ IsFiniteSet(moderators)
  BY Finite
<1>2. Cardinality(roots) \in Nat /\ Cardinality(moderators) \in Nat
  BY <1>1, FS_CardinalityType
<1>3. CASE c.kind = "REPLACE_ROOT"
  <2>1. /\ c.a \in roots /\ c.b \notin roots /\ c.b \in People
        /\ roots' = (roots \ {c.a}) \cup {c.b}
        /\ UNCHANGED <<moderators, moderator_count>>
    BY <1>3, ContentsKinds DEF Valid, Execute
  <2>2. /\ IsFiniteSet(roots \ {c.a})
        /\ Cardinality(roots \ {c.a}) = Cardinality(roots) - 1
    BY <1>1, <2>1, FS_RemoveElement
  <2>3. Cardinality((roots \ {c.a}) \cup {c.b})
          = Cardinality(roots \ {c.a}) + 1
    BY <2>1, <2>2, FS_AddElement
  <2>4. Cardinality(roots') = Cardinality(roots)
    BY <1>2, <2>1, <2>2, <2>3
  <2> QED BY <2>1, <2>4 DEF CouncilKept, CouncilTypeOK
<1>4. CASE c.kind = "ADD_MODERATOR"
  <2>1. /\ c.a \notin moderators /\ c.a \in Candidates
        /\ moderators' = moderators \cup {c.a}
        /\ moderator_count' = moderator_count + 1
        /\ roots' = roots
    BY <1>4, ContentsKinds DEF Valid, Execute
  <2>2. Cardinality(moderators') = Cardinality(moderators) + 1
    BY <1>1, <2>1, FS_AddElement
  <2> QED BY <1>2, <2>1, <2>2 DEF CouncilKept, CouncilTypeOK
<1>5. CASE c.kind = "REMOVE_MODERATOR"
  <2>1. /\ c.a \in moderators
        /\ moderators' = moderators \ {c.a}
        /\ moderator_count' = moderator_count - 1
        /\ roots' = roots
    BY <1>5 DEF Valid, Execute
  <2>2. /\ IsFiniteSet(moderators')
        /\ Cardinality(moderators') = Cardinality(moderators) - 1
    BY <1>1, <2>1, FS_RemoveElement
  <2>3. Cardinality(moderators') \in Nat
    BY <2>2, FS_CardinalityType
  <2> QED BY <1>2, <2>1, <2>2, <2>3 DEF CouncilKept, CouncilTypeOK
<1>6. CASE c.kind = "GATE"
  BY <1>6 DEF Execute, seatVars, CouncilKept, CouncilTypeOK
<1> QED BY <1>3, <1>4, <1>5, <1>6, ContentsKinds

(* A set with three different elements has at least three.                 *)
LEMMA ThreeElements ==
    ASSUME NEW S, IsFiniteSet(S), NEW x \in S, NEW y \in S, NEW z \in S,
           x # y, x # z, y # z
    PROVE  Cardinality(S) >= 3
<1> DEFINE A == {x}
           B == A \cup {y}
           C == B \cup {z}
<1>1. y \notin A /\ z \notin B /\ C \in SUBSET S
  OBVIOUS
<1>2. IsFiniteSet(A) /\ Cardinality(A) = 1
  BY FS_Singleton
<1> HIDE DEF A
<1>3. IsFiniteSet(B) /\ Cardinality(B) = 2
  BY <1>1, <1>2, FS_AddElement
<1> HIDE DEF B
<1>4. IsFiniteSet(C) /\ Cardinality(C) = 3
  BY <1>1, <1>3, FS_AddElement
<1> HIDE DEF C
<1>5. Cardinality(C) <= Cardinality(S)
  BY <1>1, FS_Subset
<1>6. Cardinality(S) \in Nat
  BY FS_CardinalityType
<1> QED BY <1>4, <1>5, <1>6

LEMMA EnactInv ==
    ASSUME CouncilInv, NEW r \in People, NEW p \in People, NEW c \in Contents,
           Enact(r, p, c)
    PROVE  CouncilInv'
<1> USE DEF CouncilInv
<1>1. /\ r \in roots /\ p \in roots /\ r # p
      /\ proposals[p].open /\ proposals[p].contents = c
      /\ proposals[p].second \notin {NoOne, r}
      /\ Execute(c)
      /\ enacted' = [proposer |-> p, by |-> (named[p] \cup {r}) \cap roots]
      /\ proposals' = Closed /\ clock' = clock
      /\ named' = [q \in People |-> IF proposals'[q].open THEN named[q]
                                                          ELSE {}]
  BY DEF Enact, Approvable, Named, CloseAll
<1>2. /\ p \in roots \cap named[p] /\ Valid(c)
      /\ proposals[p].second \in (roots \cap named[p]) \ {p}
  BY <1>1 DEF OpenValid
<1>3. /\ CouncilKept'
      /\ roots' \subseteq People /\ moderators' \subseteq Candidates
      /\ moderator_count' \in Nat
  BY <1>1, <1>2, ExecuteKeeps
<1>4. CouncilTypeOK'
  <2>1. enacted' \in [proposer : People \cup {NoOne}, by : SUBSET People]
    BY <1>1 DEF CouncilTypeOK
  <2>2. proposals' \in [People -> Proposals \cup {NoProposal}]
    BY <1>1 DEF Closed
  <2>3. named' \in [People -> SUBSET People]
    BY <1>1 DEF CouncilTypeOK
  <2> QED BY <1>1, <1>3, <2>1, <2>2, <2>3 DEF CouncilTypeOK
<1>5. OpenValid'
  BY <1>1 DEF OpenValid, Closed, NoProposal
<1>6. ThreeRoots'
  <2> DEFINE B == (named[p] \cup {r}) \cap roots
  <2>1. IsFiniteSet(B)
    BY Finite, FS_Subset
  <2>2. p \in B /\ r \in B /\ proposals[p].second \in B
    BY <1>1, <1>2
  <2>3. Cardinality(B) >= 3
    BY <1>1, <1>2, <2>1, <2>2, ThreeElements
  <2> QED BY <1>1, <2>3 DEF ThreeRoots
<1> QED BY <1>3, <1>4, <1>5, <1>6

LEMMA RestInv ==
    CouncilInv /\ (CouncilTick \/ UNCHANGED councilVars) => CouncilInv'
<1> SUFFICES ASSUME CouncilInv, CouncilTick \/ UNCHANGED councilVars
             PROVE  CouncilInv'
  OBVIOUS
<1> USE DEF CouncilInv, seatVars
<1>1. /\ UNCHANGED <<roots, moderators, moderator_count, proposals, named>>
      /\ enacted' \in {Nothing, enacted} /\ clock' \in 0..MaxClock
  BY DEF CouncilTick, councilVars, CouncilTypeOK
<1>2. CouncilTypeOK'
  BY <1>1 DEF CouncilTypeOK, Nothing
<1>3. OpenValid'
  BY <1>1 DEF OpenValid, Valid
<1>4. CouncilKept' /\ ThreeRoots'
  BY <1>1 DEF CouncilKept, ThreeRoots
<1> QED BY <1>2, <1>3, <1>4

LEMMA CouncilInvariant == CouncilSpec => []CouncilInv
<1>1. CouncilInv /\ [CouncilNext]_councilVars => CouncilInv'
  BY ProposeInv, SecondInv, EnactInv, RestInv DEF CouncilNext
<1> QED BY <1>1, InitCouncil, PTL DEF CouncilSpec

(* Approve enacts nothing that three different roots did not name.         *)
THEOREM ThreeRootsEnact == CouncilSpec => []ThreeRoots
<1>1. CouncilInv => ThreeRoots
  BY DEF CouncilInv
<1> QED BY <1>1, CouncilInvariant, PTL

(* Whatever is enacted, the ModerationLedger keeps as many roots as it was *)
(* deployed with, and moderator_count counts the moderators.               *)
THEOREM TheCouncilKeeps == CouncilSpec => []CouncilKept
<1>1. CouncilInv => CouncilKept
  BY DEF CouncilInv
<1> QED BY <1>1, CouncilInvariant, PTL

-----------------------------------------------------------------------------
(* The quota of a moderator                                                *)

(* The two halves of the ledger do not touch each other.                   *)
LEMMA LedgerIsCase == LedgerSpec => CaseSpec
<1>1. LedgerInit => CaseInit
  BY DEF LedgerInit
<1>2. [LedgerNext]_ledgerVars => [CaseNext]_caseVars
  BY DEF LedgerNext, CouncilStep, VerdictStep, ledgerVars
<1> QED BY <1>1, <1>2, PTL DEF LedgerSpec, CaseSpec

LEMMA QuotaTyped == Moderator!Quota \in Nat /\ Unit \in Nat
BY VerdictsAssumption DEF Moderator!Quota

LEMMA RefillAdds ==
    ASSUME NEW x \in Nat, NEW y \in Nat
    PROVE  /\ Moderator!Refill(x) \in Nat /\ Moderator!Refill(y) \in Nat
           /\ Moderator!Refill(x + y) \in Nat
           /\ Moderator!Refill(x) + Moderator!Refill(y)
                 <= Moderator!Refill(x + y)
<1> DEFINE q == Moderator!Quota
<1>1. q \in Nat
  BY QuotaTyped
<1> HIDE DEF q
<1>2. x * q \in Nat /\ y * q \in Nat /\ (x + y) * q = x * q + y * q
  BY <1>1
<1>3. ((x * q) \div Day) + ((y * q) \div Day) <= (x * q + y * q) \div Day
  BY <1>2, VerdictsAssumption, FloorAdds
<1>4. /\ (x * q) \div Day \in Nat /\ (y * q) \div Day \in Nat
      /\ (x * q + y * q) \div Day \in Nat
  BY <1>2, VerdictsAssumption, FloorIs
<1> QED BY <1>1, <1>2, <1>3, <1>4 DEF Moderator!Refill, q

(* No verdict is newer than the last, and those since a moment fit in what *)
(* is used now and what refilled up to the last.                           *)
QuotaInv ==
    /\ now \in 1..MaxTime
    /\ verdicts \in [0..MaxTime -> Nat]
    /\ seated \in 0..now
    /\ quota.last_at \in 0..now
    /\ quota.used \in 0..Moderator!Quota
    /\ \A t \in 0..MaxTime : t > quota.last_at => verdicts[t] = 0
    /\ \A t \in seated..quota.last_at :
          Unit * GivenSince(t)
             <= quota.used + Moderator!Refill(quota.last_at - t)

LEMMA GivenTyped ==
    ASSUME QuotaInv, NEW t \in Nat
    PROVE  /\ GivenSince(t) \in Nat
           /\ t > quota.last_at => GivenSince(t) = 0
           /\ IsFiniteSet(t..now) /\ t..now \subseteq 0..MaxTime
           /\ \A s \in t..now : verdicts[s] \in Nat
<1>1. /\ IsFiniteSet(t..now) /\ t..now \subseteq 0..MaxTime
      /\ \A s \in t..now : verdicts[s] \in Nat
  <2>1. now \in Nat /\ now <= MaxTime /\ MaxTime \in Nat
    BY DEF QuotaInv
  <2>2. t..now \subseteq 0..MaxTime
    BY <2>1
  <2>3. IsFiniteSet(t..now)
    BY <2>1, FS_Interval
  <2> QED BY <2>2, <2>3 DEF QuotaInv
<1>2. GivenSince(t) \in Nat
  BY <1>1, SumIsNatural DEF GivenSince
<1>3. t > quota.last_at => GivenSince(t) = 0
  <2> SUFFICES ASSUME t > quota.last_at PROVE GivenSince(t) = 0
    OBVIOUS
  <2>1. \A s \in t..now : verdicts[s] = 0
    BY <1>1 DEF QuotaInv
  <2> QED BY <1>1, <2>1, SumOfZeros DEF GivenSince
<1> QED BY <1>1, <1>2, <1>3

LEMMA QuotaInvHolds == QuotaInv => QuotaHolds
<1> SUFFICES ASSUME QuotaInv, NEW t \in seated..now
             PROVE  Unit * GivenSince(t)
                       <= Moderator!Quota + Moderator!Refill(now - t)
  BY DEF QuotaHolds
<1>1. t \in Nat /\ now \in Nat /\ t <= now /\ quota.last_at \in Nat
  BY DEF QuotaInv
<1>2. CASE t > quota.last_at
  <2>1. Unit * GivenSince(t) = 0
    <3>1. GivenSince(t) = 0
      BY <1>1, <1>2, GivenTyped
    <3> QED BY <3>1, QuotaTyped
  <2>2. now - t \in Nat /\ Moderator!Refill(now - t) \in Nat
    <3>1. now - t \in Nat
      BY <1>1
    <3> QED BY <3>1, RefillAdds
  <2> QED BY <2>1, <2>2, QuotaTyped
<1>3. CASE t <= quota.last_at
  <2> DEFINE x == quota.last_at - t
             y == now - quota.last_at
             given == Unit * GivenSince(t)
  <2>1. x \in Nat /\ y \in Nat /\ now - t = x + y
    BY <1>1, <1>3 DEF QuotaInv
  <2>2. given <= quota.used + Moderator!Refill(x)
    BY <1>1, <1>3 DEF QuotaInv
  <2>3. given \in Nat
    <3>1. GivenSince(t) \in Nat
      BY <1>1, GivenTyped
    <3> QED BY <3>1, QuotaTyped
  <2>4. /\ quota.used \in Nat /\ quota.used <= Moderator!Quota
        /\ Moderator!Quota \in Nat
    BY QuotaTyped DEF QuotaInv
  <2> HIDE DEF x, y, given
  <2>5. /\ Moderator!Refill(x) <= Moderator!Refill(x + y)
        /\ Moderator!Refill(x) \in Nat /\ Moderator!Refill(x + y) \in Nat
    <3>1. /\ Moderator!Refill(x) \in Nat /\ Moderator!Refill(y) \in Nat
          /\ Moderator!Refill(x + y) \in Nat
          /\ Moderator!Refill(x) + Moderator!Refill(y)
                <= Moderator!Refill(x + y)
      BY <2>1, RefillAdds
    <3> QED BY <3>1
  <2>6. given <= Moderator!Quota + Moderator!Refill(x + y)
    BY <2>2, <2>3, <2>4, <2>5
  <2> QED BY <2>1, <2>6 DEF given
<1> QED BY <1>1, <1>2, <1>3

(* A verdict is one more since every moment before it.                     *)
LEMMA VerdictKeepsQuota ==
    ASSUME QuotaInv, Moderator!Verdict
    PROVE  QuotaInv'
<1> DEFINE u == Moderator!UsedNow
           y == now - quota.last_at
<1>1. /\ u + Unit <= Moderator!Quota
      /\ quota'.used = u + Unit /\ quota'.last_at = now
      /\ verdicts' = [verdicts EXCEPT ![now] = verdicts[now] + 1]
      /\ UNCHANGED <<seated, now>>
  BY DEF Moderator!Verdict
<1>2. /\ now \in Nat /\ now \in 1..MaxTime /\ y \in Nat
      /\ quota.last_at \in Nat /\ quota.used \in Nat
      /\ Unit \in Nat /\ Moderator!Quota \in Nat
  BY QuotaTyped DEF QuotaInv
<1>3. /\ u \in Nat /\ u + Moderator!Refill(y) >= quota.used
      /\ Moderator!Refill(y) \in Nat
  <2>1. Moderator!Refill(y) \in Nat
    BY <1>2, RefillAdds
  <2>2. u = IF quota.used > Moderator!Refill(y)
            THEN quota.used - Moderator!Refill(y) ELSE 0
    BY DEF Moderator!UsedNow
  <2> HIDE DEF u, y
  <2> QED BY <1>2, <2>1, <2>2
<1> HIDE DEF u, y
<1>4. verdicts' \in [0..MaxTime -> Nat]
  BY <1>1, <1>2 DEF QuotaInv
<1>5. \A t \in 0..MaxTime : t > now => verdicts'[t] = 0
  BY <1>1, <1>2 DEF QuotaInv
<1>6. ASSUME NEW t \in Nat, t <= now
      PROVE  (GivenSince(t))' = GivenSince(t) + 1
  <2>1. now \in t..now
    BY <1>2, <1>6
  <2>2. /\ \A s \in t..now : verdicts[s] \in Int /\ verdicts'[s] \in Int
        /\ \A s \in t..now : s # now => verdicts'[s] = verdicts[s]
        /\ verdicts'[now] = verdicts[now] + 1
        /\ IsFiniteSet(t..now)
    <3>1. IsFiniteSet(t..now) /\ t..now \subseteq 0..MaxTime
      BY <1>6, QuotaTyped, GivenTyped
    <3>2. now \in 0..MaxTime
      BY <1>2, SanctionAssumption
    <3>3. verdicts \in [0..MaxTime -> Nat]
      BY DEF QuotaInv
    <3> QED BY <1>1, <1>4, <3>1, <3>2, <3>3
  <2>3. SumFunctionOnSet(verdicts', t..now)
           = SumFunctionOnSet(verdicts, t..now)
                + verdicts'[now] - verdicts[now]
    BY <2>1, <2>2, SumOfChange
  <2>4. verdicts[now] \in Nat /\ SumFunctionOnSet(verdicts, t..now) \in Nat
    BY <1>6, <2>1, GivenTyped DEF GivenSince
  <2> QED BY <1>1, <2>2, <2>3, <2>4 DEF GivenSince
<1>7. ASSUME NEW t \in seated'..quota'.last_at
      PROVE  Unit * (GivenSince(t))'
                <= quota'.used + Moderator!Refill(quota'.last_at - t)
  <2>1. t \in Nat /\ t <= now /\ t \in seated..now /\ now - t \in Nat
    BY <1>1, <1>2 DEF QuotaInv
  <2> DEFINE given == Unit * GivenSince(t)
  <2>2. given \in Nat /\ Unit * (GivenSince(t) + 1) = given + Unit
    <3>1. GivenSince(t) \in Nat
      BY <2>1, GivenTyped
    <3> QED BY <1>2, <3>1
  <2>3. Moderator!Refill(now - t) \in Nat
    BY <2>1, RefillAdds
  <2>4. given <= u + Moderator!Refill(now - t)
    <3>1. CASE t > quota.last_at
      <4>1. given = 0
        <5>1. GivenSince(t) = 0
          BY <2>1, <3>1, GivenTyped
        <5> QED BY <1>2, <5>1
      <4> QED BY <1>3, <2>3, <4>1
    <3>2. CASE t <= quota.last_at
      <4> DEFINE x == quota.last_at - t
      <4>1. x \in Nat /\ now - t = x + y /\ y \in Nat
        BY <1>2, <2>1, <3>2 DEF y
      <4>2. given <= quota.used + Moderator!Refill(x)
        BY <1>2, <2>1, <3>2 DEF QuotaInv
      <4> HIDE DEF x, given
      <4>3. /\ Moderator!Refill(x) + Moderator!Refill(y)
                  <= Moderator!Refill(x + y)
            /\ Moderator!Refill(x) \in Nat
        BY <4>1, RefillAdds
      <4> QED BY <1>2, <1>3, <2>2, <2>3, <4>1, <4>2, <4>3
    <3> QED BY <1>2, <2>1, <3>1, <3>2
  <2> HIDE DEF given
  <2>5. Unit * (GivenSince(t))' = given + Unit
    BY <1>6, <2>1, <2>2
  <2> QED BY <1>1, <1>2, <1>3, <2>2, <2>3, <2>4, <2>5
<1>8. quota'.used \in 0..Moderator!Quota /\ quota'.last_at \in 0..now
  BY <1>1, <1>2, <1>3
<1> QED BY <1>1, <1>2, <1>4, <1>5, <1>7, <1>8 DEF QuotaInv

LEMMA SeatKeepsQuota ==
    ASSUME QuotaInv, Moderator!SeatAgain
    PROVE  QuotaInv'
<1>1. /\ quota'.used = 0 /\ quota'.last_at = 0
      /\ seated' = now /\ now' = now
      /\ verdicts' = [t \in 0..MaxTime |-> 0]
  BY DEF Moderator!SeatAgain, Moderator!NoQuota
<1>2. now \in 1..MaxTime /\ MaxTime \in Nat
  BY DEF QuotaInv
<1>3. seated'..quota'.last_at = {}
  BY <1>1, <1>2
<1>4. Moderator!Quota \in Nat
  BY QuotaTyped
<1> QED BY <1>1, <1>2, <1>3, <1>4 DEF QuotaInv

(* Time passes: nothing was given yet in the new instant.                  *)
LEMMA TickKeepsQuota ==
    ASSUME QuotaInv, Tick, UNCHANGED quotaVars
    PROVE  QuotaInv'
<1>1. /\ now' = now + 1 /\ now < MaxTime
      /\ UNCHANGED <<quota, seated, verdicts>>
  BY DEF Tick, quotaVars
<1>2. now \in Nat /\ now' \in 1..MaxTime /\ quota.last_at \in Nat
  BY <1>1 DEF QuotaInv
<1>3. ASSUME NEW t \in Nat, t <= now PROVE (GivenSince(t))' = GivenSince(t)
  <2>1. /\ t..now' = (t..now) \cup {now'} /\ now' \notin t..now
    BY <1>1, <1>2, <1>3
  <2>2. verdicts[now'] = 0
    BY <1>1, <1>2 DEF QuotaInv
  <2>3. /\ IsFiniteSet(t..now)
        /\ \A s \in t..now : verdicts[s] \in Nat
        /\ GivenSince(t) \in Nat
    BY GivenTyped
  <2>4. \A s \in (t..now) \cup {now'} : verdicts[s] \in Int
    BY <2>2, <2>3
  <2> DEFINE n == now'
  <2>5. SumFunctionOnSet(verdicts, (t..now) \cup {n})
           = verdicts[n] + SumFunctionOnSet(verdicts, t..now)
    <3> HIDE DEF n
    <3>1. n \notin t..now /\ \A s \in (t..now) \cup {n} : verdicts[s] \in Int
      BY <2>1, <2>4 DEF n
    <3> QED BY <2>3, <3>1, SumWith
  <2>6. (GivenSince(t))' = SumFunctionOnSet(verdicts, (t..now) \cup {now'})
    BY <1>1, <2>1 DEF GivenSince
  <2> QED BY <2>2, <2>3, <2>5, <2>6 DEF GivenSince
<1>4. \A t \in seated..quota.last_at : t \in Nat /\ t <= now
  BY <1>2 DEF QuotaInv
<1> QED BY <1>1, <1>2, <1>3, <1>4 DEF QuotaInv

LEMMA StillQuota ==
    ASSUME QuotaInv, UNCHANGED <<quotaVars, now>>
    PROVE  QuotaInv'
BY DEF QuotaInv, quotaVars, GivenSince

LEMMA CaseKeepsQuota == QuotaInv /\ [CaseNext]_caseVars => QuotaInv'
<1> SUFFICES ASSUME QuotaInv, [CaseNext]_caseVars PROVE QuotaInv'
  OBVIOUS
<1>1. CASE \E order \in Orders : Verdict(order)
  BY <1>1, VerdictKeepsQuota, StillQuota DEF Verdict
<1>2. CASE SeatAgain
  BY <1>2, SeatKeepsQuota DEF SeatAgain
<1>3. CASE Pass
  BY <1>3, TickKeepsQuota DEF Pass
<1>4. CASE Others
  BY <1>4, StillQuota DEF Others, RetireSanction, vars
<1>5. CASE Refuse
  BY <1>5, StillQuota DEF Refuse, Forward, vars
<1>6. CASE \E action \in WalletActions :
              /\ SetWalletSanction(action)
              /\ \/ WarnWallet \/ RestrictWallet
                 \/ UnwarnWallet \/ UnrestrictWallet
  BY <1>6, StillQuota DEF SetWalletSanction, Forward, WarnWallet,
     RestrictWallet, UnwarnWallet, UnrestrictWallet
<1>7. CASE \E action \in EntryActions, e \in DOMAIN entries :
              SetEntryHidden(action, e)
  BY <1>7, StillQuota DEF SetEntryHidden, Forward, vars
<1>8. CASE UNCHANGED caseVars
  BY <1>8, StillQuota DEF caseVars, vars
<1> QED BY <1>1, <1>2, <1>3, <1>4, <1>5, <1>6, <1>7, <1>8
        DEF CaseNext, WalletActions, EntryActions

(* However a moderator's verdicts are spread, no period of a seat sees     *)
(* more of them than a full quota and what refills in it: for any quota,   *)
(* unit and length of a day, no rounding adds up.                          *)
THEOREM QuotaIsKept == LedgerSpec => []QuotaHolds
<1>1. CaseInit => QuotaInv
  <2> SUFFICES ASSUME CaseInit PROVE QuotaInv
    OBVIOUS
  <2>1. /\ now = 1 /\ seated = 1 /\ quota.used = 0 /\ quota.last_at = 0
        /\ verdicts = [t \in 0..MaxTime |-> 0]
    BY DEF CaseInit, Init, Moderator!Init, Moderator!NoQuota
  <2>2. Moderator!Quota \in Nat /\ MaxTime \in Nat \ {0}
    BY QuotaTyped
  <2> QED BY <2>1, <2>2 DEF QuotaInv
<1> QED BY <1>1, CaseKeepsQuota, QuotaInvHolds, LedgerIsCase, PTL
        DEF CaseSpec

-----------------------------------------------------------------------------
(* The wallet of a case                                                    *)

LEMMA SinceStep ==
    ASSUME TypeOK, [Next]_vars,
           shard.restricted, shard'.restricted, ~Expired
    PROVE  shard'.since = shard.since
<1>1. Current = shard /\ shard.restricted
  BY DEF Current
<1>2. Since(TRUE) = shard.since
  BY <1>1 DEF Since
<1>3. CASE WarnWallet
  <2> DEFINE w == IF Current.warnings < MaxWarnings
                  THEN Current.warnings + 1 ELSE MaxWarnings
             r == Current.restricted \/ w >= WarningsToRestrict
  <2>1. shard'.since = Since(r)
    BY <1>3 DEF WarnWallet
  <2>2. Since(r) = Since(TRUE)
    <3>1. r
      BY <1>1
    <3> QED BY <1>2, <3>1, <1>1 DEF Since
  <2> QED BY <1>2, <2>1, <2>2
<1>4. CASE RestrictWallet
  BY <1>1, <1>2, <1>4 DEF RestrictWallet, TypeOK
<1>5. CASE UnwarnWallet
  <2>1. ~Blank.restricted
    BY BlankFields
  <2> QED BY <1>1, <1>5, <2>1 DEF UnwarnWallet
<1>6. CASE UnrestrictWallet \/ RetireSanction
  BY <1>6, BlankFields DEF UnrestrictWallet, RetireSanction
<1>7. CASE Tick \/ UNCHANGED vars
  BY <1>7 DEF Tick, vars
<1> QED BY <1>3, <1>4, <1>5, <1>6, <1>7 DEF Next

(* To its wallet a case is a behaviour of SanctionShard.                   *)
LEMMA CaseIsStanding == CaseSpec => Spec
<1>1. CaseInit => Init
  BY DEF CaseInit
<1>2. [CaseNext]_caseVars => [Next]_vars
  <2> SUFFICES ASSUME [CaseNext]_caseVars PROVE [Next]_vars
    OBVIOUS
  <2>1. CASE \E order \in Orders : Verdict(order)
    BY <2>1 DEF Verdict, Moderator!Verdict, vars
  <2>2. CASE SeatAgain
    BY <2>2 DEF SeatAgain, Moderator!SeatAgain, vars
  <2>3. CASE \/ SetWalletSanction("warn") /\ WarnWallet
             \/ SetWalletSanction("restrict") /\ RestrictWallet
             \/ SetWalletSanction("unwarn") /\ UnwarnWallet
             \/ SetWalletSanction("unrestrict") /\ UnrestrictWallet
    BY <2>3 DEF Next
  <2>4. CASE \E e \in DOMAIN entries :
               \/ SetEntryHidden("hide", e)
                  /\ (HideEntry(e) \/ Kept(e, TRUE))
               \/ SetEntryHidden("unhide", e)
                  /\ (ShowEntry(e) \/ Kept(e, FALSE))
    BY <2>4 DEF SetEntryHidden
  <2>5. CASE Refuse
    BY <2>5 DEF Refuse
  <2>6. CASE Others
    BY <2>6 DEF Others, Next
  <2>7. CASE Pass
    BY <2>7 DEF Pass, Next
  <2>8. CASE UNCHANGED caseVars
    BY <2>8 DEF caseVars
  <2> QED BY <2>1, <2>2, <2>3, <2>4, <2>5, <2>6, <2>7, <2>8 DEF CaseNext
<1> QED BY <1>1, <1>2, PTL DEF CaseSpec, Spec

(* A wallet judged by the ledger is restricted exactly while a cause for   *)
(* it stands, whatever is relayed, refused and retired between.            *)
THEOREM CasesHaveCause == LedgerSpec => []RestrictedForCause
BY LedgerIsCase, CaseIsStanding, RestrictionsHaveCause, PTL

(* The date of a restriction stands for as long as the restriction does:   *)
(* no later warning, decision or warning taken back moves it.              *)
THEOREM SinceIsKept == LedgerSpec => SinceKept
<1>1. Spec => []TypeOK
  <2>1. Init => StandingInv
    BY InitStanding
  <2>2. StandingInv => TypeOK
    BY DEF StandingInv
  <2> QED BY <2>1, <2>2, StandingStep, PTL DEF Spec
<1>2. TypeOK /\ [Next]_vars
        => [shard.restricted /\ shard'.restricted /\ ~Expired
               => shard'.since = shard.since]_vars
  BY SinceStep
<1>3. Spec => SinceKept
  BY <1>1, <1>2, PTL DEF Spec, SinceKept
<1> QED BY <1>3, LedgerIsCase, CaseIsStanding, PTL

-----------------------------------------------------------------------------
(* The shard of the entries.  Its map holds beacons, the index of what is  *)
(* hidden and the reactions: a step changes keys of one kind.              *)

USE PublicAssumption

EntryRecords == [publisher : Publishers, hidden : BOOLEAN]
Ways == 0..Emojis - 1
Leaves == {k \in DOMAIN slots : k[1] = "reactions"}
Capped(n) == IF n < Base THEN n ELSE Base - 1

EntriesInv ==
    /\ \E n \in Nat : DOMAIN entries = 0..n - 1
    /\ entries \in [DOMAIN entries -> EntryRecords]

BeaconInv ==
    /\ \A p \in Publishers : BeaconOf(p) \in DOMAIN slots =>
          /\ slots[BeaconOf(p)] \in DOMAIN entries
          /\ entries[slots[BeaconOf(p)]].publisher = p
    /\ kind = "beacon" => \A e \in DOMAIN entries :
          /\ BeaconOf(entries[e].publisher) \in DOMAIN slots
          /\ slots[BeaconOf(entries[e].publisher)] = e

(* The places and what is hidden point at each other.                      *)
IndexInv ==
    /\ hidden_count \in Nat
    /\ hidden_count = Cardinality(Hidden)
    /\ \A i \in 0..hidden_count - 1 :
          /\ HiddenAt(i) \in DOMAIN slots
          /\ slots[HiddenAt(i)] \in Hidden
          /\ slots[PlaceOf(slots[HiddenAt(i)])] = i
    /\ \A e \in Hidden :
          /\ PlaceOf(e) \in DOMAIN slots
          /\ slots[PlaceOf(e)] \in 0..hidden_count - 1
          /\ slots[HiddenAt(slots[PlaceOf(e)])] = e
    /\ \A k \in DOMAIN slots :
          /\ k[1] = "hidden" => \E i \in 0..hidden_count - 1 : k = HiddenAt(i)
          /\ k[1] = "place" => \E e \in Hidden : k = PlaceOf(e)

ReactionInv ==
    /\ reacted \in [(DOMAIN entries) \X Ways -> Nat]
    /\ \A k \in Leaves : k[2] \in DOMAIN entries /\ slots[k] \in Nat
    /\ IsFiniteSet(Leaves) /\ reaction_count = Cardinality(Leaves)
    /\ \A e \in DOMAIN entries, m \in Ways :
          CountOf(Packed(LeafOf(e, m)), m) = Capped(reacted[<<e, m>>])

PublicInv == EntriesInv /\ BeaconInv /\ IndexInv /\ ReactionInv

LEMMA PutIs ==
    ASSUME NEW f, NEW k, NEW v
    PROVE  /\ DOMAIN Put(f, k, v) = DOMAIN f \cup {k}
           /\ Put(f, k, v)[k] = v
           /\ \A x \in DOMAIN f : x # k => Put(f, k, v)[x] = f[x]
BY DEF Put

LEMMA WithoutIs ==
    ASSUME NEW f, NEW K
    PROVE  /\ DOMAIN Without(f, K) = DOMAIN f \ K
           /\ \A x \in DOMAIN f \ K : Without(f, K)[x] = f[x]
BY DEF Without, Restrict

LEMMA Keys ==
    /\ \A p : BeaconOf(p)[1] = "beacon" /\ BeaconOf(p)[2] = p
    /\ \A i : HiddenAt(i)[1] = "hidden" /\ HiddenAt(i)[2] = i
    /\ \A e : PlaceOf(e)[1] = "place" /\ PlaceOf(e)[2] = e
    /\ \A e, m : /\ LeafOf(e, m)[1] = "reactions" /\ LeafOf(e, m)[2] = e
                 /\ LeafOf(e, m)[3] = m \div PerLeaf
BY DEF BeaconOf, HiddenAt, PlaceOf, LeafOf

(* The entries and the next of them.                                       *)
LEMMA EntryCount ==
    ASSUME EntriesInv
    PROVE  /\ IsFiniteSet(DOMAIN entries) /\ IsFiniteSet(Hidden)
           /\ entry_count \in Nat /\ entry_count \notin DOMAIN entries
           /\ DOMAIN entries = 0..entry_count - 1
           /\ DOMAIN entries \cup {entry_count} = 0..entry_count
           /\ Hidden \subseteq DOMAIN entries
<1>1. PICK n \in Nat : DOMAIN entries = 0..n - 1
  BY DEF EntriesInv
<1>2. IsFiniteSet(0..n - 1) /\ Cardinality(0..n - 1) = n
  <2>1. n - 1 \in Int /\ 0 \in Int
    OBVIOUS
  <2>2. /\ IsFiniteSet(0..n - 1)
        /\ Cardinality(0..n - 1)
             = IF 0 > n - 1 THEN 0 ELSE (n - 1) - 0 + 1
    BY <2>1, FS_Interval
  <2> QED BY <2>2
<1>3. entry_count = n /\ IsFiniteSet(DOMAIN entries)
  BY <1>1, <1>2 DEF entry_count
<1>4. Hidden \subseteq DOMAIN entries
  BY DEF Hidden
<1>5. IsFiniteSet(Hidden)
  BY <1>3, <1>4, FS_Subset
<1> QED BY <1>1, <1>3, <1>4, <1>5

(* A step that leaves the keys of a kind alone.                            *)
SameSlots(c) ==
    \A k : k[1] = c =>
        /\ k \in DOMAIN slots' <=> k \in DOMAIN slots
        /\ k \in DOMAIN slots => slots'[k] = slots[k]

LEMMA PutElsewhere ==
    ASSUME NEW k, NEW v, slots' = Put(slots, k, v), NEW c, k[1] # c
    PROVE  SameSlots(c)
<1>1. /\ DOMAIN slots' = DOMAIN slots \cup {k}
      /\ \A x \in DOMAIN slots : x # k => slots'[x] = slots[x]
  BY DEF Put
<1> QED BY <1>1 DEF SameSlots

LEMMA IndexFrame ==
    ASSUME IndexInv, SameSlots("hidden"), SameSlots("place"),
           Hidden' = Hidden, hidden_count' = hidden_count
    PROVE  IndexInv'
<1>1. hidden_count' \in Nat /\ hidden_count' = Cardinality(Hidden')
  BY DEF IndexInv
<1>2. ASSUME NEW i \in 0..hidden_count - 1
      PROVE  /\ HiddenAt(i) \in DOMAIN slots'
             /\ slots'[HiddenAt(i)] \in Hidden
             /\ slots'[PlaceOf(slots'[HiddenAt(i)])] = i
  <2>1. /\ slots'[HiddenAt(i)] = slots[HiddenAt(i)]
        /\ HiddenAt(i) \in DOMAIN slots'
    BY Keys DEF IndexInv, SameSlots
  <2>2. PlaceOf(slots[HiddenAt(i)]) \in DOMAIN slots
    BY DEF IndexInv
  <2> QED BY <2>1, <2>2, Keys DEF IndexInv, SameSlots
<1>3. ASSUME NEW e \in Hidden
      PROVE  /\ PlaceOf(e) \in DOMAIN slots'
             /\ slots'[PlaceOf(e)] \in 0..hidden_count - 1
             /\ slots'[HiddenAt(slots'[PlaceOf(e)])] = e
  <2>1. slots'[PlaceOf(e)] = slots[PlaceOf(e)] /\ PlaceOf(e) \in DOMAIN slots'
    BY Keys DEF IndexInv, SameSlots
  <2>2. /\ slots[PlaceOf(e)] \in 0..hidden_count - 1
        /\ HiddenAt(slots[PlaceOf(e)]) \in DOMAIN slots
    BY DEF IndexInv
  <2> QED BY <2>1, <2>2, Keys DEF IndexInv, SameSlots
<1>4. ASSUME NEW k \in DOMAIN slots'
      PROVE  /\ k[1] = "hidden"
                  => \E i \in 0..hidden_count - 1 : k = HiddenAt(i)
             /\ k[1] = "place" => \E e \in Hidden : k = PlaceOf(e)
  BY DEF IndexInv, SameSlots
<1>5. \A i \in 0..hidden_count' - 1 :
          /\ HiddenAt(i) \in DOMAIN slots'
          /\ slots'[HiddenAt(i)] \in Hidden'
          /\ slots'[PlaceOf(slots'[HiddenAt(i)])] = i
  BY <1>2, Zenon
<1>6. \A e \in Hidden' :
          /\ PlaceOf(e) \in DOMAIN slots'
          /\ slots'[PlaceOf(e)] \in 0..hidden_count' - 1
          /\ slots'[HiddenAt(slots'[PlaceOf(e)])] = e
  BY <1>3, Zenon
<1>7. \A k \in DOMAIN slots' :
          /\ k[1] = "hidden" => \E i \in 0..hidden_count' - 1 : k = HiddenAt(i)
          /\ k[1] = "place" => \E e \in Hidden' : k = PlaceOf(e)
  BY <1>4, Zenon
<1> QED BY <1>1, <1>5, <1>6, <1>7, Zenon
        DEF IndexInv, HiddenAt, PlaceOf

LEMMA ReactionFrame ==
    ASSUME ReactionInv, SameSlots("reactions"),
           DOMAIN entries' = DOMAIN entries,
           UNCHANGED <<reacted, reaction_count>>
    PROVE  ReactionInv'
<1>1. Leaves' = Leaves
  BY DEF Leaves, SameSlots
<1>2. \A k \in Leaves' : k[2] \in DOMAIN entries' /\ slots'[k] \in Nat
  BY <1>1 DEF ReactionInv, Leaves, SameSlots
<1>3. \A e, m : Packed(LeafOf(e, m))' = Packed(LeafOf(e, m))
  BY Keys DEF Packed, SameSlots, LeafOf
<1>4. \A e \in DOMAIN entries', m \in Ways :
         CountOf(Packed(LeafOf(e, m)), m)' = Capped(reacted'[<<e, m>>])
  <2> SUFFICES ASSUME NEW e \in DOMAIN entries', NEW m \in Ways
               PROVE  CountOf(Packed(LeafOf(e, m)), m)'
                         = Capped(reacted'[<<e, m>>])
    BY Zenon
  <2>1. CountOf(Packed(LeafOf(e, m)), m) = Capped(reacted'[<<e, m>>])
    BY DEF ReactionInv
  <2>2. CountOf(Packed(LeafOf(e, m)), m)' = CountOf(Packed(LeafOf(e, m)), m)
    BY <1>3 DEF CountOf, Packed, LeafOf
  <2> QED BY <2>1, <2>2
<1>5. /\ reacted' \in [(DOMAIN entries') \X Ways -> Nat]
      /\ IsFiniteSet(Leaves') /\ reaction_count' = Cardinality(Leaves')
  BY <1>1 DEF ReactionInv
<1> QED BY <1>2, <1>4, <1>5 DEF ReactionInv, Ways, Capped

LEMMA BeaconFrame ==
    ASSUME BeaconInv, SameSlots("beacon"), kind' = kind,
           EntriesInv,
           DOMAIN entries' = DOMAIN entries,
           \A e \in DOMAIN entries :
              entries'[e].publisher = entries[e].publisher
    PROVE  BeaconInv'
<1>1. ASSUME NEW p \in Publishers, BeaconOf(p) \in DOMAIN slots'
      PROVE  /\ slots'[BeaconOf(p)] \in DOMAIN entries'
             /\ entries'[slots'[BeaconOf(p)]].publisher = p
  BY <1>1, Keys DEF BeaconInv, SameSlots
<1>2. ASSUME kind' = "beacon", NEW e \in DOMAIN entries'
      PROVE  /\ BeaconOf(entries'[e].publisher) \in DOMAIN slots'
             /\ slots'[BeaconOf(entries'[e].publisher)] = e
  BY <1>2, Keys DEF BeaconInv, SameSlots
<1> QED BY <1>1, <1>2 DEF BeaconInv, BeaconOf

(* The counters in one number                                              *)

LEMMA PowerIsPower == IsPower(Power, Base)
<1> DEFINE Is(g) == g = [n \in Nat |-> IF n = 0 THEN 1 ELSE Base * g[n - 1]]
<1>1. \E g : Is(g)
  BY PowersExist
<1>2. Power = CHOOSE g : Is(g)
  BY DEF Power
<1> HIDE DEF Is
<1>3. Is(Power)
  BY <1>1, <1>2
<1>4. Power[0] = 1
  BY <1>3 DEF Is
<1>5. ASSUME NEW n \in Nat PROVE Power[n + 1] = Base * Power[n]
  <2>1. n + 1 \in Nat /\ n + 1 # 0 /\ (n + 1) - 1 = n
    OBVIOUS
  <2> QED BY <1>3, <2>1 DEF Is
<1> QED BY <1>4, <1>5 DEF IsPower

LEMMA CountTyped ==
    ASSUME NEW n \in Nat, NEW m \in Nat
    PROVE  /\ m % PerLeaf \in Nat /\ Shift(m) \in Nat \ {0}
           /\ CountOf(n, m) \in 0..Base - 1
<1>1. m % PerLeaf \in Nat
  BY RestIs
<1>2. Shift(m) \in Nat \ {0}
  BY <1>1, PowerIsPower, PowersPositive DEF Shift
<1> DEFINE x == n \div Shift(m)
<1>3. x \in Nat
  BY <1>2, FloorIs
<1> HIDE DEF x
<1>4. x % Base \in Nat /\ x % Base < Base
  BY <1>3, RestIs
<1>5. x % Base \in 0..Base - 1
  BY <1>4
<1> QED BY <1>1, <1>2, <1>5 DEF CountOf, x

LEMMA NothingCounted ==
    ASSUME NEW m \in Nat
    PROVE  CountOf(0, m) = 0 /\ Room(0, m)
<1> DEFINE s == Shift(m)
<1>1. s \in Nat \ {0}
  BY CountTyped
<1> HIDE DEF s
<1>2. 0 \div s = 0
  <2>1. (s * 0 + 0) \div s = 0
    BY <1>1, FloorOfParts
  <2>2. s * 0 + 0 = 0
    BY <1>1
  <2> QED BY <2>1, <2>2
<1>3. CountOf(0, m) = 0
  BY <1>2 DEF CountOf, s
<1> QED BY <1>3 DEF Room

(* A reaction counted is not carried into another counter.                 *)
LEMMA CountedOnce ==
    ASSUME NEW n \in Nat, NEW m \in Nat, NEW l \in Nat,
           l \div PerLeaf = m \div PerLeaf, Room(n, m)
    PROVE  CountOf(n + Shift(m), l) =
               IF l = m THEN CountOf(n, m) + 1 ELSE CountOf(n, l)
<1> DEFINE i == l % PerLeaf
           j == m % PerLeaf
<1>1. /\ i \in Nat /\ l = PerLeaf * (l \div PerLeaf) + i
      /\ j \in Nat /\ m = PerLeaf * (m \div PerLeaf) + j
  BY RestIs
<1>2. i = j <=> l = m
  <2> HIDE DEF i, j
  <2> DEFINE c == PerLeaf * (m \div PerLeaf)
  <2>1. c \in Nat
    BY RestIs
  <2>2. l = c + i /\ m = c + j
    BY <1>1
  <2> HIDE DEF c
  <2> QED BY <1>1, <2>1, <2>2
<1>3. (n \div Power[j]) % Base < Base - 1
  BY DEF Room, CountOf, Shift
<1> HIDE DEF i, j
<1>4. ((n + Power[j]) \div Power[i]) % Base =
          IF i = j THEN ((n \div Power[j]) % Base) + 1
                   ELSE (n \div Power[i]) % Base
  BY <1>1, <1>3, PowerIsPower, DigitAdded
<1> QED BY <1>2, <1>4 DEF CountOf, Shift, i, j

-----------------------------------------------------------------------------
(* The steps of the shard                                                  *)

LEMMA PublishKeeps ==
    ASSUME PublicInv, NEW p \in Publishers, PublishEntry(p)
    PROVE  PublicInv'
<1> DEFINE n == entry_count
           new == [publisher |-> p, hidden |-> FALSE]
           b == BeaconOf(p)
<1>1. /\ kind = "beacon" => b \notin DOMAIN slots
      /\ entries' = Put(entries, n, new)
      /\ slots' = IF kind = "beacon" THEN Put(slots, b, n) ELSE slots
      /\ reacted' = [x \in DOMAIN reacted \cup ({n} \X Ways)
                       |-> IF x[1] = n THEN 0 ELSE reacted[x]]
      /\ kind' = kind /\ hidden_count' = hidden_count
      /\ reaction_count' = reaction_count
  BY DEF PublishEntry, Ways
<1>2. /\ n \in Nat /\ n \notin DOMAIN entries
      /\ DOMAIN entries \cup {n} = 0..n
      /\ Hidden \subseteq DOMAIN entries
  BY EntryCount DEF PublicInv
<1>3. new \in EntryRecords /\ new.publisher = p /\ ~new.hidden
  BY DEF EntryRecords
<1> HIDE DEF new, n
<1>4. /\ DOMAIN entries' = DOMAIN entries \cup {n}
      /\ entries'[n] = new
      /\ \A e \in DOMAIN entries : e # n /\ entries'[e] = entries[e]
  BY <1>1, <1>2 DEF Put
<1>5. EntriesInv'
  <2>1. n + 1 \in Nat /\ (n + 1) - 1 = n
    BY <1>2
  <2>2. \E m \in Nat : DOMAIN entries' = 0..m - 1
    BY <1>2, <1>4, <2>1
  <2>3. entries' \in [DOMAIN entries' -> EntryRecords]
    BY <1>1, <1>3, <1>4 DEF PublicInv, EntriesInv, Put
  <2> QED BY <2>2, <2>3 DEF EntriesInv, EntryRecords
<1>6. SameSlots("hidden") /\ SameSlots("place") /\ SameSlots("reactions")
  <2>1. CASE kind = "beacon"
    <3>1. slots' = Put(slots, b, n) /\ b[1] = "beacon"
      BY <1>1, <2>1, Keys
    <3> QED BY <3>1, PutElsewhere
  <2>2. CASE kind # "beacon"
    BY <1>1, <2>2 DEF SameSlots
  <2> QED BY <2>1, <2>2
<1>7. IndexInv'
  <2>1. Hidden' = Hidden
    BY <1>3, <1>4 DEF Hidden
  <2> QED BY <1>1, <1>6, <2>1, IndexFrame DEF PublicInv
<1>8. BeaconInv'
  <2>1. ASSUME NEW q \in Publishers, BeaconOf(q) \in DOMAIN slots'
        PROVE  /\ slots'[BeaconOf(q)] \in DOMAIN entries'
               /\ entries'[slots'[BeaconOf(q)]].publisher = q
    <3>1. CASE kind = "beacon" /\ q = p
      <4>1. slots'[BeaconOf(q)] = n
        BY <1>1, <3>1 DEF Put
      <4> QED BY <1>3, <1>4, <3>1, <4>1
    <3>2. CASE ~(kind = "beacon" /\ q = p)
      <4>1. BeaconOf(q) \in DOMAIN slots
            /\ slots'[BeaconOf(q)] = slots[BeaconOf(q)]
        <5>1. CASE kind = "beacon"
          <6>1. BeaconOf(q) # b
            BY <3>2, <5>1, Keys
          <6> QED BY <1>1, <2>1, <5>1, <6>1 DEF Put
        <5>2. CASE kind # "beacon"
          BY <1>1, <2>1, <5>2
        <5> QED BY <5>1, <5>2
      <4>2. /\ slots[BeaconOf(q)] \in DOMAIN entries
            /\ entries[slots[BeaconOf(q)]].publisher = q
        BY <4>1 DEF PublicInv, BeaconInv
      <4> QED BY <1>4, <4>1, <4>2
    <3> QED BY <3>1, <3>2
  <2>2. ASSUME kind = "beacon", NEW e \in DOMAIN entries'
        PROVE  /\ BeaconOf(entries'[e].publisher) \in DOMAIN slots'
               /\ slots'[BeaconOf(entries'[e].publisher)] = e
    <3>1. slots' = Put(slots, b, n)
      BY <1>1, <2>2
    <3>2. CASE e = n
      BY <1>3, <1>4, <3>1, <3>2 DEF Put
    <3>3. CASE e # n
      <4>1. e \in DOMAIN entries /\ entries'[e] = entries[e]
        BY <1>4, <3>3
      <4>2. /\ BeaconOf(entries[e].publisher) \in DOMAIN slots
            /\ slots[BeaconOf(entries[e].publisher)] = e
        BY <2>2, <4>1 DEF PublicInv, BeaconInv
      <4>3. BeaconOf(entries[e].publisher) # b
        BY <1>1, <2>2, <4>2
      <4> QED BY <3>1, <4>1, <4>2, <4>3 DEF Put
    <3> QED BY <3>2, <3>3
  <2> QED BY <1>1, <2>1, <2>2 DEF BeaconInv, BeaconOf
<1>9. ReactionInv'
  <2> USE DEF PublicInv
  <2>1. /\ reacted \in [(DOMAIN entries) \X Ways -> Nat]
        /\ \A k \in Leaves : k[2] \in DOMAIN entries /\ slots[k] \in Nat
    BY DEF ReactionInv
  <2>2. reacted' \in [(DOMAIN entries') \X Ways -> Nat]
    BY <1>1, <1>4, <2>1
  <2>3. Leaves' = Leaves
    BY <1>6 DEF Leaves, SameSlots
  <2>4. \A k \in Leaves' : k[2] \in DOMAIN entries' /\ slots'[k] \in Nat
    BY <1>4, <1>6, <2>1, <2>3 DEF Leaves, SameSlots
  <2>5. IsFiniteSet(Leaves') /\ reaction_count' = Cardinality(Leaves')
    BY <1>1, <2>3 DEF ReactionInv
  <2>6. ASSUME NEW e \in DOMAIN entries', NEW m \in Ways
        PROVE  CountOf(Packed(LeafOf(e, m)), m)' = Capped(reacted'[<<e, m>>])
    <3>1. Packed(LeafOf(e, m))' = Packed(LeafOf(e, m))
      BY <1>6, Keys DEF Packed, SameSlots, LeafOf
    <3>2. CountOf(Packed(LeafOf(e, m)), m)' = CountOf(Packed(LeafOf(e, m)), m)
      BY <3>1 DEF CountOf, Packed, LeafOf
    <3>3. CASE e = n
      <4>1. reacted'[<<e, m>>] = 0
        BY <1>1, <3>3
      <4>2. LeafOf(e, m) \notin DOMAIN slots
        BY <1>2, <2>1, <3>3, Keys DEF Leaves
      <4>3. Packed(LeafOf(e, m)) = 0
        BY <4>2 DEF Packed
      <4>4. CountOf(0, m) = 0
        BY NothingCounted DEF Ways
      <4> QED BY <3>2, <4>1, <4>3, <4>4 DEF Capped
    <3>4. CASE e # n
      <4>1. e \in DOMAIN entries
        BY <1>4, <3>4
      <4>2. reacted'[<<e, m>>] = reacted[<<e, m>>]
        BY <1>1, <2>1, <3>4, <4>1
      <4>3. CountOf(Packed(LeafOf(e, m)), m) = Capped(reacted[<<e, m>>])
        BY <4>1 DEF ReactionInv
      <4> QED BY <3>2, <4>2, <4>3
    <3> QED BY <3>3, <3>4
  <2> QED BY <2>2, <2>4, <2>5, <2>6 DEF ReactionInv, Ways, Capped
<1> QED BY <1>5, <1>7, <1>8, <1>9 DEF PublicInv

LEMMA RewriteKeeps ==
    ASSUME PublicInv, NEW p \in Publishers, RewriteBeacon(p)
    PROVE  PublicInv'
<1> DEFINE e == slots[BeaconOf(p)]
           new == [publisher |-> p, hidden |-> entries[e].hidden]
<1>1. /\ BeaconOf(p) \in DOMAIN slots
      /\ entries' = Put(entries, e, new)
      /\ UNCHANGED <<kind, slots, hidden_count, reaction_count, reacted>>
  BY DEF RewriteBeacon
<1>2. e \in DOMAIN entries /\ entries[e].publisher = p
  BY <1>1 DEF PublicInv, BeaconInv
<1>3. new \in EntryRecords
  BY <1>2 DEF PublicInv, EntriesInv, EntryRecords
<1>4. /\ new.publisher = entries[e].publisher
      /\ new.hidden = entries[e].hidden
  BY <1>2
<1> HIDE DEF new, e
<1>5. /\ DOMAIN entries' = DOMAIN entries
      /\ \A d \in DOMAIN entries :
            entries'[d] = IF d = e THEN new ELSE entries[d]
  BY <1>1, <1>2 DEF Put
<1>6. EntriesInv'
  <2>1. entries' \in [DOMAIN entries' -> EntryRecords]
    BY <1>1, <1>2, <1>3, <1>5 DEF PublicInv, EntriesInv, Put
  <2> QED BY <1>5, <2>1 DEF PublicInv, EntriesInv, EntryRecords
<1>7. \A d \in DOMAIN entries :
         /\ entries'[d].publisher = entries[d].publisher
         /\ entries'[d].hidden = entries[d].hidden
  BY <1>4, <1>5
<1>8. Hidden' = Hidden
  BY <1>5, <1>7 DEF Hidden
<1>9. \A c : SameSlots(c)
  BY <1>1 DEF SameSlots
<1>10. IndexInv' /\ ReactionInv' /\ BeaconInv'
  BY <1>1, <1>5, <1>7, <1>8, <1>9, IndexFrame, ReactionFrame, BeaconFrame
     DEF PublicInv
<1> QED BY <1>6, <1>10 DEF PublicInv

(* What a hidden mark changes in the entries.                              *)
LEMMA MarkedIs ==
    ASSUME EntriesInv, NEW e \in DOMAIN entries, NEW h \in BOOLEAN,
           Marked(e, h)
    PROVE  /\ DOMAIN entries' = DOMAIN entries
           /\ entries'[e].hidden = h
           /\ entries'[e].publisher = entries[e].publisher
           /\ \A d \in DOMAIN entries : d # e => entries'[d] = entries[d]
           /\ EntriesInv'
<1>1. entries' = [entries EXCEPT ![e] = [entries[e] EXCEPT !.hidden = h]]
  BY DEF Marked
<1>2. entries[e] \in EntryRecords
  BY DEF EntriesInv
<1> DEFINE new == [entries[e] EXCEPT !.hidden = h]
<1>3. /\ new \in EntryRecords /\ new.hidden = h
      /\ new.publisher = entries[e].publisher
  BY <1>2 DEF EntryRecords
<1> HIDE DEF new
<1>4. /\ DOMAIN entries' = DOMAIN entries
      /\ entries'[e] = new
      /\ \A d \in DOMAIN entries : d # e => entries'[d] = entries[d]
  BY <1>1 DEF new, EntriesInv
<1>5. entries' \in [DOMAIN entries' -> EntryRecords]
  BY <1>1, <1>3, <1>4 DEF EntriesInv, new
<1> QED BY <1>3, <1>4, <1>5 DEF EntriesInv, EntryRecords

LEMMA HideKeeps ==
    ASSUME PublicInv, NEW e \in DOMAIN entries, HideEntry(e)
    PROVE  PublicInv'
<1> DEFINE n == hidden_count
           a == HiddenAt(n)
           b == PlaceOf(e)
<1>1. /\ ~entries[e].hidden /\ Marked(e, TRUE)
      /\ slots' = Put(Put(slots, a, e), b, n)
      /\ hidden_count' = n + 1
      /\ UNCHANGED <<kind, reaction_count, reacted>>
  BY DEF HideEntry
<1>2. n \in Nat /\ IndexInv
  BY DEF PublicInv, IndexInv
<1>3. a # b /\ a[1] = "hidden" /\ b[1] = "place"
  BY Keys
<1>4. /\ DOMAIN slots' = DOMAIN slots \cup {a, b}
      /\ slots'[a] = e /\ slots'[b] = n
      /\ \A k \in DOMAIN slots : k # a /\ k # b => slots'[k] = slots[k]
  BY <1>1, <1>3 DEF Put
<1>5. /\ DOMAIN entries' = DOMAIN entries
      /\ entries'[e].hidden
      /\ entries'[e].publisher = entries[e].publisher
      /\ \A d \in DOMAIN entries : d # e => entries'[d] = entries[d]
      /\ EntriesInv'
  BY <1>1, MarkedIs DEF PublicInv
<1>6. Hidden' = Hidden \cup {e} /\ e \notin Hidden
  BY <1>1, <1>5 DEF Hidden
<1>7. SameSlots("beacon") /\ SameSlots("reactions")
  BY <1>3, <1>4 DEF SameSlots
<1>8. BeaconInv' /\ ReactionInv'
  <2>1. \A d \in DOMAIN entries :
           entries'[d].publisher = entries[d].publisher
    BY <1>5
  <2> QED BY <1>1, <1>5, <1>7, <2>1, BeaconFrame, ReactionFrame DEF PublicInv
<1>9. IndexInv'
  <2>1. hidden_count' \in Nat /\ hidden_count' = Cardinality(Hidden')
    <3>1. IsFiniteSet(Hidden)
      BY EntryCount DEF PublicInv
    <3>2. Cardinality(Hidden') = Cardinality(Hidden) + 1
      BY <1>6, <3>1, FS_AddElement
    <3> QED BY <1>1, <1>2, <3>2 DEF IndexInv
  <2>2. \A i \in 0..n - 1 :
           /\ HiddenAt(i) \in DOMAIN slots
           /\ HiddenAt(i) # a /\ HiddenAt(i) # b
    BY <1>2, <1>3, Keys DEF IndexInv
  <2>3. \A d \in Hidden :
           /\ PlaceOf(d) \in DOMAIN slots
           /\ PlaceOf(d) # a /\ PlaceOf(d) # b
    BY <1>2, <1>3, <1>6, Keys DEF IndexInv
  <2>4. ASSUME NEW i \in 0..n
        PROVE  /\ HiddenAt(i) \in DOMAIN slots'
               /\ slots'[HiddenAt(i)] \in Hidden'
               /\ slots'[PlaceOf(slots'[HiddenAt(i)])] = i
    <3>1. CASE i = n
      BY <1>4, <1>6, <3>1
    <3>2. CASE i # n
      <4>1. i \in 0..n - 1
        BY <1>2, <3>2
      <4>2. /\ slots[HiddenAt(i)] \in Hidden
            /\ slots[PlaceOf(slots[HiddenAt(i)])] = i
        BY <1>2, <4>1 DEF IndexInv
      <4> HIDE DEF a, b, n
      <4>3. /\ HiddenAt(i) \in DOMAIN slots'
            /\ slots'[HiddenAt(i)] = slots[HiddenAt(i)]
        BY <1>4, <2>2, <4>1
      <4>4. slots'[PlaceOf(slots[HiddenAt(i)])] = i
        BY <1>4, <2>3, <4>2
      <4> QED BY <1>6, <4>2, <4>3, <4>4
    <3> QED BY <3>1, <3>2
  <2>5. ASSUME NEW d \in Hidden \cup {e}
        PROVE  /\ PlaceOf(d) \in DOMAIN slots'
               /\ slots'[PlaceOf(d)] \in 0..n
               /\ slots'[HiddenAt(slots'[PlaceOf(d)])] = d
    <3>1. CASE d = e
      BY <1>2, <1>4, <3>1
    <3>2. CASE d # e
      <4>1. d \in Hidden
        BY <3>2
      <4>2. /\ slots[PlaceOf(d)] \in 0..n - 1
            /\ slots[HiddenAt(slots[PlaceOf(d)])] = d
        BY <1>2, <4>1 DEF IndexInv
      <4>3. n - 1 \in Int /\ \A i \in 0..n - 1 : i \in 0..n
        BY <1>2
      <4> HIDE DEF a, b, n
      <4>4. /\ PlaceOf(d) \in DOMAIN slots'
            /\ slots'[PlaceOf(d)] = slots[PlaceOf(d)]
        BY <1>4, <2>3, <4>1
      <4>5. slots'[HiddenAt(slots[PlaceOf(d)])] = d
        BY <1>4, <2>2, <4>2
      <4> QED BY <4>2, <4>3, <4>4, <4>5
    <3> QED BY <3>1, <3>2
  <2>6. ASSUME NEW k \in DOMAIN slots'
        PROVE  /\ k[1] = "hidden" => \E i \in 0..n : k = HiddenAt(i)
               /\ k[1] = "place" => \E d \in Hidden \cup {e} : k = PlaceOf(d)
    <3>1. CASE k = a
      <4>1. n \in 0..n /\ k[1] # "place"
        BY <1>2, <1>3, <3>1
      <4> QED BY <3>1, <4>1
    <3>2. CASE k = b
      <4>1. e \in Hidden \cup {e} /\ k[1] # "hidden"
        BY <1>3, <3>2
      <4> QED BY <3>2, <4>1
    <3>3. CASE k \in DOMAIN slots
      <4>1. /\ k[1] = "hidden" => \E i \in 0..n - 1 : k = HiddenAt(i)
            /\ k[1] = "place" => \E d \in Hidden : k = PlaceOf(d)
        BY <1>2, <3>3 DEF IndexInv
      <4>2. \A i \in 0..n - 1 : i \in 0..n
        BY <1>2
      <4> QED BY <4>1, <4>2
    <3> QED BY <1>4, <3>1, <3>2, <3>3
  <2>7. 0..hidden_count' - 1 = 0..n
    BY <1>1, <1>2
  <2> HIDE DEF n, a, b
  <2>8. \A i \in 0..hidden_count' - 1 :
           /\ HiddenAt(i) \in DOMAIN slots'
           /\ slots'[HiddenAt(i)] \in Hidden'
           /\ slots'[PlaceOf(slots'[HiddenAt(i)])] = i
    BY <2>4, <2>7, Zenon
  <2>9. \A d \in Hidden' :
           /\ PlaceOf(d) \in DOMAIN slots'
           /\ slots'[PlaceOf(d)] \in 0..hidden_count' - 1
           /\ slots'[HiddenAt(slots'[PlaceOf(d)])] = d
    BY <1>6, <2>5, <2>7, Zenon
  <2>10. \A k \in DOMAIN slots' :
           /\ k[1] = "hidden"
                => \E i \in 0..hidden_count' - 1 : k = HiddenAt(i)
           /\ k[1] = "place" => \E d \in Hidden' : k = PlaceOf(d)
    BY <1>6, <2>6, <2>7, Zenon
  <2> QED BY <2>1, <2>8, <2>9, <2>10, Zenon DEF IndexInv, HiddenAt, PlaceOf
<1> QED BY <1>5, <1>8, <1>9 DEF PublicInv

LEMMA ShowKeeps ==
    ASSUME PublicInv, NEW e \in DOMAIN entries, ShowEntry(e)
    PROVE  PublicInv'
<1> DEFINE last == hidden_count - 1
           pos == slots[PlaceOf(e)]
           moved == slots[HiddenAt(last)]
<1>1. /\ entries[e].hidden /\ Marked(e, FALSE)
      /\ slots' = Without(Put(Put(slots, HiddenAt(pos), moved),
                              PlaceOf(moved), pos),
                          {HiddenAt(last), PlaceOf(e)})
      /\ hidden_count' = last
      /\ UNCHANGED <<kind, reaction_count, reacted>>
  BY DEF ShowEntry, Unlisted
<1>2. e \in Hidden /\ IndexInv
  BY <1>1 DEF Hidden, PublicInv
<1>3. /\ PlaceOf(e) \in DOMAIN slots /\ slots[HiddenAt(pos)] = e
      /\ pos \in 0..last /\ last \in Nat
      /\ HiddenAt(pos) \in DOMAIN slots
  BY <1>2 DEF IndexInv
<1>4. last \in 0..hidden_count - 1
  BY <1>3
<1>5. /\ HiddenAt(last) \in DOMAIN slots /\ moved \in Hidden
      /\ slots[PlaceOf(moved)] = last /\ PlaceOf(moved) \in DOMAIN slots
  BY <1>2, <1>4 DEF IndexInv
<1> HIDE DEF last, pos, moved
<1>6. /\ DOMAIN slots' = DOMAIN slots \ {HiddenAt(last), PlaceOf(e)}
      /\ \A k \in DOMAIN slots' :
            slots'[k] = IF k = PlaceOf(moved) THEN pos
                        ELSE IF k = HiddenAt(pos) THEN moved ELSE slots[k]
  BY <1>1, <1>3, <1>5 DEF Put, Without, Restrict
<1>7. /\ DOMAIN entries' = DOMAIN entries
      /\ ~entries'[e].hidden
      /\ entries'[e].publisher = entries[e].publisher
      /\ \A d \in DOMAIN entries : d # e => entries'[d] = entries[d]
      /\ EntriesInv'
  BY <1>1, MarkedIs DEF PublicInv
<1>8. Hidden' = Hidden \ {e}
  BY <1>7 DEF Hidden
<1>9. SameSlots("beacon") /\ SameSlots("reactions")
  BY <1>6, Keys DEF SameSlots
<1>10. BeaconInv' /\ ReactionInv'
  <2>1. \A d \in DOMAIN entries :
           entries'[d].publisher = entries[d].publisher
    BY <1>7
  <2> QED BY <1>1, <1>7, <1>9, <2>1, BeaconFrame, ReactionFrame DEF PublicInv
<1>11. pos = last => moved = e
  BY <1>3 DEF moved
<1>12. moved = e => pos = last
  BY <1>5 DEF pos
<1>13. IndexInv'
  <2>1. hidden_count' \in Nat /\ hidden_count' = Cardinality(Hidden')
    <3>1. IsFiniteSet(Hidden)
      BY EntryCount DEF PublicInv
    <3>2. Cardinality(Hidden') = Cardinality(Hidden) - 1
      BY <1>2, <1>8, <3>1, FS_RemoveElement
    <3> QED BY <1>1, <1>2, <1>3, <3>2 DEF IndexInv, last
  <2>2. ASSUME NEW i \in 0..last - 1
        PROVE  /\ HiddenAt(i) \in DOMAIN slots'
               /\ slots'[HiddenAt(i)] \in Hidden'
               /\ slots'[PlaceOf(slots'[HiddenAt(i)])] = i
    <3>1. i \in 0..hidden_count - 1 /\ i # last
      BY <1>3 DEF last
    <3>2. /\ HiddenAt(i) \in DOMAIN slots
          /\ slots[HiddenAt(i)] \in Hidden
          /\ slots[PlaceOf(slots[HiddenAt(i)])] = i
          /\ PlaceOf(slots[HiddenAt(i)]) \in DOMAIN slots
      BY <1>2, <3>1 DEF IndexInv
    <3>3. /\ HiddenAt(i) # HiddenAt(last) /\ HiddenAt(i) # PlaceOf(e)
          /\ HiddenAt(i) # PlaceOf(moved)
          /\ i # pos => HiddenAt(i) # HiddenAt(pos)
      BY <3>1, Keys
    <3>4. HiddenAt(i) \in DOMAIN slots'
      BY <1>6, <3>2, <3>3
    <3>5. CASE i = pos
      <4>1. slots'[HiddenAt(i)] = moved
        BY <1>6, <3>3, <3>4, <3>5
      <4>2. moved # e
        BY <1>12, <3>1, <3>5
      <4>3. PlaceOf(moved) # PlaceOf(e) /\ PlaceOf(moved) # HiddenAt(last)
        BY <4>2, Keys
      <4>4. slots'[PlaceOf(moved)] = pos
        BY <1>5, <1>6, <4>3
      <4> QED BY <1>5, <1>8, <3>4, <3>5, <4>1, <4>2, <4>4
    <3>6. CASE i # pos
      <4> DEFINE d == slots[HiddenAt(i)]
      <4>1. slots'[HiddenAt(i)] = d
        BY <1>6, <3>3, <3>4, <3>6
      <4>2. d # e /\ d # moved
        BY <1>5, <3>1, <3>2, <3>6 DEF pos
      <4>3. /\ PlaceOf(d) # PlaceOf(e) /\ PlaceOf(d) # PlaceOf(moved)
            /\ PlaceOf(d) # HiddenAt(last) /\ PlaceOf(d) # HiddenAt(pos)
        BY <4>2, Keys
      <4>4. slots'[PlaceOf(d)] = i
        BY <1>6, <3>2, <4>3
      <4> QED BY <1>8, <3>2, <3>4, <4>1, <4>2, <4>4
    <3> QED BY <3>5, <3>6
  <2>3. ASSUME NEW d \in Hidden, d # e
        PROVE  /\ PlaceOf(d) \in DOMAIN slots'
               /\ slots'[PlaceOf(d)] \in 0..last - 1
               /\ slots'[HiddenAt(slots'[PlaceOf(d)])] = d
    <3> DEFINE q == slots[PlaceOf(d)]
    <3>1. /\ PlaceOf(d) \in DOMAIN slots
          /\ q \in 0..hidden_count - 1 /\ slots[HiddenAt(q)] = d
      BY <1>2 DEF IndexInv
    <3>2. HiddenAt(q) \in DOMAIN slots
      BY <1>2, <3>1 DEF IndexInv
    <3>3. /\ PlaceOf(d) # PlaceOf(e) /\ PlaceOf(d) # HiddenAt(last)
          /\ PlaceOf(d) # HiddenAt(pos)
      BY <2>3, Keys
    <3>4. PlaceOf(d) \in DOMAIN slots'
      BY <1>6, <3>1, <3>3
    <3>5. CASE d = moved
      <4>1. slots'[PlaceOf(d)] = pos
        BY <1>6, <3>4, <3>5
      <4>2. pos # last
        BY <1>11, <2>3, <3>5
      <4>3. pos \in 0..last - 1
        BY <1>3, <4>2
      <4>4. /\ HiddenAt(pos) # HiddenAt(last) /\ HiddenAt(pos) # PlaceOf(e)
            /\ HiddenAt(pos) # PlaceOf(moved)
        BY <4>2, Keys
      <4>5. slots'[HiddenAt(pos)] = moved
        BY <1>3, <1>6, <4>4
      <4> QED BY <3>4, <3>5, <4>1, <4>3, <4>5
    <3>6. CASE d # moved
      <4>1. PlaceOf(d) # PlaceOf(moved)
        BY <3>6, Keys
      <4>2. slots'[PlaceOf(d)] = q
        BY <1>6, <3>3, <3>4, <4>1
      <4>3. q # last
        BY <3>1, <3>6 DEF moved
      <4>4. q # pos
        BY <1>3, <2>3, <3>1
      <4>5. q \in 0..last - 1
        <5> HIDE DEF q
        <5> QED BY <1>3, <3>1, <4>3 DEF last
      <4>6. /\ HiddenAt(q) # HiddenAt(last) /\ HiddenAt(q) # HiddenAt(pos)
            /\ HiddenAt(q) # PlaceOf(e) /\ HiddenAt(q) # PlaceOf(moved)
        BY <4>3, <4>4, Keys
      <4>7. slots'[HiddenAt(q)] = d
        BY <1>6, <3>1, <3>2, <4>6
      <4> QED BY <3>4, <4>2, <4>5, <4>7
    <3> QED BY <3>5, <3>6
  <2>4. ASSUME NEW k \in DOMAIN slots'
        PROVE  /\ k[1] = "hidden" => \E i \in 0..last - 1 : k = HiddenAt(i)
               /\ k[1] = "place" => \E d \in Hidden \ {e} : k = PlaceOf(d)
    <3>1. /\ k \in DOMAIN slots /\ k # HiddenAt(last) /\ k # PlaceOf(e)
      BY <1>6
    <3>2. /\ k[1] = "hidden" => \E i \in 0..hidden_count - 1 : k = HiddenAt(i)
          /\ k[1] = "place" => \E d \in Hidden : k = PlaceOf(d)
      BY <1>2, <3>1 DEF IndexInv
    <3>3. \A i \in 0..hidden_count - 1 : i # last => i \in 0..last - 1
      BY <1>3 DEF last
    <3> QED BY <3>1, <3>2, <3>3
  <2>5. \A i \in 0..hidden_count' - 1 :
           /\ HiddenAt(i) \in DOMAIN slots'
           /\ slots'[HiddenAt(i)] \in Hidden'
           /\ slots'[PlaceOf(slots'[HiddenAt(i)])] = i
    BY <1>1, <2>2, Zenon
  <2>6. \A d \in Hidden' : d \in Hidden /\ d # e
    BY <1>8
  <2>7. \A d \in Hidden' :
           /\ PlaceOf(d) \in DOMAIN slots'
           /\ slots'[PlaceOf(d)] \in 0..hidden_count' - 1
           /\ slots'[HiddenAt(slots'[PlaceOf(d)])] = d
    BY <1>1, <2>3, <2>6, Zenon
  <2>8. \A k \in DOMAIN slots' :
           /\ k[1] = "hidden"
                => \E i \in 0..hidden_count' - 1 : k = HiddenAt(i)
           /\ k[1] = "place" => \E d \in Hidden' : k = PlaceOf(d)
    BY <1>1, <1>8, <2>4, Zenon
  <2> QED BY <2>1, <2>5, <2>7, <2>8, Zenon DEF IndexInv, HiddenAt, PlaceOf
<1> QED BY <1>7, <1>10, <1>13 DEF PublicInv

LEMMA ReactKeeps ==
    ASSUME PublicInv, NEW e \in DOMAIN entries, NEW m \in Ways, React(e, m)
    PROVE  PublicInv'
<1> DEFINE key == LeafOf(e, m)
           packed == Packed(key)
<1>1. /\ reaction_count' = IF key \notin DOMAIN slots
                           THEN reaction_count + 1 ELSE reaction_count
      /\ slots' = IF Room(packed, m)
                  THEN Put(slots, key, packed + Shift(m)) ELSE slots
      /\ reacted' = [reacted EXCEPT ![<<e, m>>] = reacted[<<e, m>>] + 1]
      /\ UNCHANGED <<kind, entries, hidden_count>>
  BY DEF React
<1>2. /\ reacted \in [(DOMAIN entries) \X Ways -> Nat]
      /\ \A k \in Leaves : k[2] \in DOMAIN entries /\ slots[k] \in Nat
      /\ IsFiniteSet(Leaves) /\ reaction_count = Cardinality(Leaves)
  BY DEF PublicInv, ReactionInv
<1>3. ASSUME NEW d, NEW l PROVE Packed(LeafOf(d, l)) \in Nat
  <2>1. LeafOf(d, l) \in DOMAIN slots => LeafOf(d, l) \in Leaves
    BY Keys DEF Leaves
  <2> QED BY <1>2, <2>1 DEF Packed
<1>4. key[1] = "reactions" /\ key[2] = e /\ key[3] = m \div PerLeaf
  BY Keys
<1>5. /\ packed \in Nat /\ m \in Nat /\ Shift(m) \in Nat
      /\ CountOf(packed, m) \in 0..Base - 1
  <2>1. packed \in Nat /\ m \in Nat
    BY <1>3 DEF Ways
  <2> HIDE DEF packed
  <2> QED BY <2>1, CountTyped
<1>6. key \notin DOMAIN slots => Room(packed, m)
  <2> SUFFICES ASSUME key \notin DOMAIN slots PROVE Room(packed, m)
    OBVIOUS
  <2>1. packed = 0
    BY DEF Packed
  <2> HIDE DEF packed
  <2> QED BY <1>5, <2>1, NothingCounted
<1> DEFINE sum == packed + Shift(m)
<1>7. sum \in Nat
  BY <1>5
<1>8. CASE Room(packed, m)
  <2> HIDE DEF sum
  <2>1. slots' = Put(slots, key, sum)
    BY <1>1, <1>8 DEF sum
  <2> HIDE DEF key, packed
  <2>2. /\ DOMAIN slots' = DOMAIN slots \cup {key} /\ slots'[key] = sum
        /\ \A k \in DOMAIN slots : k # key => slots'[k] = slots[k]
    BY <2>1 DEF Put
  <2>3. Leaves' = Leaves \cup {key}
    BY <1>4, <2>2 DEF Leaves
  <2>4. \A k \in Leaves' : k[2] \in DOMAIN entries' /\ slots'[k] \in Nat
    <3> SUFFICES ASSUME NEW k \in Leaves \cup {key}
                 PROVE  k[2] \in DOMAIN entries /\ slots'[k] \in Nat
      BY <1>1, <2>3
    <3>1. CASE k = key
      BY <1>4, <1>7, <2>2, <3>1
    <3>2. CASE k # key
      BY <1>2, <2>2, <3>2 DEF Leaves
    <3> QED BY <3>1, <3>2
  <2>5. IsFiniteSet(Leaves') /\ reaction_count' = Cardinality(Leaves')
    <3>1. key \in Leaves <=> key \in DOMAIN slots
      BY <1>4 DEF Leaves
    <3>2. CASE key \in DOMAIN slots
      <4>1. Leaves' = Leaves
        BY <2>3, <3>1, <3>2
      <4> QED BY <1>1, <1>2, <3>2, <4>1
    <3>3. CASE key \notin DOMAIN slots
      <4>1. /\ IsFiniteSet(Leaves \cup {key})
            /\ Cardinality(Leaves \cup {key}) = Cardinality(Leaves) + 1
        BY <1>2, <3>1, <3>3, FS_AddElement
      <4> QED BY <1>1, <1>2, <2>3, <3>3, <4>1
    <3> QED BY <3>2, <3>3
  <2>6. ASSUME NEW d \in DOMAIN entries', NEW l \in Ways
        PROVE  CountOf(Packed(LeafOf(d, l)), l)' = Capped(reacted'[<<d, l>>])
    <3> DEFINE k == LeafOf(d, l)
    <3>1. d \in DOMAIN entries /\ l \in Nat
      BY <1>1 DEF Ways
    <3>2. CountOf(Packed(k), l) = Capped(reacted[<<d, l>>])
      BY <3>1 DEF PublicInv, ReactionInv
    <3>3. CountOf(Packed(k), l)' = CountOf(Packed(k)', l)
      BY DEF CountOf, Packed, LeafOf
    <3>4. <<d, l>> # <<e, m>> => reacted'[<<d, l>>] = reacted[<<d, l>>]
      BY <1>1, <1>2, <3>1
    <3>5. CASE k # key
      <4>1. Packed(k)' = Packed(k)
        BY <2>2, <3>5 DEF Packed, LeafOf
      <4>2. <<d, l>> # <<e, m>>
        BY <3>5 DEF key
      <4> QED BY <3>2, <3>3, <3>4, <4>1, <4>2
    <3>6. CASE k = key
      <4>1. d = e /\ l \div PerLeaf = m \div PerLeaf
        BY <1>4, <3>6, Keys
      <4>2. Packed(k)' = sum
        BY <2>2, <3>6 DEF Packed, LeafOf
      <4>3. Packed(k) = packed
        BY <3>6 DEF packed
      <4>4. CountOf(sum, l) =
               IF l = m THEN CountOf(packed, m) + 1 ELSE CountOf(packed, l)
        BY <1>5, <1>8, <3>1, <4>1, CountedOnce DEF sum
      <4>5. CASE l = m
        <5> DEFINE r == reacted[<<e, m>>]
        <5>1. r \in Nat /\ reacted'[<<d, l>>] = r + 1
          BY <1>1, <1>2, <4>1, <4>5
        <5>2. CountOf(packed, m) = Capped(r) /\ CountOf(packed, m) < Base - 1
          BY <1>8, <3>2, <4>1, <4>3, <4>5 DEF Room
        <5> HIDE DEF r
        <5>3. Capped(r) = r /\ r < Base - 1
          BY <5>1, <5>2 DEF Capped
        <5>4. Capped(r + 1) = r + 1
          BY <5>1, <5>3 DEF Capped
        <5> QED BY <3>3, <4>2, <4>4, <4>5, <5>1, <5>2, <5>3, <5>4
      <4>6. CASE l # m
        BY <3>2, <3>3, <3>4, <4>2, <4>3, <4>4, <4>6
      <4> QED BY <4>5, <4>6
    <3> QED BY <3>5, <3>6
  <2>7. reacted' \in [(DOMAIN entries') \X Ways -> Nat]
    <3>1. reacted[<<e, m>>] + 1 \in Nat
      BY <1>2
    <3> QED BY <1>1, <1>2, <3>1
  <2>8. ReactionInv'
    BY <2>4, <2>5, <2>6, <2>7 DEF ReactionInv, Ways, Capped
  <2>9. SameSlots("hidden") /\ SameSlots("place") /\ SameSlots("beacon")
    BY <1>4, <2>1, PutElsewhere
  <2>10. EntriesInv' /\ Hidden' = Hidden
    BY <1>1 DEF PublicInv, EntriesInv, EntryRecords, Hidden
  <2>11. IndexInv' /\ BeaconInv'
    BY <1>1, <2>9, <2>10, IndexFrame, BeaconFrame DEF PublicInv
  <2> QED BY <2>8, <2>10, <2>11 DEF PublicInv
<1>9. CASE ~Room(packed, m)
  <2>1. slots' = slots /\ reaction_count' = reaction_count
    BY <1>1, <1>6, <1>9
  <2>2. \A c : SameSlots(c)
    BY <2>1 DEF SameSlots
  <2>3. EntriesInv' /\ Hidden' = Hidden
    BY <1>1 DEF PublicInv, EntriesInv, EntryRecords, Hidden
  <2>4. IndexInv' /\ BeaconInv'
    BY <1>1, <2>2, <2>3, IndexFrame, BeaconFrame DEF PublicInv
  <2>5. Leaves' = Leaves
    BY <2>1 DEF Leaves
  <2>6. ASSUME NEW d \in DOMAIN entries', NEW l \in Ways
        PROVE  CountOf(Packed(LeafOf(d, l)), l)' = Capped(reacted'[<<d, l>>])
    <3>1. d \in DOMAIN entries
      BY <1>1
    <3>2. CountOf(Packed(LeafOf(d, l)), l) = Capped(reacted[<<d, l>>])
      BY <3>1 DEF PublicInv, ReactionInv
    <3>3. CountOf(Packed(LeafOf(d, l)), l)' = CountOf(Packed(LeafOf(d, l)), l)
      BY <2>1 DEF CountOf, Packed, LeafOf
    <3>4. CASE <<d, l>> # <<e, m>>
      <4>1. reacted'[<<d, l>>] = reacted[<<d, l>>]
        BY <1>1, <1>2, <3>1, <3>4
      <4> QED BY <3>2, <3>3, <4>1
    <3>5. CASE <<d, l>> = <<e, m>>
      <4> DEFINE r == reacted[<<e, m>>]
      <4>1. r \in Nat /\ reacted'[<<d, l>>] = r + 1
        BY <1>1, <1>2, <3>5
      <4>2. CountOf(packed, m) = Capped(r)
        BY <3>2, <3>5
      <4>3. ~(CountOf(packed, m) < Base - 1)
        BY <1>9 DEF Room
      <4> HIDE DEF r, packed
      <4>4. Capped(r + 1) = Capped(r)
        BY <1>5, <4>1, <4>2, <4>3 DEF Capped
      <4> QED BY <3>2, <3>3, <3>5, <4>1, <4>4 DEF r
    <3> QED BY <3>4, <3>5
  <2>7. reacted' \in [(DOMAIN entries') \X Ways -> Nat]
    <3>1. reacted[<<e, m>>] + 1 \in Nat
      BY <1>2
    <3> QED BY <1>1, <1>2, <3>1
  <2>8. \A k \in Leaves' : k[2] \in DOMAIN entries' /\ slots'[k] \in Nat
    BY <1>1, <1>2, <2>1, <2>5
  <2>9. IsFiniteSet(Leaves') /\ reaction_count' = Cardinality(Leaves')
    BY <1>2, <2>1, <2>5
  <2>10. ReactionInv'
    BY <2>6, <2>7, <2>8, <2>9 DEF ReactionInv, Ways, Capped
  <2> QED BY <2>3, <2>4, <2>10 DEF PublicInv
<1> QED BY <1>8, <1>9

(* A shard with nothing in it, deployed or retired.                        *)
BareShard ==
    /\ entries = Empty /\ slots = Empty /\ reacted = Empty
    /\ hidden_count = 0 /\ reaction_count = 0

LEMMA BareKeeps == BareShard => PublicInv
<1> SUFFICES ASSUME BareShard PROVE PublicInv
  OBVIOUS
<1>1. /\ DOMAIN entries = {} /\ DOMAIN slots = {} /\ DOMAIN reacted = {}
      /\ reacted = [x \in {} |-> 0]
  BY DEF BareShard, Empty
<1>2. Hidden = {} /\ Leaves = {} /\ Cardinality({}) = 0 /\ IsFiniteSet({})
  BY <1>1, FS_EmptySet DEF Hidden, Leaves
<1>3. EntriesInv
  <2>1. 0..0 - 1 = {} /\ 0 \in Nat
    OBVIOUS
  <2>2. \E n \in Nat : DOMAIN entries = 0..n - 1
    BY <1>1, <2>1
  <2>3. entries \in [DOMAIN entries -> EntryRecords]
    BY DEF BareShard, Empty
  <2> QED BY <2>2, <2>3 DEF EntriesInv
<1>4. BeaconInv
  BY <1>1 DEF BeaconInv
<1>5. IndexInv
  BY <1>1, <1>2 DEF IndexInv, BareShard
<1>6. ReactionInv
  <2>1. (DOMAIN entries) \X Ways = {}
    BY <1>1
  <2>2. reacted \in [(DOMAIN entries) \X Ways -> Nat]
    BY <1>1, <2>1
  <2> QED BY <1>1, <1>2, <2>2 DEF ReactionInv, BareShard
<1> QED BY <1>3, <1>4, <1>5, <1>6 DEF PublicInv

LEMMA RetireKeeps == PublicInv /\ RetirePublicShard => PublicInv'
<1>1. RetirePublicShard => BareShard'
  BY DEF RetirePublicShard, BareShard, Empty
<1>2. BareShard' => PublicInv'
  BY BareKeeps, PTL
<1> QED BY <1>1, <1>2

LEMMA StillPublic ==
    ASSUME PublicInv,
           UNCHANGED <<kind, entries, slots, hidden_count, reaction_count,
                       reacted>>
    PROVE  PublicInv'
<1>1. \A c : SameSlots(c)
  BY DEF SameSlots
<1>2. EntriesInv' /\ Hidden' = Hidden
  BY DEF PublicInv, EntriesInv, EntryRecords, Hidden
<1>3. IndexInv' /\ BeaconInv' /\ ReactionInv'
  BY <1>1, <1>2, IndexFrame, BeaconFrame, ReactionFrame DEF PublicInv
<1> QED BY <1>2, <1>3 DEF PublicInv

LEMMA PublicStepKeeps ==
    ASSUME PublicInv, PublicStep
    PROVE  PublicInv'
<1>1. CASE \E p \in Publishers : PublishEntry(p) \/ RewriteBeacon(p)
  BY <1>1, PublishKeeps, RewriteKeeps
<1>2. CASE \E e \in DOMAIN entries, m \in 0..Emojis - 1 : React(e, m)
  BY <1>2, ReactKeeps DEF Ways
<1>3. CASE EraEnds
  BY <1>3, StillPublic DEF EraEnds
<1>4. CASE RetirePublicShard
  BY <1>4, RetireKeeps
<1> QED BY <1>1, <1>2, <1>3, <1>4 DEF PublicStep

LEMMA CaseKeepsPublic == PublicInv /\ [CaseNext]_caseVars => PublicInv'
<1> SUFFICES ASSUME PublicInv, [CaseNext]_caseVars PROVE PublicInv'
  OBVIOUS
<1>1. CASE UNCHANGED publicVars
  BY <1>1, StillPublic DEF publicVars
<1>2. CASE \E e \in DOMAIN entries :
             \/ HideEntry(e) \/ Kept(e, TRUE)
             \/ ShowEntry(e) \/ Kept(e, FALSE)
  BY <1>1, <1>2, HideKeeps, ShowKeeps DEF Kept
<1>3. CASE PublicStep
  BY <1>3, PublicStepKeeps
<1> QED
  BY <1>1, <1>2, <1>3 DEF CaseNext, Verdict, SeatAgain, SetWalletSanction,
     Refuse, Others, Pass, caseVars

LEMMA PublicIsExact == PublicInv => SlotsExact
<1> SUFFICES ASSUME PublicInv PROVE SlotsExact
  OBVIOUS
<1>1. IndexExact
  <2> USE DEF PublicInv, IndexInv
  <2>1. {k \in DOMAIN slots : k[1] = "hidden"} =
            {HiddenAt(i) : i \in 0..hidden_count - 1}
    BY Keys
  <2>2. {k \in DOMAIN slots : k[1] = "place"} = {PlaceOf(e) : e \in Hidden}
    BY Keys
  <2>3. \A e \in Hidden : /\ slots[PlaceOf(e)] < hidden_count
                          /\ slots[HiddenAt(slots[PlaceOf(e)])] = e
    OBVIOUS
  <2> QED BY <2>1, <2>2, <2>3 DEF IndexExact
<1>2. ReactionsExact
  <2>1. reaction_count = Cardinality({k \in DOMAIN slots : k[1] = "reactions"})
    BY DEF PublicInv, ReactionInv, Leaves
  <2>2. ASSUME NEW x \in DOMAIN reacted
        PROVE  CountOf(Packed(LeafOf(x[1], x[2])), x[2]) =
                  IF reacted[x] < Base THEN reacted[x] ELSE Base - 1
    <3>1. /\ x[1] \in DOMAIN entries /\ x[2] \in Ways /\ x = <<x[1], x[2]>>
      BY DEF PublicInv, ReactionInv
    <3>2. CountOf(Packed(LeafOf(x[1], x[2])), x[2])
             = Capped(reacted[<<x[1], x[2]>>])
      BY <3>1 DEF PublicInv, ReactionInv
    <3> QED BY <3>1, <3>2 DEF Capped
  <2> QED BY <2>1, <2>2 DEF ReactionsExact
<1>3. BeaconsExact
  <2> SUFFICES ASSUME kind = "beacon", NEW p \in Publishers
               PROVE  {e \in DOMAIN entries : entries[e].publisher = p} =
                         IF BeaconOf(p) \in DOMAIN slots
                         THEN {slots[BeaconOf(p)]} ELSE {}
    BY DEF BeaconsExact
  <2>1. ASSUME NEW e \in DOMAIN entries, entries[e].publisher = p
        PROVE  BeaconOf(p) \in DOMAIN slots /\ slots[BeaconOf(p)] = e
    BY <2>1 DEF PublicInv, BeaconInv
  <2>2. BeaconOf(p) \in DOMAIN slots =>
           /\ slots[BeaconOf(p)] \in DOMAIN entries
           /\ entries[slots[BeaconOf(p)]].publisher = p
    BY DEF PublicInv, BeaconInv
  <2> QED BY <2>1, <2>2
<1> QED BY <1>1, <1>2, <1>3 DEF SlotsExact

LEMMA CasePublic == CaseSpec => []PublicInv
<1>1. CaseInit => PublicInv
  <2>1. CaseInit => BareShard
    BY DEF CaseInit, PublicInit, BareShard
  <2> QED BY <2>1, BareKeeps
<1> QED BY <1>1, CaseKeepsPublic, PTL DEF CaseSpec

(* The one map of PublicShard holds the beacons, the list of what is       *)
(* hidden and the counters of reactions, each exact whatever is published, *)
(* hidden, shown and reacted to: for any number of counters in a number    *)
(* and any limit, nothing is carried from one to the next.                 *)
THEOREM SlotsAreExact == LedgerSpec => []SlotsExact
BY LedgerIsCase, CasePublic, PublicIsExact, PTL

-----------------------------------------------------------------------------
(* Who hides an entry and shows it                                         *)

LEMMA HiddenStep ==
    ASSUME PublicInv, CaseNext, NEW e \in DOMAIN entries,
           e \in DOMAIN entries', entries'[e].hidden # entries[e].hidden
    PROVE  /\ Forward(<<IF entries'[e].hidden THEN "hide" ELSE "unhide", e>>)
           /\ \A d \in DOMAIN entries \ {e} : entries'[d] = entries[d]
<1>1. ~UNCHANGED entries
  OBVIOUS
<1>2. CASE \E d \in DOMAIN entries : SetEntryHidden("hide", d) /\ HideEntry(d)
  <2>1. PICK d \in DOMAIN entries : SetEntryHidden("hide", d) /\ HideEntry(d)
    BY <1>2
  <2>2. /\ entries'[d].hidden
        /\ \A c \in DOMAIN entries : c # d => entries'[c] = entries[c]
    BY <2>1, MarkedIs DEF HideEntry, PublicInv
  <2>3. d = e
    BY <2>2
  <2>4. Forward(<<"hide", e>>)
    BY <2>1, <2>3 DEF SetEntryHidden
  <2> QED BY <2>2, <2>3, <2>4
<1>3. CASE \E d \in DOMAIN entries :
             SetEntryHidden("unhide", d) /\ ShowEntry(d)
  <2>1. PICK d \in DOMAIN entries :
           SetEntryHidden("unhide", d) /\ ShowEntry(d)
    BY <1>3
  <2>2. /\ ~entries'[d].hidden
        /\ \A c \in DOMAIN entries : c # d => entries'[c] = entries[c]
    BY <2>1, MarkedIs DEF ShowEntry, PublicInv
  <2>3. d = e
    BY <2>2
  <2>4. Forward(<<"unhide", e>>)
    BY <2>1, <2>3 DEF SetEntryHidden
  <2> QED BY <2>2, <2>3, <2>4
<1>4. ~PublicStep
  <2>1. ASSUME NEW p \in Publishers, PublishEntry(p) PROVE FALSE
    <3>1. e # entry_count
      BY EntryCount DEF PublicInv
    <3> QED BY <2>1, <3>1 DEF PublishEntry, Put
  <2>2. ASSUME NEW p \in Publishers, RewriteBeacon(p) PROVE FALSE
    <3>1. entries'[e] = entries[e] \/ entries'[e].hidden = entries[e].hidden
      BY <2>2 DEF RewriteBeacon, Put
    <3> QED BY <3>1
  <2>3. ~RetirePublicShard
    BY DEF RetirePublicShard, Empty
  <2>4. ASSUME NEW d, NEW m, React(d, m) PROVE FALSE
    BY <1>1, <2>4 DEF React
  <2> QED BY <1>1, <2>1, <2>2, <2>3, <2>4 DEF PublicStep, EraEnds
<1> QED
  BY <1>1, <1>2, <1>3, <1>4
     DEF CaseNext, Verdict, SeatAgain, SetWalletSanction, Kept, Refuse,
         Others, Pass, publicVars

(* An entry of PublicShard is hidden or shown by the verdict that says so, *)
(* the one the gate relays at that step, and no other entry changes with   *)
(* it: nothing a publisher or a reader does brings it back.                *)
THEOREM HiddenOnlyByVerdict == LedgerSpec => HiddenByVerdict
<1>1. PublicInv /\ [CaseNext]_caseVars =>
        [\A e \in DOMAIN entries :
            /\ e \in DOMAIN entries'
            /\ entries'[e].hidden # entries[e].hidden
            => /\ Forward(<<IF entries'[e].hidden THEN "hide" ELSE "unhide",
                            e>>)
               /\ \A d \in DOMAIN entries \ {e} : entries'[d] = entries[d]
        ]_caseVars
  BY HiddenStep
<1>2. CaseSpec => HiddenByVerdict
  BY <1>1, CasePublic, PTL DEF CaseSpec, HiddenByVerdict
<1> QED BY <1>2, LedgerIsCase, PTL

=============================================================================
