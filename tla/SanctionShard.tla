--------------------------- MODULE SanctionShard ---------------------------
(***************************************************************************)
(* The standing of one wallet in the public space                          *)
(* (contracts18/contracts/SanctionShard.tact): warnings, and a restriction *)
(* that a moderator imposed or that enough warnings brought about.  The    *)
(* gate relays the verdicts of the moderation ledger.                      *)
(*                                                                         *)
(* A shard that does not exist, one destroyed and one just deployed are    *)
(* all Blank.  Messages short of value are refused and change nothing.     *)
(***************************************************************************)
EXTENDS Naturals

CONSTANTS
    WarningsToRestrict,  \* SS_WARNINGS_TO_RESTRICT
    MaxWarnings,         \* 255, the most a uint8 holds
    Retention,           \* SS_RETENTION
    MaxTime              \* bound of the model on the clock

ASSUME SanctionAssumption ==
    /\ {WarningsToRestrict, MaxWarnings, Retention, MaxTime} \subseteq Nat
    /\ MaxTime > 0
    /\ WarningsToRestrict \in 1..MaxWarnings

VARIABLES
    shard,   \* the fields of the contract
    manual,  \* whether a moderator restricted the wallet and nobody undid it
    now

vars == <<shard, manual, now>>

Blank == [warnings |-> 0, restricted |-> FALSE, auto |-> FALSE, since |-> 0,
          updated_at |-> 0]

(* no message is older than the chain: the clock starts after zero         *)
Init ==
    /\ shard = Blank
    /\ manual = FALSE
    /\ now = 1

Expired == shard.updated_at > 0 /\ now > shard.updated_at + Retention

(* receive(SetWalletSanction): an expired record starts afresh             *)
Current == IF Expired THEN Blank ELSE shard
CurrentManual == manual /\ ~Expired
Exists == Current.updated_at > 0

Since(restricted) ==
    CASE ~restricted -> 0
      [] Current.restricted -> Current.since
      [] OTHER -> now

(* mutant: warnings claim a restriction that a moderator imposed           *)
WarnWalletTakesOver ==
    LET warnings == IF Current.warnings < MaxWarnings
                    THEN Current.warnings + 1 ELSE MaxWarnings
        enough == warnings >= WarningsToRestrict
        restricted == Current.restricted \/ enough
    IN  /\ shard' = [warnings |-> warnings, restricted |-> restricted,
                     auto |-> enough, since |-> Since(restricted),
                     updated_at |-> now]
        /\ manual' = CurrentManual
        /\ UNCHANGED now

(* MS_ACTION_WARN_WALLET                                                   *)
WarnWallet ==
    LET warnings == IF Current.warnings < MaxWarnings
                    THEN Current.warnings + 1 ELSE MaxWarnings
        enough == warnings >= WarningsToRestrict
        restricted == Current.restricted \/ enough
    IN  /\ shard' = [warnings |-> warnings, restricted |-> restricted,
                     auto |-> IF Current.restricted THEN Current.auto
                                                    ELSE enough,
                     since |-> Since(restricted),
                     updated_at |-> now]
        /\ manual' = CurrentManual
        /\ UNCHANGED now

(* mutant: every restriction counts from its latest imposition             *)
RestrictWalletAnew ==
    /\ shard' = [Current EXCEPT !.restricted = TRUE, !.auto = FALSE,
                                !.since = now, !.updated_at = now]
    /\ manual' = TRUE
    /\ UNCHANGED now

(* MS_ACTION_RESTRICT_WALLET                                               *)
RestrictWallet ==
    /\ shard' = [Current EXCEPT !.restricted = TRUE, !.auto = FALSE,
                                !.since = Since(TRUE), !.updated_at = now]
    /\ manual' = TRUE
    /\ UNCHANGED now

(* MS_ACTION_UNWARN_WALLET: an automatic restriction falls with the        *)
(* warnings it rested on; with nothing left the shard is destroyed         *)
UnwarnWallet ==
    LET warnings == Current.warnings - 1
        restricted == Current.restricted
                      /\ ~(Current.auto /\ warnings < WarningsToRestrict)
    IN  /\ Exists
        /\ Current.warnings > 0
        /\ shard' = IF warnings > 0 \/ restricted
                    THEN [warnings |-> warnings, restricted |-> restricted,
                          auto |-> Current.auto /\ restricted,
                          since |-> IF restricted THEN Current.since ELSE 0,
                          updated_at |-> now]
                    ELSE Blank
        /\ manual' = CurrentManual
        /\ UNCHANGED now

(* MS_ACTION_UNRESTRICT_WALLET: the shard is destroyed, warnings and all   *)
UnrestrictWallet ==
    /\ Exists
    /\ shard' = Blank
    /\ manual' = FALSE
    /\ UNCHANGED now

(* receive(RetireSanction), by anybody                                     *)
RetireSanction ==
    /\ now > shard.updated_at + Retention
    /\ shard' = Blank
    /\ manual' = FALSE
    /\ UNCHANGED now

Tick ==
    /\ now < MaxTime
    /\ now' = now + 1
    /\ UNCHANGED <<shard, manual>>

Next ==
    \/ WarnWallet \/ RestrictWallet
    \/ UnwarnWallet \/ UnrestrictWallet
    \/ RetireSanction
    \/ Tick

Spec == Init /\ [][Next]_vars

-----------------------------------------------------------------------------
(* Every field of SanctionShard holds what its declared type allows.       *)
TypeOK ==
    /\ shard \in [warnings : 0..MaxWarnings, restricted : BOOLEAN,
                  auto : BOOLEAN, since : 0..MaxTime,
                  updated_at : 0..MaxTime]
    /\ manual \in BOOLEAN
    /\ now \in 1..MaxTime

(* A wallet is restricted for a cause that still stands, and whenever one  *)
(* does: a moderator's decision nobody undid, or enough warnings.  Taking  *)
(* a warning back never lifts what a moderator imposed, however warnings   *)
(* and decisions were interleaved, and always lifts what only they did.    *)
RestrictedForCause ==
    shard.restricted <=> manual \/ shard.warnings >= WarningsToRestrict

(* The date from which a wallet counts as restricted moves only when the   *)
(* restriction was lifted, or had expired, in between.                     *)
SinceKept ==
    [][shard.restricted /\ shard'.restricted /\ ~Expired
          => shard'.since = shard.since]_vars

=============================================================================
