---------------------------- MODULE ReplayGuard ----------------------------
(***************************************************************************)
(* The record of the introductions a wallet has taken in, kept by all its  *)
(* windows in one database (web/replay-store.mjs).  A window remembers the *)
(* nonces it read or added; it appends a part with the new ones under a    *)
(* lock, and folds the parts into one record when there are many.  Two     *)
(* parts with the same nonces count as one.                                *)
(***************************************************************************)
EXTENDS Naturals, FiniteSets

CONSTANTS
    Windows,
    Nonces,          \* the introductions, each by its nonce
    PartsBeforeFold  \* SEALED_GUARD_PARTS_BEFORE_FOLD

VARIABLES
    folded, parts,  \* the record and the parts in the database
    seen,           \* what each window has seen
    pending,        \* what it has still to write
    batch,          \* what it is writing under the lock
    read            \* the parts it read under the lock

diskGuardVars == <<folded, parts>>
guardVars == <<diskGuardVars, seen, pending, batch, read>>

GuardInit ==
    /\ folded = {} /\ parts = {}
    /\ seen = [w \in Windows |-> {}]
    /\ pending = [w \in Windows |-> {}]
    /\ batch = [w \in Windows |-> {}]
    /\ read = [w \in Windows |-> {}]

OnDisk == folded \cup UNION parts

(* mutant: windows do not wait for each other                              *)
LockFreeAlways == TRUE

(* withAtRestLock *)
LockFree == \A w \in Windows : batch[w] = {}

Folds(rows) == Cardinality(rows) >= PartsBeforeFold

(* createSealedReplayGuard: a page is loaded                               *)
GuardOpen(w) ==
    /\ seen' = [seen EXCEPT ![w] = OnDisk]
    /\ pending' = [pending EXCEPT ![w] = {}]
    /\ batch' = [batch EXCEPT ![w] = {}]
    /\ read' = [read EXCEPT ![w] = {}]
    /\ UNCHANGED diskGuardVars

(* add, up to the flush                                                    *)
GuardAdd(w, n) ==
    /\ seen' = [seen EXCEPT ![w] = @ \cup {n}]
    /\ pending' = [pending EXCEPT ![w] = @ \cup {n}]
    /\ UNCHANGED <<diskGuardVars, batch, read>>

(* writePending and fold, what they read                                   *)
GuardRead(w) ==
    /\ LockFree
    /\ pending[w] # {}
    /\ batch' = [batch EXCEPT ![w] = pending[w]]
    /\ pending' = [pending EXCEPT ![w] = {}]
    /\ read' = [read EXCEPT ![w] = parts]
    /\ seen' = [seen EXCEPT ![w] =
                   @ \cup IF Folds(parts) THEN OnDisk ELSE UNION parts]
    /\ UNCHANGED diskGuardVars

Unlock(w) ==
    /\ batch' = [batch EXCEPT ![w] = {}]
    /\ read' = [read EXCEPT ![w] = {}]
    /\ UNCHANGED seen

(* fold, writePart                                                         *)
GuardWrite(w) ==
    /\ IF Folds(read[w])
       THEN /\ folded' = seen[w]
            /\ parts' = parts \ read[w]
       ELSE /\ parts' = parts \cup {batch[w]}
            /\ UNCHANGED folded
    /\ Unlock(w)
    /\ UNCHANGED pending

(* mutant: what could not be written is forgotten                          *)
GuardFailsForgets(w) ==
    /\ Unlock(w)
    /\ UNCHANGED <<diskGuardVars, pending>>

(* writePending, the catch: the database could not be read or written      *)
GuardFails(w) ==
    /\ pending' = [pending EXCEPT ![w] = @ \cup batch[w]]
    /\ Unlock(w)
    /\ UNCHANGED diskGuardVars

(* What a window takes for seen is in the database, or is still to be      *)
(* written by that window: no fold drops what another window wrote, and a  *)
(* write that failed is made up for by the next.                           *)
NoncesKept ==
    \A w \in Windows : seen[w] \subseteq OnDisk \cup pending[w] \cup batch[w]

=============================================================================
