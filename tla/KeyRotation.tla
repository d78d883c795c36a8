----------------------------- MODULE KeyRotation -----------------------------
(***************************************************************************)
(* Retiring an encryption key (packages/security/crypto.ts,                *)
(* queries/key-rotation.ts, cli/rotate-keys.ts) while the site goes on     *)
(* writing, erasing and deleting the values it encrypts.                   *)
(*                                                                         *)
(* A cell is one encrypted column of one row; each belongs to an account   *)
(* of its own, so the job's transaction for an account is the reading of   *)
(* the cell and the writing of it.  The operator follows the runbook: add  *)
(* the key and make it active, deploy, rotate, remove, deploy.             *)
(***************************************************************************)
EXTENDS Integers, FiniteSets

CONSTANTS
    Cell,           \* encrypted columns of rows
    OldKey, NewKey,
    Nothing

ASSUME KeyAssumption ==
    /\ OldKey # NewKey
    /\ Nothing \notin {OldKey, NewKey}
    /\ Nothing \notin [of : Cell, kid : {OldKey, NewKey}]

VARIABLES
    config,     \* the key ring in the environment: its keys, and the active one
    server,     \* the key ring the running process was started with
    cell,       \* [Cell -> the key that wrote it, or Nothing]
    erased,     \* cells that were erased or whose row was deleted
    job,        \* a run of keys:rotate, or Nothing
    removable   \* what the last run said may be removed

keyVars == <<config, server, cell, erased, job, removable>>
-----------------------------------------------------------------------------
\* buildKeyRing: the active key is one of the keys.
Ring(keys, active) == [keys |-> keys, active |-> active]

KeyInit ==
    /\ config = Ring({OldKey}, OldKey)
    /\ server = config
    /\ cell = [c \in Cell |-> Nothing]
    /\ erased = {}
    /\ job = Nothing
    /\ removable = {}

\* encryptField, wherever it is called: with the active key.
Encrypts(c) ==
    /\ cell[c] = Nothing /\ c \notin erased
    /\ cell' = [cell EXCEPT ![c] = server.active]
    /\ UNCHANGED <<config, server, erased, job, removable>>

\* purgeExpiredBuyerHandles, or the row is deleted.
Erases(c) ==
    /\ cell[c] # Nothing
    /\ cell' = [cell EXCEPT ![c] = Nothing]
    /\ erased' = erased \cup {c}
    /\ UNCHANGED <<config, server, job, removable>>
-----------------------------------------------------------------------------
AddsKey ==
    /\ config = Ring({OldKey}, OldKey)
    /\ config' = Ring({OldKey, NewKey}, NewKey)
    /\ UNCHANGED <<server, cell, erased, job, removable>>

Deploys ==
    /\ server # config
    /\ server' = config
    /\ UNCHANGED <<config, cell, erased, job, removable>>

\* rotateEncryptedFields: every account, one after another.
StartsRotation(dry) ==
    /\ server = config /\ job = Nothing
    /\ job' = [ring |-> config, left |-> Cell, read |-> Nothing,
               needed |-> {config.active}, dry |-> dry]
    /\ UNCHANGED <<config, server, cell, erased, removable>>

\* rotateValue: nothing to do under the active key; a value that no key of the
\* ring decrypts is left alone; a dry run only counts.
Needed(k) == [job EXCEPT !.needed = @ \cup {k}]
ReadsCell(c) ==
    /\ job # Nothing /\ job.read = Nothing /\ c \in job.left
    /\ LET k == cell[c]
           next == IF k \in {Nothing, job.ring.active} THEN job
                   ELSE IF k \notin job.ring.keys \/ job.dry THEN Needed(k)
                   ELSE [job EXCEPT !.read = [of |-> c, kid |-> k]]
       IN  job' = [next EXCEPT !.left = @ \ {c}]
    /\ UNCHANGED <<config, server, cell, erased, removable>>

\* The rewriter: only if the stored value is still the one that was read.
UnchangedBlindly(c, kid) == TRUE
Unchanged(c, kid) == cell[c] = kid
RewritesCell ==
    /\ job # Nothing /\ job.read # Nothing
    /\ LET c == job.read.of
           k == job.read.kid
           next == [job EXCEPT !.read = Nothing]
       IN  IF Unchanged(c, k)
           THEN /\ cell' = [cell EXCEPT ![c] = job.ring.active]
                /\ job' = next
           ELSE /\ cell' = cell
                /\ job' = [next EXCEPT !.needed = @ \cup {k}]
    /\ UNCHANGED <<config, server, erased, removable>>

\* "safe to remove from DATA_ENCRYPTION_KEYS".
ReportsRotation ==
    /\ job # Nothing /\ job.read = Nothing /\ job.left = {}
    /\ removable' = job.ring.keys \ job.needed
    /\ job' = Nothing
    /\ UNCHANGED <<config, server, cell, erased>>

\* It dies: the transaction it was in is rolled back, and nothing is reported.
RotationDies ==
    /\ job # Nothing
    /\ job' = Nothing
    /\ UNCHANGED <<config, server, cell, erased, removable>>

RemovesKey ==
    /\ job = Nothing
    /\ \E k \in removable :
         config' = [config EXCEPT !.keys = @ \ {k}]
    /\ removable' = {}
    /\ UNCHANGED <<server, cell, erased, job>>

KeyNext ==
    \/ \E c \in Cell : Encrypts(c) \/ Erases(c) \/ ReadsCell(c)
    \/ AddsKey \/ Deploys \/ RewritesCell \/ ReportsRotation \/ RotationDies \/ RemovesKey
    \/ \E dry \in BOOLEAN : StartsRotation(dry)

KeySpec == KeyInit /\ [][KeyNext]_keyVars
-----------------------------------------------------------------------------
(***************************************************************************)
(* What must hold                                                          *)
(***************************************************************************)
\* Whatever is written, erased or re-encrypted meanwhile, a value that is
\* stored can be read by the process that runs and by the next one, and one
\* that was erased does not come back (rotateValue, rotate-keys.ts).
NothingIsLost ==
    \A c \in Cell :
      IF c \in erased THEN cell[c] = Nothing
      ELSE cell[c] # Nothing => cell[c] \in server.keys \cap config.keys
=============================================================================
