--------------------------- MODULE CanonicalLedger ---------------------------
(***************************************************************************)
(* What the manifest and raw/ promise together, without files, snapshots   *)
(* or time: a ledger of canonical data (scripts/psx_ingest.py, "State      *)
(* authority"; governance/closure-declaration.md, "One canonical file per  *)
(* (symbol, date)", "raw/ is append-only").                                *)
(*                                                                         *)
(* Every content ever stored for a key is retained.  The canonical content *)
(* of a key is one of them; one step changes it for one key, never takes   *)
(* it away and never confirms what is canonical already.  Computed         *)
(* versions of a key are numbered one after another.                       *)
(***************************************************************************)
EXTENDS Integers

CONSTANTS
    Keys,
    Contents,
    Nothing  \* no content, not one of Contents

VARIABLES archive, canonical, version

ledgerVars == <<archive, canonical, version>>

LedgerInit ==
    /\ archive = [k \in Keys |-> {}]
    /\ canonical = [k \in Keys |-> Nothing]
    /\ version = [k \in Keys |-> -1]

Store(k, c) ==
    /\ archive' = [archive EXCEPT ![k] = @ \cup {c}]
    /\ UNCHANGED <<canonical, version>>

\* The first content of a key starts its versions at 0.
Promote(k, c) ==
    /\ c \in archive[k] \ {canonical[k]}
    /\ canonical' = [canonical EXCEPT ![k] = c]
    /\ version' = [version EXCEPT ![k] = IF @ = -1 THEN 0 ELSE @]
    /\ UNCHANGED archive

\* A corporate action: the next version of one key.
Adjust(k) ==
    /\ version' = [version EXCEPT ![k] = @ + 1]
    /\ UNCHANGED <<archive, canonical>>

LedgerNext ==
    \E k \in Keys :
        \/ \E c \in Contents : Store(k, c) \/ Promote(k, c)
        \/ Adjust(k)

LedgerSpec == LedgerInit /\ [][LedgerNext]_ledgerVars

=============================================================================
