-------------------------- MODULE ManifestRegister ---------------------------
(***************************************************************************)
(* What load_manifest and save_manifest promise their callers: the         *)
(* manifest is one value, replaced at once ("Atomically write manifest to  *)
(* disk", scripts/psx_ingest.py), and a load sees the value that was       *)
(* current when it began, to its end.                                      *)
(***************************************************************************)
CONSTANTS Procs, Values, Absent

VARIABLES
    value,  \* the saved manifest, Absent before the first save
    view    \* view[p]: what the load process p is in returns, or Absent

registerVars == <<value, view>>

RegisterInit ==
    /\ value = Absent
    /\ view = [p \in Procs |-> Absent]

Put(v) == value' = v /\ UNCHANGED view

Look(p) == value # Absent /\ view' = [view EXCEPT ![p] = value] /\ UNCHANGED value

Done(p) == view' = [view EXCEPT ![p] = Absent] /\ UNCHANGED value

RegisterNext ==
    \/ \E v \in Values : Put(v)
    \/ \E p \in Procs : Look(p) \/ Done(p)

RegisterSpec == RegisterInit /\ [][RegisterNext]_registerVars

=============================================================================
