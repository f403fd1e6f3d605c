-------------------------- MODULE VersionedPartition --------------------------
(***************************************************************************)
(* What the label store and the rank store promise about one partition     *)
(* (ADR 06: "refuse overwrite unless explicit rebuild / version bump"):    *)
(* the first run to write a file owns it, and after that only a run the    *)
(* operator started with --overwrite may change it, if only to ruin it.    *)
(***************************************************************************)
CONSTANTS Run, None, Torn

VARIABLES
    owner,     \* the run whose file is there
    permitted  \* the runs started with --overwrite

PartitionInit == owner = None /\ permitted = {}

Permit(r) == permitted' = permitted \cup {r} /\ UNCHANGED owner

Put(r) ==
    /\ owner = None \/ r \in permitted
    /\ owner' \in {r, Torn}
    /\ UNCHANGED permitted

PartitionNext == \E r \in Run : Permit(r) \/ Put(r)

PartitionSpec == PartitionInit /\ [][PartitionNext]_<<owner, permitted>>
===============================================================================
