---------------------------- MODULE MCFileStores ----------------------------
(***************************************************************************)
(* Instances of FileStores for TLC.  read runs without approval, restart   *)
(* may be approved for a session, shell only once, wipe is denied.         *)
(***************************************************************************)
EXTENDS FileStores, TLC

CONSTANTS read, restart, shell, wipe, inspect, service, code, destroy

MCRisk == [c \in Commands |->
    CASE c = read    -> [decision |-> "allow",             scope |-> inspect]
      [] c = restart -> [decision |-> "approval_required", scope |-> service]
      [] c = shell   -> [decision |-> "approval_required", scope |-> code]
      [] c = wipe    -> [decision |-> "deny",              scope |-> destroy]]

OperatorSymmetry == Permutations(Operators)

=============================================================================
