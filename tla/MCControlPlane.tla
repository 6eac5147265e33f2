--------------------------- MODULE MCControlPlane ---------------------------
(***************************************************************************)
(* Instances of ControlPlane for TLC.  read runs without approval, restart *)
(* is risky and may be approved for a session, shell is risky and only     *)
(* ever approved once, wipe is denied by policy.                           *)
(***************************************************************************)
EXTENDS ControlPlane

CONSTANTS t1, t2, read, restart, shell, wipe, inspect, service, code, destroy

MCRisk == [c \in Commands |->
    CASE c = read    -> [decision |-> "allow",             scope |-> inspect]
      [] c = restart -> [decision |-> "approval_required", scope |-> service]
      [] c = shell   -> [decision |-> "approval_required", scope |-> code]
      [] c = wipe    -> [decision |-> "deny",              scope |-> destroy]]

ExecOn(ts) == [exec |-> TRUE, shell |-> FALSE, targets |-> ts]

\* One scope: every target may be used.
OneScope == {ExecOn(Targets)}

\* A grant of one target beside a grant that executes nothing.
MixedScopes == {ExecOn({t1}), [exec |-> FALSE, shell |-> FALSE, targets |-> {t1}]}

=============================================================================
