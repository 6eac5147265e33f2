------------------------------- MODULE MCRelay -------------------------------
(***************************************************************************)
(* Instances of Relay for TLC: one grant, commands that run at once, that   *)
(* need an approval and that the grant does not permit.                    *)
(***************************************************************************)
EXTENDS Relay

CONSTANTS g1, r1, r2, read, restart, python

Signed(n, r, c) == [kind |-> "request", seq |-> n, request |-> r, command |-> c]

Plain(k) == [kind |-> k, seq |-> 1, request |-> r1, command |-> read]

\* The grant has no shell permission, which neither authorize nor bootstrap asks for.
MCPermitted == [g \in Grants |-> Commands \ {python}]

\* A request, one for the same sequence number that needs a shell, one that reuses
\* the request_id, and comments that are no requests.
MCBodies == {Signed(1, r1, restart), Signed(1, r2, python), Signed(2, r1, read)}
            \cup {Plain(k) : k \in {"foreign", "malformed"}}

=============================================================================
