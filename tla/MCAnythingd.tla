---------------------------- MODULE MCAnythingd ----------------------------
(***************************************************************************)
(* Instances of Anythingd for TLC.  An agent, and alice, who is an admin   *)
(* and may ask as well; bob is a user in the configuration only.           *)
(***************************************************************************)
EXTENDS Anythingd

CONSTANTS agent, alice, bob, info, other, control

\* The users are named like the identities they belong to.
MCUserOf == [i \in Identities |-> i]

\* Requests: for sys.info, for a method the daemon lacks, for a control-plane method.
MCMethodOf == [c \in Calls |-> CASE c = other -> "other"
                                 [] c = control -> "approval"
                                 [] OTHER -> "sys.info"]
MCHashOf == [c \in Calls |-> c]

Config(sys_read, admins, ttl) ==
    [sys_read |-> sys_read, require_allowlist |-> TRUE, admins |-> admins, ttl |-> ttl]

\* What the example file says.
MCOneConfig == {Config(TRUE, {alice, bob}, 1)}

\* A team of one and approvals that expire with the second; or the tool switched
\* off, an allowlist that is not enforced, and a lifetime of less than nothing.
MCRequestConfigs == {Config(TRUE, {alice}, 0),
                     [Config(FALSE, {}, -1) EXCEPT !.require_allowlist = FALSE]}

\* Before a restart and after it: the same team, or one of users that are not there.
MCTwoConfigs == {Config(TRUE, {alice}, 0), Config(TRUE, {bob}, 0)}
=============================================================================
