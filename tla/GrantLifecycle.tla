--------------------------- MODULE GrantLifecycle ---------------------------
(***************************************************************************)
(* What the relay promises about owner approvals over its whole life,      *)
(* restarts included, as seen in the durable file: a grant has at most one *)
(* honoured refresh token, tokens only move forward to newer ones, and a   *)
(* grant that has lost its token never gets another.  relay/oauth.py keeps *)
(* the promise with a table in memory, a file written by snapshots, and    *)
(* saves that may fail; OAuthService implements it.                        *)
(*                                                                         *)
(* A token is <<g, n>>: the n-th refresh token of grant g.                 *)
(***************************************************************************)
EXTENDS Naturals

VARIABLES
  live,   \* the refresh tokens the file honours
  ever    \* those it has ever honoured

Init == live = {} /\ ever = {}

Newer(t)      == \A u \in ever : u[1] = t[1] => u[2] < t[2]
NotReopened(t) == (\E u \in ever : u[1] = t[1]) => (\E u \in live : u[1] = t[1])

(* One save may carry the changes of several grants.                       *)
Save ==
  /\ ever' = ever \cup live'
  /\ \A t, u \in live' : t[1] = u[1] => t = u
  /\ \A t \in live' \ live : Newer(t) /\ NotReopened(t)

Spec == Init /\ [][Save]_<<live, ever>>
=============================================================================
