--------------------------- MODULE MCOAuthService ---------------------------
(* Model values of one kind are interchangeable: nothing in OAuthService   *)
(* orders them.                                                            *)
EXTENDS OAuthService, TLC

Interchangeable ==
  Permutations(Client) \cup Permutations(Request) \cup Permutations(Grant)
    \cup Permutations(Thread)
=============================================================================
