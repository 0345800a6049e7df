--------------------------- MODULE MCRelayServer ---------------------------
(* OAuth with every mix of listener, base URL and state; mock with every    *)
(* mix of listener, override and token; an upstream name that is refused.   *)
EXTENDS RelayServer

E(mode, bind, base) ==
  [mode |-> mode, bind |-> bind, base |-> base, state_path |-> FALSE, ephemeral |-> FALSE,
   legacy_bind |-> FALSE, default_token |-> FALSE, owner_secret |-> TRUE, resource |-> "r1",
   upstream |-> "public", allow_loopback |-> FALSE, https |-> TRUE, addresses |-> {"public"}]

Place == {"loopback", "public"}

const_Environment ==
  {[E("oauth", b, p) EXCEPT !.state_path = s, !.ephemeral = ~s] :
     b \in Place, p \in Place, s \in BOOLEAN}
  \cup {[E("oauth", "loopback", "public") EXCEPT !.state_path = TRUE, !.resource = "r2"]}
  \cup {[E("mock", b, "loopback") EXCEPT !.legacy_bind = l, !.default_token = d] :
          b \in Place, l \in BOOLEAN, d \in BOOLEAN}
  \cup {[E("mock", "loopback", "loopback") EXCEPT !.addresses = {"public", "private"}]}
=============================================================================
