-------------------------- MODULE MCFirewallBypass --------------------------
(***************************************************************************)
(* Finite instances of FirewallBypass.                                     *)
(***************************************************************************)
EXTENDS FirewallBackends

CONSTANTS ip1, ip2, ip3

Resolvers == {ip1, ip2, ip3}

=============================================================================
