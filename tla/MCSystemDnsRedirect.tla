------------------------ MODULE MCSystemDnsRedirect ------------------------
(***************************************************************************)
(* Finite instances of SystemDnsRedirect.                                  *)
(***************************************************************************)
EXTENDS SystemDnsBackends

CONSTANTS c1, c2

TwoContents == {c1, c2}
Always == {"quiet", "busy"}

=============================================================================
