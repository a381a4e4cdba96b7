------------------------- MODULE MCDnsFilterServer -------------------------
(***************************************************************************)
(* Finite instances of DnsFilterServer: one query of each kind.            *)
(***************************************************************************)
EXTENDS DnsFilterServer

CONSTANTS junk, google, adult, plain

AllQueries == {junk, google, adult, plain}
JunkQueries == {junk}
SafeQueries == {google}
AdultQueries == {adult}

=============================================================================
