------------------------- MODULE MCBlockerVpnService -------------------------
(***************************************************************************)
(* Finite instances of BlockerVpnService.                                  *)
(***************************************************************************)
EXTENDS BlockerVpnService

CONSTANTS site, page, search    \* page is a subdomain of site

ThreeDomains == {site, page, search}
SearchDomains == {search}
PageThenSite == {<<page, site>>, <<search>>}
TwoLists == {{page}, {site, search}}

=============================================================================
