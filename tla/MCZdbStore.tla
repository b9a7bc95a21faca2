----------------------------- MODULE MCZdbStore -----------------------------
(* ZdbStore on a small instance: three callers sharing a pool of two        *)
(* connections, one key, one blob, one restart, and the URL shapes of the   *)
(* unit tests of get_connection_info plus a trailing slash and "default".   *)
EXTENDS ZdbStore, TLC

CONSTANTS c1, c2, c3, k1, b1

MCClients == {c1, c2, c3}
MCKeys == {k1}
MCBlobs == {b1}
MCServerNamespaces == {"default", "custom"}
MCUrls ==
    { [host |-> TRUE,  path |-> <<>>],               \* zdb://hub.grid.tf:9900
      [host |-> TRUE,  path |-> <<"custom">>],       \* zdb://username@hub.grid.tf/custom
      [host |-> TRUE,  path |-> <<"">>],             \* zdb://hub.grid.tf:9900/
      [host |-> TRUE,  path |-> <<"default">>],      \* zdb://hub.grid.tf/default
      [host |-> FALSE, path |-> <<"path", "to", "socket">>] } \* zdb:///path/to/socket

MCSymmetry == Permutations(MCClients)
=============================================================================
