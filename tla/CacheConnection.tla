--------------------------- MODULE CacheConnection ---------------------------
(***************************************************************************)
(* What the models of the connections, lmbCacheConnection, have in common. *)
(***************************************************************************)
CONSTANT Null  \* what get answers when there is nothing
=============================================================================
