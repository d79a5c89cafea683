--------------------------- MODULE WorkspaceLeaseMC ---------------------------
(* Three executions over two workspaces: two can share or contend for one   *)
(* workspace while the third is woken by releases on the other.             *)
EXTENDS WorkspaceLease

===============================================================================
