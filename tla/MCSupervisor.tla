---------------------------- MODULE MCSupervisor ----------------------------
(* Supervisor with two commands at once, two services and two process ids. *)
EXTENDS Supervisor, TLC

CONSTANTS c1, c2, web, nexus, id1, id2

Identities == Permutations(Commands) \cup Permutations(Services) \cup Permutations(Pids)
=============================================================================
