----------------------------- MODULE MCGateway ------------------------------
(***************************************************************************)
(* TLC instance of Gateway: the services in the groups that interact.      *)
(***************************************************************************)
EXTENDS Gateway

Only(services, until, limit) ==
  [enabled |-> services, until |-> until, limit |-> limit]
MCConfigurations ==
  { Only({"alerts", "settings"}, 3, 1),
    Only({"reports", "crashes"}, 4, 0),
    Only({"dashboard", "deletions"}, 3, 1),
    Only({"leaders", "deletions"}, 3, 1),
    Only({"dashboard", "settings"}, 3, 2),
    Only({"leaders", "settings"}, 3, 2),
    Only({"dashboard", "leaders", "settings"}, 3, 1),
    Only({"sanctions", "log"}, 4, 1),
    Only({"sanctions", "log", "crashes"}, 3, 2),
    Only({"kicks"}, 4, 2) }
MCCapacity == [c \in Channels |-> 1]
Symmetric == Permutations(Users) \cup Permutations(AlertKeys)
=============================================================================
