---------------------------- MODULE LbClientManager ----------------------------
(***************************************************************************)
(* The registry of connections to backends (LbClientManager.cpp): an       *)
(* unordered_map from LbClient ids to LbClients, every access under one    *)
(* lock.  An id is "<ip>_<port>_NH" or "<ip>_<port>_H" (LbClient.cpp:66,   *)
(* 67): it names the backend and the purpose, never the request, so the    *)
(* request registry and the health registry are two maps keyed by backend. *)
(***************************************************************************)
CONSTANT NoLbClient        \* what find() == end() is read as (nullptr)

EmptyRegistry(Ids) == [id \in Ids |-> NoLbClient]

\* unordered_map::insert: an id that is already present keeps its LbClient.
AddLbClient(registry, id, client) ==
    IF registry[id] = NoLbClient
    THEN [registry EXCEPT ![id] = client]
    ELSE registry

GetLbClient(registry, id) == registry[id]

RemoveLbClient(registry, id) == [registry EXCEPT ![id] = NoLbClient]

================================================================================
