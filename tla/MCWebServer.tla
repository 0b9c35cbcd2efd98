------------------------------ MODULE MCWebServer ------------------------------
(***************************************************************************)
(* WebServer with every path of up to four components.                     *)
(***************************************************************************)
EXTENDS WebServer

Components == {"", ".", "..", "version", "index.html", "prefix_escape", "secret.txt", "malformed"}

AllPaths == {<<"">> \o path : path \in UNION {[1 .. n -> Components] : n \in 1 .. 4}}

================================================================================
