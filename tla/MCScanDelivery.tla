------------------------------ MODULE MCScanDelivery ------------------------------
(* Two requests with one key while one thing goes wrong, and an accepted scan over  *)
(* each transport while two do; two workers.                                       *)
EXTENDS ScanDelivery

CONSTANTS h1, h2

MCHandler == {h1, h2}
MCSetups ==
  {[transport |-> "list", direct |-> FALSE, requests |-> {}, accepted |-> {h1}, maxTrouble |-> 2],
   [transport |-> "streams", direct |-> FALSE, requests |-> {}, accepted |-> {h1}, maxTrouble |-> 2],
   [transport |-> "streams", direct |-> TRUE, requests |-> {h1, h2}, accepted |-> {}, maxTrouble |-> 1]}
================================================================================
