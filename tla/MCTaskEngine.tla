----------------------------- MODULE MCTaskEngine -----------------------------
(* Small instances of TaskEngine. *)
EXTENDS TaskEngineLedger

CONSTANTS alice, bob, d1, cloud, p0, p1

write == [gated |-> TRUE, write |-> TRUE, place |-> cloud]
auto  == [gated |-> FALSE, write |-> TRUE, place |-> cloud]
local == [gated |-> TRUE, write |-> FALSE, place |-> d1]

TwoSteps == {<<auto, write>>}
Short    == {<<auto>>, <<write>>}
OneWrite == {<<write>>}
OnDevice == {<<local>>, <<write>>}

=============================================================================
