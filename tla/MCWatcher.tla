----------------------------- MODULE MCWatcher -----------------------------
(* Three watchers: on a descriptor each, or two of them on the same one in *)
(* turn.  Other assignments of descriptors only change numbers.            *)
EXTENDS Watcher

MCConditions == {{}, {"OUT", "HUP"}}

MCInit == Init /\ fd_ \in {<<1, 2, 3>>, <<1, 2, 1>>}

MCSpec == MCInit /\ [][Next]_vars /\ Fairness
=============================================================================
