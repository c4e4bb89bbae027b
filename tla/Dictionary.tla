----------------------------- MODULE Dictionary ------------------------------
(* What a dictionary promises: a value, or none, for every key.            *)

CONSTANTS Key, Value, NULL

VARIABLE d   \* [Key -> Value or NULL]

EmptyDict == [k \in Key |-> NULL]

Init == d = EmptyDict

Store(k, v) == d' = [d EXCEPT ![k] = v]

Delete(k) == d[k] # NULL /\ d' = [d EXCEPT ![k] = NULL]

Clear == d' = EmptyDict

Next == Clear \/ \E k \in Key : Delete(k) \/ \E v \in Value : Store(k, v)

DictionarySpec == Init /\ [][Next]_d
=============================================================================
