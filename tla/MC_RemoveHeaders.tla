------------------------- MODULE MC_RemoveHeaders -------------------------
(* A model of RemoveHeaders: every params map over the four keys whose    *)
(* header lists hold up to two entries from a name that needs trimming   *)
(* and lower-casing, a blank name and an entry without a name.           *)
EXTENDS RemoveHeaders

Entries == {[name |-> <<" ", "A">>], [name |-> <<" ">>], NoName}
HeaderLists == {NotArray, <<>>} \cup [1..1 -> Entries] \cup [1..2 -> Entries]
PhaseValues == {Absent, NotObject, NoHeaders} \cup [headers : HeaderLists]
LegacyValues == {Absent} \cup HeaderLists

MCParams == [request : PhaseValues, requestHeaders : LegacyValues,
             response : PhaseValues, responseHeaders : LegacyValues]
=============================================================================
