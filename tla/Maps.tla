--------------------------------- MODULE Maps ---------------------------------
(***************************************************************************)
(* Partial maps as functions: the BTreeMaps of the store, whose entries    *)
(* appear and go.                                                          *)
(***************************************************************************)
EXTENDS Functions

EmptyMap == [k \in {} |-> k]

\* The map without the entries of some keys.
Without(b, S) == Restrict(b, DOMAIN b \ S)

\* The map with one entry written.
Put(b, k, v) == [t \in DOMAIN b \cup {k} |-> IF t = k THEN v ELSE b[t]]
===============================================================================
