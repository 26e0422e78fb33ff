-------------------------- MODULE MCKeyNavigation --------------------------
(* Two actions with the same key, of which one is bound to a direction.    *)
EXTENDS KeyNavigation

CONSTANTS next, page, tab, item, other, field, d1, d2

TabOf == [a \in {next, page} |-> tab]
=============================================================================
