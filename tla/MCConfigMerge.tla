---------------------------- MODULE MCConfigMerge ----------------------------
(***************************************************************************)
(* Small instances of ConfigMerge: every strictly ascending list of names  *)
(* up to MaxName, merged with every list of at most MaxListed names; then  *)
(* searches that use each filter, each order, and several of them.         *)
(***************************************************************************)
EXTENDS ConfigSearch

CONSTANTS MaxName, MaxListed

Lists(max) == UNION {[1..n -> 1..MaxName] : n \in 0..max}

MCIndexes == {s \in Lists(MaxName) : IsIndex(s)}
MCListings == Lists(MaxListed)

\* Types fall, and levels come in pairs, as names rise.
MCTypeOf == [n \in 1..MaxName |-> MaxName - n]
MCLevelOf == [n \in 1..MaxName |-> n \div 2]
MCServicesOf == [n \in 1..MaxName |-> IF n = 1 THEN {} ELSE {"mon", "osd"}]

Every == [service |-> Unset, level |-> Unset, name |-> Unset, type |-> Unset,
          text |-> Unset, sort |-> Unset, order |-> Unset]

MCQueries ==
    {Every, [Every EXCEPT !.order = "desc"],
     [Every EXCEPT !.sort = "type"], [Every EXCEPT !.sort = "type", !.order = "desc"],
     [Every EXCEPT !.sort = "level"], [Every EXCEPT !.sort = "other"],
     [Every EXCEPT !.name = [wild |-> FALSE, matches |-> {2}]],
     [Every EXCEPT !.name = [wild |-> TRUE, matches |-> {1, 2}], !.order = "desc"],
     [Every EXCEPT !.service = "osd", !.text = {1, 3}],
     [Every EXCEPT !.level = 1, !.sort = "type"], [Every EXCEPT !.type = 1]}
==============================================================================
