------------------------------ MODULE MCCatalog ------------------------------
(* Every master of four menus and three ingredients. *)
EXTENDS Catalog

MCMenus == 1..4
MCIngredients == 11..13
\* Two menus, and two ingredients of one category, share a reading.
MCMenuKana == [m \in MCMenus |-> IF m = 3 THEN 1 ELSE 2]
MCKana == [i \in MCIngredients |-> IF i = 13 THEN 1 ELSE 2]
MCCategory == [i \in MCIngredients |-> IF i = 11 THEN 2 ELSE 1]

MCIds == {<<>>, <<11>>, <<12>>, <<99>>, <<12, 12>>, <<12, 11>>, <<13, 99>>, <<11, 12, 13>>}
MCQueries ==
  [kind : {"search"}, ids : MCIds, only : BOOLEAN, sort : {"missing_asc", "matched_desc"}]
  \cup [kind : {"list"}, ids : {<<>>, <<3, 1, 3>>, <<2, 99>>, <<1, 2, 3>>}, only : {FALSE},
        sort : {"missing_asc"}]
  \cup [kind : {"menu"}, ids : {<<1>>, <<99>>}, only : {FALSE}, sort : {"missing_asc"}]
  \cup [kind : {"all"}, ids : {<<>>}, only : {FALSE}, sort : {"missing_asc"}]

MCSeeds == {{<<1, 12>>, <<2, 13>>, <<3, 11>>}}
=============================================================================
