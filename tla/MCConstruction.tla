--------------------------- MODULE MCConstruction ---------------------------
(***************************************************************************)
(* A deck whose attribute is arranged to 1 or 2 and a commlink without it; *)
(* an Add and an Increase; one purchase of parts and a shop's.             *)
(***************************************************************************)
EXTENDS Construction, TLC

MCRule == [m \in {"add", "inc"} |-> IF m = "add" THEN "add" ELSE "increase"]
MCRating == [d \in {"deck", "link"} |-> 1]
MCValues == [d \in {"deck", "link"} |-> IF d = "deck" THEN {1, 2} ELSE {0}]
MCPlaces == [m \in DOMAIN MCRule |-> IF m = "inc" THEN {"deck", "add"} ELSE {"link"}]
MCShop == [s \in {"shop"} |-> 8]
MCAmounts == [s \in {"bought", "shop"} |-> IF s = "bought" THEN {0, 8, 16} ELSE {0, 8, 16}]
P(a, b) == [s \in {"bought", "shop"} |-> IF s = "bought" THEN a ELSE b]
MCSpreads == {P(8, 0), P(8, 8)}
MCBeside == {"supplies"}
MCMaxRecords == [m \in DOMAIN MCRule |-> IF m = "inc" THEN 2 ELSE 1]

Fresh == [gear |-> [owned |-> [s \in {"bought"} |-> 0], at |-> [m \in DOMAIN MCRule |-> Gone]],
          devices |-> [d \in {"deck", "link"} |-> IF d = "deck" THEN 1 ELSE 0],
          supplies |-> [s \in {"shop"} |-> 0], records |-> {}]
\* A new character, and an import with two modifications of old in its deck.
MCStarting == {Fresh, [Fresh EXCEPT !.gear.at = [m \in DOMAIN MCRule |-> "deck"]]}
=============================================================================
