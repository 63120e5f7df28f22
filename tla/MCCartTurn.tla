---------------------------- MODULE MCCartTurn -----------------------------
(* Instances of CartTurn for TLC: connections are model values, and the      *)
(* model's function calls are right, wrong in one way each, or on a bound.   *)
EXTENDS CartTurn, TLC

CONSTANTS c1, c2

Add == [action |-> Text("add", 3), dish_id |-> Number("integer", 1), quantity |-> Number("integer", 1)]
Offer == [code |-> Padded("   ", 3, "", 0), subtotal |-> Number("float", 100)]

CartArgs ==
    {Add,
     [Add EXCEPT !.quantity = Number("integer", 1000)],
     [Add EXCEPT !.quantity = Number("integer", 1001)],
     [Add EXCEPT !.quantity = Number("integer", 0)],
     [Add EXCEPT !.dish_id = Number("float", 1)],
     [Add EXCEPT !.dish_id = Boolean],
     [Add EXCEPT !.action = Padded(" add ", 5, "add", 3)],
     [dish_id |-> Add.dish_id, quantity |-> Add.quantity],
     Add @@ [notes |-> Padded(" hot ", 5, "hot", 3)],
     Add @@ [notes |-> Null],
     Add @@ [addons |-> Array({"withId"})],
     Add @@ [addons |-> Array({"withId", "withoutId"})],
     Add @@ [addons |-> Array({"emptyId"})],
     Add @@ [addons |-> Array({"notDict"})],
     Add @@ [turn_id |-> Text("made up", 7)],
     Add @@ [x1 |-> Null, x2 |-> Null, x3 |-> Null]}

OfferArgs ==
    {Offer, [Offer EXCEPT !.subtotal = NaN], [Offer EXCEPT !.code = Text("", 0)]}

MCCalls ==
    {[tool |-> "update_cart", args |-> args] : args \in CartArgs}
    \cup {[tool |-> "validate_offer_code", args |-> args] : args \in OfferArgs}
    \cup {[tool |-> "get_menu", args |-> Add]}
=============================================================================
