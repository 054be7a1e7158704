---------------------------- MODULE MCPlannedTurns ----------------------------
(* PlannedTurns with one message for each flow of the stub planner.          *)
EXTENDS PlannedTurns

Customers == [d1 |-> "c1", d2 |-> "c2"]
Merchants == [d1 |-> "m1", d2 |-> "m2"]
LikePhone == {"5551234567", "find 5551234567"}

Nothing == [batch |-> None, delivery |-> None, search |-> FALSE, action |-> FALSE,
            query |-> None, credit |-> 0]
Batches == {[Nothing EXCEPT !.batch = ids] :
              ids \in {<<>>, <<"d1", "d2", "d1">>, <<"d1", "d2", "d1", "d2", "d1", "d2">>}}
Looks == {[Nothing EXCEPT !.delivery = d] : d \in {"d1", "d9", "5551234567"}}
Credits == {[Nothing EXCEPT !.delivery = d, !.action = TRUE, !.credit = cents] :
              d \in {"d1", "d9", "5551234567"}, cents \in {1000, 2000, 10^9}}
Searches == {[Nothing EXCEPT !.search = TRUE, !.query = q] : q \in {"find", "find 5551234567"}}

UserMessages == {Nothing} \cup Batches \cup Looks \cup Credits \cup Searches
=============================================================================
