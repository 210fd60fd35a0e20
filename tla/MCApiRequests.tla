---------------------------- MODULE MCApiRequests ----------------------------
(* A small instance of ApiRequests: a client repeats the id of a request. *)
EXTENDS ApiRequests, TLC

CONSTANTS r1, r2, same

Served(queries) == [client |-> TRUE, body |-> TRUE, allowed |-> TRUE, queries |-> queries]

SampleInputs ==
    {Served(<<"plain">>), Served(<<"plain", "transaction">>),
     [Served(<<>>) EXCEPT !.client = FALSE], [Served(<<>>) EXCEPT !.body = FALSE],
     [Served(<<>>) EXCEPT !.allowed = FALSE]}

SameId == [r \in Requests |-> same]
==============================================================================
