------------------------------ MODULE MCAgent ------------------------------
(* Instances of Agent: two turns over the same or different sessions, two   *)
(* tools that tell some of the lines that are cited.                        *)
EXTENDS Agent, TLC

CONSTANTS r1, r2, s1, s2

MCTold == [t \in Tools |-> IF t = "query" THEN {"a", "b"} ELSE {"c"}]
MCCitations == {<< <<"a", "b", "x">>, <<"b", "c">> >>}
MCClaims == {<<"true", "false">>, <<"false", "unset">>}

Request(w, s, c, sets) ==
    [wire |-> w, session |-> s, cap |-> c, rounds |-> sets]
One == {{"query"}}
All == SUBSET Tools
MCRequests ==
    {r1 :> Request("stream", s1, 3, All),
     r1 :> Request("a2a", s1, 2, One) @@ r2 :> Request("a2a", s2, 51, One),
     r1 :> Request("a2a", s1, 1, One) @@ r2 :> Request("ask", s1, 0, {})}
=============================================================================
