----------------------------- MODULE MCMcpServer -----------------------------
(* A client that queries and one that inspects and manages, on a source    *)
(* that admits one function at a time, under three policies.               *)
EXTENDS McpServer

CONSTANTS p1, p2

OneAtATime == [c \in Ids |-> 1]

Grants(management, resolver, q, manage) ==
    [management |-> management, resolver |-> resolver, query |-> q, manage |-> manage]

\* InspectionPolicy, QueryPolicy on a server with management, and all.
ThreeServers ==
    {Grants(FALSE, FALSE, FALSE, FALSE), Grants(TRUE, TRUE, TRUE, FALSE),
     Grants(TRUE, TRUE, TRUE, TRUE)}

\* The defaults, two rows of many bytes, too few bytes for any answer, too many
\* rows, and no SELECT.
FiveRequests ==
    {[valid |-> TRUE, rows |-> -1, bytes |-> 0], [valid |-> TRUE, rows |-> 2, bytes |-> 10],
     [valid |-> TRUE, rows |-> 1, bytes |-> 2], [valid |-> TRUE, rows |-> 4, bytes |-> 0],
     [valid |-> FALSE, rows |-> 1, bytes |-> 1]}

\* Results of two rows and of more.
TwoResults == {<<2, 1>>, <<4, 1, 1>>}

Division ==
    [p \in Procs |-> IF p = p1 THEN {"db_query"}
                     ELSE {"db_list_sources", "db_ping", "db_remove_source",
                           "db_register_source"}]
=============================================================================
