------------------------------ MODULE MCExecutor ------------------------------
(* Small documents for the executor.                                        *)
EXTENDS Executor, TLC

CONSTANTS a, b, c, d, s1, s2

Edge(x, y) == [source |-> x, target |-> y]
Doc(nodes, edges, kind, server, unsafe, forbidden) ==
    [nodes |-> nodes, edges |-> edges, kind |-> kind, server |-> server,
     unsafe |-> unsafe, forbidden |-> forbidden]

Ids == {a, b, c, d}
AllTools == [n \in Ids |-> "mcpTool"]
Between == [n \in Ids |-> CASE n = a -> "input" [] n = b -> "mcpTool" [] OTHER -> "output"]
OneServer == [n \in Ids |-> s1]
TwoServers == [n \in Ids |-> IF n = b THEN s2 ELSE s1]
LastNowhere == [n \in Ids |-> IF n = c THEN None ELSE s1]

\* A chain, a diamond's half, a boundary on both sides; then documents with a
\* stale edge, a missing server, a key that is refused, a cycle, a tool too many, no nodes.
Chain == Doc(<<c, b, a>>, <<Edge(a, b), Edge(b, c)>>, AllTools, OneServer, {}, {})
Join == Doc(<<a, b, c>>, <<Edge(a, c), Edge(b, c)>>, AllTools, TwoServers, {}, {})
Fork == Doc(<<a, b, c>>, <<Edge(a, b), Edge(a, c)>>, AllTools, LastNowhere, {}, {})
Pipe == Doc(<<a, b, c>>, <<Edge(a, b), Edge(b, c)>>, Between, TwoServers, {}, {})
Stale == Doc(<<a, b>>, <<Edge(c, a), Edge(a, b)>>, AllTools, TwoServers, {}, {})
Refused == Doc(<<a, b, c>>, <<Edge(a, b)>>, AllTools, OneServer, {c}, {1})
BadExit == Doc(<<a, b, c>>, <<Edge(b, c)>>, Between, OneServer, {}, {1})
Cycle == Doc(<<a, b, c>>, <<Edge(a, b), Edge(b, c), Edge(c, b)>>, AllTools, OneServer, {}, {})
Crowd == Doc(<<a, b, c, d>>, <<>>, AllTools, OneServer, {}, {})
Empty == Doc(<<>>, <<>>, AllTools, OneServer, {}, {})

AllGraphs == {Chain, Join, Fork, Pipe, Stale, Refused, BadExit, Cycle, Crowd, Empty}
=============================================================================
