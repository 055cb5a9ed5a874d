---------------------------- MODULE MCGateway ----------------------------
EXTENDS Gateway

\* Both tiers at the two ordinary handlers, each administrative path once.
MCCall ==
    [path : {"/api/v1/payments", "/proxied"}, key : {"free-key", "pro-key"}]
    \cup [path : {"/v1/stats"}, key : {"free-key"}]
    \cup [path : {"/v1/admin/keys"}, key : {"pro-key"}]
    \cup [path : {"/metrics"}, key : {""}]

Rule(route, limit) == [route |-> route, limit |-> limit]

\* A tier whose wildcard stands in front of a path's own rule, and one with a
\* rule for a single path.
MCPolicy ==
    {[tier \in {"Free", "Pro"} |->
        IF tier = "Free" THEN <<Rule("/*", 2), Rule("/api/v1/payments", 1)>>
                         ELSE <<Rule("/proxied", 1)>>]}

=============================================================================
