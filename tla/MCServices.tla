----------------------------- MODULE MCServices ------------------------------
(* The parts of mini-auth-security, mini-backend-framework,                *)
(* mini-web-server and mini-api-engineering that keep tables, tokens,      *)
(* lists and encodings, on small instances.  They share no state but the   *)
(* clock: the one that active names moves.                                 *)
EXTENDS Integers, Sequences, TLC

CONSTANT None

VARIABLES active,
          slots, count, issued, dead,
          clients, codes, tokens, draws, gone, sps, users, ssoSessions, tickets, accepted, loggedOut, jwt, bytes,
          roles, members, limits, grantsTo, records, tampered, altered,
          poolSlots, inUse, up, made, open, held, head, tail, node, chains, size, recency, bucket, window, spent, granted,
          services, instance, requestInstance, inRequest, tags, alive, built, requestNo, crashed,
          nodes, mwHead, mwTail, mwCount, allocated, order,
          tables, saved, config, envOn, meant,
          sessions, stored, drawn, vals, trie, routes, chain, limitCount, windowStart, passes, trail, request,
          streams, nextId, wrote, opened, versions, deprecations, apiRoutes, accept, supported, query,
          input,
          now

Sm == INSTANCE Sessions WITH
        Users <- {"u"}, Clients <- {"c"}, Enforced <- TRUE, IdleTimeout <- 1, AbsoluteTTL <- 1,
        MaxSessions <- 2, MaxIds <- 3, MaxTime <- 2, MaxExpiry <- 3

Is == INSTANCE Issuers WITH
        Clients <- {"web", "app"}, Confidential <- {"app"}, Redirects <- {"r"}, Users <- {"u"}, Providers <- {"s", "t"},
        Issuer <- "me", Audiences <- {"a", "b"}, CodeTTL <- 0, AccessTTL <- 0, RefreshTTL <- 1, SessionTTL <- 1,
        TicketTTL <- 1, MaxTokens <- 2, MaxTickets <- 2, MaxDraws <- 6, MaxTime <- 2

Ac == INSTANCE Access WITH
        entries <- limits, granted <- grantsTo,
        RoleNames <- {"viewer", "editor", "admin"}, Names <- {"u"}, Perms <- {"read"}, MaxDepth <- 1, MaxParents <- 1,
        MaxRoles <- 2, Keys <- {"fixed", "sliding", "bucket"}, Limit <- 2, Window <- 2, Ring <- 3, MaxAge <- 3, MaxEntries <- 2,
        MaxTime <- 4, MaxGrants <- 5, Subjects <- {"a", "b"}, MaxEvents <- 3, MaxResults <- 2

Fr == INSTANCE FwResources WITH
        slots <- poolSlots,
        Capacity <- 3, IdleTimeout <- 1, MaxMade <- 5, Keys <- {"a", "b", "c", "d"},
        Bucket <- [k \in {"a", "b", "c", "d"} |-> IF k = "d" THEN 1 ELSE 0], Size <- 3, DefaultTTL <- 0, TTLs <- {0, 1},
        Unit <- 2, Rate <- 1, Burst <- 2, Window <- 2, MaxRequests <- 2, MaxGrants <- 6, MaxTime <- 3

\* Singletons, transients and request-scoped services, with a cycle and a duplicate name among them.
Svc(n, s, d) == [name |-> n, scope |-> s, deps |-> d]
Fc == INSTANCE FwContainer WITH
        entries <- services, request <- requestNo,
        Menu <- {Svc("a", "SINGLETON", << >>), Svc("a", "TRANSIENT", <<"b">>), Svc("b", "REQUEST", <<"a">>),
                 Svc("b", "SINGLETON", <<"c">>), Svc("c", "SINGLETON", <<"a", "b">>), Svc("c", "REQUEST", <<"a", "a">>)},
        MaxServices <- 3, MaxBuilt <- 4, MaxRequests <- 2, Tags <- {"t"}, Names <- {"x", "y"}, MaxNodes <- 4

Fd == INSTANCE FwData WITH
        TableNames <- {"t", "u", "w"}, MaxTables <- 2, Columns <- {"name"}, Texts <- {"x", "y"}, MaxRows <- 2, MaxSaves <- 3,
        Sections <- {"", "db"}, CfgKeys <- {"k", "l"}, CfgValues <- {"v", "w"}, MaxKeys <- 3,
        Environment <- [p \in {"", "db"} \X {"k", "l"} |-> IF p = <<"db", "k">> THEN "e" ELSE None]

Wp == INSTANCE WebParts WITH
        TTL <- 1, MaxSessions <- 3, MaxIds <- 3, VarNames <- {"k", "l"}, Values <- {"v"}, MaxVars <- 2, MaxTime <- 2,
        Segments <- {"a", "b"}, Params <- {":p"}, Wildcard <- "*", PathNames <- {"a", "b"}, MaxDepth <- 2, MaxChildren <- 2,
        MaxParams <- 1, Methods <- {"GET", "POST"}, MaxRoutes <- 3,
        Builtins <- {"cors", "auth", "rate", "body"}, MaxChain <- 2, Limit <- 1, WindowSec <- 1, MaxCalls <- 3

Ap == INSTANCE Api WITH
        routes <- apiRoutes,
        Payloads <- {1, 3}, MaxData <- 2, MaxStreams <- 3, MaxOpened <- 4,
        Numbers <- 0..2, MaxVersions <- 1, MaxDeprecations <- 3,
        Literals <- {"a", "users"}, SegLen <- [a |-> 1, users |-> 5], MaxDepth <- 2, Methods <- {"GET", "PUT"}, MaxRoutes <- 3,
        Media <- {"json", "xml", "html"}, Qualities <- {0, 5, 10}, MaxSelections <- 2, MaxNesting <- 2, MaxArgs <- 3

Cd == INSTANCE Codecs WITH
        Samples <- {0, 97, 255}, Chars <- {"a", "&", "<", "%", "+", " ", "amp;", "25"}, MaxText <- 4, Rooms <- {9, 12, 16, 40},
        Width <- 10, Integers32 <- {0, 1, 127, 128, 300, 2147483647}, Fields <- {1, 15, 16},
        Lengths <- {0, 1, 125, 126, 127, 65535, 65536, 65537}, MaxFrameSize <- 65536,
        Masks <- {<<1, 2, 3, 4>>, <<255, 0, 170, 85>>},
        JsonKeys <- {<<"k">>, <<"q">>, << >>}, JsonTexts <- {<< >>, <<"a", "b", "n">>, <<"q", "c">>, <<"a", "a", "a", "a">>},
        MaxString <- 5, MaxNesting <- 1

smVars == <<slots, count, issued, dead>>
isVars == <<clients, codes, tokens, draws, gone, sps, users, ssoSessions, tickets, accepted, loggedOut, jwt, bytes>>
acVars == <<roles, members, limits, grantsTo, records, tampered, altered>>
frVars == <<poolSlots, inUse, up, made, open, held, head, tail, node, chains, size, recency, bucket, window, spent, granted>>
fcVars == <<services, instance, requestInstance, inRequest, tags, alive, built, requestNo, crashed,
            nodes, mwHead, mwTail, mwCount, allocated, order>>
fdVars == <<tables, saved, config, envOn, meant>>
wpVars == <<sessions, stored, drawn, vals, trie, routes, chain, limitCount, windowStart, passes, trail, request>>
apVars == <<streams, nextId, wrote, opened, versions, deprecations, apiRoutes, accept, supported, query>>
auth == <<smVars, isVars, acVars>>
framework == <<frVars, fcVars, fdVars>>
vars == <<active, auth, framework, wpVars, apVars, input, now>>

Parts == {"sessions", "oauth", "sso", "jwt", "bytes", "rbac", "limiter", "audit",
          "pool", "lru", "limits", "container", "pipeline", "rows", "config",
          "store", "router", "chain", "streams", "versions", "rest", "negotiation", "parser", "codecs"}
\* Only the part that reads an input has more than one.
Init ==
    /\ active \in Parts
    /\ active = "bytes" \/ bytes = << >>
    /\ active = "negotiation" \/ (accept = <<[type |-> "*", sub |-> "*", q |-> 10]>> /\ supported = <<"json">>)
    /\ active = "parser" \/ query = [operation |-> "none", target |-> None, sels |-> << >>]
    /\ Sm!Init /\ Is!Init /\ Ac!Init /\ Fr!Init /\ Fc!Init /\ Fd!Init /\ Wp!Init /\ Ap!Init
    /\ IF active = "codecs" THEN Cd!Init ELSE input = [kind |-> "bytes", data |-> << >>]

Sessions == active = "sessions" /\ Sm!Next /\ UNCHANGED <<isVars, acVars>>
Issuing ==
    /\ \/ active = "oauth" /\ Is!OAuthNext
       \/ active = "sso" /\ Is!SsoNext
       \/ active = "jwt" /\ Is!JwtNext
    /\ UNCHANGED <<smVars, acVars>>
Access ==
    /\ \/ active = "rbac" /\ Ac!RbacNext
       \/ active = "limiter" /\ Ac!LimiterNext
       \/ active = "audit" /\ Ac!AuditNext
    /\ UNCHANGED <<smVars, isVars>>
Resources ==
    /\ \/ active = "pool" /\ Fr!PoolNext
       \/ active = "lru" /\ Fr!LruNext
       \/ active = "limits" /\ Fr!LimitNext
    /\ UNCHANGED <<fcVars, fdVars>>
Container == ((active = "container" /\ Fc!DiNext) \/ (active = "pipeline" /\ Fc!MwNext)) /\ UNCHANGED <<frVars, fdVars, now>>
Data == ((active = "rows" /\ Fd!OrmNext) \/ (active = "config" /\ Fd!CfgNext)) /\ UNCHANGED <<frVars, fcVars, now>>
Web ==
    /\ \/ active = "store" /\ Wp!SessionNext
       \/ active = "router" /\ Wp!RouteNext
       \/ active = "chain" /\ Wp!ChainNext
    /\ UNCHANGED <<auth, framework, apVars>>
Interface ==
    /\ \/ active = "streams" /\ Ap!StreamNext
       \/ active = "versions" /\ Ap!VersionNext
       \/ active = "rest" /\ Ap!RestNext
    /\ UNCHANGED <<auth, framework, wpVars, now>>
Next ==
    /\ UNCHANGED <<active, input>>
    /\ \/ (Sessions \/ Issuing \/ Access) /\ UNCHANGED <<framework, wpVars, apVars>>
       \/ (Resources \/ Container \/ Data) /\ UNCHANGED <<auth, wpVars, apVars>>
       \/ Web \/ Interface
Spec == Init /\ [][Next]_vars


\* Sessions, codes, tickets and tokens are accepted while they stand, and no longer.
AuthSound ==
    /\ active = "sessions" => Sm!SessionsSound
    /\ active = "oauth" => Is!OAuthSound
    /\ active = "sso" => Is!SsoSound
    /\ active \in {"jwt", "bytes"} => Is!JwtSound

\* Permissions follow the roles, limits hold and the audit log shows what was changed.
AccessSound ==
    /\ active = "rbac" => Ac!RbacSound
    /\ active = "limiter" => Ac!GrantsSound
    /\ active = "audit" => Ac!AuditSound

\* The framework's pools, lists, tables and containers agree with the calls made on them.
FrameworkSound ==
    /\ active = "pool" => Fr!PoolSound
    /\ active = "lru" => Fr!LruSound
    /\ active = "limits" => Fr!LimiterSound
    /\ active = "container" => Fc!ContainerSound
    /\ active = "pipeline" => Fc!PipelineSound
    /\ active = "rows" => Fd!OrmSound
    /\ active = "config" => Fd!StoreKept


\* grpc_sim.c, api_version.c and the encoders: streams keep what was written, versions are ordered, deprecations
\* reported, and what is encoded is decoded again.
ApiSound ==
    /\ active = "streams" => Ap!StreamsSound
    /\ active = "versions" => (Ap!DeprecationsSound /\ (versions = << >> /\ deprecations = << >> => Ap!VersionsSound))
    /\ active = "codecs" => Cd!CodecsSound

=============================================================================
