-------------------------------- MODULE Api ---------------------------------
(* mini-api-engineering: the streams of the gRPC simulation (grpc_sim.c),  *)
(* version ordering, ranges and deprecation (api_version.c), the REST      *)
(* router with content negotiation (rest_design.c) and the query parser    *)
(* of the GraphQL engine (graphql_engine.c).  Texts are split where the    *)
(* code splits them: a version is its numbers and its label, a URI the     *)
(* lengths and names of its segments, an Accept header its ranges, a query *)
(* its tokens.                                                             *)
EXTENDS Integers, Sequences, FiniteSets, SequencesExt, FiniteSetsExt

CONSTANTS None, Payloads, MaxData, MaxStreams, MaxOpened,
          Numbers, MaxVersions, MaxDeprecations,
          Literals, SegLen, MaxDepth, Methods, MaxRoutes,
          Media, Qualities,
          MaxSelections, MaxNesting, MaxArgs

\* A payload is its length; SegLen gives the length of a literal segment; MaxOpened bounds the streams
\* ever opened.

VARIABLES streams, nextId,
          wrote,     \* what was last written, by stream id (history)
          opened,    \* ids in the order of their opening (history)
          versions, deprecations,
          routes,
          accept, supported,
          query
streamVars == <<streams, nextId, wrote, opened>>
versionVars == <<versions, deprecations>>
restVars == <<routes>>
inputs == <<accept, supported, query>>
vars == <<streamVars, versionVars, restVars, inputs>>

-----------------------------------------------------------------------------
(* grpc_sim.c: streams are kept in an array; closing one shifts the rest.  *)

GrpcStream == [stream_id: Nat, data: 0..MaxData]
OpenStream ==
    /\ Len(streams) < MaxStreams /\ Len(opened) < MaxOpened
    /\ streams' = Append(streams, [stream_id |-> nextId, data |-> 0])
    /\ nextId' = nextId + 2
    /\ wrote' = [i \in DOMAIN wrote \cup {nextId} |-> IF i = nextId THEN 0 ELSE wrote[i]]
    /\ opened' = Append(opened, nextId)
    /\ UNCHANGED <<versionVars, restVars, inputs>>
StreamAt(id) == LET S == {i \in DOMAIN streams : streams[i].stream_id = id} IN IF S = {} THEN 0 ELSE Min(S)
\* A payload longer than the stream's buffer is cut to it.
Held(n) == IF n > MaxData THEN MaxData ELSE n
WriteStream(id, n) ==
    /\ StreamAt(id) # 0
    /\ streams' = [streams EXCEPT ![StreamAt(id)].data = Held(n)]
    /\ wrote' = [wrote EXCEPT ![id] = n]
    /\ UNCHANGED <<nextId, opened, versionVars, restVars, inputs>>
ReadStream(id, room) == Min({room, streams[StreamAt(id)].data})
CloseSwaps(id) ==
    /\ StreamAt(id) # 0
    /\ streams' = Front([streams EXCEPT ![StreamAt(id)].data = streams[Len(streams)].data])
    /\ UNCHANGED <<nextId, wrote, opened, versionVars, restVars, inputs>>
CloseStream(id) ==
    /\ StreamAt(id) # 0
    /\ streams' = RemoveAt(streams, StreamAt(id))
    /\ UNCHANGED <<nextId, wrote, opened, versionVars, restVars, inputs>>
StreamNext ==
    \/ OpenStream
    \/ \E id \in Range(opened) : CloseStream(id) \/ \E n \in Payloads : WriteStream(id, n)

-----------------------------------------------------------------------------
(* api_version.c *)

\* The labels in the order of strcmp, 0 the empty one.  A parsed version has a label when it is a pre-release.
Labels == 0..2
Ver(a, b, c, l) == [major |-> a, minor |-> b, patch |-> c, label |-> l, pre |-> l # 0]
Version == {Ver(a, b, c, l) : a, b, c \in Numbers, l \in Labels}
Compare(a, b) ==
    IF a.major # b.major THEN a.major - b.major
    ELSE IF a.minor # b.minor THEN a.minor - b.minor
    ELSE IF a.patch # b.patch THEN a.patch - b.patch
    ELSE IF a.pre # b.pre THEN IF a.pre THEN -1 ELSE 1
    ELSE a.label - b.label
BumpMajor(v) == Ver(v.major + 1, 0, 0, 0)
BumpMinor(v) == Ver(v.major, v.minor + 1, 0, 0)
BumpPatch(v) == Ver(v.major, v.minor, v.patch + 1, 0)
IsSupported(v, lo, hi) == Compare(v, lo) >= 0 /\ (hi.major > 0 => Compare(v, hi) <= 0)
IsBackwardCompatible(a, b) ==
    a.major = b.major /\ IF a.major = 0 THEN a.minor = b.minor ELSE a.minor <= b.minor

\* The range a text denotes.  The upper end starts as a copy of the lower one: its label stays, and below
\* 1.0.0 a caret keeps its pre-release mark too.
CaretUpper(v) ==
    IF v.major > 0 THEN [v EXCEPT !.major = @ + 1, !.minor = 0, !.patch = 0, !.pre = FALSE]
    ELSE IF v.minor > 0 THEN [v EXCEPT !.minor = @ + 1, !.patch = 0]
    ELSE [v EXCEPT !.patch = @ + 1]
TildeUpper(v) == [v EXCEPT !.minor = @ + 1, !.patch = 0, !.pre = FALSE]
RangeOf(kind, v) ==
    [lower |-> v,
     upper |-> CASE kind = "^" -> CaretUpper(v) [] kind = "~" -> TildeUpper(v) [] OTHER -> v,
     has_upper |-> kind # ">="]
\* The upper end is excluded, also that of an exact range, which nothing satisfies.
Satisfies(r, v) == Compare(v, r.lower) >= 0 /\ (r.has_upper => Compare(v, r.upper) < 0)

Levels == {"NONE", "MINOR", "MAJOR", "SUNSET"}
RegisterVersion(v) ==
    /\ Len(versions) < MaxVersions /\ versions' = Append(versions, v)
    /\ UNCHANGED <<deprecations, streamVars, restVars, inputs>>
SetDeprecation(v, level) ==
    /\ Len(deprecations) < MaxDeprecations
    /\ deprecations' = Append(deprecations, [version |-> v, level |-> level])
    /\ UNCHANGED <<versions, streamVars, restVars, inputs>>
Match(v) == \E i \in DOMAIN versions : Compare(v, versions[i]) = 0
CheckDeprecation(v) ==
    LET S == {i \in DOMAIN deprecations : Compare(v, deprecations[i].version) = 0 /\ deprecations[i].level # "NONE"}
    IN  IF S = {} THEN None ELSE deprecations[Min(S)].level
IsSunset(v) == \E i \in DOMAIN deprecations : Compare(v, deprecations[i].version) = 0 /\ deprecations[i].level = "SUNSET"
VersionNext ==
    \E v \in {Ver(1, 0, 0, 0), Ver(1, 0, 0, 1), Ver(2, 0, 0, 0)} :
        RegisterVersion(v) \/ \E level \in Levels : SetDeprecation(v, level)

-----------------------------------------------------------------------------
(* rest_design.c: a route's path has literal segments and parameters. *)

Param == "{}"
Paths(S) == UNION {[1..n -> S] : n \in 1..MaxDepth}
Register(m, path) ==
    /\ Len(routes) < MaxRoutes /\ routes' = Append(routes, [method |-> m, path |-> path])
    /\ UNCHANGED <<streamVars, versionVars, inputs>>

\* Each character matched counts one, a parameter two; the scan stops where either path ends, and a
\* longer path is accepted if it goes on with a slash.
Common(a, b) == 1..Min({Len(a), Len(b)})
Fits(path, uri) == \A k \in Common(path, uri) : path[k] = Param \/ path[k] = uri[k]
Score(path, uri) ==
    MapThenSumSet(LAMBDA k : 1 + IF path[k] = Param THEN 2 ELSE SegLen[path[k]], Common(path, uri))
Better(m, uri, best, i) ==
    IF routes[i].method = m /\ Fits(routes[i].path, uri)
       /\ (best = 0 \/ Score(routes[i].path, uri) > Score(routes[best].path, uri))
    THEN i ELSE best
Resolve(m, uri) == FoldLeft(LAMBDA best, i : Better(m, uri, best, i), 0, [i \in DOMAIN routes |-> i])
RestNext == \E m \in Methods, path \in Paths(Literals \cup {Param}) : Register(m, path)

\* Content negotiation: a range has a type and a subtype, either of them a star, and a quality in tenths;
\* the specificity of a media type only breaks ties of quality.
Specificity == [json |-> 8, xml |-> 7, html |-> 3, plain |-> 2]
TypeOf == [json |-> "application", xml |-> "application", html |-> "text", plain |-> "text"]
RangeTakes(r, t) == r.type \in {"*", TypeOf[t]} /\ r.sub \in {"*", t}
Consider(b, r, t) ==
    IF RangeTakes(r, t) /\ (r.q > b.q \/ (r.q = b.q /\ Specificity[t] > b.spec))
    THEN [q |-> r.q, spec |-> Specificity[t], best |-> t] ELSE b
Negotiate(header, offered) ==
    LET b == FoldLeft(LAMBDA x, r : FoldLeft(LAMBDA y, t : Consider(y, r, t), x, offered),
                      [q |-> -1, spec |-> -1, best |-> offered[1]], header)
    IN  IF header = <<[type |-> "*", sub |-> "*", q |-> 10]>> \/ b.q <= 0 THEN offered[1] ELSE b.best

-----------------------------------------------------------------------------
(* graphql_engine.c: a query is a selection set, alone or after a field    *)
(* with arguments, and before that maybe an operation's keyword and name;  *)
(* a selection has arguments, maybe a nested set and maybe a comma behind  *)
(* it, with a space before the comma or without.  No name begins with a    *)
(* keyword.                                                                *)

Selection == [args: 0..2, nested: 0..MaxNesting, comma: {"none", "tight", "spaced"}]
Query == [operation: {"none", "anonymous", "named"}, target: {None} \cup 0..1,
          sels: UNION {[1..n -> Selection] : n \in 0..MaxSelections}]
ArgTokens(n) ==
    IF n = 0 THEN << >>
    ELSE <<"(">> \o FlattenSeq([i \in 1..n |-> <<"name", ":", "value", ",">>]) \o <<")">>
Nest(n) == IF n = 0 THEN << >> ELSE [i \in 1..n |-> "{"] \o <<"name">> \o [i \in 1..n |-> "}"]
Heading == [none |-> << >>, anonymous |-> <<"keyword">>, named |-> <<"keyword", "name">>]
Comma == [none |-> << >>, tight |-> <<",">>, spaced |-> <<"space", ",">>]
Text(q) ==
    Heading[q.operation]
    \o (IF q.target = None THEN << >> ELSE <<"name">> \o ArgTokens(q.target))
    \o <<"{">> \o FlattenSeq([i \in DOMAIN q.sels |-> LET s == q.sels[i] IN
                                <<"name">> \o ArgTokens(s.args) \o Nest(s.nested) \o Comma[s.comma]])
    \o <<"}">>
At(t, p) == IF p > Len(t) THEN "end" ELSE t[p]
Past(t, p, token) == IF At(t, p) = token THEN p + 1 ELSE p

\* One turn of the argument loop: name, colon, value and maybe a comma; the arguments of the whole query
\* share one array and those past its end are dropped.
ArgTurn(t, s) ==
    IF At(t, s.p) \in {")", "end"} THEN [s EXCEPT !.st = "after", !.p = IF At(t, s.p) = ")" THEN @ + 1 ELSE @]
    ELSE IF At(t, s.p) # "name" \/ At(t, s.p + 1) # ":" \/ At(t, s.p + 2) \notin {"name", "value"} THEN [s EXCEPT !.st = "bad"]
    ELSE [s EXCEPT !.args = Min({@ + 1, MaxArgs}), !.p = IF At(t, s.p + 3) = "," THEN @ + 4 ELSE @ + 3]
\* The place after the brace that closes the set opened just before p.
Skipped(t, p) ==
    LET go[k \in p..(Len(t) + 1)] ==
            IF k = p THEN 1
            ELSE LET d == go[k - 1] IN
                 IF d = 0 THEN 0 ELSE d + (CASE t[k - 1] = "{" -> 1 [] t[k - 1] = "}" -> -1 [] OTHER -> 0)
    IN  Min({k \in p..(Len(t) + 1) : go[k] = 0} \cup {Len(t) + 1})
SelectionTurn(t, s) ==
    LET p == Past(t, s.p, "space")  open == At(t, p + 1) = "(" IN
    IF At(t, s.p) = "end" THEN [s EXCEPT !.st = "done"]
    ELSE IF At(t, p) = "}" THEN [s EXCEPT !.st = "done", !.p = p + 1]
    ELSE IF Len(s.sels) >= MaxSelections \/ At(t, p) # "name" THEN [s EXCEPT !.st = "bad"]
    ELSE [s EXCEPT !.sels = Append(@, TRUE), !.p = IF open THEN p + 2 ELSE p + 1, !.st = IF open THEN "args" ELSE "after"]
\* After the target the set begins.  After a selection a nested set is skipped, its selections are not kept; the
\* comma is looked for right behind it, but behind the space where no set is nested.
AfterTurn(t, s) ==
    LET p == Past(t, s.p, "space") IN
    IF s.sels = << >> THEN [s EXCEPT !.st = IF At(t, p) = "{" THEN "set" ELSE "bad", !.p = p + 1]
    ELSE IF At(t, p) = "{" THEN [s EXCEPT !.sels[Len(s.sels)] = FALSE, !.p = Past(t, Skipped(t, p + 1), ","), !.st = "set"]
    ELSE [s EXCEPT !.p = Past(t, p, ","), !.st = "set"]
ParseTurn(t, s) ==
    CASE s.st = "args" -> ArgTurn(t, s) [] s.st = "after" -> AfterTurn(t, s) [] s.st = "set" -> SelectionTurn(t, s)
      [] OTHER -> s
\* The name behind an operation's keyword is the operation's.
Start(t) ==
    LET p == IF At(t, 1) = "keyword" THEN Past(t, 2, "name") ELSE 1  open == At(t, p + 1) = "(" IN
    [p |-> IF open THEN p + 2 ELSE p + 1, sels |-> << >>, args |-> 0, target |-> At(t, p) # "{",
     st |-> IF At(t, p) = "{" THEN "set" ELSE IF At(t, p) # "name" THEN "bad" ELSE IF open THEN "args" ELSE "after"]
Parse(t) ==
    LET go[k \in 0..2 * (Len(t) + 1)] == IF k = 0 THEN Start(t) ELSE ParseTurn(t, go[k - 1])
    IN  go[2 * (Len(t) + 1)]
Cost(s) == 1 + s.args + MapThenSumSet(LAMBDA i : IF s.sels[i] THEN 1 ELSE 2, DOMAIN s.sels)
Depth(s) ==
    IF s.sels = << >> THEN 0
    ELSE (IF \E i \in DOMAIN s.sels : ~s.sels[i] THEN 2 ELSE 1) + (IF s.target THEN 1 ELSE 0)

-----------------------------------------------------------------------------

Init ==
    /\ streams = << >> /\ nextId = 1 /\ wrote = << >> /\ opened = << >>
    /\ versions = << >> /\ deprecations = << >>
    /\ routes = << >>
    /\ accept \in UNION {[1..n -> [type: {"*", "application", "text"}, sub: {"*", "json", "html"}, q: Qualities]] : n \in 1..2}
    /\ supported \in {s \in UNION {[1..n -> Media] : n \in 1..3} : IsInjective(s)}
    /\ query \in Query

\* grpc_sim.c: every open stream is kept once, in the order of opening, under a fresh odd id, and holds what
\* was last written to it, as far as its buffer goes, whichever streams were closed in between.
StreamsSound ==
    /\ streams \in Seq(GrpcStream) /\ Len(streams) <= MaxStreams
    /\ IsInjective(opened) /\ \A id \in Range(opened) : id % 2 = 1
    /\ LET open == {streams[i].stream_id : i \in DOMAIN streams} IN
       [i \in DOMAIN streams |-> streams[i].stream_id] = SelectSeq(opened, LAMBDA id : id \in open)
    /\ \A i \in DOMAIN streams :
          LET s == streams[i] IN ReadStream(s.stream_id, MaxData) = Held(wrote[s.stream_id])

Sign(n) == IF n < 0 THEN -1 ELSE IF n > 0 THEN 1 ELSE 0
\* api_version.c: versions are totally ordered and every bump goes up; a release inside a caret range is one that
\* av_version_is_backward_compatible accepts, and a tilde range stays in its minor version, with one exception
\* each: the label that the upper end keeps lets the very next release, 2.0.0 for ^1.0.0-alpha, into the range
\* of a pre-release.
VersionsSound ==
    /\ \A a, b \in Version :
          /\ Sign(Compare(a, b)) = -Sign(Compare(b, a)) /\ (Compare(a, b) = 0 <=> a = b)
          /\ \A c \in Version : Compare(a, b) <= 0 /\ Compare(b, c) <= 0 => Compare(a, c) <= 0
          /\ ~b.pre /\ Satisfies(RangeOf("^", a), b) =>
                IsBackwardCompatible(a, b) \/ (a.pre /\ a.major > 0 /\ b = BumpMajor(a))
          /\ ~b.pre /\ Satisfies(RangeOf("~", a), b) =>
                (a.major = b.major /\ a.minor = b.minor) \/ (a.pre /\ b = BumpMinor(a))
          /\ Satisfies(RangeOf(">=", a), b) <=> IsSupported(b, a, Ver(0, 0, 0, 0))
    /\ \A v \in Version : Compare(v, BumpPatch(v)) < 0 /\ Compare(BumpPatch(v), BumpMinor(v)) < 0
                          /\ Compare(BumpMinor(v), BumpMajor(v)) < 0
\* api_version.c: a version announced as sunset is also reported as deprecated, in whatever order and however
\* often its deprecations were announced.
DeprecationsSound ==
    \A v \in Version : IsSunset(v) => CheckDeprecation(v) # None

\* rest_design.c: a request is routed whenever a route of its method agrees with it as far as both go.  Where its
\* segments are longer than two characters, a route that spells the URI out wins it, but for one case: a
\* route registered before it that begins with the same segments and goes on, with literals or parameters,
\* scores the same and keeps the request (/users/{id}, then /users, for the URI /users).
RestSound ==
    \A m \in Methods, uri \in Paths(Literals) :
        LET r == Resolve(m, uri) IN
        /\ r # 0 <=> \E i \in DOMAIN routes : routes[i].method = m /\ Fits(routes[i].path, uri)
        /\ r # 0 => routes[r].method = m /\ Fits(routes[r].path, uri)
        /\ (\A s \in Range(uri) : SegLen[s] > 2) =>
              \A i \in DOMAIN routes : routes[i].method = m /\ routes[i].path = uri =>
                  routes[r].path = uri \/ (r < i /\ IsStrictPrefix(uri, routes[r].path))

\* rest_design.c: the media type negotiated is offered and of the highest quality any offered type is accepted with.
NegotiationSound ==
    LET best(t) == Max({accept[i].q : i \in {j \in DOMAIN accept : RangeTakes(accept[j], t)}} \cup {0})
        t == Negotiate(accept, supported)
    IN  t \in Range(supported) /\ \A u \in Range(supported) : best(u) <= best(t)

\* graphql_engine.c: a query is parsed to its end, with one selection per top-level field, a leaf unless a set is
\* nested in it however deep, and the arguments of every field counted up to the array's size; cost and depth
\* never look below the second level.  Exactly two forms are refused or misread: a comma behind a nested set
\* and a space, and a field behind an anonymous operation's keyword, which is taken for the operation's name.
ParserSound ==
    LET t == Text(query)  s == Parse(t)
        swallowed == query.operation = "anonymous" /\ query.target # None
        given == (IF query.target = None THEN 0 ELSE query.target) + MapThenSumSet(LAMBDA i : query.sels[i].args, DOMAIN query.sels)
        refused == \/ swallowed /\ query.target > 0
                   \/ \E i \in DOMAIN query.sels : query.sels[i].nested > 0 /\ query.sels[i].comma = "spaced"
    IN  /\ s.st = IF refused THEN "bad" ELSE "done"
        /\ s.st = "done" => /\ s.p = Len(t) + 1
                            /\ s.sels = [i \in DOMAIN query.sels |-> query.sels[i].nested = 0]
                            /\ s.args = Min({given, MaxArgs}) /\ s.target = (query.target # None /\ ~swallowed)
        /\ Depth(s) <= 3 /\ Cost(s) <= 1 + 2 * MaxSelections + MaxArgs
=============================================================================
