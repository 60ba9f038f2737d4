--------------------------- MODULE ServerRequests ---------------------------
(***************************************************************************)
(* From a request to an answer: the routes of the HTTP server and the      *)
(* tools of the MCP server, which call the same queries.  A request is a   *)
(* record of its arguments; a handler makes of it one call of the service, *)
(* and of the call's result an answer with a status.                       *)
(***************************************************************************)
EXTENDS ServiceQueries, Integers

CONSTANTS
    Tenants, Default,  \* the tenants that are served, and the default one
    Unset, Junk,       \* an argument that is not given, a message that cannot be parsed
    Blank              \* a name of spaces

\* TrimSpace and the duplicates left out: querySymbols, stringSliceArg
Symbols(q) ==
    LET args == Append(q.names, q.name)
        add(names, n) == IF n \in {<<>>, Blank} \/ Contains(names, n) THEN names ELSE Append(names, n)
        after[i \in 0 .. Len(args)] == IF i = 0 THEN <<>> ELSE add(after[i - 1], args[i])
    IN  after[Len(args)]

-----------------------------------------------------------------------------
(* Arguments as they are written: of a kind (a whole number, a number with  *)
(* a fraction, text that begins with a number, or a word), with a value     *)
(* (the number without its fraction, or the word), and quoted or not: a     *)
(* query parameter is text in any case, a tool is given JSON.               *)

IsA(a, kinds) == a # Unset /\ a.kind \in kinds

\* strconv.Atoi, atoiOr: the whole text must be a numeral.
Atoi(a) == IF IsA(a, {"whole"}) THEN a.value ELSE 0

\* Mutant: a numeral in quotes is not read.
ToIntOfNumber(a) == IF IsA(a, {"whole", "fraction"}) /\ ~a.quoted THEN a.value ELSE 0

\* toInt: a number loses its fraction, and fmt.Sscanf reads of a string the numeral
\* it begins with.
ToInt(a) == IF IsA(a, {"whole", "fraction", "prefix"}) THEN a.value ELSE 0

\* url.Values.Get, and a type assertion to string
QueryText(a) == IF a = Unset THEN "" ELSE a.value
StringArg(a) == IF a # Unset /\ a.quoted THEN a.value ELSE ""

\* handleAffected's recursive, and a type assertion to bool
QueryFlag(a) == \/ IsA(a, {"word"}) /\ a.value = "true"
                \/ IsA(a, {"whole"}) /\ a.value = 1
BoolArg(a) == IsA(a, {"word"}) /\ ~a.quoted /\ a.value = "true"

\* mergeContextOptions: what is zero is the server's default.
MergeOptions(opts, defaults) ==
    [mode |-> IF opts.mode = "" THEN defaults.mode ELSE opts.mode,
     lines |-> IF opts.lines = 0 THEN defaults.lines ELSE opts.lines]

\* contextOptionsFromQuery, contextOptionsFromArgs
HttpOptions(q, defaults) == MergeOptions([mode |-> QueryText(q.mode), lines |-> Atoi(q.number)], defaults)
ToolOptions(q, defaults) == MergeOptions([mode |-> StringArg(q.mode), lines |-> ToInt(q.number)], defaults)

-----------------------------------------------------------------------------
(* From a request to a call                                                *)

\* Several names make a batch; none, or one, a single query.
CallNamed(op, q, opts) ==
    LET names == Symbols(q)
    IN  [op |-> op, batch |-> Len(names) > 1, opts |-> opts,
         names |-> IF names = <<>> THEN <<q.name>> ELSE names]

Call(op, name, opts) == [op |-> op, batch |-> FALSE, names |-> <<name>>, opts |-> opts]

\* parseQueryTags; an empty list becomes one empty tag.
HttpTags(q) == IF q.tags \ {""} = {} THEN {""} ELSE q.tags \ {""}

TagCall(q) ==
    CASE q.ask = "tags"     -> Call("GetTags", q.name, Unset)
      [] q.ask = "by_tag"   -> Call("SearchByTags", <<>>, HttpTags(q))
      [] q.ask = "all_tags" -> Call("GetAllTags", <<>>, Unset)

\* The call a route makes.
HttpCall(q, defaults) ==
    CASE q.ask = "context"  -> CallNamed("GetContext", q, HttpOptions(q, defaults))
      [] q.ask = "impact"   -> CallNamed("GetImpact", q, Atoi(q.number))
      [] q.ask = "tests"    -> CallNamed("GetTests", q, Atoi(q.number))
      [] q.ask = "affected" -> Call("GetAffected", q.name, QueryFlag(q.recursive))
      [] q.ask = "search"   -> Call("Search", q.name, [mode |-> QueryText(q.mode), limit |-> Atoi(q.number)])
      [] OTHER -> TagCall(q)

\* The call a tool makes (handleToolCall).
ToolCall(q, defaults) ==
    CASE q.ask = "context"    -> CallNamed("GetContext", q, ToolOptions(q, defaults))
      [] q.ask = "impact"     -> CallNamed("GetImpact", q, ToInt(q.number))
      [] q.ask = "tests"      -> CallNamed("GetTests", q, ToInt(q.number))
      [] q.ask = "affected"   -> Call("GetAffected", q.name, BoolArg(q.recursive))
      [] q.ask = "call_graph" -> Call("GetCallGraph", q.name, ToInt(q.number))
      [] q.ask = "config"     -> Call("SearchConfig", <<>>, q.pattern)
      [] q.ask = "depends"    -> Call("FindDependencies", q.name, Unset)
      [] q.ask = "search"     -> Call("Search", q.name, [mode |-> StringArg(q.mode), limit |-> ToInt(q.number)])
      [] q.ask = "tags"       -> Call("GetTags", q.name, Unset)
      [] q.ask = "by_tag"     -> Call("SearchByTags", <<>>, q.tags \ {""})
      [] q.ask = "all_tags"   -> Call("GetAllTags", <<>>, Unset)

\* The routes and the tools that ask something of the service.
HttpAsks == {"context", "impact", "tests", "affected", "search", "tags", "by_tag", "all_tags"}
ToolAsks == HttpAsks \cup {"call_graph", "config", "depends"}

-----------------------------------------------------------------------------
(* What the service answers.  A world w is a store and what belongs to it. *)

One(w, call, name) ==
    CASE call.op = "GetContext" -> GetContext(w.st, w.cov, w.cache, w.disk, name, call.opts.mode, call.opts.lines)
      [] call.op = "GetTests"   -> GetTests(w.st, w.cov, name, call.opts)
      [] call.op = "GetTags"    -> GetTags(w.st, name)
      [] call.op = "SearchByTags" -> SearchByTags(w.st, call.opts)
      [] call.op = "GetAllTags"   -> GetAllTags(w.categories)
      [] call.op = "SearchConfig" -> SearchConfig(w.st, call.opts)
      [] OTHER -> IF name = <<>> THEN Error("ERR_INVALID_PARAMETER") ELSE [asked |-> call.op, of |-> name, opts |-> call.opts]

\* What each name is answered by itself
EachOf(w, call) == [n \in ToSet(call.names) |-> One(w, call, n)]

AnswersOf(call, each) == IF call.batch THEN BatchAnswer(call.names, each) ELSE each[Head(call.names)]

Perform(w, call) == AnswersOf(call, EachOf(w, call))

\* ServiceError.HTTPStatus, writeServiceError
HttpStatus(answer) ==
    IF ~Failed(answer) THEN 200
    ELSE CASE answer.error = "ERR_SYMBOL_NOT_FOUND" -> 404
           [] answer.error = "ERR_INVALID_PARAMETER" -> 400
           [] OTHER -> 500

\* mcpError
RpcCode(answer) ==
    IF ~Failed(answer) THEN 0
    ELSE IF answer.error \in {"ERR_SYMBOL_NOT_FOUND", "ERR_INVALID_PARAMETER"} THEN -32602 ELSE -32603

HttpReply(answer) == [status |-> HttpStatus(answer), body |-> answer]
ToolReply(answer) == [code |-> RpcCode(answer), body |-> answer]

\* corsMiddlewareFor, recoveryMiddlewareFor
Preflight(q) == q.verb = "OPTIONS"
Recovered == [status |-> 500, body |-> Nothing]

\* serviceForRequest, resolveTenant: without a name, the default tenant.
TenantOf(id) == IF id = Unset THEN Default ELSE id

\* What the middleware answers by itself, or 0: a parameter with two dots, and
\* a preflight request.
Barred(q) == IF q.dots THEN 400 ELSE IF Preflight(q) THEN 204 ELSE 0

\* A request over HTTP, past limiter and token.  For an unknown tenant the
\* handler goes on with no service and panics.
Http(worlds, q, defaults) ==
    LET tenant == TenantOf(IF q.header # Unset THEN q.header ELSE q.tenant)
        reply(status, body) == [status |-> status, body |-> body]
    IN  IF Barred(q) # 0 THEN reply(Barred(q), Nothing)
        ELSE IF q.verb # "GET" THEN reply(405, Nothing)
        ELSE IF q.ask = "affected" /\ q.name = <<>> THEN reply(400, Nothing)
        ELSE IF tenant \notin Tenants THEN Recovered
        ELSE HttpReply(Perform(worlds[tenant], HttpCall(q, defaults)))

Tool(worlds, q, defaults) ==
    LET tenant == TenantOf(q.tenant)
        reply(code, body) == [code |-> code, body |-> body]
    IN  IF tenant \notin Tenants THEN reply(-32603, Nothing)
        ELSE IF q.ask \notin ToolAsks THEN reply(-32601, Nothing)
        ELSE ToolReply(Perform(worlds[tenant], ToolCall(q, defaults)))

-----------------------------------------------------------------------------
(* The MCP server: a message by POST, or frames on its standard input      *)

\* handleRequest
Handle(worlds, rq, defaults) ==
    LET done == [code |-> 0, body |-> rq.method]
    IN  CASE rq.method \in {"initialize", "notifications/initialized", "tools/list"} -> done
          [] rq.method = "tools/call" -> IF rq.params = Unset THEN [code |-> -32602, body |-> Nothing] ELSE Tool(worlds, rq.params, defaults)
          [] OTHER -> [code |-> -32601, body |-> Nothing]

ParseError == [code |-> -32700, body |-> Nothing]

\* handleMessage
Message(worlds, verb, rq, defaults) ==
    IF verb # "POST" THEN [code |-> -32600, body |-> Nothing]
    ELSE IF rq = Junk THEN ParseError ELSE Handle(worlds, rq, defaults)

AnswerFrame(worlds, frame, defaults) == IF frame.body = Junk THEN <<ParseError>> ELSE <<Handle(worlds, frame.body, defaults)>>

\* serveStdio: frame by frame, until one without a valid length.
Stdio(worlds, frames, defaults) ==
    LET upTo == {k \in 0 .. Len(frames) : \A i \in 1 .. k : frames[i].length}
        last == CHOOSE k \in upTo : \A j \in upTo : j <= k
    IN  FlattenSeq([i \in 1 .. last |-> AnswerFrame(worlds, frames[i], defaults)])

-----------------------------------------------------------------------------
(* What is promised of them                                                *)

Agree(http, tool) ==
    /\ (http.status = 200) <=> (tool.code = 0)
    /\ (http.status \in {400, 404}) <=> (tool.code = -32602)
    /\ http.status = 200 => http.body = tool.body

\* Arguments that both servers read alike: no number with a fraction or with text
\* behind it, a mode in quotes, recursive as a boolean.  Anything may stand where
\* a number is meant, but for these: both take it for zero.
WrittenAsMeant(q) ==
    /\ ~IsA(q.number, {"fraction", "prefix"})
    /\ q.mode = Unset \/ q.mode.quoted
    /\ IsA(q.recursive, {"word"}) => ~q.recursive.quoted
    /\ ~IsA(q.recursive, {"whole"})

\* A tool and a route of a tenant that are given the same arguments answer the same, and
\* fail together: for the caller's mistake never as an internal error.
ToolsAnswerAsRoutes(worlds, q, defaults) ==
    q.ask \in HttpAsks /\ TenantOf(q.tenant) \in Tenants /\ WrittenAsMeant(q) =>
        Agree(Http(worlds, [q EXCEPT !.verb = "GET", !.header = Unset, !.dots = FALSE], defaults), Tool(worlds, q, defaults))

\* An answer that a call gives in the world of the tenant, or an error.
OwnPage(http, worlds, t, call) == http.status = 200 => t \in Tenants /\ http.body = Perform(worlds[t], call)
OwnResult(tool, worlds, t, call) == tool.code = 0 => t \in Tenants /\ tool.body = Perform(worlds[t], call)

\* No tenant's request is answered from another tenant's store.
AnsweredByOwnTenant(worlds, q, defaults) ==
    LET byArg == IF q.tenant # Unset THEN q.tenant ELSE Default
        byHeader == IF q.header # Unset THEN q.header ELSE byArg
    IN  /\ q.ask \in HttpAsks => OwnPage(Http(worlds, q, defaults), worlds, byHeader, HttpCall(q, defaults))
        /\ OwnResult(Tool(worlds, q, defaults), worlds, byArg, ToolCall(q, defaults))

\* Every name asked for is answered once, in its batch or alone, as it is
\* answered alone.
EveryNameAnswered(w, q, defaults) ==
    LET call == HttpCall(q, defaults)
        asked == {n \in ToSet(Append(q.names, q.name)) : n \notin {<<>>, Blank}}
    IN  q.ask \in {"context", "impact", "tests"} =>
            /\ asked # {} => ToSet(call.names) = asked /\ Len(call.names) = Cardinality(asked)
            /\ call.batch => BatchAnswersAll(call.names, Perform(w, call), EachOf(w, call))

\* Every request on the standard input has its answer, in the order they came,
\* whatever the others were, and the answer it has when it is posted.
FramesAnswered(worlds, frames, defaults) ==
    LET out == Stdio(worlds, frames, defaults)
    IN  \A k \in DOMAIN frames : (\A i \in 1 .. k : frames[i].length) =>
            Len(out) >= k /\ out[k] = Message(worlds, "POST", frames[k].body, defaults)
=============================================================================
