------------------------------ MODULE Services ------------------------------
(***************************************************************************)
(* Requests through the HTTP server (src/config/server/http) and the gRPC  *)
(* server (src/config/server/grpc) with the middleware that the repository *)
(* ships: request context, JWT and cookie authentication                   *)
(* (src/security), request logging (src/logger/middlewares) and spans      *)
(* (src/telemetry).                                                        *)
(*                                                                         *)
(* A handler wrapped by reduceRight is a stack machine: the middleware     *)
(* still to enter (todo), the ones entered whose continuation is pending   *)
(* (passed), and the response or exception on its way out (out).  Several  *)
(* requests interleave at every await.                                     *)
(***************************************************************************)
EXTENDS Naturals, SequencesExt

CONSTANTS
  Requests,     \* requests and calls in flight
  Table,        \* the routes the application registers, in order
  Globals,      \* the middleware it adds with use(), in order
  Interceptors, \* GrpcServerOptions.interceptors
  PerService,   \* the interceptors given to addService
  Inputs,       \* what clients send: records [kind, method, path, cred]
  SkipPaths,    \* HttpLogEntryOptions.skipPaths
  JwtConfig,    \* the ServiceConfig of the JWT service
  Nothing       \* undefined

(***************************************************************************)
(* An entry of Table is [method, groups, path, own, name]: the groups it   *)
(* is declared in, outermost first, each [prefix, mw].  A path is the      *)
(* sequence of its segments, ":" standing for a named parameter.  A        *)
(* credential is "none", "scheme" (not Bearer, or no token), "malformed"   *)
(* (not three parts, or another alg), "forged" (the signature fails),      *)
(* "rejected" (a validator throws) or "good".                              *)
(***************************************************************************)
Middleware == {"context", "logger", "headers", "telemetry", "auth"}
Credentials == {"none", "scheme", "malformed", "forged", "rejected", "good"}

(* Chains are sequences of the middleware above, and a handler's name      *)
(* tells it from every other one.                                          *)
ASSUME ServicesAssumption ==
  /\ Nothing \notin Requests
  /\ {Globals, Interceptors, PerService} \subseteq Seq(Middleware)
  /\ Table \in Seq(ToSet(Table))
  /\ \A i \in DOMAIN Table :
       /\ Table[i].own \in Seq(Middleware)
       /\ Table[i].groups \in Seq(ToSet(Table[i].groups))
       /\ \A g \in DOMAIN Table[i].groups : Table[i].groups[g].mw \in Seq(Middleware)
       /\ Table[i].name \notin {"rpc", "health"}
       /\ \A j \in DOMAIN Table : Table[i].name = Table[j].name => i = j
  /\ \A input \in Inputs : input.cred \in Credentials

VARIABLES
  routes,       \* HttpServer.#routes
  global,       \* HttpServer.#global
  root,         \* the chain listen() composed, or Nothing
  draining,     \* shutdown() was called
  key,          \* the strategy's lazily imported key
  req           \* req[q]: the state of each request

serviceVars == <<routes, global, root, draining, key, req>>

---------------------------------------------------------------------------
(* Registration.                                                           *)

\* joinPath keeps one separator between a prefix and a path.
JoinPath(a, b) == a \o b

\* A nested group inherits its parent's prefix and middleware.
Group(parent, child) == [prefix |-> JoinPath(parent.prefix, child.prefix),
                         mw |-> parent.mw \o child.mw]

Scope(groups) ==
  LET scope[n \in 0..Len(groups)] ==
        IF n = 0 THEN [prefix |-> << >>, mw |-> << >>]
                 ELSE Group(scope[n - 1], groups[n])
  IN  scope[Len(groups)]

\* The chain that wraps the handler: the group's middleware, then its own.
ChainOf(r) == Scope(r.groups).mw \o r.own

Handle(r) == [method |-> r.method, path |-> JoinPath(Scope(r.groups).prefix, r.path),
              chain |-> ChainOf(r), name |-> r.name]

\* The built-in health route comes first, outside every group.
Health == [method |-> "GET", groups |-> << >>, path |-> <<"health">>,
           own |-> << >>, name |-> "health"]

Matches(pattern, path) ==
  /\ Len(pattern) = Len(path)
  /\ \A i \in DOMAIN path : pattern[i] \in {path[i], ":"}

\* The first route registered for the method whose pattern matches.
RouteOf(method, path) ==
  LET found == {i \in DOMAIN routes : /\ routes[i].method = method
                                      /\ Matches(routes[i].path, path)}
  IN  IF found = {} THEN Nothing
      ELSE routes[CHOOSE i \in found : \A j \in found : i <= j]

---------------------------------------------------------------------------
(* The JWT service.                                                        *)

\* createService; Nothing where it throws.
Strategy ==
  CASE JwtConfig.algorithm = "HS256" ->
         IF "hmacSecret" \in JwtConfig.has THEN "hmac" ELSE Nothing
    [] JwtConfig.algorithm \in {"RS256", "PS256"} -> "rsa"
    [] JwtConfig.algorithm = "EdDSA" -> "ed25519"
    [] OTHER -> IF {"sign", "verify"} \subseteq JwtConfig.has THEN "custom"
                ELSE Nothing

\* A strategy without its verification key rejects every token.
HasVerificationKey ==
  CASE Strategy = "rsa" -> "rsaPublicKey" \in JwtConfig.has
    [] Strategy = "ed25519" -> "eddsaPublicKey" \in JwtConfig.has
    [] OTHER -> TRUE

ASSUME ServiceIsConfigured == Strategy # Nothing

---------------------------------------------------------------------------
(* The stack machine.                                                      *)

Fresh == [pc |-> "new", kind |-> "http", method |-> "GET", path |-> << >>,
          cred |-> "none", todo |-> << >>, passed |-> << >>, route |-> Nothing,
          context |-> FALSE, skip |-> FALSE, claims |-> Nothing,
          ran |-> FALSE, saw |-> Nothing, out |-> Nothing,
          lines |-> << >>, span |-> "none", answer |-> Nothing]

ServicesInit ==
  /\ routes = <<Handle(Health)>>
  /\ global = << >>
  /\ root = Nothing
  /\ draining = FALSE
  /\ key = "none"
  /\ req = [q \in Requests |-> Fresh]

\* HttpServer.use and handle (also through a RouteGroup): both may run after
\* listen, but listen has composed the chain of the middleware it found.
Use ==
  /\ Len(global) < Len(Globals)
  /\ global' = Append(global, Globals[Len(global) + 1])
  /\ UNCHANGED <<routes, root, draining, key, req>>

Register ==
  /\ Len(routes) <= Len(Table)
  /\ routes' = Append(routes, Handle(Table[Len(routes)]))
  /\ UNCHANGED <<global, root, draining, key, req>>

Listen ==
  /\ root = Nothing
  /\ root' = global
  /\ UNCHANGED <<routes, global, draining, key, req>>

\* An HTTP request or a unary call arrives and meets its chain.
GrpcChain == <<"telemetry">> \o Interceptors \o PerService

Arrive(q) ==
  /\ req[q].pc = "new"
  /\ root # Nothing
  /\ ~draining
  /\ \E input \in Inputs :
       req' = [req EXCEPT ![q] =
         [Fresh EXCEPT !.pc = "enter", !.kind = input.kind,
            !.method = input.method, !.path = input.path, !.cred = input.cred,
            !.todo = IF input.kind = "http" THEN root ELSE GrpcChain,
            !.route = IF input.kind = "http" THEN Nothing
                      ELSE [name |-> "rpc", chain |-> << >>]]]
  /\ UNCHANGED <<routes, global, root, draining, key>>

Entering(q, mw) == req[q].pc = "enter" /\ req[q].todo # << >> /\ Head(req[q].todo) = mw

\* The request with its next middleware entered and its continuation pending.
Pass(r, mw) == [r EXCEPT !.todo = Tail(@), !.passed = Append(@, mw)]

\* A response or an exception starts on its way out.
Return(r, out) == [r EXCEPT !.pc = "leave", !.out = out]

\* httpContext stores the request's context before it calls next.
EnterContext(q) ==
  /\ Entering(q, "context")
  /\ req' = [req EXCEPT ![q] = [Pass(@, "context") EXCEPT !.context = TRUE]]
  /\ UNCHANGED <<routes, global, root, draining, key>>

\* httpLogger, grpcLogger and securityHeaders only act on the way out.
EnterWrapper(q) ==
  /\ \E mw \in {"logger", "headers"} :
       /\ Entering(q, mw)
       /\ req' = [req EXCEPT ![q] = Pass(@, mw)]
  /\ UNCHANGED <<routes, global, root, draining, key>>

\* grpcTelemetry starts a SERVER span.
EnterTelemetry(q) ==
  /\ Entering(q, "telemetry")
  /\ req' = [req EXCEPT ![q] = [Pass(@, "telemetry") EXCEPT !.span = "open"]]
  /\ UNCHANGED <<routes, global, root, draining, key>>

\* The refusal: a 401 response over HTTP, a thrown UNAUTHENTICATED over gRPC.
Refuse(r) == Return(r, IF r.kind = "http" THEN "401" ELSE "unauthenticated")

\* jwtMiddleware, cookieMiddleware and grpcJwtInterceptor: the token is read
\* and its header checked before the first await.
EnterAuth(q) ==
  /\ Entering(q, "auth")
  /\ req' = [req EXCEPT ![q] =
       IF @.cred \in {"none", "scheme", "malformed"} \/ ~HasVerificationKey
       THEN Refuse(@) ELSE [@ EXCEPT !.pc = "key"]]
  /\ UNCHANGED <<routes, global, root, draining, key>>

\* The strategy's key: imported unless some call has stored it already.  Two
\* calls may import it side by side; a failed import is not remembered.
LoadKey(q) ==
  /\ req[q].pc = "key"
  /\ \/ /\ key' = IF Strategy = "custom" THEN key ELSE "imported"
        /\ req' = [req EXCEPT ![q].pc = "verify"]
     \/ /\ key = "none"
        /\ Strategy # "custom"
        /\ req' = [req EXCEPT ![q] = Refuse(@)]
        /\ UNCHANGED key
  /\ UNCHANGED <<routes, global, root, draining>>

\* The claims are decoded once the signature holds.
CheckSignature(q) ==
  /\ req[q].pc = "verify"
  /\ req' = [req EXCEPT ![q] = IF @.cred = "forged" THEN Refuse(@)
                               ELSE [@ EXCEPT !.pc = "validate"]]
  /\ UNCHANGED <<routes, global, root, draining, key>>

\* Mistaken: a store that is not keyed by the request.
SetSharedClaims(q, claims) ==
  [r \in Requests |-> [req[r] EXCEPT !.claims = claims]]

\* setClaims: the claims store is keyed by the request.
SetClaims(q, claims) == [req EXCEPT ![q].claims = claims]

\* The validators run; the claims are attached and the next handler called.
\* A request's claims are represented by the request that carried the token.
Authenticate(q) ==
  /\ req[q].pc = "validate"
  /\ IF req[q].cred = "rejected"
     THEN req' = [req EXCEPT ![q] = Refuse(@)]
     ELSE req' = [SetClaims(q, q) EXCEPT ![q].pc = "enter", ![q].todo = Tail(@)]
  /\ UNCHANGED <<routes, global, root, draining, key>>

\* HttpServer.#route, once the global chain is passed.
Route(q) ==
  LET route == RouteOf(req[q].method, req[q].path)
  IN  /\ req[q].pc = "enter"
      /\ req[q].todo = << >>
      /\ req[q].route = Nothing
      /\ req' = [req EXCEPT ![q] =
           IF route = Nothing THEN Return(@, "404")
           ELSE [@ EXCEPT !.route = route, !.todo = route.chain]]
      /\ UNCHANGED <<routes, global, root, draining, key>>

\* What is thrown: "coded" is an error that is not a GrpcError and has a number
\* for its code (a DOMException), "thrown" any other that is not one.
GrpcErrors  == {"unauthenticated", "notFound"}
Thrown(out) == out \in {"thrown", "coded"} \cup GrpcErrors

\* The application's handler: it reads its claims, may ask for no log line
\* through the request context, and returns or throws.
Run(q) ==
  /\ req[q].pc = "enter"
  /\ req[q].todo = << >>
  /\ req[q].route # Nothing
  /\ \E out \in {"200", "thrown"} \cup (IF req[q].kind = "grpc" THEN {"coded", "notFound"} ELSE {}),
        skip \in {FALSE, req[q].context} :
       req' = [req EXCEPT ![q] =
         [Return(@, out) EXCEPT !.ran = TRUE, !.saw = req[q].claims, !.skip = skip]]
  /\ UNCHANGED <<routes, global, root, draining, key>>

---------------------------------------------------------------------------
(* The way out.                                                            *)

Leaving(q, mw) == req[q].pc = "leave" /\ req[q].passed # << >> /\ Last(req[q].passed) = mw

Pop(r) == [r EXCEPT !.passed = Front(@)]

\* httpContext and securityHeaders rewrite a response and let errors through.
LeaveResponse(q) ==
  /\ \E mw \in {"context", "headers"} : Leaving(q, mw)
  /\ req' = [req EXCEPT ![q] = Pop(@)]
  /\ UNCHANGED <<routes, global, root, draining, key>>

\* buildHttpLogEntry: no entry for a skipped path or a request that opted out.
Logged(r) == r.kind = "grpc" \/ ~(r.path \in SkipPaths \/ r.skip)

\* A line: whether the outermost logger of the request wrote it, what it says,
\* and whether the logger threw after it had written it.
Line(r, out, torn) == <<"logger" \notin ToSet(Front(r.passed)), out, torn>>

\* What a logger makes of an entry: it writes it, or leaves it out (its level,
\* test mode, shouldLog); it may throw instead of writing it, or after that, as
\* a file sink does whose tee fails.
Emissions == [written : BOOLEAN, throws : BOOLEAN]

Emit(r, out, e) ==
  [r EXCEPT !.lines = IF e.written THEN Append(@, Line(r, out, e.throws)) ELSE @,
            !.out = IF e.throws THEN "thrown" ELSE @]

\* The catch clause: the error is logged and rethrown, unless the logger throws.
Caught(r) == {Emit(r, "error", e) : e \in Emissions}

\* Mistaken: a catch clause that logs the error and answers instead of rethrowing it.
LoggerOutcomesSwallowing(r) ==
  IF ~Logged(r) THEN {r}
  ELSE IF Thrown(r.out) THEN {[x EXCEPT !.out = "200"] : x \in Caught(r)}
  ELSE {Emit(r, r.out, e) : e \in Emissions}

\* The line of a success is written inside the try, so a logger that throws
\* there turns the success into an error, which is logged in its turn.
LoggerOutcomes(r) ==
  IF ~Logged(r) THEN {r}
  ELSE IF Thrown(r.out) THEN Caught(r)
  ELSE UNION {IF e.throws THEN Caught(Emit(r, r.out, e)) ELSE {Emit(r, r.out, e)} : e \in Emissions}

LeaveLogger(q) ==
  /\ Leaving(q, "logger")
  /\ \E r \in LoggerOutcomes(req[q]) : req' = [req EXCEPT ![q] = Pop(r)]
  /\ UNCHANGED <<routes, global, root, draining, key>>

\* grpcTelemetry records the status code (grpcErrorCode: what the error has for
\* a code, UNKNOWN without one) and ends the span in a finally clause.
EndSpan(r) ==
  [r EXCEPT !.span = IF ~Thrown(r.out) THEN "ok" ELSE IF r.out = "thrown" THEN "unknown" ELSE r.out]

LeaveTelemetry(q) ==
  /\ Leaving(q, "telemetry")
  /\ req' = [req EXCEPT ![q] = Pop(EndSpan(@))]
  /\ UNCHANGED <<routes, global, root, draining, key>>

\* What the client gets: Deno.serve answers an exception with a 500; unary
\* gives toServiceError to the callback, INTERNAL unless it is a GrpcError.
ToAnswer(r) ==
  IF r.out \notin {"thrown", "coded"} THEN r.out
  ELSE IF r.kind = "http" THEN "500" ELSE "internal"

Answer(q) ==
  /\ req[q].pc = "leave"
  /\ req[q].passed = << >>
  /\ req' = [req EXCEPT ![q].pc = "answered", ![q].answer = ToAnswer(req[q])]
  /\ UNCHANGED <<routes, global, root, draining, key>>

\* shutdown: no request is accepted any more; those in flight complete.
Shutdown ==
  /\ root # Nothing
  /\ ~draining
  /\ draining' = TRUE
  /\ UNCHANGED <<routes, global, root, key, req>>

Step(q) ==
  \/ EnterContext(q) \/ EnterWrapper(q) \/ EnterTelemetry(q) \/ EnterAuth(q)
  \/ LoadKey(q) \/ CheckSignature(q) \/ Authenticate(q) \/ Route(q) \/ Run(q)
  \/ LeaveResponse(q) \/ LeaveLogger(q) \/ LeaveTelemetry(q) \/ Answer(q)

ServicesNext ==
  \/ Use \/ Register \/ Listen \/ Shutdown
  \/ \E q \in Requests : Arrive(q) \/ Step(q)

ServicesSpec == ServicesInit /\ [][ServicesNext]_serviceVars

---------------------------------------------------------------------------
(* Properties.                                                             *)

\* The middleware a handler is declared behind: that of every group around
\* it, however deep, and its own.
DeclaredMiddleware(name) ==
  IF name = "rpc" THEN ToSet(GrpcChain)
  ELSE IF name = "health" THEN {}
  ELSE LET i == CHOOSE i \in DOMAIN Table : Table[i].name = name
       IN  ToSet(Table[i].own)
             \cup UNION {ToSet(Table[i].groups[g].mw) : g \in DOMAIN Table[i].groups}

(***************************************************************************)
(* A handler declared, however deeply nested its group, behind             *)
(* authentication runs only for a request whose own token was verified,    *)
(* and the claims it reads are those of that token: never another          *)
(* request's, whatever requests are being verified at the same time        *)
(* (setClaims, RouteGroup.handle, #route, grpcJwtInterceptor).             *)
(***************************************************************************)
RunsWithItsOwnClaims ==
  \A q \in Requests :
    req[q].ran =>
      /\ req[q].saw \in {Nothing, q}
      /\ req[q].saw = q => req[q].cred = "good"
      /\ "auth" \in DeclaredMiddleware(req[q].route.name) => req[q].saw = q

(***************************************************************************)
(* Log, trace and client agree on how a request ended.  Once it is         *)
(* answered, the outermost logger it passed has written at most one line,  *)
(* which says what the client was told, and its span was ended with the    *)
(* status of the answer (httpLogger, grpcLogger, grpcTelemetry, unary).    *)
(* Excepted are the lines after which the logger threw: the client is then *)
(* told of a failure, such a line may call the request a success, and one  *)
(* more line may follow it; and the span of a call that failed with no     *)
(* GrpcError, which the client is told is INTERNAL: it has UNKNOWN, or the *)
(* number the error happens to have for a code.                            *)
(***************************************************************************)
ToldAlike ==
  \A q \in Requests :
    LET r == req[q]
        outermost == {i \in DOMAIN r.lines : r.lines[i][1]}
        torn(i) == r.lines[i][3]
        failed == r.answer \in {"500", "internal"} \cup GrpcErrors
    IN  r.pc = "answered" =>
          /\ \A i, j \in outermost : i < j => torn(i)
          /\ \A i \in outermost :
               IF torn(i) THEN failed
               ELSE r.lines[i][2] = (IF failed THEN "error" ELSE r.answer)
          /\ r.kind = "grpc" =>
               IF r.answer = "internal" THEN r.span \in {"unknown", "coded"}
               ELSE r.span = (IF failed THEN r.answer ELSE "ok")
=============================================================================
