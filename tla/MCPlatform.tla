----------------------------- MODULE MCPlatform -----------------------------
(***************************************************************************)
(* A small instance of every part of Platform.                             *)
(***************************************************************************)
EXTENDS Platform

\* Configuration: a load starts in a directory with every kind of file, or in
\* a nested one, whose resources are those of its parent.
MCUp == ("root" :> <<"root">>) @@ ("nested" :> <<"nested", "root">>)
MCResources == ("root" :> "conf") @@ ("nested" :> "sub") @@ ("conf" :> "none") @@ ("sub" :> "none")
P == <<"port">>
MCFiles ==
  LET empty == [app |-> None, ini |-> << >>, env |-> << >>]
  IN  ("root" :> [app |-> (P :> Number("8080")) @@ (AppName :> Text("svc"))
                          @@ (<<"db">> :> Text("x")) @@ (<<"tags">> :> List(<<Text("a")>>))
                          @@ (<<"on">> :> Boolean("true"))
                          @@ (EnvFiles :> List(<<Text("one"), Text("two")>>)),
                  ini |-> ("default" :> << <<"pair", <<"log">>, "1", FALSE>>,
                                          <<"section", <<"db">> >>,
                                          <<"pair", <<"host">>, "1", TRUE>> >>)
                       @@ ("svc" :> << <<"pair", <<"log">>, "a", FALSE>>,
                                      <<"pair", <<"log">>, "[1]", FALSE>> >>)
                       @@ ("other" :> << <<"malformed">> >>),
                  env |-> ("one" :> ("PORT" :> "1" @@ "ON" :> "f"))
                       @@ ("two" :> ("PORT" :> "a" @@ "TAGS" :> "a,1"))])
  @@ ("nested" :> empty) @@ ("sub" :> empty) @@ ("none" :> empty)
  @@ ("conf" :> [app |-> None,
                 ini |-> ("default" :> << <<"pair", P, "1", FALSE>>,
                                         <<"pair", <<"tags">>, "[a]", FALSE>>,
                                         <<"section", <<"env">> >>,
                                         <<"pair", <<"files">>, "one", FALSE>> >>),
                 env |-> ("one" :> ("PORT" :> "" @@ "APP_NAME" :> "other"))])
MCEnvironments == {<< >>, "APP_NAME" :> "other", "PORT" :> "0" @@ "DB_HOST" :> "0"}
MCEnvName ==
  (P :> "PORT") @@ (AppName :> "APP_NAME") @@ (<<"db">> :> "DB")
  @@ (<<"tags">> :> "TAGS") @@ (<<"on">> :> "ON") @@ (EnvFiles :> "ENV_FILES")
  @@ (<<"log">> :> "LOG") @@ (<<"db", "host">> :> "DB_HOST")
MCItems == ("a,1" :> <<"a", "1">>) @@ ("[a]" :> <<"a">>) @@ ("" :> << >>)
MCJsonLists == "[1]" :> <<Number("1")>>

\* Servers: two routes, one in nested groups, and one gRPC service.
MCTable == <<
  [method |-> "GET", groups |-> <<[prefix |-> <<"api">>, mw |-> <<"auth">>],
                                  [prefix |-> <<"v1">>, mw |-> <<"logger">>]>>,
   path |-> <<":">>, own |-> << >>, name |-> "item"],
  [method |-> "GET", groups |-> <<[prefix |-> <<"api">>, mw |-> << >>]>>,
   path |-> <<"v1", "open">>, own |-> <<"headers", "auth">>, name |-> "open"] >>
MCGlobals == <<"context", "logger">>
MCInputs ==
  [kind : {"http"}, method : {"GET"}, path : {<<"api", "v1", "x">>},
   cred : {"forged", "rejected", "good"}]
  \cup [kind : {"http"}, method : {"GET"}, path : {<<"health">>}, cred : {"none"}]
  \cup [kind : {"http"}, method : {"GET"}, path : {<<"api", "v1", "open">>}, cred : {"good"}]
  \cup [kind : {"grpc"}, method : {"rpc"}, path : {<< >>}, cred : {"none", "rejected", "good"}]
MCInterceptors == <<"logger">>
MCPerService == <<"auth">>
MCSkip == {<<"health">>}
MCJwtConfig == [algorithm |-> "RS256", has |-> {"rsaPublicKey"}]

\* Crypto: texts that encoding or decoding changes, and one they leave alone.
MCTexts == {<<"t", "bom">>, <<"bom", "half">>, <<"bom", "fffd">>}
MCAads == {Absent, << >>, <<"half">>, <<"fffd">>}

\* Logger: secrets in headers, lists, JSON strings and process records.
Value == Plain("v")
Json(v) == Grown("json", "json" :> v)
ListOf(v) == Grown("list", "1" :> v)
Secret == Grown("record", "token" :> Value @@ "id" :> Value)
MCAttributes == {
  "headers" :> Grown("headers", "token" :> Value @@ "cookie" :> Value) @@ "id" :> Value,
  "body" :> Json(Secret),
  "body" :> Grown("list", "1" :> Secret @@ "2" :> Json(ListOf(Secret))),
  "call" :> Grown("record", "headers" :> Grown("record", "cookie" :> Value)),
  "request" :> Grown("instance", "headers" :>
     Grown("headers", "cookie" :> Value @@ "token" :> Value @@ "auth" :> Json(Secret))),
  "services" :> ListOf(Secret)}
=============================================================================
