----------------------------- MODULE MCClients ------------------------------
(***************************************************************************)
(* The clients: the session every client shares, the native command line   *)
(* and the MCP server, and the web interface.  Each is checked             *)
(* on a small instance of its own: a behaviour keeps to one part, the one  *)
(* its first state has in focus, so the states are the sum and not the     *)
(* product of the parts'.                                                  *)
(***************************************************************************)
EXTENDS ClientSession, NativeClient, WebSession, WebPages, WebAudit,
        WebTelemetry, McpServer

CONSTANT Parts   \* the parts checked

VARIABLE focus

vars == <<focus, sessVars, natVars, webVars, pageVars, feedCells, telVars,
          mcpVars>>

--------------------------------------------------------------------------
(* ClientSession: deployments that add, retire and reorder versions, one of  *)
(* them from before the handshake.                                           *)
Kept(v) == [version |-> v, dated |-> FALSE]
Dated(v) == [version |-> v, dated |-> TRUE]
Deployed(handshake, served) == [handshake |-> handshake, served |-> served]

MCFirst == Deployed(TRUE, <<Dated("v4"), Kept("v3")>>)
MCDeployments ==
  {Deployed(TRUE, <<Kept("v6"), Kept("v5"), Dated("v4")>>),
   Deployed(TRUE, <<Dated("v5"), Kept("v4")>>),
   Deployed(FALSE, <<Kept("v3")>>), MCFirst, Deployed(FALSE, <<Kept("v2")>>)}

--------------------------------------------------------------------------
(* NativeClient: every command, on two profiles of two services.             *)
ProfileUrl(identity, managed) == [identity |-> identity, managed |-> managed]
Plain(identity) == ProfileUrl(identity, FALSE)

Command(verb, name, url, given) == [verb |-> verb, name |-> name, url |-> url, given |-> given]

MCUrls == {Plain("x"), Plain("y"), ProfileUrl("y", TRUE)}
MCBegun ==
  {Command("add", "a", Plain("x"), <<>>), Command("add", "b", ProfileUrl("y", TRUE), <<>>),
   Command("default", "b", Plain("x"), <<>>), Command("update", "a", Plain("y"), <<>>),
   Command("login", "", Plain("x"), <<>>), Command("login", "", Plain("x"), <<Plain("x")>>),
   Command("logout", "a", Plain("x"), <<>>), Command("call", "b", Plain("x"), <<>>),
   Command("call", "", Plain("x"), <<>>), Command("call", "", Plain("x"), <<Plain("x")>>)}

--------------------------------------------------------------------------
(* WebPages: every action while the access token is good, and reading, going *)
(* elsewhere and logging out while it expires.                               *)
Browsing == /\ page'.dialog = "none" /\ page'.draft = "hidden"
            /\ ~page'.json /\ ~page'.edited

--------------------------------------------------------------------------
(* WebAudit: forms that narrow, are refused, and ask for nothing.            *)
Form(path, groups) == [path |-> path, text |-> "", actor |-> "", protocol |-> "",
                       backwards |-> FALSE, groups |-> groups]

MCForms == {Form("", KindGroups), Form("", KindGroups \ {"reads"}), Form("fits", {"reads"}),
            Form("refused", {"reads"}), Form("", {})}

--------------------------------------------------------------------------
(* McpServer: each way a line is answered, and each kind of tool.            *)
Line(json, id, method, tool, arguments) ==
  [json |-> json, id |-> id, method |-> method, tool |-> tool, shape |-> "object",
   arguments |-> arguments]

ToolLine(tool, arguments) == Line("object", TRUE, "tools/call", tool, arguments)

MCLines ==
  {Line("none", FALSE, "none", "none", <<>>), Line("object", TRUE, "none", "none", <<>>),
   Line("object", FALSE, "notifications/initialized", "none", <<>>),
   Line("object", TRUE, "ping", "none", <<>>), Line("object", TRUE, "resources/list", "none", <<>>),
   ToolLine("none", <<>>), ToolLine("nope", <<>>), ToolLine("login", <<>>), ToolLine("logout", <<>>),
   ToolLine("status", <<>>), ToolLine("get", [path |-> "root", reveal |-> "true"]),
   [ToolLine("status", <<>>) EXCEPT !.shape = "null"],
   [ToolLine("list_connections", <<>>) EXCEPT !.shape = "other"],
   ToolLine("delete", [path |-> "root"]), ToolLine("delete", [path |-> "root", recurse |-> "true"])}

--------------------------------------------------------------------------

Init ==
  /\ focus \in Parts
  /\ SessInit /\ NatInit /\ WebInit /\ PageInit /\ FeedInit
  /\ TelInit /\ McpInit
  /\ page.refreshes = IF focus = "tokens" THEN PageMaxRefreshes ELSE 0
  /\ focus \in {"pages", "tokens"} \/ page.route = "connections"

Next ==
  \/ /\ focus = "session" /\ SessNext
     /\ UNCHANGED <<focus, natVars, webVars, pageVars, feedCells, telVars, mcpVars>>
  \/ /\ focus = "native" /\ NatNext
     /\ UNCHANGED <<focus, sessVars, webVars, pageVars, feedCells, telVars, mcpVars>>
  \/ /\ focus = "web" /\ WebNext
     /\ UNCHANGED <<focus, sessVars, natVars, pageVars, feedCells, telVars, mcpVars>>
  \/ /\ \/ focus = "pages" /\ PageNext
        \/ focus = "tokens" /\ PageNext /\ Browsing
     /\ UNCHANGED <<focus, sessVars, natVars, webVars, feedCells, telVars, mcpVars>>
  \/ /\ focus = "feed" /\ FeedNext
     /\ UNCHANGED <<focus, sessVars, natVars, webVars, pageVars, telVars, mcpVars>>
  \/ /\ focus = "telemetry" /\ TelNext
     /\ UNCHANGED <<focus, sessVars, natVars, webVars, pageVars, feedCells, mcpVars>>
  \/ /\ focus = "mcp" /\ McpNext
     /\ UNCHANGED <<focus, sessVars, natVars, webVars, pageVars, feedCells, telVars>>

Spec == Init /\ [][Next]_vars

=============================================================================
