----------------------------- MODULE McpServer -----------------------------
(***************************************************************************)
(* The stdio MCP server (sovereign-config-mcp): one loop that reads a      *)
(* line, serves it to the end and only then reads the next, with a login   *)
(* that surfaces its device code while it is still polling, and a backend  *)
(* that resolves the profile, negotiates and mints a token for every call. *)
(*                                                                         *)
(* An argument is the class of JSON value it is: "path" a path that names  *)
(* a value, "root" one that names only a subtree, "text" any other string, *)
(* "long" one over MAX_VALUE_BYTES, "document" a subtree document, "names" *)
(* a list of known permissions, "true", "null" and "number".  The          *)
(* arguments of a call together are an object, null or neither.            *)
(***************************************************************************)
EXTENDS Integers, Sequences

CONSTANTS
  McpLines,       \* lines a host may write: [json, id, method, tool, shape, arguments]
  McpMaxLines,    \* bound: lines read
  McpMaxSecrets   \* bound: secrets a subtree holds

\* A line has an id or not.
ASSUME McpAssumption == \A line \in McpLines : line.id \in BOOLEAN

VARIABLES
  mcpRead,        \* the lines read so far
  mcpAt,          \* what the loop is doing
  mcpOut,         \* the messages written: [kind, to], to the line answered
  mcpManaged,     \* TRUE: the profile's URL carries client credentials
  mcpCredential,  \* TRUE: a refresh credential is stored
  mcpLogin        \* the login being polled: its prompts and its sender

mcpVars == <<mcpRead, mcpAt, mcpOut, mcpManaged, mcpCredential, mcpLogin>>

--------------------------------------------------------------------------
(* The messages. *)

\* parse_incoming: what a line is, and whether there is an id to answer.
parse_incoming(line) ==
  CASE line.json # "object"                -> [kind |-> "invalid", owed |-> FALSE]
    [] line.json = "object" /\ line.method = "none" -> [kind |-> "invalid", owed |-> line.id]
    [] OTHER -> [kind |-> IF line.id THEN "request" ELSE "notification", owed |-> line.id]

\* value_tools, connection_tools: the arguments each tool's schema requires.
value_tools ==
  [status |-> {}, login |-> {}, logout |-> {}, get |-> {"path"}, list |-> {"path"},
   put_value |-> {"path", "value"}, put_secret |-> {"path", "value"},
   replace_subtree |-> {"path", "json"}, delete |-> {"path"}, reveal_secret |-> {"path"},
   alias_add |-> {"source_path", "new_path"}, alias_list |-> {"path"}]

connection_tools ==
  [list_connections |-> {}, create_connection |-> {"display_name", "root", "permissions"},
   rotate_connection |-> {"connection_id"}, revoke_connection |-> {"connection_id"}]

\* require_str, bounded, operation_at, selection_at, optional_bool: the
\* classes of value each kind of argument accepts.
Strings == {"path", "root", "text", "long", "document"}

Accepts(kind) ==
  CASE kind = "operation" -> {"path"}
    [] kind = "selection" -> {"path", "root"}
    [] kind = "bounded"   -> Strings \ {"long"}
    [] kind = "document"  -> {"document"}
    [] kind = "name"      -> {"text"}
    [] kind = "names"     -> {"names"}
    [] OTHER (* a flag *) -> {"true", "false", "null", "absent"}

Argument(arguments, key) == IF key \in DOMAIN arguments THEN arguments[key] ELSE "absent"

\* ToolCall, parse_call: the arguments of each tool, and the kind each must be.
Parameters(tool, arguments) ==
  LET path(kind) == [path |-> kind] IN
  CASE tool \in {"status", "login", "logout", "list_connections"} -> <<>>
    [] tool = "get" -> [path |-> "selection", reveal |-> "flag"]
    [] tool = "list" -> path("selection")
    [] tool \in {"put_value", "put_secret"} -> [path |-> "operation", value |-> "bounded"]
    [] tool = "replace_subtree" -> [path |-> "selection", json |-> "document"]
    [] tool = "delete" -> [recurse |-> "flag",
                           path |-> IF Argument(arguments, "recurse") = "true"
                                    THEN "selection" ELSE "operation"]
    [] tool \in {"reveal_secret", "alias_list"} -> path("operation")
    [] tool = "alias_add" -> [source_path |-> "operation", new_path |-> "operation"]
    [] tool = "create_connection" ->
         [display_name |-> "name", root |-> "selection", permissions |-> "names"]
    [] OTHER (* rotate_connection, revoke_connection *) -> [connection_id |-> "name"]

Tools == DOMAIN value_tools \union DOMAIN connection_tools

\* Null stands for no arguments, and anything but an object is refused first.
parse_call(tool, shape, given) ==
  LET arguments == IF shape = "null" THEN <<>> ELSE given IN
  IF shape = "other" THEN "invalid_request"
  ELSE IF tool \notin Tools THEN "unknown_tool"
  ELSE LET wanted == Parameters(tool, arguments) IN
       IF \A key \in DOMAIN wanted : Argument(arguments, key) \in Accepts(wanted[key])
       THEN "ok" ELSE "invalid_request"

--------------------------------------------------------------------------
(* The loop. *)

Reading == [step |-> "reading"]

NoLogin == [prompts |-> 0, sender |-> FALSE, lost |-> FALSE, polled |-> "never"]

McpInit ==
  /\ mcpRead = <<>> /\ mcpAt = Reading /\ mcpOut = <<>>
  /\ mcpManaged = FALSE /\ mcpCredential = TRUE /\ mcpLogin = NoLogin

Serving == mcpRead[Len(mcpRead)]

Message(kind) == [kind |-> kind, to |-> Len(mcpRead)]

\* Outbound::send: one line per message, until one cannot be written.  A host that
\* has gone reads no later message either, and the answer that fails ends run.
Written(messages) ==
  \/ /\ mcpOut' = mcpOut \o messages
     /\ mcpAt' = Reading
  \/ /\ \E n \in 0..(Len(messages) - 1) : mcpOut' = mcpOut \o SubSeq(messages, 1, n)
     /\ mcpAt' = [step |-> "ended"]

Reply(kind) == Written(<<Message(kind)>>)

\* handle_request: an initialize, a ping, a list of the tools and a refusal
\* are answered at once.
handle_request(line) ==
  CASE line.method \in {"initialize", "tools/list", "ping"} -> Reply("result")
    [] line.method = "tools/call" ->
         IF line.tool = "none" THEN Reply("error")
         ELSE mcpAt' = [step |-> "calling"] /\ UNCHANGED mcpOut
    [] OTHER -> Reply("error")

\* handle_line: a notification, and a malformed line without an id, are not
\* answered.
handle_line(line) ==
  LET incoming == parse_incoming(line) IN
  CASE incoming.kind = "request"                       -> handle_request(line)
    [] incoming.kind = "invalid" /\ incoming.owed      -> Reply("error")
    [] OTHER -> mcpAt' = Reading /\ UNCHANGED mcpOut

\* run: the loop reads its next line once it has served the last.
next_line ==
  /\ mcpAt = Reading /\ Len(mcpRead) < McpMaxLines
  /\ \E line \in McpLines :
       mcpRead' = Append(mcpRead, line)
  /\ mcpAt' = [step |-> "handling"]
  /\ UNCHANGED <<mcpManaged, mcpOut, mcpCredential, mcpLogin>>

HandleLine ==
  /\ mcpAt.step = "handling"
  /\ handle_line(Serving)
  /\ UNCHANGED <<mcpManaged, mcpRead, mcpCredential, mcpLogin>>

\* run: the end of the input ends the loop.
InputEnds ==
  /\ mcpAt = Reading
  /\ mcpAt' = [step |-> "ended"]
  /\ UNCHANGED <<mcpManaged, mcpRead, mcpOut, mcpCredential, mcpLogin>>

\* handle_tools_call: a call whose arguments parse is executed.
handle_tools_call ==
  /\ mcpAt.step = "calling"
  /\ IF parse_call(Serving.tool, Serving.shape, Serving.arguments) = "ok"
     THEN /\ mcpAt' = [step |-> Serving.tool, left |-> -1]
          /\ UNCHANGED mcpOut
     ELSE Reply("failure")
  /\ UNCHANGED <<mcpManaged, mcpRead, mcpCredential, mcpLogin>>

--------------------------------------------------------------------------
(* The backend: NativeBackend.  A call fails when its profile, the         *)
(* service, the provider or the server's authorization fails.              *)

\* maybe_access_token: a token from the credential, which a refused refresh
\* deletes; a profile with client credentials needs none.
TokenMinted(minted) ==
  IF mcpManaged THEN UNCHANGED mcpCredential
  ELSE /\ minted => mcpCredential
       /\ \/ UNCHANGED mcpCredential
          \/ mcpCredential /\ ~minted /\ mcpCredential' = FALSE

\* connection: the profile is read again for every call, so an edit of it
\* takes effect in the next.
ProfileEdited ==
  /\ mcpManaged' = ~mcpManaged
  /\ UNCHANGED <<mcpRead, mcpAt, mcpOut, mcpCredential, mcpLogin>>

\* operational_client, negotiated: a client for one operation, which may fail.
operational_client(ok) == TokenMinted(ok)

\* The tools that are one operation of the backend.
OneCall == Tools \ {"status", "login", "get", "logout"}

execute ==
  /\ mcpAt.step \in OneCall
  /\ \E ok \in BOOLEAN :
       /\ operational_client(ok)
       /\ Reply(IF ok THEN "result" ELSE "failure")
  /\ UNCHANGED <<mcpManaged, mcpRead, mcpLogin>>

\* status: the service's own version first, then whether a token can be had;
\* a profile that is logged out is an answer, not a failure.
status ==
  /\ mcpAt.step = "status"
  /\ \/ Reply("failure") /\ UNCHANGED mcpCredential
     \/ ~mcpManaged /\ ~mcpCredential /\ Reply("result") /\ UNCHANGED mcpCredential
     \/ \E ok \in BOOLEAN :
          (mcpManaged \/ mcpCredential) /\ TokenMinted(ok)
          /\ Reply(IF ok THEN "result" ELSE "failure")
  /\ UNCHANGED <<mcpManaged, mcpRead, mcpLogin>>

\* logout: deletes the credential of a profile that has one of its own.
logout_tool ==
  /\ mcpAt.step = "logout"
  /\ \/ Reply("failure") /\ UNCHANGED mcpCredential
     \/ ~mcpManaged /\ Reply("result") /\ mcpCredential' = FALSE
  /\ UNCHANGED <<mcpManaged, mcpRead, mcpLogin>>

\* execute, render_get: the subtree is read, with its secrets masked.
get_subtree_tool ==
  /\ mcpAt.step = "get" /\ mcpAt.left = -1
  /\ \E ok \in BOOLEAN, secrets \in 0..McpMaxSecrets :
       /\ operational_client(ok)
       /\ IF ~ok THEN Reply("failure")
          ELSE IF Argument(Serving.arguments, "reveal") = "true" /\ secrets > 0
          THEN mcpAt' = [mcpAt EXCEPT !.left = secrets] /\ UNCHANGED mcpOut
          ELSE Reply("result")
  /\ UNCHANGED <<mcpManaged, mcpRead, mcpLogin>>

\* reveal_subtree: one authorized call per secret; the first that is refused
\* aborts the render.
reveal_subtree ==
  /\ mcpAt.step = "get" /\ mcpAt.left > 0
  /\ \E ok \in BOOLEAN :
       /\ operational_client(ok)
       /\ IF ~ok THEN Reply("failure")
          ELSE IF mcpAt.left > 1
          THEN mcpAt' = [mcpAt EXCEPT !.left = @ - 1] /\ UNCHANGED mcpOut
          ELSE Reply("result")
  /\ UNCHANGED <<mcpManaged, mcpRead, mcpLogin>>

--------------------------------------------------------------------------
(* login: the loop selects, in this order, between the channel of prompts  *)
(* and the login itself, which is polled only while the channel is empty   *)
(* and its sender alive.                                                   *)

\* The login starts: it holds the sender until it returns.
login_starts ==
  /\ mcpAt.step = "login" /\ mcpLogin = NoLogin
  /\ mcpLogin' = [NoLogin EXCEPT !.sender = TRUE, !.polled = "begin"]
  /\ UNCHANGED <<mcpManaged, mcpRead, mcpAt, mcpOut, mcpCredential>>

\* inbox.recv(): a prompt is passed on as a notification; one that cannot be
\* written does not stop the login.
prompt_delivered ==
  /\ mcpAt.step = "login" /\ mcpLogin.prompts > 0
  /\ \/ /\ mcpOut' = Append(mcpOut, Message("prompt"))
        /\ mcpLogin' = [mcpLogin EXCEPT !.prompts = @ - 1]
     \/ /\ mcpLogin' = [mcpLogin EXCEPT !.prompts = @ - 1, !.lost = TRUE]
        /\ UNCHANGED mcpOut
  /\ UNCHANGED <<mcpManaged, mcpRead, mcpAt, mcpCredential>>

\* inbox.recv() of a channel whose sender is gone answers at once, with
\* nothing, and the loop turns again: the login is not polled.
recv_closed ==
  /\ mcpAt.step = "login" /\ mcpLogin # NoLogin
  /\ mcpLogin.prompts = 0 /\ ~mcpLogin.sender

LoginPolled ==
  mcpAt.step = "login" /\ mcpLogin.polled \in {"begin", "poll"}
  /\ mcpLogin.prompts = 0 /\ mcpLogin.sender

\* NativeBackend::login: the device flow begins and its prompt is sent.
login_begins ==
  /\ LoginPolled /\ mcpLogin.polled = "begin" /\ ~mcpManaged
  /\ mcpLogin' = [mcpLogin EXCEPT !.prompts = 1, !.polled = "poll"]
  /\ UNCHANGED <<mcpManaged, mcpRead, mcpAt, mcpOut, mcpCredential>>

\* The answer of a login, after what it drains from the channel.
LoginAnswered(drained, kind) ==
  /\ mcpLogin' = NoLogin
  /\ IF mcpLogin.lost THEN mcpAt' = [step |-> "ended"] /\ UNCHANGED mcpOut
     ELSE Written(Append(drained, Message(kind)))

\* NativeBackend::login returns in a poll that begins it, or in a later one: with an
\* error at any step (for a managed profile always), or with the credential stored.
LoginReturns(same_poll, ok) ==
  /\ LoginPolled
  /\ same_poll => mcpLogin.polled = "begin" /\ ~mcpManaged
  /\ ok /\ ~same_poll => mcpLogin.polled = "poll"
  /\ IF ok THEN mcpCredential' = TRUE ELSE UNCHANGED mcpCredential
  /\ UNCHANGED <<mcpManaged, mcpRead>>

\* Mutant: a prompt sent in the poll that completes the login is not drained.
login_returns_undrained(same_poll, ok) ==
  LoginReturns(same_poll, ok) /\ LoginAnswered(<<>>, IF ok THEN "result" ELSE "failure")

\* A login that succeeds drains the prompt of the same poll first; one that fails
\* returns at once, and its prompt is dropped with the channel.
login_returns(same_poll, ok) ==
  /\ LoginReturns(same_poll, ok)
  /\ LoginAnswered(IF ok /\ same_poll THEN <<Message("prompt")>> ELSE <<>>,
                   IF ok THEN "result" ELSE "failure")

McpNext ==
  \/ next_line \/ HandleLine \/ InputEnds \/ handle_tools_call
  \/ execute \/ status \/ logout_tool \/ get_subtree_tool \/ reveal_subtree
  \/ ProfileEdited
  \/ login_starts \/ prompt_delivered \/ login_begins
  \/ \E same_poll, ok \in BOOLEAN : login_returns(same_poll, ok)

McpSpec == McpInit /\ [][McpNext]_mcpVars

--------------------------------------------------------------------------
(* Properties. *)

\* The requests among the lines read: those with an id and a method, and the
\* malformed ones whose id could be recovered.
Owed == {i \in 1..Len(mcpRead) : parse_incoming(mcpRead[i]).owed}

\* The messages that answer a line, by their places in the output.
Answers == {i \in 1..Len(mcpOut) : mcpOut[i].kind # "prompt"}

\* Every line that carries an id is answered exactly once, in the order read,
\* before the loop reads another, and notifications and prompts answer nothing.  A
\* host that reads the answer of a login has been shown its prompt before, whichever
\* poll the login completed in and whatever became of the output; a login that is
\* running can always go on, so that the select of `login` never spins on a closed
\* channel in front of it; and the arguments the catalogue's schemas require are
\* exactly those parse_call cannot do without (server.rs, run, handle_line,
\* handle_tools_call, login; protocol.rs says of a request that "the peer expects
\* exactly one response").
McpAnswersEveryRequest ==
  /\ \A i, j \in Answers : i < j => mcpOut[i].to < mcpOut[j].to
  /\ LET answered == {mcpOut[i].to : i \in Answers} IN
     /\ answered \subseteq Owed
     /\ mcpAt.step # "ended" => Owed \ answered \subseteq
          (IF mcpAt = Reading THEN {} ELSE {Len(mcpRead)})
  /\ \A i \in 1..Len(mcpOut) :
       mcpRead[mcpOut[i].to].tool = "login" /\ mcpOut[i].kind = "result"
         => \E j \in 1..(i - 1) : mcpOut[j] = [mcpOut[i] EXCEPT !.kind = "prompt"]
  /\ ~recv_closed
  /\ \A tool \in Tools :
       LET wanted == Parameters(tool, <<>>) IN
       (IF tool \in DOMAIN value_tools THEN value_tools[tool] ELSE connection_tools[tool])
         = {key \in DOMAIN wanted : "absent" \notin Accepts(wanted[key])}

============================================================================
