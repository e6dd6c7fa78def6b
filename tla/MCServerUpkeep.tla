--------------------------- MODULE MCServerUpkeep ---------------------------
(***************************************************************************)
(* The two parts of the server with background tasks of their own, the     *)
(* audit trail with its sweep and the request pipeline with its refresh of *)
(* the signing keys, each on a small instance: a behaviour keeps to the    *)
(* part its first state has in focus, so the states are the sum and not    *)
(* the product of the two.  The trail is in focus twice: accesses over two *)
(* windows with nobody reading, and a reader while accesses and changes    *)
(* are recorded on one version in one window.                              *)
(***************************************************************************)
EXTENDS AuditTrail, RequestPipeline

CONSTANTS ann, bot

VARIABLE focus

vars == <<focus, auditVars, pipeVars>>

--------------------------------------------------------------------------
(* Instances. *)

pA      == <<47, 97>>                  \* "/a"
pUpperA == <<47, 65>>                  \* "/A"
pAB     == <<47, 97, 47, 98>>          \* "/a/b"
pZ      == <<47, 122>>                 \* "/z"

Grant(prefix, permission) == [prefix |-> prefix, permissions |-> {permission}]

(* The audit trail: reads that coalesce or do not, by what differs between   *)
(* them, a change of two paths, and a connection's.                          *)
Actor(subject, name, version) == [subject |-> subject, name |-> name, version |-> version]

Recorded(kind, path, counterpart, actor) ==
  [kind |-> kind, path |-> path, counterpart |-> counterpart, actor |-> actor]

MCActs ==
  {Recorded("subtree.read", pA, NoPath, Actor(ann, NoName, "v4")),
   Recorded("subtree.read", pUpperA, NoPath, Actor(ann, bot, "v5")),
   Recorded("value.path_added", pAB, pZ, Actor(ann, NoName, "v5")),
   Recorded("connection.created", pAB, NoPath, Actor(ann, NoName, "v5"))}

MCQuery(fragment) ==
  [element |-> pAB, fragment |-> fragment, text |-> NoFilter, actor |-> NoFilter, from |-> NoFilter,
   until |-> NoFilter, version |-> NoFilter, kinds |-> {}, size |-> 0, counts |-> TRUE]

MCQueries == {MCQuery(NoPath), MCQuery(pA)}

MCAuditGrants == {Grant(pA, "read"), Grant(pAB, "manage")}

(* Requests: a good token, one badly signed that soon ends, a version not    *)
(* served, the handshake, an asset, a method nothing serves and what is no   *)
(* route.                                                                    *)
Token(signed, exp) ==
  [parsed |-> TRUE, issuer |-> TRUE, kid |-> "k1", signed |-> signed, exp |-> exp, claims |-> TRUE]

NoToken == [Token(FALSE, 0) EXCEPT !.parsed = FALSE]

Request(method, route, version, token) ==
  [method |-> method, route |-> route, version |-> version, token |-> token]

MCRequests ==
  {Request("POST", "rpc", "v4", Token(TRUE, 9)), Request("POST", "rpc", "v4", Token(FALSE, 0)),
   Request("POST", "rpc", "v2", Token(TRUE, 0)), Request("POST", "handshake", "none", NoToken),
   Request("GET", "asset", "none", NoToken), Request("PUT", "asset", "none", NoToken),
   Request("POST", "malformed", "none", NoToken)}

(* A served version, an entry too long to be one, and one past the limit. *)
Offer(name, length) == [name |-> name, length |-> length]

MCOffers == {<<Offer("v4", 2), Offer("v4", 3), Offer("v4", 2)>>}

--------------------------------------------------------------------------

Init == focus \in {"windows", "scroll", "pipeline"} /\ AuditInit /\ PipeInit

(* How far the trail goes in either focus. *)
InBounds ==
  \/ /\ focus = "windows" /\ auditScroll' = auditScroll
     /\ \A call \in auditPending' : coalesces(call.act.kind)
  \/ /\ focus = "scroll" /\ auditClock' < AuditWindow
     /\ \A call \in auditPending' : call.act.actor.version = "v5"

InAudit == focus \in {"windows", "scroll"} /\ UNCHANGED <<focus, pipeVars>>

InPipeline == focus = "pipeline" /\ UNCHANGED <<focus, auditVars>>

Next ==
  \/ InAudit /\ AuditNext /\ InBounds
  \/ InPipeline /\ PipeNext

(* The server's scheduler runs the sweep and the refresh of the key set when *)
(* they are due, and a fetch goes on until it is answered or fails; a delete *)
(* and a fetch that are tried again and again succeed at some time.          *)
KeyWork == refresh \/ parse_key_set \/ Refreshed \/ \E c \in PipeCalls : KeyFetched(c)

Fairness ==
  /\ WF_vars(InAudit /\ sweep_audit_trail)
  /\ SF_vars(InAudit /\ delete_before)
  /\ WF_vars(InPipeline /\ KeyWork)
  /\ SF_vars(InPipeline /\ parse_key_set /\ pipeAnswer'.stage = "answered")

Spec == Init /\ [][Next]_vars /\ Fairness

=============================================================================
