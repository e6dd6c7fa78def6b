--------------------------- MODULE ClientSession ---------------------------
(***************************************************************************)
(* The negotiated session every long-lived client holds: the unversioned   *)
(* handshake and its fallback for a service that predates it, the choice   *)
(* of a version from the service's own order, and Session::call, which     *)
(* negotiates once more when the version it speaks has been retired.       *)
(* (sovereign-config-client/src/lib.rs, sovereign-config-core/src/status   *)
(* and the native transport they drive.)                                   *)
(*                                                                         *)
(* Several calls share one session.  The service is redeployed under them: *)
(* a deployment is a served list, most preferred first, each entry with or *)
(* without a retirement date; a deployment up to 2.27 has no handshake and *)
(* serves the legacy version alone.                                        *)
(***************************************************************************)
EXTENDS Integers, Sequences

CONSTANTS
  SessCalls,        \* the concurrent operations of one session
  SessDeployments,  \* the deployments the service goes through
  SessFirst,        \* the deployment a session is opened against
  SessMaxDeploys    \* bound on redeployments

\* A release serves some version.
ASSUME SessAssumption ==
  /\ SessFirst \in SessDeployments
  /\ \A service \in SessDeployments :
       /\ service.handshake \in BOOLEAN
       /\ service.served \in Seq([version : STRING, dated : BOOLEAN]) \ {<<>>}

VARIABLES
  sessService,  \* the current deployment
  sessDeploys,  \* how often it was replaced
  sessState,    \* Session::state: the version spoken and its retirement date
  sessCall      \* each operation: where it is and what it holds

sessVars == <<sessService, sessDeploys, sessState, sessCall>>

\* ProtocolVersion::ALL, most preferred first, and ProtocolVersion::LEGACY.
ALL == <<"v5", "v4", "v3">>
LEGACY == "v3"

\* ProtocolVersion::parse: a version this build has never heard of is no
\* candidate.
spoken(version) == \E i \in DOMAIN ALL : ALL[i] = version

\* No common version, which `incompatible` reports naming both lists; also a
\* session not opened yet.
Closed == [version |-> "none", dated |-> FALSE]

\* The entry of a list that comes first among some of its positions.
Earliest(served, positions) ==
  served[CHOOSE i \in positions : \A k \in positions : i <= k]

\* ServiceStatus::select: the first entry both ends speak, except that one
\* carrying a date is passed over while one without is still to come.
select(served) ==
  LET common == {i \in DOMAIN served : spoken(served[i].version)}
      undated == {i \in common : ~served[i].dated}
  IN IF undated /= {} THEN Earliest(served, undated)
     ELSE IF common /= {} THEN Earliest(served, common)
     ELSE Closed

\* Whether a release routes one version's services.
serves(service, version) ==
  \E i \in DOMAIN service.served : service.served[i].version = version

\* echoed: the version asked about when it is served, else the most preferred.
echoed(service, requested) ==
  IF serves(service, requested) THEN requested ELSE service.served[1].version

\* advertised_to_v3: the served set by age, whatever the order of preference;
\* a position of the list is the version's place among all there are.
advertised_to_v3(service) ==
  LET Age == <<"v2", "v3", "v4", "v5", "v6">>
  IN [i \in {i \in DOMAIN Age : serves(service, Age[i])} |->
        [version |-> Age[i], dated |-> FALSE]]

\* SystemService::get_version: the echo, and the served set beside it.
get_version(service, requested) ==
  [protocol_version |-> echoed(service, requested), supported |-> advertised_to_v3(service)]

\* The status of a call on a route no longer served: the frozen marker, or up
\* to 2.27 the authentication layer's refusal or the router's.
UnservedStatus(service) ==
  IF service.handshake THEN {"version_not_served"} ELSE {"unauthenticated", "unimplemented"}

\* RpcCode, as far as the session tells codes apart; the marker is a code of
\* its own, never inferred from another.
RpcCode == {"ok", "unavailable", "failed_precondition", "other"}

\* map_rpc_status: two codes are an incompatible protocol.
map_rpc_status(code) ==
  IF code \in {"failed_precondition", "unimplemented"} THEN "incompatible" ELSE code

\* predates_the_handshake: not just UNIMPLEMENTED, for those releases
\* authenticate before they route.
predates_the_handshake(kind) == kind \in {"unauthenticated", "incompatible"}

\* The deployment that last answered an operation's own handshake.
NoHandshake == -1

Waiting == [pc |-> "idle", version |-> "none", tried |-> 0, ran |-> 0,
            reply |-> <<>>, at |-> NoHandshake, outcome |-> "none"]

SessInit ==
  /\ sessService = SessFirst
  /\ sessDeploys = 0
  /\ sessState = Closed
  /\ sessCall = [c \in SessCalls |-> Waiting]

\* The service is replaced by another release.
Deploy ==
  /\ sessDeploys < SessMaxDeploys
  /\ \E service \in SessDeployments \ {sessService} : sessService' = service
  /\ sessDeploys' = sessDeploys + 1
  /\ UNCHANGED <<sessState, sessCall>>

Put(c, record) ==
  /\ sessCall' = [sessCall EXCEPT ![c] = record]
  /\ UNCHANGED <<sessService, sessDeploys>>

Ended(c, outcome) == [sessCall[c] EXCEPT !.pc = "done", !.outcome = outcome]

\* Session::open starts with a negotiation; its first holder runs it.
open(c) ==
  /\ sessState = Closed /\ \A d \in SessCalls : sessCall[d].pc \in {"idle", "done"}
  /\ sessCall[c].pc = "idle"
  /\ Put(c, [sessCall[c] EXCEPT !.pc = "handshake"])
  /\ UNCHANGED sessState

\* Session::call: the operation takes the transport of the moment.
call(c) ==
  /\ sessState /= Closed
  /\ sessCall[c].pc = "idle"
  /\ Put(c, [sessCall[c] EXCEPT !.pc = "sent", !.version = sessState.version,
                                !.tried = 1])
  /\ UNCHANGED sessState

\* Mutant: an answer that never came is a reason to try again.
AnsweredOrRetried(c, executes, reply) ==
  LET call_ == sessCall[c] IN
  IF reply \in {"version_not_served", "unavailable"} /\ call_.tried = 1
    THEN [call_ EXCEPT !.pc = "handshake", !.ran = @ + executes]
    ELSE [Ended(c, reply) EXCEPT !.ran = @ + executes]

\* Mutant: a session that speaks another version by now is not negotiated again.
AnsweredUnlessMoved(c, executes, reply) ==
  LET call_ == sessCall[c] IN
  IF reply = "version_not_served" /\ call_.tried = 1 /\ call_.version = sessState.version
    THEN [call_ EXCEPT !.pc = "handshake", !.ran = @ + executes]
    ELSE [Ended(c, reply) EXCEPT !.ran = @ + executes]

\* What Session::call does with the operation's answer: the first
\* version-not-served is negotiated, everything else is the caller's.
answered(c, executes, reply) ==
  LET call_ == sessCall[c] IN
  IF reply = "version_not_served" /\ call_.tried = 1
    THEN [call_ EXCEPT !.pc = "handshake", !.ran = @ + executes]
    ELSE [Ended(c, reply) EXCEPT !.ran = @ + executes]

\* The dialer sends the operation on its version's route.  A served one may
\* have run or not whatever error comes back, and either leg may be lost.
operation(c) ==
  /\ sessCall[c].pc = "sent"
  /\ \/ /\ serves(sessService, sessCall[c].version)
        /\ \E code \in RpcCode, ran \in 0..1 :
             (code = "ok" => ran = 1) /\ Put(c, answered(c, ran, map_rpc_status(code)))
     \/ /\ ~serves(sessService, sessCall[c].version)
        /\ \E code \in UnservedStatus(sessService) : Put(c, answered(c, 0, map_rpc_status(code)))
     \/ Put(c, answered(c, 0, "unavailable"))
  /\ UNCHANGED sessState

\* Handshake::served_versions, and negotiate's reading of its failure: a
\* service with no handshake is asked on the legacy route.
served_versions(c) ==
  /\ sessCall[c].pc = "handshake"
  /\ \/ /\ sessService.handshake
        /\ Put(c, [sessCall[c] EXCEPT !.pc = "select", !.reply = sessService.served,
                                      !.at = sessDeploys])
     \/ /\ ~sessService.handshake
        /\ \E code \in UnservedStatus(sessService) :
             Put(c, IF predates_the_handshake(map_rpc_status(code))
                      THEN [sessCall[c] EXCEPT !.pc = "legacy", !.at = sessDeploys] ELSE Ended(c, map_rpc_status(code)))
     \/ Put(c, Ended(c, "unavailable"))
  /\ UNCHANGED sessState

\* legacy_served: the legacy route answering about itself is the proof that it
\* is served; any other answer hands back what the service advertised.
legacy_served(c) ==
  /\ sessCall[c].pc = "legacy"
  /\ LET reply == get_version(sessService, LEGACY) IN
     \/ /\ serves(sessService, LEGACY) \/ ~sessService.handshake
        /\ Put(c, [sessCall[c] EXCEPT !.pc = "select", !.at = sessDeploys,
                     !.reply = IF reply.protocol_version = LEGACY
                                 THEN <<[version |-> LEGACY, dated |-> FALSE]>>
                                 ELSE reply.supported])
     \/ /\ ~serves(sessService, LEGACY)
        /\ \E code \in UnservedStatus(sessService) : Put(c, Ended(c, map_rpc_status(code)))
     \/ Put(c, Ended(c, "unavailable"))
  /\ UNCHANGED sessState

\* Session::renegotiate binds a new transport: the call goes on with it,
\* whatever the session says by then.
renegotiate(c, status) ==
  [sessCall[c] EXCEPT !.pc = "sent", !.tried = 2, !.version = status.version]

\* negotiate selects, and the session's state is replaced under its lock.
\* Opening ends here.
negotiate(c) ==
  /\ sessCall[c].pc = "select"
  /\ LET status == select(sessCall[c].reply) IN
     \/ /\ status = Closed
        /\ Put(c, Ended(c, "incompatible"))
        /\ UNCHANGED sessState
     \/ /\ status /= Closed
        /\ sessState' = status
        /\ Put(c, IF sessCall[c].tried = 0 THEN Ended(c, "opened") ELSE renegotiate(c, status))

SessNext ==
  \/ Deploy
  \/ \E c \in SessCalls :
       \/ open(c) \/ call(c) \/ operation(c)
       \/ served_versions(c) \/ legacy_served(c) \/ negotiate(c)

SessSpec == SessInit /\ [][SessNext]_sessVars

----------------------------------------------------------------------------

\* A session's operation runs at most once on the service, however often the
\* version is retired under it and whatever answers are lost: only the answer
\* that proves it never ran is retried (Session::call).  An operation is one
\* request here; of a closure of several, the ones before the refused one are
\* repeated with it.
OperationsRunAtMostOnce ==
  \A c \in SessCalls :
    /\ sessCall[c].ran <= 1
    /\ sessCall[c].outcome = "ok" => sessCall[c].ran = 1

\* One retirement costs one handshake and no more: a call is refused for its
\* version only when the service was replaced after it had answered a handshake
\* of that call's own, whatever other calls made of the session meanwhile, and
\* a handshake finds nothing to speak only when the service that answered it
\* speaks nothing this build does (Session::call, negotiate, legacy_served).
RetirementsAreSurvived ==
  \A c \in SessCalls :
    LET own == sessCall[c] IN
    /\ own.outcome = "version_not_served" => own.at /= NoHandshake /\ sessDeploys > own.at
    /\ own.outcome = "incompatible" /\ own.tried < 2 /\ own.at = sessDeploys =>
         \A i \in DOMAIN ALL : ~serves(sessService, ALL[i])

=============================================================================
