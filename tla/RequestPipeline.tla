--------------------------- MODULE RequestPipeline ---------------------------
(***************************************************************************)
(* What every request meets before its handler                             *)
(* (crates/sovereign-config-server/src: spans.rs, protocol.rs, auth.rs,    *)
(* auth/jwks.rs, handshake.rs, metrics.rs): the call's clock, the protocol *)
(* version its route names, the version-not-served answer, and             *)
(* authentication against an issuer's key set that is cached, refetched on *)
(* a miss and refreshed in the background while the issuer rotates keys.   *)
(*                                                                         *)
(* A token is what the checks tell apart.  The issuer's answer to a fetch  *)
(* is the key set at the moment it answers; it is applied later.           *)
(***************************************************************************)
EXTENDS Integers, FiniteSets, Sequences

CONSTANTS
    PipeCalls,         \* concurrent calls
    PipeRequests,      \* what clients send: [method, route, version, token]
    PipeServed,        \* SERVED_PROTOCOL_LABELS
    PipeOffers,        \* lists of versions handshakes name: [name, length] entries
    CLIENT_LIST_LIMIT, CLIENT_VERSION_LENGTH,
    PipeKids,          \* key identifiers: the issuer's, and those tokens name
    MIN_REFRESH_INTERVAL,
    PipeMaxTime,       \* bound on the clock
    PipeMaxRotations,  \* bound on the changes of the issuer's key set
    PipeMaxCalls       \* bound on the requests

VARIABLES
    pipeClock,
    pipePublished,     \* kid -> since when the issuer has published it, or Never
    pipeRotations,
    pipeCache,         \* the issuer's cached keys
    pipeLock,          \* holder of the fetch mutex: a call, "refresh", or "free"
    pipeLast,          \* LastFetch
    pipeAnswer,        \* the fetch under way
    pipeRefresher,     \* the background refresh: "waiting" for its pause or the lock
    pipeCall,          \* each call's progress
    pipeArrived,       \* how many requests there have been
    pipeCounts,        \* ProtocolMetrics, and the durations recorded
    pipeOffered,       \* what handshakes named
    pipeDropped        \* history: the last fetch a miss prompted was dropped

pipeVars == <<pipeClock, pipePublished, pipeRotations, pipeCache, pipeLock, pipeLast,
              pipeAnswer, pipeRefresher, pipeCall, pipeArrived, pipeCounts, pipeOffered,
              pipeDropped>>

Never == -1
Unrecognised == "unrecognised"
Labels == PipeServed \cup {Unrecognised}

(* A version's label is a version; a call is neither of the mutex's other states. *)
ASSUME PipeAssumption ==
    /\ {"none", Unrecognised} \cap PipeServed = {}
    /\ {"free", "refresh"} \cap PipeCalls = {}
    /\ \A request \in PipeRequests : request.token.kid \in PipeKids

NoCall == [stage |-> "none", request |-> <<>>, version |-> "none", timed |-> FALSE,
           recorded |-> 0, code |-> "none", key |-> "none", newer |-> TRUE, dropped |-> FALSE]

-----------------------------------------------------------------------------
(* Routes.  A route is "asset", "health", "handshake", "telemetry", "malformed", or
   "rpc" or "getVersion" on the version it names. *)

versioned(request) == request.route \in {"rpc", "getVersion"}

attribute(request) ==
    IF request.method # "POST" THEN "none"
    ELSE IF versioned(request)
         THEN IF request.version \in PipeServed THEN request.version ELSE Unrecognised
    ELSE IF request.route = "malformed" THEN Unrecognised
    ELSE "none"

is_operational_rpc(request) ==
    \/ request.route \in {"health", "handshake"}
    \/ request.route = "getVersion" /\ request.version \in PipeServed

is_web_asset_request(request) ==
    request.method \in {"GET", "HEAD"} /\ ~ is_operational_rpc(request)

(* Only a gRPC call carries a CallTiming. *)
timed(request) == request.route # "health" /\ request.method = "POST"

unserved(request) ==
    request.method = "POST" /\ versioned(request) /\ request.version \notin PipeServed

-----------------------------------------------------------------------------
(* Tokens: [parsed, issuer, kid, signed, exp, claims]. *)

CLOCK_LEEWAY == 0

parse_jwt(token) == token.parsed

require_current(token) == pipeClock <= token.exp + CLOCK_LEEWAY

verifies(token) == token.signed

validate_claims(token) == token.claims

-----------------------------------------------------------------------------
PipeInit ==
    /\ pipeClock = 0
    /\ pipePublished = [k \in PipeKids |-> Never]
    /\ pipeRotations = 0
    /\ pipeCache = {} /\ pipeLock = "free"
    /\ pipeLast = [miss |-> Never, succeeded |-> FALSE]
    /\ pipeAnswer = [stage |-> "none", keys |-> {}]
    /\ pipeRefresher = "waiting"
    /\ pipeCall = [c \in PipeCalls |-> NoCall]
    /\ pipeArrived = 0
    /\ pipeCounts = [l \in Labels |-> [attempted |-> 0, authenticated |-> 0]]
    /\ pipeOffered = [l \in Labels |-> 0]
    /\ pipeDropped = FALSE

PipeTick ==
    /\ pipeClock < PipeMaxTime
    /\ pipeClock' = pipeClock + 1
    /\ UNCHANGED <<pipePublished, pipeRotations, pipeCache, pipeLock, pipeLast, pipeAnswer,
                   pipeRefresher, pipeCall, pipeArrived, pipeCounts, pipeOffered, pipeDropped>>

(* The issuer adds a key or removes one. *)
Rotate(k) ==
    /\ pipeRotations < PipeMaxRotations
    /\ pipeRotations' = pipeRotations + 1
    /\ pipePublished' = [pipePublished EXCEPT ![k] = IF @ = Never THEN pipeClock ELSE Never]
    /\ UNCHANGED <<pipeClock, pipeCache, pipeLock, pipeLast, pipeAnswer, pipeRefresher,
                   pipeCall, pipeArrived, pipeCounts, pipeOffered, pipeDropped>>

UnchangedKeys ==
    UNCHANGED <<pipeClock, pipePublished, pipeRotations, pipeCache, pipeLock, pipeLast,
                pipeAnswer, pipeRefresher, pipeDropped>>

-----------------------------------------------------------------------------
(* ProtocolMetrics. *)

record_attempted(label) ==
    IF label = "none" THEN pipeCounts ELSE [pipeCounts EXCEPT ![label].attempted = @ + 1]

record_authenticated(label) ==
    IF label \in PipeServed THEN [pipeCounts EXCEPT ![label].authenticated = @ + 1]
    ELSE pipeCounts

record_offered(offered) ==
    IF offered.length <= CLIENT_VERSION_LENGTH /\ offered.name \in PipeServed
    THEN offered.name ELSE Unrecognised

(* HandshakeService::record: the entries past the limit are not looked at. *)
record(offers) ==
    [l \in Labels |-> pipeOffered[l] +
        Cardinality({i \in 1..Len(offers) :
                        i <= CLIENT_LIST_LIMIT /\ record_offered(offers[i]) = l})]

-----------------------------------------------------------------------------
(* Answers.  A CallRecorder records its call once: what it took is gone. *)

(* Mutant: what was taken to be recorded is left to be taken again. *)
FinishKeepingTheTiming(call) ==
    [call EXCEPT !.recorded = IF call.timed THEN @ + 1 ELSE @]

finish(call) ==
    [call EXCEPT !.recorded = IF call.timed THEN @ + 1 ELSE @, !.timed = FALSE]

(* The layers, outermost first.  The status of a call is read where it passes
   GrpcStatusLayer, in the headers or the trailers of its answer; then the recorder
   is dropped, and finishes again. *)
GrpcStatusLayer(call, code) ==
    [finish(finish(call)) EXCEPT !.stage = "done", !.code = code]

Set(c, call) == pipeCall' = [pipeCall EXCEPT ![c] = call]

TraceLayer(request) == [NoCall EXCEPT !.request = request, !.timed = timed(request)]

ProtocolVersionLayer(call) == [call EXCEPT !.version = attribute(call.request)]

(* AuthenticationService up to the key: what needs no token is handled at once. *)
AuthenticationService(call) ==
    LET request == call.request
    IN  IF request.route = "telemetry" THEN GrpcStatusLayer(call, "NOT_FOUND")
        ELSE IF is_web_asset_request(request) \/ is_operational_rpc(request)
        THEN [call EXCEPT !.stage = "handling"]
        ELSE IF ~ parse_jwt(request.token) \/ ~ request.token.issuer
        THEN GrpcStatusLayer(call, "UNAUTHENTICATED")
        ELSE [call EXCEPT !.stage = "lookup"]

UnservedVersionLayer(call) ==
    IF unserved(call.request) THEN GrpcStatusLayer(call, "FAILED_PRECONDITION")
    ELSE AuthenticationService(call)

Free == {c \in PipeCalls : pipeCall[c].stage = "none"}

(* A request is whichever free call: they are alike, and the first one is taken. *)
Arrive(c, request) ==
    LET call == ProtocolVersionLayer(TraceLayer(request))
    IN  /\ c \in Free /\ c = (CHOOSE d \in Free : TRUE)
        /\ pipeArrived < PipeMaxCalls
        /\ pipeArrived' = pipeArrived + 1
        /\ pipeCounts' = record_attempted(call.version)
        /\ Set(c, UnservedVersionLayer(call))
        /\ UNCHANGED pipeOffered /\ UnchangedKeys

(* HandshakeService::negotiate: it records what the client offered and reports
   every served version whatever that was. *)
negotiate(c, offers) ==
    /\ pipeCall[c].stage = "handling" /\ pipeCall[c].request.route = "handshake"
    /\ pipeOffered' = record(offers)
    /\ Set(c, GrpcStatusLayer(pipeCall[c], "OK"))
    /\ UNCHANGED <<pipeArrived, pipeCounts>> /\ UnchangedKeys

(* The handler answers, with a status of its own in its headers or its trailers, or
   fails outright and tonic answers for it. *)
Respond(c) ==
    /\ pipeCall[c].stage = "handling" /\ pipeCall[c].request.route # "handshake"
    /\ Set(c, GrpcStatusLayer(pipeCall[c], "ANSWERED"))
    /\ UNCHANGED <<pipeArrived, pipeCounts, pipeOffered>> /\ UnchangedKeys

(* authenticate, once the key set has answered. *)
authenticate(call, answer) ==
    LET token == call.request.token
    IN  IF answer = "unavailable" THEN GrpcStatusLayer(call, "UNAVAILABLE")
        ELSE IF answer = "unknown"
        THEN [GrpcStatusLayer(call, "UNAUTHENTICATED") EXCEPT
                 !.key = "unknown",
                 !.newer = \/ pipePublished[token.kid] = Never
                           \/ pipePublished[token.kid] >= pipeLast'.miss,
                 !.dropped = pipeDropped]
        ELSE IF ~ verifies(token) \/ ~ require_current(token) \/ ~ validate_claims(token)
        THEN GrpcStatusLayer(call, "UNAUTHENTICATED")
        ELSE [call EXCEPT !.stage = "handling", !.key = "found"]

(* AuthenticationService: success is counted and stamped before the handler runs. *)
Answer(c, answer) ==
    LET call == authenticate(pipeCall[c], answer)
    IN  /\ Set(c, call)
        /\ pipeCounts' = IF call.key = "found" THEN record_authenticated(call.version)
                         ELSE pipeCounts
        /\ UNCHANGED <<pipeClock, pipePublished, pipeRotations, pipeArrived, pipeOffered>>

cached(c) == pipeCall[c].request.token.kid \in pipeCache

(* KeySets::key: a cached key needs no lock. *)
key(c) ==
    /\ pipeCall[c].stage = "lookup"
    /\ IF cached(c)
       THEN UNCHANGED pipeLast /\ Answer(c, "found")
       ELSE /\ Set(c, [pipeCall[c] EXCEPT !.stage = "waiting"])
            /\ UNCHANGED <<pipeClock, pipePublished, pipeRotations, pipeLast, pipeArrived,
                           pipeCounts, pipeOffered>>
    /\ UNCHANGED <<pipeCache, pipeLock, pipeAnswer, pipeRefresher, pipeDropped>>

(* Under the mutex: the cache again, the interval, and otherwise a fetch. *)
KeyLocked(c) ==
    /\ pipeCall[c].stage = "waiting" /\ pipeLock = "free"
    /\ \/ /\ cached(c)
          /\ UNCHANGED <<pipeLast, pipeLock, pipeAnswer, pipeDropped>> /\ Answer(c, "found")
       \/ /\ ~ cached(c)
          /\ pipeLast.miss # Never /\ pipeClock - pipeLast.miss < MIN_REFRESH_INTERVAL
          /\ UNCHANGED <<pipeLast, pipeLock, pipeAnswer, pipeDropped>>
          /\ Answer(c, IF pipeLast.succeeded THEN "unknown" ELSE "unavailable")
       \/ /\ ~ cached(c)
          /\ pipeLast.miss = Never \/ pipeClock - pipeLast.miss >= MIN_REFRESH_INTERVAL
          /\ pipeLast' = [pipeLast EXCEPT !.miss = pipeClock]
          /\ pipeLock' = c
          /\ pipeDropped' = FALSE
          /\ pipeAnswer' = [stage |-> "asked", keys |-> {}]
          /\ Set(c, [pipeCall[c] EXCEPT !.stage = "fetching"])
          /\ UNCHANGED <<pipeClock, pipePublished, pipeRotations, pipeArrived, pipeCounts,
                         pipeOffered>>
    /\ UNCHANGED <<pipeCache, pipeRefresher>>

(* The issuer answers the fetch with its keys, or it fails or times out. *)
parse_key_set ==
    /\ pipeAnswer.stage = "asked"
    /\ \/ pipeAnswer' = [stage |-> "answered",
                         keys |-> {k \in PipeKids : pipePublished[k] # Never}]
       \/ pipeAnswer' = [stage |-> "failed", keys |-> {}]
    /\ UNCHANGED <<pipeClock, pipePublished, pipeRotations, pipeCache, pipeLock, pipeLast,
                   pipeRefresher, pipeCall, pipeArrived, pipeCounts, pipeOffered, pipeDropped>>

(* Mutant: a failed fetch after a good one still counts as good. *)
FetchRemembersSuccess ==
    /\ pipeAnswer.stage \in {"answered", "failed"}
    /\ pipeLast' = [pipeLast EXCEPT !.succeeded = @ \/ pipeAnswer.stage = "answered"]
    /\ pipeCache' = IF pipeAnswer.stage = "answered" THEN pipeAnswer.keys ELSE pipeCache
    /\ pipeAnswer' = [stage |-> "none", keys |-> {}]
    /\ pipeLock' = "free"

(* Mutant: a key set is added to the last one. *)
FetchAddsKeys ==
    /\ pipeAnswer.stage \in {"answered", "failed"}
    /\ pipeLast' = [pipeLast EXCEPT !.succeeded = pipeAnswer.stage = "answered"]
    /\ pipeCache' = pipeCache \cup pipeAnswer.keys
    /\ pipeAnswer' = [stage |-> "none", keys |-> {}]
    /\ pipeLock' = "free"

(* KeySets::fetch: a key set replaces the last one; a failure keeps it. *)
fetch ==
    /\ pipeAnswer.stage \in {"answered", "failed"}
    /\ pipeLast' = [pipeLast EXCEPT !.succeeded = pipeAnswer.stage = "answered"]
    /\ pipeCache' = IF pipeAnswer.stage = "answered" THEN pipeAnswer.keys ELSE pipeCache
    /\ pipeAnswer' = [stage |-> "none", keys |-> {}]
    /\ pipeLock' = "free"

KeyFetched(c) ==
    /\ pipeCall[c].stage = "fetching"
    /\ fetch
    /\ Answer(c, IF pipeAnswer.stage = "failed" THEN "unavailable"
                 ELSE IF pipeCall[c].request.token.kid \in pipeAnswer.keys THEN "found"
                 ELSE "unknown")
    /\ UNCHANGED <<pipeRefresher, pipeDropped>>

(* KeySets::refresh, at startup and then after every pause, whatever became of the
   last; it leaves LastFetch.miss alone. *)
refresh ==
    /\ pipeRefresher = "waiting" /\ pipeLock = "free"
    /\ pipeRefresher' = "fetching"
    /\ pipeLock' = "refresh"
    /\ pipeAnswer' = [stage |-> "asked", keys |-> {}]
    /\ UNCHANGED <<pipeClock, pipePublished, pipeRotations, pipeCache, pipeLast, pipeCall,
                   pipeArrived, pipeCounts, pipeOffered, pipeDropped>>

Refreshed ==
    /\ pipeRefresher = "fetching"
    /\ fetch
    /\ pipeRefresher' = "waiting"
    /\ UNCHANGED <<pipeClock, pipePublished, pipeRotations, pipeCall, pipeArrived, pipeCounts,
                   pipeOffered, pipeDropped>>

(* The client goes away: the call is dropped where it stands, with the mutex and
   the fetch it holds, and its recorder records a cancellation as it drops. *)
Abandon(c) ==
    /\ pipeCall[c].stage \notin {"none", "done"}
    /\ Set(c, GrpcStatusLayer(pipeCall[c], "CANCELLED"))
    /\ IF pipeLock = c
       THEN /\ pipeLock' = "free" /\ pipeAnswer' = [stage |-> "none", keys |-> {}]
            /\ pipeDropped' = TRUE
       ELSE UNCHANGED <<pipeLock, pipeAnswer, pipeDropped>>
    /\ UNCHANGED <<pipeClock, pipePublished, pipeRotations, pipeCache, pipeLast,
                   pipeRefresher, pipeArrived, pipeCounts, pipeOffered>>

(* The slot is reused for another request, as long as there is one to come. *)
Forget(c) ==
    /\ pipeCall[c].stage = "done" /\ pipeArrived < PipeMaxCalls
    /\ Set(c, NoCall)
    /\ UNCHANGED <<pipeArrived, pipeCounts, pipeOffered>> /\ UnchangedKeys

PipeNext ==
    \/ PipeTick
    \/ \E k \in PipeKids : Rotate(k)
    \/ \E c \in PipeCalls :
          \/ \E request \in PipeRequests : Arrive(c, request)
          \/ \E offers \in PipeOffers : negotiate(c, offers)
          \/ Respond(c)
          \/ key(c)
          \/ KeyLocked(c)
          \/ KeyFetched(c)
          \/ Abandon(c)
          \/ Forget(c)
    \/ parse_key_set
    \/ refresh
    \/ Refreshed

PipeSpec == PipeInit /\ [][PipeNext]_pipeVars

-----------------------------------------------------------------------------
(* A key is called unknown only when the issuer does not publish it, or began
   to publish it no earlier than the last fetch that a miss prompted, or when
   a call was dropped during such a fetch: never because the issuer could not
   be reached, and never for a key that a finished fetch could have brought.
   What KeyLookup::Unknown promises; KeySets::key and LastFetch. *)
UnknownKeysAreNewUnlessDropped ==
    \A c \in PipeCalls :
        pipeCall[c].key = "unknown" => pipeCall[c].newer \/ pipeCall[c].dropped

(* Every gRPC call is recorded exactly once by the time it is over, whether it is
   answered, refused, fails or is dropped half way; nothing else is.  A version
   that is not served is told so whatever its token, and only a call that passed
   authentication, a GET, a HEAD or an operational call is handled.  No version counts more authenticated
   requests than attempted ones, and none that is not served counts any.
   CallRecorder, ProtocolMetrics and the order of the layers. *)
CallsAreRecordedOnce ==
  /\ \A l \in Labels : /\ pipeCounts[l].authenticated <= pipeCounts[l].attempted
                       /\ l = Unrecognised => pipeCounts[l].authenticated = 0
  /\ \A c \in PipeCalls :
        LET call == pipeCall[c]
        IN  /\ call.recorded = IF call.stage = "done" /\ timed(call.request) THEN 1 ELSE 0
            /\ call.stage = "done" /\ unserved(call.request) => call.code = "FAILED_PRECONDITION"
            /\ call.stage = "handling" =>
                  \/ call.key = "found" /\ verifies(call.request.token)
                  \/ call.request.method \in {"GET", "HEAD"}
                  \/ is_operational_rpc(call.request)

(* A key the issuer no longer publishes is eventually no longer trusted, however
   many fetches fail, as long as they do not fail for ever: JwksCache::refresh,
   which a failed fetch leaves with the old keys, and fetch, which replaces the
   whole set. *)
RemovedKeysAreForgotten ==
    \A k \in PipeKids :
        (k \in pipeCache /\ pipePublished[k] = Never)
            ~> (k \notin pipeCache \/ pipePublished[k] # Never)
=============================================================================
