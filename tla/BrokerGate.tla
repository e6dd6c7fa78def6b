----------------------------- MODULE BrokerGate -----------------------------
(***************************************************************************)
(* The Woodpecker broker in front of its reader: start-up from the         *)
(* environment, verification of the signed request, the request's body,    *)
(* the layers its metadata selects, the answer and its metrics             *)
(* (sovereign-config-woodpecker-broker: config, pubkey, signature, model,  *)
(* layers, handler, error, metrics).  What the reader then does with the   *)
(* layers is LayerReads.                                                   *)
(*                                                                         *)
(* Woodpecker signs requests as time passes; one may arrive late, more     *)
(* than once, or changed on the way.                                       *)
(***************************************************************************)
EXTENDS ConfigPath, Integers, Sequences, SequencesExt

CONSTANTS
  GateEnvs,         \* environments the broker may be started in
  GateBodies,       \* request bodies Woodpecker may send
  GateTargets,      \* request targets
  GateChanges,      \* what may happen to a request on its way: see Received
  NOT_NEWER_THAN, NOT_OLDER_THAN,   \* seconds (2 and 10)
  GateMaxTime, GateMaxRequests

VARIABLES
  gateClock,
  gateBroker,    \* [phase, key, layers]: the running process
  gateSent,      \* what Woodpecker has signed
  gateCalls,     \* requests received, in order
  gateMetrics    \* [requests, failures, returned]

\* The ages are lengths of time, and what happens on the way is in Received.
ASSUME GateAssumption ==
  /\ NOT_NEWER_THAN \in Nat /\ NOT_OLDER_THAN \in Nat
  /\ GateChanges \subseteq
       {"none", "no input", "two signatures", "not text", "label", "two members",
        "unbalanced", "components", "alg", "created", "no created", "expired", "parameter",
        "no digest", "digest scheme", "body", "body and digest", "target", "signature label",
        "signature", "signer"}

gateVars == <<gateClock, gateBroker, gateSent, gateCalls, gateMetrics>>

\* The first error of a list of checks made in order.
FirstError(checks) ==
  LET failed == {i \in DOMAIN checks : checks[i] /= "ok"}
  IN IF failed = {} THEN "ok" ELSE checks[CHOOSE i \in failed : \A k \in failed : i <= k]

Check(condition, error) == IF condition THEN "ok" ELSE error

----------------------------------------------------------------------------
\* layers.rs.  A raw layer is a sequence of tokens: literal bytes, placeholders
\* and braces that have no partner.

Lit(bytes) == [kind |-> "literal", text |-> bytes, field |-> ""]
Field(name) == [kind |-> "field", text |-> <<>>, field |-> name]
Brace == [kind |-> "brace", text |-> <<>>, field |-> ""]

Fields == {"repo.owner", "repo.name", "repo.full_name", "repo.forge_id",
           "pipeline.branch", "pipeline.event"}

FIELD_PROBE == <<120>>

Concat(pieces) == FoldLeft(LAMBDA acc, piece : acc \o piece, <<>>, pieces)

\* parse_layer: every layer is checked as a path with a stand-in for each
\* placeholder, so that a literal that can never render fails the start.
parse_layer(raw) ==
  LET probe == Concat([i \in DOMAIN raw |->
                         IF raw[i].kind = "field" THEN FIELD_PROBE ELSE raw[i].text])
  IN FirstError(<<
       Check(raw[1].kind = "literal" /\ raw[1].text[1] = Slash, "not_absolute"),
       Check(\A i \in DOMAIN raw : raw[i].kind /= "brace", "unbalanced_brace"),
       Check(\A i \in DOMAIN raw : raw[i].kind = "field" => raw[i].field \in Fields,
             "unknown_placeholder"),
       Check(parse_operation(probe), "invalid_literal")>>)

\* LayerTemplates::parse: blank entries are dropped, an empty list is refused.
parse_layers(specs) ==
  LET layers == SelectSeq(specs, LAMBDA raw : raw /= <<>>)
  IN FirstError(Append([i \in DOMAIN layers |-> parse_layer(layers[i])],
                       Check(layers /= <<>>, "empty")))

\* Mutant: a value is folded into a segment.
FoldedSubstitution(value) ==
  [kind |-> IF value = <<>> THEN "absent"
            ELSE IF \A i \in DOMAIN value : value[i] /= Slash THEN "value"
            ELSE "unrepresentable",
   text |-> fold(value)]

\* Substitution::of: a canonical segment as it stands, or nothing.
Substitution(value) ==
  [kind |-> IF value = <<>> THEN "absent"
            ELSE IF \A i \in DOMAIN value : value[i] \in lowercase \cup digits \cup {45, 95}
              THEN "value"
            ELSE "unrepresentable",
   text |-> value]

\* Field::render: full_name is split once, each side checked by itself.
render_field(field, request) ==
  CASE field = "repo.owner" -> Substitution(request.owner)
    [] field = "repo.name" -> Substitution(request.name)
    [] field = "repo.forge_id" -> Substitution(request.forge_id)
    [] field = "pipeline.branch" -> Substitution(request.branch)
    [] field = "pipeline.event" -> Substitution(request.event)
    [] field = "repo.full_name" ->
         LET full == request.full_name
             slashes == {i \in DOMAIN full : full[i] = Slash}
             at == CHOOSE i \in slashes : \A k \in slashes : i <= k
             owner == Substitution(SubSeq(full, 1, at - 1))
             name == Substitution(SubSeq(full, at + 1, Len(full)))
         IN IF slashes = {} THEN Substitution(full)
            ELSE [kind |-> IF owner.kind = "value" /\ name.kind = "value" THEN "value"
                           ELSE IF "absent" \in {owner.kind, name.kind} THEN "absent"
                           ELSE "unrepresentable",
                  text |-> owner.text \o Root \o name.text]

\* LayerTemplates::render: one path per layer that applies, <<>> for one that
\* is skipped.
render_layer(layer, request) ==
  LET values == [i \in DOMAIN layer |->
        IF layer[i].kind = "literal" THEN [kind |-> "value", text |-> layer[i].text]
        ELSE render_field(layer[i].field, request)]
      built == Concat([i \in DOMAIN values |-> values[i].text])
  IN IF (\A i \in DOMAIN values : values[i].kind = "value") /\ parse_operation(built)
       THEN built ELSE <<>>

render_layers(layers, request) ==
  [i \in DOMAIN layers |-> render_layer(layers[i], request)]

----------------------------------------------------------------------------
\* config.rs and pubkey.rs.  A variable is "absent" when unset or blank.

\* public_key_source: a fetch when both its variables are set, else the file.
public_key_source(env) ==
  IF env.woodpecker_url /= "absent" /\ env.woodpecker_token /= "absent" THEN "fetch"
  ELSE IF env.key_file /= "absent" THEN "file" ELSE "none"

\* required_secret: the variable, else the trimmed contents of its file.
required_secret(env) ==
  IF env.url /= "absent" THEN "ok"
  ELSE CASE env.url_file = "absent" -> "missing"
         [] env.url_file = "unreadable" -> "unreadable"
         [] env.url_file = "blank" -> "empty"
         [] OTHER -> "ok"

\* socket_addr and positive: the default when unset, else it must be usable.
socket_addr(value) == Check(value /= "bad", "invalid")

positive(value) == Check(value \in {"absent", "positive"}, "invalid")

\* Config::resolve, in its order.
resolve_config(env) ==
  FirstError(<<required_secret(env),
               Check(env.layers /= <<>>, "missing"),
               parse_layers(env.layers),
               socket_addr(env.listen),
               socket_addr(env.metrics),
               Check(env.listen /= env.metrics, "duplicate_listener"),
               positive(env.token_ttl),
               positive(env.queue_depth),
               Check(public_key_source(env) /= "none", "no_public_key_source")>>)

\* SignatureVerifier::from_spki_pem: Woodpecker answers an unauthorised fetch
\* with 200 and a text that is no key.
from_spki_pem(pem) == IF pem \in {"key", "other_key"} THEN pem ELSE "none"

\* pubkey::load: the key the chosen source holds.
load_key(env) ==
  from_spki_pem(IF public_key_source(env) = "fetch" THEN env.woodpecker_token ELSE env.key_file)

GateInit ==
  /\ gateClock = 0
  /\ gateBroker = [phase |-> "down", key |-> "none", layers |-> <<>>]
  /\ gateSent = {}
  /\ gateCalls = <<>>
  /\ gateMetrics = [requests |-> [o \in {} |-> 0], failures |-> [o \in {} |-> 0], returned |-> 0]

\* main::serve: the configuration, the key, the connection; any failure ends it.
broker_serve(env) ==
  /\ gateBroker.phase = "down"
  /\ gateBroker' =
       IF resolve_config(env) = "ok" /\ load_key(env) /= "none" /\ env.connects
       THEN [phase |-> "up", key |-> load_key(env),
             layers |-> SelectSeq(env.layers, LAMBDA raw : raw /= <<>>)]
       ELSE [gateBroker EXCEPT !.phase = "failed"]
  /\ UNCHANGED <<gateClock, gateSent, gateCalls, gateMetrics>>

GateTick ==
  /\ gateClock < GateMaxTime
  /\ gateClock' = gateClock + 1
  /\ UNCHANGED <<gateBroker, gateSent, gateCalls, gateMetrics>>

----------------------------------------------------------------------------
\* signature.rs.

SIGNATURE_LABEL == "woodpecker-ci-extensions"

\* What Woodpecker puts on the wire.  Signature-Input and Signature are dictionaries
\* of labelled members; a parameter that is not given is {} or "none", and one that
\* is unknown or cannot be read is in extra.
Signed(target, body, created) ==
  LET params == [components |-> "expected", created |-> {created}, expires |-> "none",
                 alg |-> "ed25519", keyid |-> "none", extra |-> "none"]
      entry == [members |-> 1, balanced |-> TRUE, label |-> SIGNATURE_LABEL]
  IN [target |-> target, body |-> body, inputs |-> 1, signatures |-> 1, ascii |-> TRUE,
      input |-> entry, params |-> params, digests |-> 1, digest |-> body,
      scheme |-> "sha-256", entry |-> entry,
      signature |-> [by |-> "key", target |-> target, digest |-> body, params |-> params,
                     decodes |-> TRUE]]

Sign(target, body, created) ==
  /\ gateSent' = gateSent \cup {Signed(target, body, created)}
  /\ gateSent' /= gateSent /\ Cardinality(gateSent) < GateMaxRequests
  /\ UNCHANGED <<gateClock, gateBroker, gateCalls, gateMetrics>>

\* What arrives: the message, or the message with one part not as it was sent.
Received(m, change) ==
  CASE change = "none" -> m
    [] change = "no input" -> [m EXCEPT !.inputs = 0]
    [] change = "two signatures" -> [m EXCEPT !.signatures = 2]
    [] change = "not text" -> [m EXCEPT !.ascii = FALSE]
    [] change = "label" -> [m EXCEPT !.input.label = "sig1"]
    [] change = "two members" -> [m EXCEPT !.input.members = 2]
    [] change = "unbalanced" -> [m EXCEPT !.input.balanced = FALSE]
    [] change = "components" -> [m EXCEPT !.params.components = "other"]
    [] change = "alg" -> [m EXCEPT !.params.alg = "hmac-sha256"]
    [] change = "created" -> [m EXCEPT !.params.created = {t + 1 : t \in @}]
    [] change = "no created" -> [m EXCEPT !.params.created = {}]
    [] change = "expired" -> [m EXCEPT !.params.expires = "past"]
    [] change = "parameter" -> [m EXCEPT !.params.extra = "unreadable"]
    [] change = "no digest" -> [m EXCEPT !.digests = 0]
    [] change = "digest scheme" -> [m EXCEPT !.scheme = "sha-512"]
    [] change = "body" -> [m EXCEPT !.body = CHOOSE b \in GateBodies : b /= m.body]
    [] change = "body and digest" ->
         LET b == CHOOSE b \in GateBodies : b /= m.body
         IN [m EXCEPT !.body = b, !.digest = b]
    [] change = "target" -> [m EXCEPT !.target = "other"]
    [] change = "signature label" -> [m EXCEPT !.entry.label = "sig1"]
    [] change = "signature" -> [m EXCEPT !.signature.decodes = FALSE]
    [] change = "signer" -> [m EXCEPT !.signature.by = "another_key"]

\* dictionary_entry: the only member, under Woodpecker's label.
dictionary_entry(header) ==
  FirstError(<<Check(header.balanced /\ header.members = 1, "malformed_input"),
               Check(header.label = SIGNATURE_LABEL, "unknown_label")>>)

single_header(count, ascii) ==
  FirstError(<<Check(count >= 1, "missing_headers"), Check(count = 1, "malformed_input"),
               Check(ascii, "not_ascii")>>)

\* Mutant: only signatures from the future are refused.
AnyAge(params, now) ==
  FirstError(<<Check(params.components = "expected", "unexpected_components"),
               Check(\A t \in params.created : t <= now + NOT_NEWER_THAN,
                     "created_out_of_range")>>)

validate_params(params, now) ==
  FirstError(<<
    Check(params.components = "expected", "unexpected_components"),
    Check(params.keyid \in {"none", SIGNATURE_LABEL}, "unknown_label"),
    Check(params.extra \in {"none", "nonce", "tag"}, "malformed_input"),
    Check(params.alg = "ed25519", "unsupported_algorithm"),
    Check(params.created /= {}, "malformed_input"),
    Check(\A t \in params.created :
            /\ t <= now + NOT_NEWER_THAN
            /\ t >= (IF now < NOT_OLDER_THAN THEN 0 ELSE now - NOT_OLDER_THAN),
          "created_out_of_range"),
    Check(params.expires /= "past", "created_out_of_range")>>)

verify_digest(m) ==
  FirstError(<<Check(m.scheme = "sha-256", "malformed_digest"),
               Check(m.digest = m.body, "digest_mismatch")>>)

\* SignatureVerifier::verify, in its order: the signature is over the target
\* and the parameters as received, and the digest that matched the body.
verify(m, key, now) ==
  FirstError(<<
    single_header(m.inputs, m.ascii),
    single_header(m.signatures, m.ascii),
    dictionary_entry(m.input),
    validate_params(m.params, now),
    LET digest == single_header(m.digests, TRUE)
    IN IF digest = "missing_headers" THEN "missing_digest" ELSE digest,
    verify_digest(m),
    dictionary_entry(m.entry),
    Check(m.signature.decodes, "malformed_input"),
    Check(/\ m.signature.by = key
          /\ m.signature.target = m.target
          /\ m.signature.digest = m.digest
          /\ m.signature.params = m.params, "bad_signature")>>)

----------------------------------------------------------------------------
\* handler.rs, error.rs and metrics.rs.

OUTCOMES == {"ok", "unauthorized", "invalid", "unavailable", "overloaded", "reader_gone"}
SIGNATURE_REASONS == {"missing_headers", "not_ascii", "unknown_label", "malformed_input",
  "unexpected_components", "unsupported_algorithm", "created_out_of_range",
  "missing_digest", "malformed_digest", "digest_mismatch", "bad_signature"}

Count(f, label, known) ==
  IF label \notin known THEN f
  ELSE [l \in DOMAIN f \cup {label} |->
          (IF l \in DOMAIN f THEN f[l] ELSE 0) + (IF l = label THEN 1 ELSE 0)]

\* Metrics::request and signature_failure: a label outside the closed sets is
\* dropped, and the gauge keeps the last answer that held any secret.
request(outcome) == Count(gateMetrics.requests, outcome, OUTCOMES)

signature_failure(reason) == Count(gateMetrics.failures, reason, SIGNATURE_REASONS)

\* handler::secrets counts what resolve answered.
secrets_handler(outcome, reason, secrets) ==
  gateMetrics' = [requests |-> request(outcome), failures |-> signature_failure(reason),
                  returned |-> IF secrets > 0 THEN secrets ELSE gateMetrics.returned]

\* BrokerError::outcome, and the conversion of a client's error into one.
BrokerError(error) ==
  CASE error \in {"invalid_body", "missing_fields"} -> "invalid"
    [] error \in {"unavailable", "auth_unavailable"} -> "unavailable"
    [] OTHER -> error

from_client_error(kind) ==
  IF kind = "unauthenticated" THEN "auth_unavailable" ELSE "unavailable"

\* handler::resolve up to its await: the signature over the raw bytes first,
\* then the body, then the layers.
resolve(m, change) ==
  /\ gateBroker.phase = "up" /\ Len(gateCalls) < GateMaxRequests
  /\ LET received == Received(m, change)
         failure == verify(received, gateBroker.key, gateClock)
         call(pc, outcome, layers) ==
           [pc |-> pc, outcome |-> outcome, at |-> gateClock, layers |-> layers,
            accepted |-> IF failure = "ok" THEN {[target |-> received.target,
                                                  body |-> received.body]} ELSE {}]
     IN \/ /\ failure /= "ok"
           /\ gateCalls' = Append(gateCalls, call("done", "unauthorized", <<>>))
           /\ secrets_handler(BrokerError("unauthorized"), failure, 0)
        \/ /\ failure = "ok" /\ received.body.shape /= "valid"
           /\ gateCalls' = Append(gateCalls, call("done", BrokerError(received.body.shape), <<>>))
           /\ secrets_handler(BrokerError(received.body.shape), "none", 0)
        \/ /\ failure = "ok" /\ received.body.shape = "valid"
           /\ gateCalls' = Append(gateCalls,
                call("fetch", "none", render_layers(gateBroker.layers, received.body)))
           /\ UNCHANGED gateMetrics
  /\ UNCHANGED <<gateClock, gateBroker, gateSent>>

\* SovereignHandle::fetch answers: its own failures, the read's, or the values.
fetched(i, answer, secrets) ==
  /\ gateCalls[i].pc = "fetch"
  /\ LET outcome == IF answer \in {"ok", "overloaded", "reader_gone"} THEN answer
                    ELSE BrokerError(from_client_error(answer)) IN
     /\ gateCalls' = [gateCalls EXCEPT ![i].pc = "done", ![i].outcome = outcome]
     /\ secrets_handler(outcome, "none", IF answer = "ok" THEN secrets ELSE 0)
  /\ UNCHANGED <<gateClock, gateBroker, gateSent>>

GateNext ==
  \/ GateTick
  \/ \E env \in GateEnvs : broker_serve(env)
  \/ \E target \in GateTargets, body \in GateBodies,
        created \in {gateClock, gateClock + NOT_NEWER_THAN + 1} :
       Sign(target, body, created)
  \/ \E m \in gateSent, change \in GateChanges : resolve(m, change)
  \/ \E i \in DOMAIN gateCalls, secrets \in 0..1,
        answer \in {"ok", "overloaded", "reader_gone", "unavailable", "unauthenticated"} :
       fetched(i, answer, secrets)

GateSpec == GateInit /\ [][GateNext]_gateVars

----------------------------------------------------------------------------

\* Layers are read only for a body Woodpecker itself signed, for the target it
\* arrived at and with the key the broker trusts, and only while the signature is
\* neither too old nor too far ahead: a request that came late, early, or again
\* after the window, or with another body, target or signer, is refused, whatever
\* else of it was altered (SignatureVerifier::verify).
OnlySignedRequestsAreResolved ==
  \A i \in DOMAIN gateCalls : \A m \in gateCalls[i].accepted :
    \E sent \in gateSent :
      /\ sent.body = m.body /\ sent.target = m.target /\ gateBroker.key = "key"
      /\ \E created \in sent.params.created :
           created \in gateCalls[i].at - NOT_OLDER_THAN .. gateCalls[i].at + NOT_NEWER_THAN

\* Two requests are given the same layer of a template that names the whole
\* repository in segments of its own only when they are for the same one
\* ("folding is many-to-one and the resulting path decides whose secrets are
\* returned", Substitution::of).
LayersIdentifyTheRepository ==
  \A i, k \in DOMAIN gateCalls :
    \A l \in DOMAIN gateCalls[i].layers \cap DOMAIN gateCalls[k].layers :
      /\ gateCalls[i].layers[l] = gateCalls[k].layers[l] /\ gateCalls[i].layers[l] /= <<>>
      /\ \E s \in DOMAIN gateBroker.layers[l] :
           gateBroker.layers[l][s] = Field("repo.full_name")
      => \A m \in gateCalls[i].accepted, n \in gateCalls[k].accepted :
           m.body.full_name = n.body.full_name

=============================================================================
