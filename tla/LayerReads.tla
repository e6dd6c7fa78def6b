----------------------------- MODULE LayerReads -----------------------------
(***************************************************************************)
(* Reading configuration with its secrets revealed, by the three consumers *)
(* that do it: the provider's load, the Woodpecker broker's fetch and the  *)
(* command line's render (sovereign-config-layers, -provider, the broker's *)
(* sovereign/ and the CLI's render.rs).                                    *)
(*                                                                         *)
(* A read is many calls: one GetSubTree per layer, one RevealSecret per    *)
(* secret leaf.  Between two of them a value is written, reclassified or   *)
(* deleted, the access token is revoked, and the protocol version the      *)
(* session speaks is retired.  The broker's requests pass a bounded queue  *)
(* to one reader thread and share its cached token.                        *)
(***************************************************************************)
EXTENDS ConfigPath, Sequences, SequencesExt

CONSTANTS
  LayJobs,        \* requests; a job is [id, kind, layers]
  LayPaths,       \* the paths a value may be stored at
  LayTexts,       \* the texts written
  LayFirst,       \* the values stored at first: a function on some of LayPaths
  LayGrant,       \* the path whose subtree the connection may read
  queue_depth,    \* capacity of the broker's queue
  LayMaxTokens, LayMaxChanges   \* tokens issued; writes, revocations and retirements in a behaviour

VARIABLES
  layStore,    \* path -> content, for the paths that hold one
  layChanges,  \* how many of LayMaxChanges have happened
  layTokens,   \* [issued, dead]: tokens issued so far and those no longer honoured
  layCached,   \* CachedTokenProvider::cached: a token, or 0
  layService,  \* the one version served, and the one each kept session speaks
  layQueue,    \* the broker's queue
  layReader,   \* its reader thread: "up" or "gone"
  layJob       \* each request

layVars == <<layStore, layChanges, layTokens, layCached, layService, layQueue,
             layReader, layJob>>

\* OnMissing: what an unreadable or deleted path means.  The provider reads by
\* itself and fails too.
OnMissing(kind) == IF kind = "broker" THEN "skip" ELSE "fail"

\* Naming: the letter case a leaf's name is reported in.
Naming(kind, name) == IF kind = "render" THEN name ELSE fold(name)

\* Whether a retired version is renegotiated, a rejected token is retried, and
\* a token is kept between reads.
session(kind) == kind \in {"broker", "provider"}
with_token(kind) == kind \in {"broker", "render"}
CachedTokenProvider(kind) == kind = "broker"

\* direct_child_name: matched on the fold, reported as stored; no name for a
\* path that is not a direct child of the layer.
direct_child_name(layer, p) ==
  LET offset == IF fold(layer) = Root THEN 1 ELSE Len(layer) + 1
      relative == SubSeq(p, offset + 1, Len(p))
  IN IF /\ fold(layer) = Root \/ sql_below(fold(p), fold(layer))
        /\ relative /= <<>>
        /\ \A i \in DOMAIN relative : relative[i] /= Slash
     THEN relative ELSE <<>>

\* relative_segments: the provider's key, always on the fold, nesting kept.
relative_segments(root, p) ==
  fold(IF fold(root) = Root THEN Tail(p) ELSE SubSeq(p, Len(root) + 2, Len(p)))

\* Naming::apply on the child's name; the provider's key, Root for the exact one.
name_of(job, layer, p) ==
  IF job.kind = "provider"
  THEN IF path_eq(p, layer) THEN Root ELSE relative_segments(layer, p)
  ELSE Naming(job.kind, direct_child_name(layer, p))

\* The values at or below a layer, in path order: sub_tree_rows.
listing(layer) ==
  SetToSortSeq({p \in DOMAIN layStore : is_at_or_below(p, layer)}, path_less)

\* variable_name: letters, digits and '_', not starting with a digit.
variable_name(name) ==
  /\ name[1] \notin digits
  /\ \A i \in DOMAIN name : name[i] \in uppercase \cup lowercase \cup digits \cup {95}

\* operation_path: the fold is confined to the connection's root.
operation_path(p) == is_at_or_below(fold(p), LayGrant)

\* layers: those of the command line, or the connection's own root.  The broker
\* and the provider are given theirs.
layers(j) == IF j.layers = <<>> THEN <<LayGrant>> ELSE j.layers

Fresh == [pc |-> "idle", attempt |-> 1, layer |-> 1, todo |-> <<>>, read |-> <<>>,
          token |-> 0, tries |-> 1, version |-> 0, merged |-> <<>>, seen |-> <<>>,
          dead |-> {}, began |-> 0, outcome |-> "none"]

LayInit ==
  /\ layStore = LayFirst
  /\ layChanges = 0
  /\ layTokens = [issued |-> 0, dead |-> {}]
  /\ layCached = 0
  /\ layService = [served |-> 1, spoken |-> [k \in {"broker", "provider"} |-> 1]]
  /\ layQueue = <<>>
  /\ layReader = "up"
  /\ layJob = [j \in LayJobs |-> Fresh]

----------------------------------------------------------------------------
\* The service and the issuer.

Running(j) == layJob[j].pc \notin {"idle", "done"}

\* Every running read sees the store it overlaps: history only.
Witness(store) ==
  layJob' = [j \in LayJobs |->
    IF Running(j) THEN [layJob[j] EXCEPT !.seen = Append(@, store)] ELSE layJob[j]]

Change == layChanges < LayMaxChanges /\ layChanges' = layChanges + 1

StoreBecomes(store) ==
  /\ store /= layStore
  /\ Change
  /\ layStore' = store
  /\ Witness(store)
  /\ UNCHANGED <<layTokens, layCached, layService, layQueue, layReader>>

\* The store keeps no value below another one.
WriteValue(p, class, text) ==
  /\ \A q \in DOMAIN layStore : q = p \/ ~nests(fold(p), fold(q))
  /\ StoreBecomes([q \in DOMAIN layStore \cup {p} |->
               IF q = p THEN [class |-> class, text |-> text] ELSE layStore[q]])

DeleteValue(p) == StoreBecomes([q \in DOMAIN layStore \ {p} |-> layStore[q]])

\* A token stops being honoured: revoked, or its connection rotated.
RevokeTokens ==
  /\ Change
  /\ \E t \in 1..layTokens.issued \ layTokens.dead :
       layTokens' = [layTokens EXCEPT !.dead = @ \cup {t}]
  /\ UNCHANGED <<layStore, layCached, layService, layQueue, layReader, layJob>>

Retire ==
  /\ Change
  /\ layService' = [layService EXCEPT !.served = @ + 1]
  /\ UNCHANGED <<layStore, layTokens, layCached, layQueue, layReader, layJob>>

----------------------------------------------------------------------------
\* The broker's bridge.

Keep(j, record) ==
  /\ layJob' = [layJob EXCEPT ![j] = record]
  /\ UNCHANGED <<layStore, layChanges>>

End(j, outcome) == [layJob[j] EXCEPT !.pc = "done", !.outcome = outcome]

\* The version a read is sent on: its session's, or a handshake of its own.
speaks(j) ==
  IF session(j.kind) THEN layService.spoken[j.kind] ELSE layService.served

\* A read starts: the first layer and nothing merged; history, the store it finds,
\* the tokens dead by then and the version served.
Started(j) ==
  [Fresh EXCEPT !.pc = "token", !.seen = <<layStore>>, !.dead = layTokens.dead,
                !.began = layService.served, !.version = speaks(j)]

\* Consumers of different kinds, and two commands, are different processes that
\* share only the service: one of them shows what each can meet.
CanStart(j) ==
  /\ layJob[j].pc = "idle"
  /\ \A i \in LayJobs : layJob[i].pc /= "idle" => i.kind = j.kind /\ j.kind /= "render"

\* SovereignHandle::fetch: try_send sheds a full queue and tells a dead reader
\* from a busy one.
fetch(j) ==
  /\ j.kind = "broker" /\ CanStart(j)
  /\ \/ /\ layReader = "gone"
        /\ Keep(j, End(j, "reader_gone")) /\ UNCHANGED layQueue
     \/ /\ layReader = "up" /\ Len(layQueue) >= queue_depth
        /\ Keep(j, End(j, "overloaded")) /\ UNCHANGED layQueue
     \/ /\ layReader = "up" /\ Len(layQueue) < queue_depth
        /\ layQueue' = Append(layQueue, j)
        /\ Keep(j, [layJob[j] EXCEPT !.pc = "queued"])
  /\ UNCHANGED <<layTokens, layCached, layService, layReader>>

\* The reader thread takes one command when it has finished the last.
recv ==
  /\ layReader = "up" /\ layQueue /= <<>>
  /\ \A j \in LayJobs : j.kind = "broker" => layJob[j].pc \in {"idle", "queued", "done"}
  /\ Keep(Head(layQueue), Started(Head(layQueue)))
  /\ layQueue' = Tail(layQueue)
  /\ UNCHANGED <<layTokens, layCached, layService, layReader>>

\* The thread ends: every waiting caller's reply channel closes with it.
ReaderDies ==
  /\ layReader = "up" /\ \E j \in LayJobs : j.kind = "broker" /\ Running(j)
  /\ layReader' = "gone" /\ layQueue' = <<>>
  /\ layJob' = [j \in LayJobs |->
       IF j.kind = "broker" /\ Running(j) THEN End(j, "reader_gone") ELSE layJob[j]]
  /\ UNCHANGED <<layStore, layChanges, layTokens, layCached, layService>>

\* Provider::load_tree: the caller runs the read itself.
layer_load_tree(j) ==
  /\ j.kind = "provider" /\ CanStart(j)
  /\ Keep(j, Started(j))
  /\ UNCHANGED <<layTokens, layCached, layService, layQueue, layReader>>

\* render: so does the command, once every layer is inside the root.
render(j) ==
  /\ j.kind = "render" /\ CanStart(j)
  /\ Keep(j, IF \A i \in DOMAIN layers(j) : operation_path(layers(j)[i])
               THEN Started(j) ELSE End(j, "invalid"))
  /\ UNCHANGED <<layTokens, layCached, layService, layQueue, layReader>>

----------------------------------------------------------------------------
\* The read.

\* CachedTokenProvider::access_token, ManagedTokenProvider, InMemoryToken: the
\* cached token while its lifetime lasts, else a new grant.  Only the broker
\* keeps it; the provider and render acquire one per read and replay it.
layer_access_token(j) ==
  /\ layJob[j].pc = "token"
  /\ LET job == layJob[j]
         held == IF CachedTokenProvider(j.kind) THEN layCached ELSE job.token
     IN \/ /\ held /= 0
           /\ Keep(j, [job EXCEPT !.pc = "rpc", !.token = held])
           /\ UNCHANGED <<layTokens, layCached>>
        \/ /\ held = 0 \/ CachedTokenProvider(j.kind)
           /\ layTokens.issued < LayMaxTokens
           /\ layTokens' = [layTokens EXCEPT !.issued = @ + 1]
           /\ layCached' = IF CachedTokenProvider(j.kind) THEN layTokens.issued + 1 ELSE layCached
           /\ Keep(j, [job EXCEPT !.pc = "rpc", !.token = layTokens.issued + 1,
                                 !.version = IF j.kind = "provider" THEN speaks(j) ELSE @])
        \/ Keep(j, End(j, "unavailable")) /\ UNCHANGED <<layTokens, layCached>>
  /\ UNCHANGED <<layService, layQueue, layReader>>

\* Mutant: the rejected token stays cached.
KeepToken(j) == layCached

\* InvalidatableToken::invalidate.
layer_invalidate(j) == IF CachedTokenProvider(j.kind) THEN 0 ELSE layCached

\* with_token: the first rejection drops the cached token and tries once more.
Rejected(j) ==
  LET job == layJob[j] IN
  IF with_token(j.kind) /\ job.tries = 1
    THEN [job EXCEPT !.pc = "token", !.tries = 2]
    ELSE End(j, "unauthenticated")

\* Session::call around the whole read: the first version-not-served starts it
\* again on the version served now.  The token outlives the attempt only for
\* the provider, which acquired it before the call.
Retried(j) ==
  LET job == layJob[j] IN
  IF session(j.kind) /\ job.attempt = 1
    THEN [job EXCEPT !.pc = IF j.kind = "provider" THEN "rpc" ELSE "token",
                     !.attempt = 2, !.layer = 1, !.todo = <<>>, !.read = <<>>,
                     !.merged = <<>>, !.tries = 1, !.version = layService.served]
    ELSE End(j, "version_not_served")

\* The answers no call can escape: the version, then the token.
Refused(j) ==
  LET job == layJob[j] IN
  \/ /\ job.version /= layService.served
     /\ Keep(j, Retried(j))
     /\ layService' = IF session(j.kind) /\ job.attempt = 1
                        THEN [layService EXCEPT !.spoken[j.kind] = layService.served] ELSE layService
     /\ UNCHANGED layCached
  \/ /\ job.version = layService.served
     /\ job.token \in layTokens.dead
     /\ Keep(j, Rejected(j))
     /\ layCached' = IF with_token(j.kind) THEN layer_invalidate(j) ELSE layCached
     /\ UNCHANGED layService

\* Later entries win: BTreeMap::insert over what is merged already.
Insert(pairs, name, text) ==
  Append(SelectSeq(pairs, LAMBDA pair : pair.name /= name), [name |-> name, text |-> text])

\* Mutant: the first layer keeps what it set.
FirstWins(merged, read) ==
  FoldLeft(LAMBDA acc, pair :
    IF \E i \in DOMAIN acc : acc[i].name = pair.name THEN acc
    ELSE Append(acc, pair), merged, read)

\* LayerReader::fetch: one layer merged over the earlier ones.
Overlay(merged, read) ==
  FoldLeft(LAMBDA acc, pair : Insert(acc, pair.name, pair.text), merged, read)

\* insert: a node is a leaf or a table, never both.
insert(merged) ==
  \A i, k \in DOMAIN merged : ~sql_below(merged[i].name, merged[k].name)

\* build_tree: a value at the root stands alone; the others nest.
build_tree(merged) ==
  IF \E i \in DOMAIN merged : merged[i].name = Root THEN Len(merged) = 1 ELSE insert(merged)

\* exec: every name is resolved before the command is built.
exec(merged) == \A i \in DOMAIN merged : variable_name(merged[i].name)

\* A layer is complete: merge it and go on, or finish.  Render refuses a layer
\* that contributed nothing.
LayerRead(j, read) ==
  LET job == layJob[j]
      merged == Overlay(job.merged, read)
  IN IF j.kind = "render" /\ read = <<>> THEN End(j, "empty_layer")
     ELSE IF job.layer < Len(layers(j))
       THEN [job EXCEPT !.pc = "token", !.tries = 1, !.layer = @ + 1, !.read = <<>>,
                        !.todo = <<>>, !.merged = merged]
     ELSE IF (j.kind = "render" /\ ~exec(merged)) \/ (j.kind = "provider" /\ ~build_tree(merged))
       THEN End(j, "invalid")
     ELSE [job EXCEPT !.pc = "done", !.outcome = "ok", !.merged = merged, !.read = <<>>,
                       !.todo = <<>>]

\* The leaves left once the plain ones are taken: each costs a RevealSecret.
Proceed(j, read, todo) ==
  IF todo = <<>> THEN LayerRead(j, read)
  ELSE [layJob[j] EXCEPT !.pc = IF j.kind = "provider" THEN "rpc" ELSE "token",
                         !.tries = 1, !.read = read, !.todo = todo]

\* LayerReader::read, load_tree: the subtree, whose plain values are in it.  A
\* layer the connection may not read is empty to the broker, fatal to the others.
get_subtree(j) ==
  /\ layJob[j].pc = "rpc" /\ layJob[j].todo = <<>>
  /\ LET job == layJob[j]
         layer == layers(j)[job.layer]
         named == SelectSeq(listing(layer), LAMBDA p : name_of(j, layer, p) /= <<>>)
         plain == SelectSeq(named, LAMBDA p : layStore[p].class = "plain")
         secret == SelectSeq(named, LAMBDA p : layStore[p].class = "secret")
         read == [i \in DOMAIN plain |-> [name |-> name_of(j, layer, plain[i]),
                                          text |-> layStore[plain[i]].text]]
         honoured == job.version = layService.served /\ job.token \notin layTokens.dead
     IN \/ Refused(j)
        \/ /\ honoured /\ is_at_or_below(layer, LayGrant)
           /\ Keep(j, Proceed(j, read, secret))
           /\ UNCHANGED <<layCached, layService>>
        \/ /\ honoured /\ ~is_at_or_below(layer, LayGrant)
           /\ Keep(j, IF OnMissing(j.kind) = "skip" THEN LayerRead(j, <<>>) ELSE End(j, "denied"))
           /\ UNCHANGED <<layCached, layService>>
        \/ Keep(j, End(j, "unavailable")) /\ UNCHANGED <<layCached, layService>>
  /\ UNCHANGED <<layTokens, layQueue, layReader>>

\* reveal_secret: a leaf deleted since the listing is not found, which only the
\* broker skips; one made plain since is an invalid request for everyone.  A token
\* acquired since may carry a grant that no longer covers the leaf: being denied it
\* ends every read, as an unavailable service does.
layer_reveal_secret(j) ==
  /\ layJob[j].pc = "rpc" /\ layJob[j].todo /= <<>>
  /\ LET job == layJob[j]
         p == Head(job.todo)
         honoured == job.version = layService.served /\ job.token \notin layTokens.dead
         name == name_of(j, layers(j)[job.layer], p)
     IN \/ Refused(j)
        \/ /\ honoured /\ p \in DOMAIN layStore /\ layStore[p].class = "secret"
           /\ Keep(j, Proceed(j, Append(job.read, [name |-> name, text |-> layStore[p].text]),
                              Tail(job.todo)))
           /\ UNCHANGED <<layCached, layService>>
        \/ /\ honoured /\ p \in DOMAIN layStore /\ layStore[p].class = "plain"
           /\ Keep(j, End(j, "invalid"))
           /\ UNCHANGED <<layCached, layService>>
        \/ /\ honoured /\ p \notin DOMAIN layStore
           /\ Keep(j, IF OnMissing(j.kind) = "skip" THEN Proceed(j, job.read, Tail(job.todo))
                      ELSE End(j, "not_found"))
           /\ UNCHANGED <<layCached, layService>>
        \/ /\ \E error \in {"denied", "unavailable"} : Keep(j, End(j, error))
           /\ UNCHANGED <<layCached, layService>>
  /\ UNCHANGED <<layTokens, layQueue, layReader>>

LayNext ==
  \/ \E p \in LayPaths :
       \/ DeleteValue(p)
       \/ \E class \in {"plain", "secret"}, text \in LayTexts : WriteValue(p, class, text)
  \/ RevokeTokens \/ Retire \/ recv \/ ReaderDies
  \/ \E j \in LayJobs : \/ fetch(j) \/ layer_load_tree(j) \/ render(j) \/ layer_access_token(j)
                        \/ get_subtree(j) \/ layer_reveal_secret(j)

LaySpec == LayInit /\ [][LayNext]_layVars

----------------------------------------------------------------------------

\* The leaves that give a name in a job's reading.
Sources(j, name) ==
  {source \in (DOMAIN layers(j)) \X LayPaths :
     /\ is_at_or_below(layers(j)[source[1]], LayGrant)
     /\ is_at_or_below(source[2], layers(j)[source[1]])
     /\ name_of(j, layers(j)[source[1]], source[2]) = name}

\* The stores a job overlapped, and whether one leaf kept its content in all.
Steady(j, p) ==
  \A i \in DOMAIN layJob[j].seen :
    /\ (p \in DOMAIN layJob[j].seen[i]) = (p \in DOMAIN layJob[j].seen[1])
    /\ p \in DOMAIN layJob[j].seen[1] => layJob[j].seen[i][p] = layJob[j].seen[1][p]

\* A finished read gives every name a text that some leaf of that name held while
\* the read ran; and where no leaf of the name changed meanwhile, exactly the text
\* of the last layer that holds it, or no such name when none does.  LayerReader's
\* fetch and read, load_tree and render, restarts on another version included.
ReadsAreExplained ==
  \A j \in LayJobs : layJob[j].outcome = "ok" =>
    LET job == layJob[j]
        result == {job.merged[i] : i \in DOMAIN job.merged}
        names == {name_of(j, layers(j)[l], p) :
                    l \in DOMAIN layers(j),
                    p \in LayPaths} \ {<<>>}
        held(name) == {s \in Sources(j, name) : s[2] \in DOMAIN job.seen[1]}
        last(name) == CHOOSE s \in held(name) : \A t \in held(name) : t[1] <= s[1]
    IN /\ \A pair \in result : \E s \in Sources(j, pair.name), i \in DOMAIN job.seen :
            s[2] \in DOMAIN job.seen[i] /\ job.seen[i][s[2]].text = pair.text
       /\ \A name \in names :
            (\A s \in Sources(j, name) : Steady(j, s[2])) =>
              {pair.text : pair \in {r \in result : r.name = name}} =
                IF held(name) = {} THEN {} ELSE {job.seen[1][last(name)[2]].text}

\* A read fails for a rejected token or a retired version only if the token died
\* or the version went while the read ran: a token already dead when it started
\* is dropped from the broker's cache and replaced within the request, and a read
\* is never refused for a version retired before it started, since a session left
\* on one negotiates again (with_token, invalidate, Session::call).
RefusalsAreFresh ==
  \A j \in LayJobs :
    /\ layJob[j].outcome = "unauthenticated" => layJob[j].token \notin layJob[j].dead
    /\ layJob[j].outcome = "version_not_served" => layJob[j].version >= layJob[j].began

=============================================================================
