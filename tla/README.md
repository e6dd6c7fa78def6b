# A TLA+ model of sovereign-config

sovereign-config is a configuration server: a tree of plain and secret values in
PostgreSQL, read and written over gRPC by people and machines, with an audit trail and
with machine credentials ("managed connections") provisioned at an identity provider. Its
clients are a command line, an MCP server, a web interface, a configuration provider for
programs and a secrets broker for Woodpecker.
This directory models each of these parts, checks the models with TLC on small instances,
and proves the most important facts with TLAPS for instances of every size.

Source paths below are relative to `src/crates/`; `server/` stands for
`sovereign-config-server/src/`, and so on for the other crates.

## The system and its parts

| Part | State | What is hard | Module |
|---|---|---|---|
| configuration paths (`core/path.rs`) | none | folding, order and subtree tests on bytes; `-` sorts before `/` | `ConfigPath` |
| mutations of the value store (`server/values`) | path rows, content rows, an identity sequence | several statements per READ COMMITTED transaction; aliases reach one value from unrelated hierarchies; three kinds of locks | `ValueStore` |
| readers of the value store (`server/values`) | none | two statements without a transaction, writers in between | `ValueReads`, `Grants` |
| start, encryption pass, end of a server (`server/main.rs`, `values/startup.rs`, `encryption.rs`) | stored secrets, a key | replicas starting together, crashes, a replaced key, an earlier release beside this one, damage | `ServerLifecycle` |
| managed connections (`server/managed`) | a row per connection, an account at the provider | no transaction spans both; outcomes are unknown; callers hang up; leases | `ManagedConnections`, `ConnectionLifecycle` |
| identity provider contract and its Authentik adapter (`identity`, `authentik`) | the provider's accounts | several requests per operation; errors after delivery; late effects | `IdentityProvider`, `AuthentikAdapter` |
| name repair (`server/managed/repair.rs`) | account names, names in past events | tokens minted under old names; partial failures; a second server | `NameRepair` |
| audit trail (`server/audit`) | event rows | coalescing windows bumped out of order; paging while rows move; the sweep | `AuditTrail` |
| request pipeline (`server/spans.rs`, `protocol.rs`, `auth.rs`, `auth/jwks.rs`, `handshake.rs`, `metrics.rs`) | cached key sets, counters, calls under way | single-flight fetch, rotated keys, callers that hang up | `RequestPipeline` |
| client session (`client`) | the negotiated version | a service redeployed under an open session | `ClientSession` |
| layered reads (`layers`, `provider`, `cli/render.rs`, the broker's reader) | a queue, a cached token | a read is many calls, and values, tokens and versions change between them | `LayerReads` |
| Woodpecker broker (`woodpecker-broker`) | requests, metrics | signed, late, repeated and changed requests; templates of paths | `BrokerGate` |
| profiles, credentials and login (`native`, `cli`) | two kinds of private files | several processes over one file, kills between system calls, rotated refresh tokens | `NativeClient` |
| MCP server (`mcp`) | one loop | a login that reports before it ends | `McpServer` |
| web interface (`web`) | tokens, route, views, dialogs, audit list, telemetry buffers | answers in any order; actions, navigation and logout in between | `WebSession`, `WebPages`, `WebAudit`, `WebTelemetry` |

A mutation of the value store authorizes its caller, takes its path locks, reads, writes
and records its audit events in one database transaction. A managed connection's call
alternates database transactions with calls to the identity provider, and records its
audit event in the transaction that completes it. Every request first passes the pipeline,
and every client first negotiates a version and obtains a token. The encryption pass, the
name repair, the audit sweep and the refresh of signing keys run beside the requests.

How the modules meet:

* `ManagedConnections` relies on the provider's contract: each provider call in it has the
  outcomes `IdentityProvider` allows. `AuthentikAdapter` keeps that contract but for one
  case, which the run `AdapterContract` shows: a connection that drops after Authentik
  handled a request is reported as if the request had never been delivered. What is checked
  and proved of the saga therefore holds of this adapter only where that does not happen.
* `ConnectionLifecycle` is what managed connections promise, and `ManagedConnections` is
  shown to implement it.
* `ValueReads` and `LayerReads` take a mutation as its commit: `ValueStore` has the
  statements and shows what a commit may be.
* `AuditTrail` takes a call's recording as one step, inside its transaction for a change
  and on its own for an access, which is where `ValueStore` and `ManagedConnections` do it.
* `NameRepair` takes the check of a token and the recording of the access made with it as
  one step. A call that spends longer between the two than the delay leaves room for is not
  in it, and its record could carry a name that the repair has replaced.
* `ClientSession` has one request per operation. The provider's and the broker's sessions
  wrap reads of several calls; `LayerReads` has those, and their retry.
* `BrokerGate` ends where its layers are handed to the reader, which is in `LayerReads`.

## The modules

Each module says in its header which files it models and how its state abstracts theirs;
definitions keep the names of the functions they translate. `PROJECT.json` maps each
definition to the lines it stands for.

Definitions marked "Mutant" in their comment are wrong versions of the definition that
follows them. They show that a property can fail: with the wrong version in its place TLC
finds the property violated.

### ValueStore

A value is a row of `contents` and is reachable through one or more rows of `pathRows`;
both are the committed tables. A transaction `t` goes through the phases `pc[t]`, one
action per SQL statement, and keeps what it has written in `write[t]` until `Commit(t)`.
`View(t)` is what one of its statements sees: the committed rows at that moment, overlaid
with its own writes, which is READ COMMITTED. `Fail(t)` ends it at any statement.

* Path locks (`todo`, `held`) are `lock_mutation_path`'s transaction-scoped advisory
  locks: shared on every ancestor, exclusive on the target, both on the folded path.
  `MutationLocks` is the order `add_value_path` chooses for its two hierarchies.
* `latched` are the advisory locks `prune_orphan_contents` takes on contents.
* `rowLocks` are PostgreSQL's: KEY SHARE by the foreign key of an inserted path, NO KEY
  UPDATE by `UPDATE`, and the conflicting modes of `DELETE` and `SELECT ... FOR UPDATE`.
* `KeyFree` is the unique key on `lowercase_path`; `PruneErase` includes the
  `ON DELETE CASCADE` that takes path rows with their content.
* `write[t].events` are the audit events recorded in the same transaction. `push_capped`
  and `WithSummary` are the cap on itemized events and the summary that counts the rest.
* A secret's stored representation is an envelope that names its row (`Sealed`); the
  cipher is a library and is not modelled.

Authorization is decided before a transaction begins and changes no state; `Requests` are
the calls that passed it. `Accepted` is the validation each call makes.

### ManagedConnections

A connection `c` is a row (`row[c]`) and an account at the provider (`account[c]`, whose
`key` is its current credential, 0 meaning no account). `call[p]` is where a call is
between two of its steps. One action is one database statement or one provider call.

* Every database step succeeds, fails, or, under the fault `lost_commit`, succeeds without
  its caller hearing of it.
* A provider call succeeds, fails definitely (`Rejected`, `Unavailable`, `NotFound`), or
  leaves its outcome unknown (`Ambiguous`, `Invalid`): then it was applied, was not, or is
  in `late[c]` and may land at any later time (`Land`).
* `Cancel` drops a call between two steps: a caller that hangs up or a server that stops.
  The request it was waiting for may still land.
* `LeaseExpires` is the rotation lease. It is six provider timeouts long, so it cannot
  run out while a call waits for the provider; under the fault `stall` it may run out
  while a call is held up in the database.
* `Vanish` is an account deleted at the provider by hand.

`Faults` selects which of these a run admits, so each property states what it rests on.
`url[c]` (the credential in the last URL reported) and `minted[c]` are history variables.

`ConnectionLifecycle` is the abstract specification. `ManagedConnections` implements it
with `phase` mapped to the row's state ("none" before the row, "gone" after it) and
`story` to the connection's audit trail. It allows for every failure of the provider, for
failing statements and for dropped calls, but not for the fault `lost_commit`: the call
whose statement took effect goes on as if it had not, and the row leaves the phases.

### ServerLifecycle

A stored representation is how many envelopes surround a text, and the key and the row the
outermost is bound to. A server goes from "off" through "configured", "connected", "locked"
(the pass's advisory lock), "read" and "sealed" to "serving". The pass writes over a row
what it read of it earlier, without a lock on the row, as the code does. `EarlierRelease`
is a release that predates encryption: it writes plaintext at any time, rolled back to or
still serving while this release is rolled out. What it writes once a pass has read the
rows is in `lifeExposed`, a history variable, until this release writes the row again.
`Damage` makes an envelope that no key opens. Servers that run together share a key.

### NameRepair

A token carries the name its account had when it was minted, and lives for
`TokenLifetime + ClockLeeway`. Each server goes through `repair_actor_names`: naming the
accounts, sleeping for `TRAIL_REPAIR_DELAY`, rewriting the trail, recording completion. Any
step may fail or be cut off by a restart, and connections are used and revoked meanwhile.

### AuditTrail and RequestPipeline

`Capture` is the moment a call reads the clock, `Record` or `RecordIn` and `CommitOpen` the
moment its events land. `Record` is the upsert on `coalesce_digest`. A reader's scroll is a
keyset over `(first, id)`; `steady` is the history of what it was owed at every moment.

A request passes the layers in their order in one step, and then waits for its key.
`pipeLock` is the mutex of `KeySets`; `pipeAnswer` is the fetch under way, answered at one
moment and applied at a later one; `Abandon` drops a call wherever it is, with the mutex.

### IdentityProvider and AuthentikAdapter

A call of the contract is asked, takes effect at most once, and is answered; an answer
that leaves the outcome unknown may come first. The adapter makes one REST request at a
time. `connection_drops` is a connection lost after Authentik handled the request and
before its response was read; reqwest tells of it as an error of the request
(`is_request()`), which is this model's assumption about that library.

### LayerReads and BrokerGate

A job of `LayerReads` is one read of several layers: a token, one call per layer and one
per secret leaf, with one retry on a rejected token and one on a retired version.
`BrokerGate` verifies a request against what Woodpecker signed; `GateChanges` are the parts
of a request that may differ on arrival. Templates and paths are byte sequences, because
whose secrets are returned depends on their folding.

### The clients

* `ClientSession`: deployments replace one another under several calls of one session.
* `NativeClient`: two processes run commands over one set of files, system call by system
  call, against a provider that rotates refresh tokens and notices their reuse.
* `McpServer`: a line is served to its end before the next; an argument is the class of
  JSON value it is. The output may break at any message, and then stays broken.
* `WebSession`, `WebPages`, `WebAudit`, `WebTelemetry`: the page is one thread, and every
  `await` is a point at which any other action may run. Generations, which the code
  compares for equality, are kept as how often they moved since. `WebPages` has the token
  slot too, because a load that finds it empty during a refresh draws the page of someone
  logged out. `WebTelemetry` has timers that the browser refuses to set.

## What TLC checks

| Run | Instance | Shows |
|---|---|---|
| `Mutations` | 2 calls in three scenarios, an event cap of 1: 9 kinds of request around one value under two hierarchies beside a secret; 7 kinds in an empty store; 4 kinds, among them deletions of everything, over two values each behind the other's hierarchy | `TypeOK`; mutations of overlapping subtrees take turns (`OverlappingMutationsSerialize`); deleting the last two aliases concurrently never leaves an orphan (`NoOrphanContents`); the cascade never takes a path nobody named (`OnlyNamedPathsAreDeleted`); only unshared values are reclassified; replacements leave secrets alone and are exact; no deadlock on content or row locks; secrets are sealed to their row; put and alias never nest paths; every committed change is itemized, but for exactly as many as the summary counts |
| `ValueStoreWaits` | 2 calls, 5 kinds of request, two stores; fairness | every call ends |
| `Accounts` | 3 parts: 3 calls on 1 connection with every fault but `early_revoke`; 2 servers repairing names; 3 calls of the adapter | `TypeOK`; no live account without a row or a running call (`AccountsAreAccountedFor`); a completed repair named everyone; the adapter departs from the contract only where a connection dropped after delivery |
| `ManagedUrls` | 3 calls, 1 connection, `cancel` and `early_revoke` | a URL reported by create or rotate works at that moment; the lifecycle is implemented |
| `ServerUpkeep` | the trail and its sweep, 3 calls, 2 at once: accesses over two windows, and 4 kinds of call within one window under a reader with pages of 1; the pipeline: 2 calls of 7 kinds, a key added and removed; fairness | accesses are counted once, in their own window; a scroll repeats and misses nothing; pages respect grants; expired rows go; a key is called unknown only when it is; removed keys are forgotten; a call is recorded once |
| `Services` | 4 parts: 3 spellings and 4 writes under readers; 2 replicas beside an earlier release, 2 keys, 2 secrets; 6 reads over 2 values with 2 changes; the broker with 20 ways for a request to arrive changed | replies are faithful; servers reveal what was written, but for what the earlier release wrote behind a pass; layered reads are explained and refused only for fresh reasons; only signed requests are resolved, for their own repository |
| `Clients` | 7 parts: 3 calls over 3 redeployments; 3 commands of 10 kinds by 2 processes; 4 actions of the web session in 2 tasks; 2 actions of the pages, opened at 2 routes, with tokens that stay good and with one that expires; 3 restarts of the audit list; 3 telemetry items; 2 MCP lines of 15 kinds | operations run at most once and retirements are survived; files stay whole and using a login does not cost it; a replaced refresh token is used again only after a lost answer; views show their route and their session; the audit list is its query; telemetry is never stranded; every MCP request is answered |

Runs that end in a counterexample, each a disagreement between the code and what a
comment or document says of it:

| Run | Disagreement |
|---|---|
| `ValueStoreNesting` | `replace_sub_tree` stores values inside other values; `values/store.rs` says nesting is never allowed |
| `ManagedOrphan` | a revocation that overtakes its creation can leave an account nothing records |
| `ManagedActive` | an undelivered retry of an ambiguous rotation marks the connection active with a URL that no longer works |
| `AdapterContract` | a request Authentik handled is reported Unavailable when its connection drops; `identity/lib.rs` says Unavailable is "definitively not applied" |
| `WebLogout` | a refresh under way at logout stores its tokens afterwards; `docs/web-ui.md` says that logout requires a new login |

### Bounds, and why they suffice

Two calls are enough for every hazard of the value store: each is a race of one mutation
with one other. The paths are chosen so that every relation occurs (equal up to case,
nested, siblings, `-` against `/`). `MaxId` bounds the identity sequence: `Begin` refuses a
call that might exceed it, with room left for calls already under way, so no call is cut
off in the middle. In `Mutations` a variable `scenario` says which of its three stores a
behaviour began with, and its requests are that scenario's. `EventCap` is 1 or 2 instead of the code's `BULK_EVENT_CAP`, so that it
is exceeded. Managed connections never share state between connections, so one connection
with three calls (a creation, and two of rotation and revocation) shows every interaction;
`MaxKey = 3` allows two rotations. Symmetry is over the calls only, which no definition
tells apart, and is not used where liveness is checked or several parts are.

`MCAccounts`, `MCServerUpkeep`, `MCServices` and `MCClients` hold several parts that do not share state.
A variable `focus`, chosen in the first state and never changed, says which of them a
behaviour is about; the others stay in their initial states. The states are then the sum
of the parts', not their product, and each property is about its own part.

* The trail is in focus twice. In "windows" the clock runs from 0 to 2 with windows of 2, so
  accesses share a window at different times, land out of order, and fall in the next
  window; only accesses are recorded and nobody reads. In "scroll" the clock stays in one
  window, and accesses, a change of two paths and a connection's event are recorded while
  a reader pages. With `AuditRetention = 0` a row of the present is kept and an earlier one
  expires.
* `TRAIL_REPAIR_DELAY` (2) exceeds a token's lifetime (1), as in the code; that is an
  assumption of the module, which TLC evaluates and the proof uses. The clock runs to 3, so
  a server sleeps and wakes within it.
* The key cache's interval and clock are 1: a miss falls within the interval or after it.
  Two rotations of the signing keys add a key and remove it. Two calls, each of which may
  take, wait for or drop the one mutex, give every order of a miss, a refresh and a drop.
* The broker accepts signatures up to 1 ahead and none that is older. Signing times of now
  and 1 ahead, delivered now or 1 later, reach both ends of what is accepted and pass the
  older one.
* The pages are in focus twice. In "pages" every action of the page is taken while the
  access token is good; in "tokens" it expires once, at any request, and the operator reads,
  goes elsewhere and logs out.
* The telemetry limits keep the code's order (unload below batch, batch below buffer). Items
  of sizes 1, 2 and 5 exceed every limit on bytes, the last one by itself. Three items
  exceed the limit of a batch and reach, without exceeding, that of a buffer.
* The constants named `...Max...` bound histories: calls, commands, changes, restarts, tokens
  and clocks. A behaviour that reaches one goes no further in that respect. The steps that
  the liveness properties rely on have none of these bounds in their guards.

`CHECK_DEADLOCK FALSE` is set where a behaviour may really stop: identifiers of managed
connections are never reused, and the bounded histories of the focus modules run out. The
value store, whose calls start again and again, is checked for deadlock.

### Fairness

`EveryCallEnds` assumes strong fairness of each call's statements: PostgreSQL queues lock
requests, so a statement that can be granted again and again is granted. It assumes weak
fairness of `BreakDeadlock`: PostgreSQL's deadlock detector fails a transaction of every
cycle. Nothing is assumed of new calls arriving or of failures.

`ExpiredRowsAreSwept` assumes that the sweep runs when it is due, which its interval timer
does for as long as the server runs, and that a deletion tried again and again succeeds at
some time. `RemovedKeysAreForgotten` assumes that the key set's work goes on: the refresh task,
which has a timer of its own, begins again, and a fetch is answered or times out
(`jwks.rs` gives it a timeout); and that the issuer, asked again and again, answers at some
time. Nothing is assumed of requests, of rotations or of clients that go away.

## What is proved

`ManagedConnectionsProofs` proves, for any sets of calls and connections, any `MaxKey` and
any `Faults`:

* `TypeCorrect`: `Spec => []TypeOK`. The invariant includes that a call has a connection
  exactly while it runs, and that a call which made its last probe goes on to record that
  cleanup is required; the latter makes the bound on probes inductive.
* `AccountsCorrect`: if `Faults` leaves `early_revoke` out, then
  `Spec => []AccountsAreAccountedFor`. The property alone is not inductive. `AccountsInv`
  adds what the code relies on: a row that is absent leaves no pending or late creation
  for its connection unless a call is still there to answer for it (`Accounted`); a call
  about to delete a row on the strength of a deletion has seen the account gone and
  nothing can bring it back (`Relied`); and no two calls work on one creation, nor a
  creation beside a revocation (`Apart`).

Both rest on `ManagedAssumption`, the only assumption: `NoConn` is no connection, `MaxKey`
is positive, and `Faults` holds kinds of fault.

For `ValueStore` the theorems hold for any set of concurrent calls, any requests and
values, and any store to start from. They rest on three assumptions: the requests are
records of the four kinds over byte sequences (`RequestsAssumption`), the initial stores
are linked and sealed (`StoresAssumption`), and the bounds are numbers (`StoreBounds`).

* `ValueStoreSteps` states what each action does to its own call, component by component,
  and that it leaves the other calls alone (`Frame`). Everything below cites these lemmas
  instead of the actions.
* `ValueStoreTypes!TypeCorrect`: `Spec => []TypeOK`. It carries `CallsOK`, that the phase of
  a call says which operation it is.
* `ValueStoreLocks!OverlapsSerialize`: `Spec => []OverlappingMutationsSerialize`. The
  invariant `LocksInv` says that a call holds, or has still to take, every lock of its
  paths, and that locks held by different calls never conflict. If one call's target lay at
  or below another's, it would hold shared what the other holds exclusively; that it would
  is `RootIsAncestor` in `ConfigPathProofs`.
* `ValueStoreLocks!SecretsSealed`: `Spec => []SecretsAreSealedToTheirRow`, which needs the
  same of what is written and not yet committed (`SealInv`).
* `ValueStoreTables!NoOrphans` and `OnlyNamedDeleted`: `Spec => []NoOrphanContents` and
  `Spec => []OnlyNamedPathsAreDeleted`, both drawn from `StoreCorrect`, which also gives the
  foreign key. The invariant `StoreInv` is about what a call relies on between reading and
  committing. What it found is anchored in a committed row of its own subtree
  (`FindingsStand`, `Anchored`): path locks keep other calls from deleting that row, because
  two subtrees that share a path are nested (`RootsAreComparable`) and overlapping mutations
  take turns. Each content whose path it deleted is latched, and is either pruned with no
  path left or kept by a path (`PruneExact`): the content locks keep other deletions away,
  and the anchors keep new aliases away. Identities drawn from the sequence are nobody
  else's (`WritesLinked`, `Disjoint`). The hard case is `Commit`, where all of this has to
  survive another call's writes (`CommitLinks`, `CommitSpares`).

For the two startup passes the theorems hold for any number of servers:

* `NameRepairProofs!RepairCorrect`: `RepairSpec => []CompletedRepairNamesEveryone`, for any
  servers, connections and lifetimes, from the assumption that the delay outlives a token.
  The property is not inductive: a completed repair could be undone by an access under an
  old name. `RepairInv` adds what the delay buys. No token outlives its lifetime
  (`TokensEnd`); a server that sleeps after naming everyone wakes when no token under an old
  name is left (`OldTokensEndBefore`); and once everyone is named, no such token appears
  (`Closer`). A repaired trail then stays repaired (`RepairedStays`), whatever another
  server or a restart does.
* `ServerLifecycleProofs!LifeCorrect`: `LifeSpec => []ServersRevealWhatWasWritten`, for any
  replicas, keys, secrets and texts. `LifeInv` says why the pass needs no row locks against
  replicas of this release. Undamaged envelopes are all under one key (`OneKey`). Where a
  server serves, nothing is in plaintext but what is exposed (`PassesSeal`); so what a pass
  has read in plaintext is still there when it writes over it (`ReadsLast`), unless the
  earlier release wrote it meanwhile. It rests on a finite set of rows and on names that
  differ (`LifeAssumption`), and on the environment being shared by servers that run
  together, which is in `from_env`.

Only model-checked: the other properties of `ValueStore`, `ReportedUrlsWork`,
`ImplementsLifecycle`, `OnlyDroppedConnectionsBreakTheContract`, and all properties of the other parts.
Liveness under fairness is out of the prover's reach, and so is what the folds over sequences
and sets (`add_parent_paths`, `total_bytes`, the merge of layers) compute for every input.

## Known divergences

Behaviour met while modelling that the properties except or that the runs leave out, beside
the five runs above.

* `put_value` (`server/values/service.rs:311`) reads the old value without a lock. A put
  through another alias may commit before it writes, and the event then names an old value
  that was not the one overwritten.
* `add_value_path` (`server/values/service.rs:516`) takes two hierarchies of path locks in
  byte order. A comment says two aliasings "cannot deadlock"; they can, because `-` sorts
  before `/`. PostgreSQL ends one of them, which `EveryCallEnds` covers.
* A rotation whose database step outlasts its lease may report a URL that a second rotation
  has replaced: the fault `stall`, which `ManagedUrls` leaves out.
* A credential replacement that lands after a later rotation replaces its key, as a comment
  in the code accepts. `ManagedUrls` leaves it out and `Accounts` keeps it in.
* A caller dropped during the fetch that its missing key prompted leaves the key "unknown"
  for the rest of the interval, although no fetch said so (`auth/jwks.rs:174`).
* The encryption pass overwrites, with the older text it read, what an earlier release writes
  between the pass's read and its write, and leaves in plaintext, unreadable to this release
  until its next start, what that release writes later. The comment at
  `server/values/startup.rs:46-51` says so of every other instance that serves. For replicas
  of this release the proof shows that it cannot happen: `ServersRevealWhatWasWritten`
  excepts the rows in `lifeExposed` alone.
* The comment at `server/audit/store.rs:42-44` says that a coalesced row "always describes its
  most recent access". Its time does; its wording, path and name are those of the access
  recorded last, which is an earlier one when two land out of order (`Bumped`).
* Two commands that refresh one login at once lose it: the one the provider refuses deletes
  the credential that the other has just stored. `SoloCommandsKeepTheLogin` is about
  commands that run one after another.
* Two commands that change the profile file at once lose one change; the file stays one
  that loads.
* A temporary file left by a killed process makes the next process with its identifier
  fail.
* `create_connection` and `rotate_connection` (`web/connections.rs:371-374`) hold back a
  one-time URL when "a concurrent logout or navigation happened" during their reload. They
  notice a navigation once its own load of the connections begins, which on the way to a
  configuration path is after the configuration has been read, so the URL may open on the
  page that was navigated to. `ViewsShowTheirRoute` forbids it after a logout.
* `ViewsShowTheirRoute` asks nothing of a page whose tokens a refresh put back after logout:
  that is what the run `WebLogout` shows.
* A timer the browser refuses to set (`web/telemetry/mod.rs:363`) leaves telemetry waiting
  until another item is recorded.
* In the web interface a slow deletion's answer closes a deletion dialog opened later, and
  the path selector shows whichever list comes last. An action that finds the token slot
  empty during a refresh goes on as if logged out.

## Not modelled

* Transports and wire shims, protocol definitions: conversions of messages, field by field.
* The command line's value commands: one call of the client each, and printing.
* Connection URLs, the JSON and plain-text forms of a subtree and their parsers; the part of
  them the store relies on is `normalize` in `ValueStore`.
* Telemetry set-up, span attributes and metrics that nothing reads back; settings of the
  Authentik adapter and of the server other than the encryption key.
* Static files, icons, downloads, drawing and wording.
* The cipher, JWT signatures, HTTP, gRPC, PostgreSQL and Authentik themselves: each is
  modelled by what the code sends it and which outcomes the code tells apart.
