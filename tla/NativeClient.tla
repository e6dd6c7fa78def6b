---------------------------- MODULE NativeClient ----------------------------
(***************************************************************************)
(* What the command line keeps on disk and how it comes by an access       *)
(* token: the profile file, the refresh credential of each login, the      *)
(* private-file writes under both, and the identity provider's device,     *)
(* refresh and client-credentials grants (sovereign-config-native:         *)
(* profiles, storage, credentials, oidc; sovereign-config-cli: main,       *)
(* connection, profile, session).                                          *)
(*                                                                         *)
(* Several invocations run at once and share nothing but the files; any of *)
(* them may be killed between two system calls, and a later process may be *)
(* given the process id of a killed one.                                   *)
(***************************************************************************)
EXTENDS Integers, FiniteSets, Sequences

CONSTANTS
  NatPids,         \* process ids
  NatUrls,         \* connection URLs: [identity, managed]
  NatBegun,        \* commands an invocation may be
  NatCodeLife,     \* expires_in of a device code, in the polls' unit
  SLOW_DOWN,       \* what slow_down adds to the interval
  NatMaxCommands, NatMaxTokens

VARIABLES
  natProfiles,     \* the profile file: <<>> when absent, <<config>>, or Partial
  natCredentials,  \* credential file of each identity, likewise
  natTemporary,    \* temporary files: records [pid, target, whole]
  natProvider,     \* [issued, live]: refresh tokens handed out, and those honoured
  natProcess,      \* each invocation
  natCommands,     \* how many have begun
  natPast          \* what has happened: "overlap", "crash", "failed" (a write), "lost" (an answer), "ended" (a login)

natVars == <<natProfiles, natCredentials, natTemporary, natProvider, natProcess,
             natCommands, natPast>>

Identities == {url.identity : url \in NatUrls}

\* A command names a URL it could be given, and no credential file is the profile
\* file: credentials have a directory of their own.
ASSUME NatAssumption ==
  /\ "profiles" \notin Identities
  /\ \A command \in NatBegun :
       /\ command.url \in NatUrls
       /\ command.given = <<>> \/ \E url \in NatUrls : command.given = <<url>>

Idle == [pc |-> "idle", command |-> [verb |-> "none"], config |-> <<>>, url |-> <<>>,
         credential |-> 0, device |-> <<>>, target |-> "", outcome |-> "none"]

NatInit ==
  /\ natProfiles = <<>>
  /\ natCredentials = [identity \in Identities |-> <<>>]
  /\ natTemporary = {}
  /\ natProvider = [issued |-> 0, live |-> {}]
  /\ natProcess = [pid \in NatPids |-> Idle]
  /\ natCommands = 0
  /\ natPast = {}

At(pid, pc) == natProcess[pid].pc = pc
Become(pid, record) == natProcess' = [natProcess EXCEPT ![pid] = record]
Goto(pid, pc) == Become(pid, [natProcess[pid] EXCEPT !.pc = pc])
Exit(pid, outcome) == Become(pid, [Idle EXCEPT !.outcome = outcome])

Files == <<natProfiles, natCredentials, natTemporary>>

----------------------------------------------------------------------------
\* An invocation begins, or is killed where it stands.

Begin(pid, command) ==
  /\ At(pid, "idle") /\ natCommands < NatMaxCommands
  /\ natCommands' = natCommands + 1
  /\ natPast' = natPast \cup
       IF \E other \in NatPids : ~At(other, "idle") THEN {"overlap"} ELSE {}
  /\ Become(pid, [Idle EXCEPT !.pc = "start", !.command = command])
  /\ UNCHANGED <<Files, natProvider>>

Kill(pid) ==
  /\ ~At(pid, "idle")
  /\ natPast' = natPast \cup {"crash"}
  /\ Exit(pid, "killed")
  /\ UNCHANGED <<Files, natProvider, natCommands>>

----------------------------------------------------------------------------
\* storage.rs.  A target is the profile file, "profiles", or an identity's
\* credential file.

\* An unfinished file; a finished one holds one thing.
Partial == <<0, 0>>

Whole(file) == Len(file) <= 1

Install(target, file) ==
  IF target = "profiles" THEN natProfiles' = file /\ UNCHANGED natCredentials
  ELSE /\ natCredentials' = [natCredentials EXCEPT ![target] = file]
       /\ UNCHANGED natProfiles

Content(process) ==
  IF process.target = "profiles" THEN process.config ELSE process.credential

Own(pid) == {t \in natTemporary : t.pid = pid /\ t.target = natProcess[pid].target}

\* Mutant: the file itself is opened and truncated.
TruncateTarget(pid) ==
  /\ At(pid, "create")
  /\ Install(natProcess[pid].target, Partial)
  /\ natTemporary' = natTemporary \cup
       {[pid |-> pid, target |-> natProcess[pid].target, whole |-> FALSE]}
  /\ Goto(pid, "fill")
  /\ UNCHANGED <<natProvider, natCommands, natPast>>

\* write_private, to its create_new: a temporary file left behind by a killed
\* process of the same id refuses the write.
create_temporary(pid) ==
  /\ At(pid, "create")
  /\ \/ /\ Own(pid) = {}
        /\ natTemporary' = natTemporary \cup
             {[pid |-> pid, target |-> natProcess[pid].target, whole |-> FALSE]}
        /\ Goto(pid, "fill")
     \/ /\ Own(pid) /= {}
        /\ Exit(pid, "unavailable") /\ UNCHANGED natTemporary
  /\ UNCHANGED <<natProfiles, natCredentials, natProvider, natCommands, natPast>>

\* write_all and sync_all; a failure removes the temporary file.
fill_temporary(pid) ==
  /\ At(pid, "fill")
  /\ \/ /\ natTemporary' = (natTemporary \ Own(pid)) \cup
             {[pid |-> pid, target |-> natProcess[pid].target, whole |-> TRUE]}
        /\ Goto(pid, "rename")
        /\ UNCHANGED natPast
     \/ /\ natTemporary' = natTemporary \ Own(pid)
        /\ Exit(pid, "unavailable")
        /\ natPast' = natPast \cup {"failed"}
  /\ UNCHANGED <<natProfiles, natCredentials, natProvider, natCommands>>

\* rename, which removes the temporary file when it fails, then the directory's
\* sync, which may fail after it.
rename_temporary(pid) ==
  /\ At(pid, "rename")
  /\ natTemporary' = natTemporary \ Own(pid)
  /\ \/ /\ \E t \in Own(pid) :
             Install(t.target, IF t.whole THEN <<Content(natProcess[pid])>> ELSE Partial)
        /\ \E outcome \in {"ok", "unavailable"} : Exit(pid, outcome)
        /\ UNCHANGED natPast
     \/ /\ Exit(pid, "unavailable")
        /\ natPast' = natPast \cup {"failed"}
        /\ UNCHANGED <<natProfiles, natCredentials>>
  /\ UNCHANGED <<natProvider, natCommands>>

\* remove_private on the credential of the process's identity, then what is next;
\* a failure, before the file is removed or in the directory's sync, ends the command.
remove_private(pid, next) ==
  /\ LET removed == [natCredentials EXCEPT ![natProcess[pid].url[1].identity] = <<>>]
     IN \/ natCredentials' = removed /\ next
        \/ natCredentials' \in {removed, natCredentials} /\ Exit(pid, "unavailable")
  /\ UNCHANGED <<natProfiles, natTemporary, natProvider, natCommands>>

----------------------------------------------------------------------------
\* profiles.rs and profile.rs.

\* ProfileStore::load refuses a file it could not have written.
Loads(config) ==
  config.profiles /= <<>> /\ config.default \in DOMAIN config.profiles

Loaded == natProfiles /= <<>> /\ Whole(natProfiles) /\ Loads(natProfiles[1])

Writing(pid, config) ==
  Become(pid, [natProcess[pid] EXCEPT !.pc = "create", !.target = "profiles",
                                      !.config = config])

With(profiles, name, url) ==
  [n \in DOMAIN profiles \cup {name} |-> IF n = name THEN url ELSE profiles[n]]

\* add: the first profile is the default.
add(pid) ==
  /\ At(pid, "start") /\ natProcess[pid].command.verb = "add"
  /\ LET command == natProcess[pid].command
         config == IF natProfiles = <<>> THEN [default |-> command.name, profiles |-> <<>>]
                   ELSE natProfiles[1]
     IN IF natProfiles /= <<>> /\ ~Loaded THEN Exit(pid, "unavailable")
        ELSE IF command.name \in DOMAIN config.profiles THEN Exit(pid, "exists")
        ELSE Writing(pid, [config EXCEPT !.profiles = With(@, command.name, command.url)])
  /\ UNCHANGED <<Files, natProvider, natCommands, natPast>>

set_default(pid) ==
  /\ At(pid, "start") /\ natProcess[pid].command.verb = "default"
  /\ LET name == natProcess[pid].command.name
     IN IF ~Loaded \/ name \notin DOMAIN natProfiles[1].profiles THEN Exit(pid, "not_found")
        ELSE Writing(pid, [natProfiles[1] EXCEPT !.default = name])
  /\ UNCHANGED <<Files, natProvider, natCommands, natPast>>

\* contains_other_human_identity.
Shared(config, name, url) ==
  \E other \in DOMAIN config.profiles \ {name} :
    config.profiles[other] = [identity |-> url.identity, managed |-> FALSE]

\* ProfileCommand::Update: the profile as it is, whose login goes with it when
\* no other profile has that identity; then the file is read again and written.
update(pid) ==
  /\ At(pid, "start") /\ natProcess[pid].command.verb = "update"
  /\ LET command == natProcess[pid].command
         current == natProfiles[1].profiles[command.name]
     IN IF ~Loaded \/ command.name \notin DOMAIN natProfiles[1].profiles
        THEN Exit(pid, "not_found")
        ELSE Become(pid, [natProcess[pid] EXCEPT
               !.url = <<current>>,
               !.pc = IF current.managed \/ current = command.url THEN "rewrite" ELSE "drop"])
  /\ UNCHANGED <<Files, natProvider, natCommands, natPast>>

drop_login(pid) ==
  /\ At(pid, "drop")
  /\ IF ~Loaded THEN Exit(pid, "not_found") /\ UNCHANGED <<Files, natProvider, natCommands, natPast>>
     ELSE IF Shared(natProfiles[1], natProcess[pid].command.name, natProcess[pid].url[1])
     THEN Goto(pid, "rewrite") /\ UNCHANGED <<Files, natProvider, natCommands, natPast>>
     ELSE natPast' = natPast \cup {"ended"} /\ remove_private(pid, Goto(pid, "rewrite"))

rewrite(pid) ==
  /\ At(pid, "rewrite")
  /\ LET command == natProcess[pid].command
     IN IF ~Loaded \/ command.name \notin DOMAIN natProfiles[1].profiles
        THEN Exit(pid, "not_found")
        ELSE Writing(pid, [natProfiles[1] EXCEPT !.profiles = With(@, command.name, command.url)])
  /\ UNCHANGED <<Files, natProvider, natCommands, natPast>>

----------------------------------------------------------------------------
\* connection.rs, session.rs and oidc.rs.

\* ProfileStore::connection: the profile named, or the default one.
connection(name) ==
  LET config == natProfiles[1]
      chosen == IF name /= "" THEN name ELSE config.default
  IN IF Loaded /\ chosen \in DOMAIN config.profiles THEN <<config.profiles[chosen]>> ELSE <<>>

\* connection::resolve: the named profile, a URL handed over by file or
\* variable, or the default profile.
resolve_connection(pid) ==
  /\ At(pid, "start") /\ natProcess[pid].command.verb \in {"login", "logout", "call"}
  /\ LET command == natProcess[pid].command
         url == IF command.given /= <<>> THEN command.given ELSE connection(command.name)
     IN IF url = <<>> THEN Exit(pid, "not_found")
        ELSE IF url[1].managed /\ command.verb /= "call" THEN Exit(pid, "managed")
        ELSE Become(pid, [natProcess[pid] EXCEPT !.url = url, !.pc = command.verb])
  /\ UNCHANGED <<Files, natProvider, natCommands, natPast>>

Issue(identity, spent) ==
  /\ natProvider.issued < NatMaxTokens
  /\ natProvider' = [issued |-> natProvider.issued + 1,
                     live |-> (natProvider.live \ spent) \cup
                                {[token |-> natProvider.issued + 1, identity |-> identity]}]

StoreCredential(pid, token) ==
  Become(pid, [natProcess[pid] EXCEPT !.pc = "create", !.credential = token, !.device = <<>>,
                                      !.target = natProcess[pid].url[1].identity])

\* DeviceFlowClient::discover, before every grant: no answer, or endpoints that
\* are not of the issuer's own origin, end the command.
discovery_fails(pid) == \E outcome \in {"invalid", "unavailable"} : Exit(pid, outcome)

\* begin: a code with a life and an interval of at least one.
native_begin_login(pid) ==
  /\ At(pid, "login")
  /\ \/ Become(pid, [natProcess[pid] EXCEPT !.pc = "poll",
                       !.device = <<[left |-> NatCodeLife, interval |-> 1]>>])
     \/ discovery_fails(pid)
  /\ UNCHANGED <<Files, natProvider, natCommands, natPast>>

\* poll: gives up when the next answer would come after the code's end, slows
\* down when told to, and stores the refresh credential it is given; an answer
\* without one is login's error.
poll(pid) ==
  /\ At(pid, "poll")
  /\ LET device == natProcess[pid].device[1]
         waited == [device EXCEPT !.left = @ - device.interval]
         again(next) == Become(pid, [natProcess[pid] EXCEPT !.device = <<next>>])
     IN \/ /\ device.interval >= device.left
           /\ Exit(pid, "unauthenticated") /\ UNCHANGED natProvider
        \/ /\ device.interval < device.left
           /\ \/ again(waited)
              \/ again([waited EXCEPT !.interval = @ + SLOW_DOWN])
              \/ \E outcome \in {"unauthenticated", "unavailable", "no_refresh_credential"} :
                   Exit(pid, outcome)
           /\ UNCHANGED natProvider
        \/ /\ device.interval < device.left
           /\ Issue(natProcess[pid].url[1].identity, {})
           /\ StoreCredential(pid, natProvider.issued + 1)
  /\ UNCHANGED <<Files, natCommands, natPast>>

native_logout(pid) ==
  /\ At(pid, "logout")
  /\ natPast' = natPast \cup {"ended"}
  /\ remove_private(pid, Exit(pid, "ok"))

\* maybe_access_token, to its load: a managed URL needs no stored credential.
load_credential(pid) ==
  /\ At(pid, "call")
  /\ LET url == natProcess[pid].url[1]
         file == natCredentials[url.identity]
     IN IF url.managed THEN Goto(pid, "grant")
        ELSE IF file = <<>> THEN Exit(pid, "logged_out")
        ELSE IF ~Whole(file) THEN Exit(pid, "unavailable")
        ELSE Become(pid, [natProcess[pid] EXCEPT !.credential = file[1], !.pc = "refresh"])
  /\ UNCHANGED <<Files, natProvider, natCommands, natPast>>

\* client_credentials: a token and no refresh credential, or a refusal.
client_credentials(pid) ==
  /\ At(pid, "grant")
  /\ \/ \E outcome \in {"ok", "unauthenticated", "unavailable"} : Exit(pid, outcome)
     \/ discovery_fails(pid)
  /\ UNCHANGED <<Files, natProvider, natCommands, natPast>>

Live(pid) ==
  {t \in natProvider.live : /\ t.token = natProcess[pid].credential
                            /\ t.identity = natProcess[pid].url[1].identity}

\* Mutant: the rotated credential is used and not stored.
RefreshOnly(pid) ==
  /\ At(pid, "refresh") /\ Live(pid) /= {}
  /\ Issue(natProcess[pid].url[1].identity, Live(pid))
  /\ Exit(pid, "ok")
  /\ UNCHANGED <<Files, natCommands, natPast>>

\* refresh: the provider spends the credential and hands out its successor, or
\* leaves it as it is; the answer may be lost after either.  A credential it
\* rejects is deleted; an unreachable provider changes nothing.
refresh(pid) ==
  /\ At(pid, "refresh")
  /\ \/ /\ Live(pid) /= {}
        /\ Issue(natProcess[pid].url[1].identity, Live(pid))
        /\ \/ StoreCredential(pid, natProvider.issued + 1) /\ UNCHANGED natPast
           \/ Exit(pid, "unavailable") /\ natPast' = natPast \cup {"lost"}
        /\ UNCHANGED <<Files, natCommands>>
     \/ /\ Live(pid) /= {}
        /\ Exit(pid, "ok")
        /\ UNCHANGED <<Files, natProvider, natCommands, natPast>>
     \/ /\ discovery_fails(pid)
        /\ UNCHANGED <<Files, natProvider, natCommands, natPast>>
     \/ /\ Live(pid) = {}
        /\ Goto(pid, "rejected")
        /\ UNCHANGED <<Files, natProvider, natCommands, natPast>>

delete_credential(pid) ==
  /\ At(pid, "rejected")
  /\ UNCHANGED natPast
  /\ remove_private(pid, Exit(pid, "unauthenticated"))

\* The provider ends a login of its own accord.
Revoke ==
  /\ natProvider.live /= {}
  /\ natProvider' = [natProvider EXCEPT !.live = {}]
  /\ natPast' = natPast \cup {"ended"}
  /\ UNCHANGED <<Files, natProcess, natCommands>>

\* The steps of each command, in the order its pc gives them.
write_private(pid) == create_temporary(pid) \/ fill_temporary(pid) \/ rename_temporary(pid)

manage_profile(pid) ==
  add(pid) \/ set_default(pid) \/ update(pid) \/ drop_login(pid) \/ rewrite(pid)

login(pid) == native_begin_login(pid) \/ poll(pid)

maybe_access_token(pid) ==
  load_credential(pid) \/ client_credentials(pid) \/ refresh(pid) \/ delete_credential(pid)

NatNext ==
  \/ Revoke
  \/ \E pid \in NatPids :
       \/ \E command \in NatBegun : Begin(pid, command)
       \/ Kill(pid) \/ write_private(pid) \/ manage_profile(pid)
       \/ resolve_connection(pid) \/ login(pid) \/ native_logout(pid) \/ maybe_access_token(pid)

NatSpec == NatInit /\ [][NatNext]_natVars

----------------------------------------------------------------------------

\* Whatever runs at once and wherever a process is killed, the profile file is
\* absent or one that load accepts, with a default among its profiles, and a
\* credential file is absent or complete (write_private's rename).
StoredFilesAreWhole ==
  /\ natProfiles = <<>> \/ Loaded
  /\ \A identity \in Identities : Whole(natCredentials[identity])

\* While invocations run one after another, none is killed, no write fails, no
\* answer is lost and nobody ended the login, the stored credential is one the provider still
\* honours for that identity: using a login never costs it (maybe_access_token
\* stores what the provider rotated).
SoloCommandsKeepTheLogin ==
  natPast = {} /\ (\A pid \in NatPids : At(pid, "idle")) =>
    \A identity \in Identities : natCredentials[identity] /= <<>> =>
      [token |-> natCredentials[identity][1], identity |-> identity] \in natProvider.live

=============================================================================
