--------------------------- MODULE ServerLifecycle ---------------------------
(***************************************************************************)
(* A server from its environment to its last request                       *)
(* (crates/sovereign-config-server/src/main.rs), and the secrets it holds  *)
(* (encryption.rs, values/startup.rs): every start seals what an earlier   *)
(* release left in plaintext, and refuses to serve with a key that opens   *)
(* nothing.  Replicas start, stop and crash; an earlier release, rolled    *)
(* back to or not yet replaced, writes plaintext; a row may be damaged.    *)
(*                                                                         *)
(* A stored representation is how many envelopes surround the text, and    *)
(* the key and the row the outermost is bound to.                          *)
(***************************************************************************)
EXTENDS Naturals, FiniteSets

CONSTANTS
    LifeServers,     \* replicas of this release
    LifeKeys,        \* value encryption keys an operator may configure
    LifeRows,        \* content rows of secrets
    LifeTexts        \* what callers store

ASSUME LifeAssumption ==
    /\ IsFiniteSet(LifeRows)
    /\ "damaged" \notin LifeKeys
    /\ "none" \notin LifeServers \cup LifeKeys

VARIABLES
    lifeRows,        \* row -> representation, or Absent
    lifeWritten,     \* history: row -> the text last stored in it
    lifeStage,       \* how far each server's start has come
    lifeKey,         \* the key each server is configured with
    lifeRead,        \* the rows each server's encryption pass has read
    lifeLock,        \* holder of the encryption pass's advisory lock
    lifeExposed      \* history: rows the earlier release wrote behind a pass

lifeVars == <<lifeRows, lifeWritten, lifeStage, lifeKey, lifeRead, lifeLock, lifeExposed>>

NoServer == "none"
Absent == [layers |-> 0, key |-> "none", bound |-> "none", text |-> "none"]
Legacy(text) == [Absent EXCEPT !.text = text]

-----------------------------------------------------------------------------
(* encryption.rs: the row's identity is authenticated with the text. *)

encrypt(key, row, stored) ==
    [layers |-> stored.layers + 1, key |-> key, bound |-> row, text |-> stored.text]

is_envelope(stored) == stored.layers > 0

decrypts(key, row, stored) ==
    is_envelope(stored) /\ stored.key = key /\ stored.bound = row

(* What reveal_secret returns: the text, an envelope taken for one, or an error. *)
reveal_secret(s, row) ==
    LET stored == lifeRows[row]
    IN  IF ~ decrypts(lifeKey[s], row, stored) THEN "unreadable"
        ELSE IF stored.layers > 1 THEN "an envelope" ELSE stored.text

wrong_key(unreadable, sealed_on_entry) == unreadable > 0 /\ unreadable = sealed_on_entry

-----------------------------------------------------------------------------
LifeInit ==
    /\ lifeRows = [r \in LifeRows |-> Absent]
    /\ lifeWritten = [r \in LifeRows |-> "none"]
    /\ lifeStage = [s \in LifeServers |-> "off"]
    /\ lifeKey = [s \in LifeServers |-> "none"]
    /\ lifeRead = [s \in LifeServers |-> <<>>]
    /\ lifeLock = NoServer
    /\ lifeExposed = {}

Stored == UNCHANGED <<lifeRows, lifeWritten, lifeExposed>>

To(s, stage) ==
    /\ lifeStage' = [lifeStage EXCEPT ![s] = stage]
    /\ lifeRead' = IF stage = "read" THEN [lifeRead EXCEPT ![s] = lifeRows]
                   ELSE [lifeRead EXCEPT ![s] = <<>>]
    /\ lifeLock' = IF stage \in {"locked", "read"} THEN s
                   ELSE IF lifeLock = s THEN NoServer ELSE lifeLock

(* Config::from_env: servers that run at the same time share one environment. *)
from_env(s, key) ==
    /\ lifeStage[s] = "off"
    /\ \A t \in LifeServers : lifeStage[t] # "off" => lifeKey[t] = key
    /\ lifeKey' = [lifeKey EXCEPT ![s] = key]
    /\ To(s, "configured")
    /\ Stored

connect_database(s) ==
    /\ lifeStage[s] = "configured"
    /\ To(s, "connected")
    /\ Stored /\ UNCHANGED lifeKey

lock_encryption_pass(s) ==
    /\ lifeStage[s] = "connected" /\ lifeLock = NoServer
    /\ To(s, "locked")
    /\ Stored /\ UNCHANGED lifeKey

stored_secrets(s) ==
    /\ lifeStage[s] = "locked"
    /\ To(s, "read")
    /\ Stored /\ UNCHANGED lifeKey

(* Mutant: secrets that the key does not open do not stop the pass. *)
SealDespiteTheKey(s) ==
    LET read == lifeRead[s]
        plain == {r \in LifeRows : read[r] # Absent /\ ~ is_envelope(read[r])}
    IN  /\ lifeStage[s] = "read"
        /\ To(s, "sealed")
        /\ lifeRows' = [r \in LifeRows |->
              IF r \in plain /\ lifeRows[r] # Absent
              THEN encrypt(lifeKey[s], r, read[r]) ELSE lifeRows[r]]
        /\ UNCHANGED <<lifeWritten, lifeKey, lifeExposed>>

(* The pass writes what it read, sealed, over whatever the row holds by then, and
   commits it all or, when nothing sealed opens, nothing. *)
encrypt_stored_secrets(s) ==
    LET read == lifeRead[s]
        present == {r \in LifeRows : read[r] # Absent}
        sealed_on_entry == {r \in present : is_envelope(read[r])}
        unreadable == {r \in sealed_on_entry : ~ decrypts(lifeKey[s], r, read[r])}
    IN  /\ lifeStage[s] = "read"
        /\ IF wrong_key(Cardinality(unreadable), Cardinality(sealed_on_entry))
           THEN To(s, "off") /\ UNCHANGED lifeRows
           ELSE /\ To(s, "sealed")
                /\ lifeRows' = [r \in LifeRows |->
                      IF r \in present \ sealed_on_entry /\ lifeRows[r] # Absent
                      THEN encrypt(lifeKey[s], r, read[r]) ELSE lifeRows[r]]
        /\ UNCHANGED <<lifeWritten, lifeKey, lifeExposed>>

(* The health listener binds, the background jobs start and the port is served. *)
serve(s) ==
    /\ lifeStage[s] = "sealed"
    /\ To(s, "serving")
    /\ Stored /\ UNCHANGED lifeKey

(* A failing step, a shutdown signal or a crash: an open transaction rolls back. *)
Stop(s) ==
    /\ lifeStage[s] # "off"
    /\ To(s, "off")
    /\ Stored /\ UNCHANGED lifeKey

-----------------------------------------------------------------------------
(* Traffic, through a serving server. *)

Passing == \E s \in LifeServers : lifeStage[s] = "read"

(* A write through this release ends a row's exposure, unless a pass may still
   write what it read over it. *)
Rewritten(row) ==
    lifeExposed' = IF Passing THEN lifeExposed ELSE lifeExposed \ {row}

stored_representation(s, row, text) ==
    /\ lifeStage[s] = "serving"
    /\ lifeRows' = [lifeRows EXCEPT ![row] = encrypt(lifeKey[s], row, Legacy(text))]
    /\ lifeWritten' = [lifeWritten EXCEPT ![row] = text]
    /\ Rewritten(row)
    /\ UNCHANGED <<lifeStage, lifeKey, lifeRead, lifeLock>>

DeleteSecret(s, row) ==
    /\ lifeStage[s] = "serving" /\ lifeRows[row] # Absent
    /\ lifeRows' = [lifeRows EXCEPT ![row] = Absent]
    /\ lifeWritten' = [lifeWritten EXCEPT ![row] = "none"]
    /\ Rewritten(row)
    /\ UNCHANGED <<lifeStage, lifeKey, lifeRead, lifeLock>>

(* A release that predates encryption, rolled back to or serving while this one
   is rolled out: what it writes once a pass has read the rows is exposed. *)
EarlierRelease(row, text) ==
    /\ lifeRows' = [lifeRows EXCEPT ![row] = Legacy(text)]
    /\ lifeWritten' = [lifeWritten EXCEPT ![row] = text]
    /\ lifeExposed' = IF \E s \in LifeServers : lifeStage[s] \in {"read", "sealed", "serving"}
                      THEN lifeExposed \cup {row} ELSE lifeExposed \ {row}
    /\ UNCHANGED <<lifeStage, lifeKey, lifeRead, lifeLock>>

(* A torn write or a partial restore: an envelope no key opens. *)
Damage(row) ==
    /\ is_envelope(lifeRows[row]) /\ lifeRows[row].key # "damaged"
    /\ lifeRows' = [lifeRows EXCEPT ![row].key = "damaged"]
    /\ UNCHANGED <<lifeWritten, lifeStage, lifeKey, lifeRead, lifeLock, lifeExposed>>

LifeNext ==
    \/ \E s \in LifeServers :
          \/ \E key \in LifeKeys : from_env(s, key)
          \/ connect_database(s)
          \/ lock_encryption_pass(s)
          \/ stored_secrets(s)
          \/ encrypt_stored_secrets(s)
          \/ serve(s)
          \/ Stop(s)
          \/ \E row \in LifeRows :
                \/ \E text \in LifeTexts : stored_representation(s, row, text)
                \/ DeleteSecret(s, row)
    \/ \E row \in LifeRows :
          \/ \E text \in LifeTexts : EarlierRelease(row, text)
          \/ Damage(row)

LifeSpec == LifeInit /\ [][LifeNext]_lifeVars

-----------------------------------------------------------------------------
(* Whatever starts, stops, crashes and rollbacks came before, a server that is
   serving reveals every undamaged secret as the text last written to it: no
   secret is left in plaintext, sealed twice, sealed under a key that another
   server does not have, or overwritten by a pass with what it read before a
   write.  The rows an earlier release wrote after a pass had read them are
   excepted: those the pass overwrites, or leaves in plaintext, as
   encrypt_stored_secrets says of a rolling deploy.  Replicas of this release are
   not, although that comment would have them revisit the pass: a replica that
   serves has left no plaintext for another's pass to rewrite. *)
ServersRevealWhatWasWritten ==
    \A s \in LifeServers, row \in LifeRows \ lifeExposed :
        lifeStage[s] = "serving" /\ lifeRows[row] # Absent /\ lifeRows[row].key # "damaged"
            => reveal_secret(s, row) = lifeWritten[row]
=============================================================================
