-------------------------- MODULE NameRepairProofs --------------------------
(***************************************************************************)
(* That a completed repair has named everyone, for any number of servers   *)
(* and connections, any clock and any lifetime of tokens shorter than the  *)
(* delay.                                                                  *)
(***************************************************************************)
EXTENDS NameRepair, TLAPS

Names == {"none", "old", "oldMarked", "current"}
Heads == {"subject", "old", "oldMarked", "current"}

Tokens == [account : RepairAccounts, name : Names, until : Nat]

Rows == [account : RepairAccounts, name : Names, head : Heads,
         kept : {<<>>} \cup (Names \X Heads)]

Steps == [at : {"off", "naming", "sleeping", "completing", "ended"},
          left : SUBSET RepairAccounts, named : BOOLEAN, wake : Nat]

RepairTypeOK ==
    /\ repairClock \in Nat
    /\ repairConn \in [RepairAccounts -> {"live", "revoking", "gone"}]
    /\ repairNamed \in [RepairAccounts -> {"username", "display"}]
    /\ repairTokens \subseteq Tokens
    /\ repairRows \subseteq Rows
    /\ repairStep \in [RepairServers -> Steps]
    /\ repairDone \in BOOLEAN

(* No token outlives its lifetime. *)
TokensEnd == \A t \in repairTokens : t.until <= repairClock + TokenLifetime + ClockLeeway

(* The provider has the display name of every connection in use. *)
EveryoneNamed == \A a \in RepairAccounts : is_live(a) => repairNamed[a] = "display"

(* A token under an old name, of a connection in use, is gone by then. *)
OldTokensEndBefore(time) ==
    \A t \in repairTokens : is_live(t.account) /\ t.name # "current" => t.until < time

NoOldTokens == \A t \in repairTokens : is_live(t.account) => t.name = "current"

TrailNamed == \A r \in repairRows :
    is_live(r.account) => r.name = "current" \/ r.head # shownAs(r.name)

Repaired == EveryoneNamed /\ NoOldTokens /\ TrailNamed

(* What a server has achieved at each step, unless an account could not be named. *)
Progress(s) ==
    LET step == repairStep[s]
    IN  /\ step.at = "naming" /\ step.named =>
              \A a \in RepairAccounts : is_live(a) => repairNamed[a] = "display" \/ a \in step.left
        /\ step.at = "sleeping" /\ step.named => EveryoneNamed /\ OldTokensEndBefore(step.wake)
        /\ step.at = "completing" => Repaired

RepairInv ==
    /\ RepairTypeOK
    /\ \A t \in repairTokens : repairClock <= t.until
    /\ TokensEnd
    /\ \A s \in RepairServers : Progress(s)
    /\ repairDone => Repaired

-----------------------------------------------------------------------------
(* What a row becomes. *)

(* Rewriting the trail leaves rows, and no row of a listed connection under an
   old name, but for the narratives that open with another. *)
LEMMA RenamedRows ==
    ASSUME NEW rows \in SUBSET Rows, NEW accounts
    PROVE  /\ rename_actors(rows, accounts) \subseteq Rows
           /\ \A r \in rename_actors(rows, accounts) :
                 r.account \in accounts => r.name = "current" \/ r.head # shownAs(r.name)
           /\ \A r \in rename_actors(rows, accounts) : \E old \in rows :
                 /\ r.account = old.account
                 /\ r = old \/ r.name = "current"
<1> DEFINE Renamed(r) == IF /\ r.account \in accounts
                            /\ r.name = "none" \/ r.name \in superseded
                            /\ r.head = shownAs(r.name)
                         THEN [account |-> r.account, name |-> "current", head |-> "current",
                                kept |-> IF r.kept = <<>> THEN <<r.name, r.head>> ELSE r.kept]
                         ELSE r
<1>1. rename_actors(rows, accounts) = {Renamed(r) : r \in rows}
  BY DEF rename_actors
<1>2. ASSUME NEW r \in rows
      PROVE  /\ Renamed(r) \in Rows
             /\ Renamed(r).account = r.account
             /\ Renamed(r) = r \/ Renamed(r).name = "current"
             /\ r.account \in accounts =>
                   Renamed(r).name = "current" \/ Renamed(r).head # shownAs(Renamed(r).name)
  <2>1. r \in Rows
    OBVIOUS
  <2>2. CASE Renamed(r) = r
    <3>1. r.account \in accounts /\ r.head = shownAs(r.name) => r.name = "current"
      <4>1. ASSUME r.account \in accounts, r.head = shownAs(r.name), r.name # "current" PROVE FALSE
        <5>1. r.name = "none" \/ r.name \in superseded
          BY <2>1, <4>1 DEF Rows, Names, superseded
        <5>2. Renamed(r) = [account |-> r.account, name |-> "current", head |-> "current",
                             kept |-> IF r.kept = <<>> THEN <<r.name, r.head>> ELSE r.kept]
          BY <4>1, <5>1
        <5>3. Renamed(r).name = "current"
          BY <2>1, <5>2 DEF Rows
        <5> QED BY <2>2, <4>1, <5>3
      <4> QED BY <4>1
    <3> QED BY <2>1, <2>2, <3>1
  <2>3. CASE Renamed(r) # r
    <3>1. Renamed(r) = [account |-> r.account, name |-> "current", head |-> "current",
                         kept |-> IF r.kept = <<>> THEN <<r.name, r.head>> ELSE r.kept]
      BY <2>3
    <3>2. <<r.name, r.head>> \in Names \X Heads
      BY <2>1 DEF Rows
    <3>3. Renamed(r) \in Rows /\ Renamed(r).account = r.account /\ Renamed(r).name = "current"
      BY <2>1, <3>1, <3>2 DEF Rows, Names, Heads
    <3> QED BY <3>3
  <2> QED BY <2>2, <2>3
<1> HIDE DEF Renamed
<1> QED BY <1>1, <1>2

(* An access adds a row under its token's name, or puts a row under it. *)
LEMMA AccessedRows ==
    ASSUME RepairTypeOK, NEW t \in repairTokens, RecordAccess(t)
    PROVE  /\ repairRows' \subseteq Rows
           /\ \A r \in repairRows' : r \in repairRows \/
                 /\ r.account = t.account
                 /\ t.name = "current" => r.name = "current"
<1>1. t \in Tokens /\ shownAs(t.name) \in Heads
  BY DEF RepairTypeOK, Tokens, Names, Heads, shownAs
<1>2. CASE repairRows' = repairRows \cup
             {[account |-> t.account, name |-> t.name, head |-> shownAs(t.name), kept |-> <<>>]}
  BY <1>1, <1>2 DEF RepairTypeOK, Tokens, Rows
<1>3. ASSUME NEW r \in repairRows, r.account = t.account,
             repairRows' = (repairRows \ {r}) \cup
                {[r EXCEPT !.name = IF t.name = "none" THEN @ ELSE t.name, !.head = shownAs(t.name)]}
      PROVE  /\ repairRows' \subseteq Rows
             /\ \A q \in repairRows' : q \in repairRows \/
                   /\ q.account = t.account
                   /\ t.name = "current" => q.name = "current"
  <2> DEFINE n == IF t.name = "none" THEN r.name ELSE t.name
             q == [r EXCEPT !.name = n, !.head = shownAs(t.name)]
  <2>1. r \in Rows /\ n \in Names
    BY <1>1 DEF RepairTypeOK, Rows, Tokens
  <2>2. q \in Rows /\ q.account = r.account /\ q.name = n
    <3> HIDE DEF n
    <3> QED BY <1>1, <2>1 DEF Rows
  <2>3. t.name = "current" => n = "current"
    OBVIOUS
  <2>4. repairRows' = (repairRows \ {r}) \cup {q}
    BY <1>3
  <2> HIDE DEF n, q
  <2> QED BY <1>3, <2>2, <2>3, <2>4 DEF RepairTypeOK
<1> QED BY <1>2, <1>3 DEF RecordAccess

-----------------------------------------------------------------------------
(* Steps of a server, and steps beside it. *)

(* What stays as it is, or only closer to repaired, whatever a step does: no
   connection is in use that was not, none loses its name, and the tokens of
   named connections that appear are under their current name. *)
Closer ==
    /\ \A a \in RepairAccounts : is_live(a)' => is_live(a)
    /\ \A a \in RepairAccounts : repairNamed[a] = "display" => repairNamed'[a] = "display"
    /\ \A t \in repairTokens' : t \in repairTokens \/
          (repairNamed[t.account] = "display" => t.name = "current")

(* A repaired trail stays repaired. *)
LEMMA RepairedStays ==
    ASSUME RepairTypeOK, RepairTypeOK', Closer, Repaired,
           \A r \in repairRows' : r \in repairRows \/ (is_live(r.account) => r.name = "current")
    PROVE  Repaired'
<1>1. EveryoneNamed'
  BY DEF Closer, Repaired, EveryoneNamed, is_live
<1>2. NoOldTokens'
  <2>1. ASSUME NEW t \in repairTokens', is_live(t.account)' PROVE t.name = "current"
    <3>1. t.account \in RepairAccounts
      BY DEF RepairTypeOK, Tokens
    <3>2. is_live(t.account) /\ repairNamed[t.account] = "display"
      BY <2>1, <3>1 DEF Closer, Repaired, EveryoneNamed
    <3> QED BY <2>1, <3>2 DEF Closer, Repaired, NoOldTokens
  <2> QED BY <2>1 DEF NoOldTokens, is_live
<1>3. TrailNamed'
  <2>1. ASSUME NEW r \in repairRows', is_live(r.account)'
        PROVE  r.name = "current" \/ r.head # shownAs(r.name)
    <3>1. r.account \in RepairAccounts
      BY DEF RepairTypeOK, Rows
    <3>2. is_live(r.account)
      BY <2>1, <3>1 DEF Closer
    <3> QED BY <2>1, <3>2 DEF Repaired, TrailNamed
  <2> QED BY <2>1 DEF TrailNamed, is_live
<1> QED BY <1>1, <1>2, <1>3 DEF Repaired

(* So does what a server has achieved, while its own step stays what it is. *)
LEMMA ProgressStays ==
    ASSUME RepairTypeOK, RepairTypeOK', Closer, NEW s \in RepairServers, Progress(s),
           repairStep'[s] = repairStep[s], Repaired => Repaired'
    PROVE  Progress(s)'
<1> DEFINE step == repairStep[s]
<1>1. EveryoneNamed => EveryoneNamed'
  BY DEF Closer, EveryoneNamed, is_live
<1>2. ASSUME EveryoneNamed, OldTokensEndBefore(step.wake)
      PROVE  \A t \in repairTokens' : is_live(t.account)' /\ t.name # "current" => t.until < step.wake
  <2>1. ASSUME NEW t \in repairTokens', is_live(t.account)', t.name # "current"
        PROVE  t.until < step.wake
    <3>1. t.account \in RepairAccounts
      BY DEF RepairTypeOK, Tokens
    <3>2. is_live(t.account) /\ repairNamed[t.account] = "display"
      BY <1>2, <2>1, <3>1 DEF Closer, EveryoneNamed
    <3> QED BY <1>2, <2>1, <3>2 DEF Closer, OldTokensEndBefore
  <2> QED BY <2>1
<1>3. (\A a \in RepairAccounts : is_live(a) => repairNamed[a] = "display" \/ a \in step.left)
         => \A a \in RepairAccounts : is_live(a)' => repairNamed'[a] = "display" \/ a \in step.left
  BY DEF Closer
<1>4. repairStep'[s] = step
  OBVIOUS
<1> HIDE DEF step
<1>5. /\ step.at = "naming" /\ step.named =>
           \A a \in RepairAccounts : is_live(a) => repairNamed[a] = "display" \/ a \in step.left
      /\ step.at = "sleeping" /\ step.named => EveryoneNamed /\ OldTokensEndBefore(step.wake)
      /\ step.at = "completing" => Repaired
  BY DEF Progress, step
<1> QED BY <1>1, <1>2, <1>3, <1>4, <1>5 DEF Progress, OldTokensEndBefore, is_live

-----------------------------------------------------------------------------
(* The inductive step, for what happens beside the servers and for a server. *)

(* A step that no server takes. *)
LEMMA StepBeside ==
    ASSUME RepairInv, RepairTypeOK', Closer, TokensEnd',
           \A t \in repairTokens' : repairClock' <= t.until,
           \A r \in repairRows' : r \in repairRows \/ (is_live(r.account) => r.name = "current")
                                \/ ~ Repaired,
           UNCHANGED <<repairStep, repairDone>>
    PROVE  RepairInv'
<1>1. Repaired => Repaired'
  BY RepairedStays DEF RepairInv
<1>2. ASSUME NEW s \in RepairServers PROVE Progress(s)'
  BY <1>1, ProgressStays DEF RepairInv
<1> QED BY <1>1, <1>2 DEF RepairInv

(* A step of server s, which keeps every connection and token as it is. *)
LEMMA StepOfServer ==
    ASSUME RepairInv, RepairTypeOK', NEW s \in RepairServers,
           UNCHANGED <<repairClock, repairConn, repairTokens>>,
           \A u \in RepairServers : u # s => repairStep'[u] = repairStep[u],
           \A a \in RepairAccounts : repairNamed[a] = "display" => repairNamed'[a] = "display",
           \A r \in repairRows' : r \in repairRows \/ r.name = "current",
           Progress(s)', repairDone' => repairDone \/ Repaired
    PROVE  RepairInv'
<1>1. Closer
  BY DEF Closer, is_live
<1>2. Repaired => Repaired'
  BY <1>1, RepairedStays DEF RepairInv
<1>3. ASSUME NEW u \in RepairServers PROVE Progress(u)'
  <2>1. CASE u = s
    BY <2>1
  <2>2. CASE u # s
    BY <1>1, <1>2, <2>2, ProgressStays DEF RepairInv
  <2> QED BY <2>1, <2>2
<1>4. TokensEnd' /\ \A t \in repairTokens' : repairClock' <= t.until
  BY DEF RepairInv, TokensEnd
<1> QED BY <1>2, <1>3, <1>4 DEF RepairInv

-----------------------------------------------------------------------------
(* One lemma per action. *)

(* A server that is off is at a step. *)
LEMMA AsleepIsAStep == Asleep \in Steps /\ Asleep.at = "off" /\ Asleep.left = {} /\ Asleep.wake = 0
BY DEF Asleep, Steps

(* Nothing is repaired at first, and nothing is claimed. *)
LEMMA InitRepaired == RepairInit => RepairInv
<1> SUFFICES ASSUME RepairInit PROVE RepairInv
  OBVIOUS
<1>1. RepairTypeOK
  BY AsleepIsAStep DEF RepairInit, RepairTypeOK
<1>2. ASSUME NEW s \in RepairServers PROVE Progress(s)
  BY AsleepIsAStep DEF RepairInit, Progress
<1>3. TokensEnd /\ (\A t \in repairTokens : repairClock <= t.until) /\ ~ repairDone
  BY DEF RepairInit, TokensEnd
<1> QED BY <1>1, <1>2, <1>3 DEF RepairInv

(* Time passes, and tokens end. *)
LEMMA TickKeeps == ASSUME RepairInv, RepairTick PROVE RepairInv'
<1>1. RepairTypeOK' /\ UNCHANGED <<repairStep, repairDone>>
  BY DEF RepairInv, RepairTypeOK, RepairTick
<1>2. Closer
  BY DEF RepairTick, Closer, is_live
<1>3. TokensEnd'
  <2>1. ASSUME NEW t \in repairTokens' PROVE t.until <= repairClock' + TokenLifetime + ClockLeeway
    <3>1. t \in repairTokens /\ t.until \in Nat
      BY DEF RepairTick, RepairInv, RepairTypeOK, Tokens
    <3>2. t.until <= repairClock + TokenLifetime + ClockLeeway
      BY <3>1 DEF RepairInv, TokensEnd
    <3> QED BY <3>1, <3>2, RepairDelayOutlivesTokens DEF RepairTick, RepairInv, RepairTypeOK
  <2> QED BY <2>1 DEF TokensEnd
<1>4. \A t \in repairTokens' : repairClock' <= t.until
  <2>1. ASSUME NEW t \in repairTokens' PROVE repairClock' <= t.until
    <3>1. t.until \in Nat /\ t.until >= repairClock'
      BY DEF RepairTick, RepairInv, RepairTypeOK, Tokens
    <3> QED BY <1>1, <3>1 DEF RepairTypeOK
  <2> QED BY <2>1
<1>5. repairRows' = repairRows
  BY DEF RepairTick
<1> QED BY <1>1, <1>2, <1>3, <1>4, <1>5, StepBeside

(* A token is minted under the name the account has now. *)
LEMMA MintKeeps ==
    ASSUME RepairInv, NEW a \in RepairAccounts, NEW name \in Names, MintToken(a, name)
    PROVE  RepairInv'
<1> DEFINE until == repairClock + TokenLifetime + ClockLeeway
           token == [account |-> a, name |-> name, until |-> until]
<1>1. until \in Nat /\ repairClock <= until
  BY RepairDelayOutlivesTokens DEF RepairInv, RepairTypeOK
<1>2. repairTokens' = repairTokens \cup {token}
  BY DEF MintToken
<1>3. token \in Tokens /\ token.account = a /\ token.name = name /\ token.until = until
  <2> HIDE DEF until
  <2> QED BY <1>1 DEF Tokens
<1>4. UNCHANGED <<repairClock, repairConn, repairNamed, repairRows, repairStep, repairDone>>
  BY DEF MintToken
<1>5. repairNamed[a] = "display" => name = "current"
  BY DEF MintToken
<1>6. \A t \in repairTokens' : t \in Tokens /\ t.until <= until /\ repairClock <= t.until
  <2>1. ASSUME NEW t \in repairTokens PROVE t \in Tokens /\ t.until <= until /\ repairClock <= t.until
    BY DEF RepairInv, RepairTypeOK, TokensEnd
  <2> HIDE DEF until, token
  <2>2. until <= until
    BY <1>1
  <2> QED BY <1>1, <1>2, <1>3, <2>1, <2>2
<1>7. Closer
  <2> HIDE DEF token
  <2> QED BY <1>2, <1>3, <1>4, <1>5 DEF Closer, is_live
<1>8. RepairTypeOK'
  BY <1>4, <1>6 DEF RepairInv, RepairTypeOK
<1>9. TokensEnd' /\ \A t \in repairTokens' : repairClock' <= t.until
  BY <1>4, <1>6 DEF TokensEnd
<1> QED BY <1>4, <1>7, <1>8, <1>9, StepBeside

(* An access is recorded under its token's name; when all is repaired, a current one. *)
LEMMA AccessKeeps ==
    ASSUME RepairInv, NEW t \in repairTokens, RecordAccess(t) PROVE RepairInv'
<1>1. UNCHANGED <<repairClock, repairConn, repairNamed, repairTokens, repairStep, repairDone>>
  BY DEF RecordAccess
<1>2. /\ repairRows' \subseteq Rows
      /\ \A r \in repairRows' : r \in repairRows \/
            (r.account = t.account /\ (t.name = "current" => r.name = "current"))
  BY AccessedRows DEF RepairInv
<1>3. RepairTypeOK' /\ TokensEnd' /\ (\A u \in repairTokens' : repairClock' <= u.until) /\ Closer
  BY <1>1, <1>2 DEF RepairInv, RepairTypeOK, TokensEnd, Closer, is_live
<1>4. Repaired /\ is_live(t.account) => t.name = "current"
  BY DEF Repaired, NoOldTokens
<1> QED BY <1>1, <1>2, <1>3, <1>4, StepBeside

(* A connection goes out of use. *)
LEMMA RevokeKeeps ==
    ASSUME RepairInv, NEW a \in RepairAccounts, RevokeConnection(a) PROVE RepairInv'
<1>1. UNCHANGED <<repairClock, repairNamed, repairTokens, repairRows, repairStep, repairDone>>
  BY DEF RevokeConnection
<1>2. /\ repairConn' \in [RepairAccounts -> {"live", "revoking", "gone"}]
      /\ \A b \in RepairAccounts : repairConn'[b] = "live" => repairConn[b] = "live"
  BY DEF RepairInv, RepairTypeOK, RevokeConnection
<1>3. RepairTypeOK' /\ TokensEnd' /\ (\A u \in repairTokens' : repairClock' <= u.until) /\ Closer
  BY <1>1, <1>2 DEF RepairInv, RepairTypeOK, TokensEnd, Closer, is_live
<1> QED BY <1>1, <1>3, StepBeside

(* What Go does to the servers. *)
LEMMA Gone ==
    ASSUME RepairTypeOK, NEW s \in RepairServers, NEW step \in Steps, Go(s, step)
    PROVE  /\ repairStep' \in [RepairServers -> Steps]
           /\ repairStep'[s] = step
           /\ \A u \in RepairServers : u # s => repairStep'[u] = repairStep[u]
           /\ UNCHANGED <<repairClock, repairConn, repairTokens>>
BY DEF RepairTypeOK, Go

(* A server that ends its repair, or stops, has nothing more to show for it. *)
LEMMA EndingKeeps ==
    ASSUME RepairInv, NEW s \in RepairServers, NEW step \in Steps, Go(s, step),
           step.at \in {"off", "ended"},
           UNCHANGED repairNamed, repairRows' \subseteq Rows,
           \A r \in repairRows' : r \in repairRows \/ r.name = "current",
           repairDone' \in BOOLEAN, repairDone' => repairDone \/ Repaired
    PROVE  RepairInv'
<1>1. RepairTypeOK
  BY DEF RepairInv
<1>2. RepairTypeOK'
  BY <1>1, Gone DEF RepairTypeOK
<1>3. Progress(s)'
  BY <1>1, Gone DEF Progress
<1> QED BY <1>1, <1>2, <1>3, Gone, StepOfServer

(* The accounts to name are the connections in use, or the listing failed. *)
LEMMA ListingKeeps ==
    ASSUME RepairInv, NEW s \in RepairServers, repair_actor_names(s) PROVE RepairInv'
<1> DEFINE live == {a \in list_accounts : is_live(a)}
           step(left, named) == [at |-> "naming", left |-> left, named |-> named, wake |-> 0]
<1>1. RepairTypeOK /\ live \subseteq RepairAccounts
  BY DEF RepairInv, list_accounts
<1>2. \A a \in RepairAccounts : is_live(a) => a \in live
  BY DEF list_accounts, is_live
<1>3. PICK left \in SUBSET RepairAccounts, named \in BOOLEAN :
         Go(s, step(left, named)) /\ (named => left = live)
  BY <1>1 DEF repair_actor_names
<1>4. step(left, named) \in Steps
  BY DEF Steps
<1>5. UNCHANGED <<repairNamed, repairRows, repairDone>>
  BY DEF repair_actor_names
<1>6. step(left, named).at = "naming" /\ step(left, named).named = named /\ step(left, named).left = left
  OBVIOUS
<1> HIDE DEF live, step
<1>7. /\ repairStep' \in [RepairServers -> Steps]
      /\ repairStep'[s] = step(left, named)
      /\ \A u \in RepairServers : u # s => repairStep'[u] = repairStep[u]
      /\ UNCHANGED <<repairClock, repairConn, repairTokens>>
  BY <1>1, <1>3, <1>4, Gone
<1>8. RepairTypeOK'
  BY <1>1, <1>5, <1>7 DEF RepairTypeOK
<1>9. Progress(s)'
  BY <1>2, <1>3, <1>6, <1>7 DEF Progress, is_live
<1> QED BY <1>5, <1>7, <1>8, <1>9, StepOfServer

(* A naming step whose account could not be named. *)
LEMMA UnnamedStep ==
    ASSUME NEW at, NEW left, NEW named, NEW wake, NEW now
    PROVE  [[at |-> at, left |-> left, named |-> named, wake |-> wake] EXCEPT !.named = now]
              = [at |-> at, left |-> left, named |-> now, wake |-> wake]
OBVIOUS

(* Naming an account, which is all that can take it off the list. *)
LEMMA NamingKeeps ==
    ASSUME RepairInv, NEW s \in RepairServers, NEW a \in RepairAccounts, rename_account(s, a)
    PROVE  RepairInv'
<1> DEFINE old == repairStep[s]
           step(named) == [at |-> "naming", left |-> old.left \ {a}, named |-> named, wake |-> old.wake]
<1>1. RepairTypeOK /\ old \in Steps /\ old.at = "naming" /\ a \in old.left
  BY DEF RepairInv, RepairTypeOK, rename_account
<1>2. /\ [old EXCEPT !.left = @ \ {a}] = step(old.named)
      /\ [[old EXCEPT !.left = @ \ {a}] EXCEPT !.named = FALSE] = step(FALSE)
  <2>1. [old EXCEPT !.left = @ \ {a}] = step(old.named)
    BY <1>1 DEF Steps
  <2>2. [step(old.named) EXCEPT !.named = FALSE] = step(FALSE)
    <3>1. \A now : [step(old.named) EXCEPT !.named = now] = step(now)
      BY UnnamedStep
    <3> HIDE DEF step
    <3> QED BY <3>1, Zenon
  <2> QED BY <2>1, <2>2
<1>3. PICK named \in BOOLEAN :
         /\ Go(s, step(named))
         /\ named => /\ old.named
                     /\ repairNamed'[a] = "display" \/ ~ is_live(a)
         /\ repairNamed' \in [RepairAccounts -> {"username", "display"}]
         /\ \A b \in RepairAccounts : repairNamed[b] = "display" => repairNamed'[b] = "display"
  <2>1. CASE /\ repairNamed' = [repairNamed EXCEPT ![a] = "display"]
             /\ Go(s, [old EXCEPT !.left = @ \ {a}])
    <3>1. old.named \in BOOLEAN
      BY <1>1 DEF Steps
    <3>2. /\ repairNamed'[a] = "display"
          /\ repairNamed' \in [RepairAccounts -> {"username", "display"}]
          /\ \A b \in RepairAccounts : repairNamed[b] = "display" => repairNamed'[b] = "display"
      BY <1>1, <2>1 DEF RepairTypeOK
    <3>3. Go(s, step(old.named))
      BY <1>2, <2>1
    <3> HIDE DEF step
    <3> QED BY <3>1, <3>2, <3>3
  <2>2. CASE repairConn[a] # "live" /\ Go(s, [old EXCEPT !.left = @ \ {a}]) /\ UNCHANGED repairNamed
    <3>1. old.named \in BOOLEAN
      BY <1>1 DEF Steps
    <3>2. Go(s, step(old.named)) /\ ~ is_live(a)
      BY <1>2, <2>2 DEF is_live
    <3> HIDE DEF step
    <3> QED BY <1>1, <2>2, <3>1, <3>2 DEF RepairTypeOK
  <2>3. CASE Go(s, [[old EXCEPT !.left = @ \ {a}] EXCEPT !.named = FALSE]) /\ UNCHANGED repairNamed
    <3>1. Go(s, step(FALSE))
      BY <1>2, <2>3
    <3> HIDE DEF step
    <3> QED BY <1>1, <2>3, <3>1 DEF RepairTypeOK
  <2> QED BY <2>1, <2>2, <2>3 DEF rename_account
<1>4. step(named) \in Steps
  BY <1>1 DEF Steps
<1>5. UNCHANGED <<repairRows, repairDone>>
  BY DEF rename_account
<1>6. step(named).at = "naming" /\ step(named).named = named /\ step(named).left = old.left \ {a}
  OBVIOUS
<1> HIDE DEF step
<1>7. /\ repairStep' \in [RepairServers -> Steps]
      /\ repairStep'[s] = step(named)
      /\ \A u \in RepairServers : u # s => repairStep'[u] = repairStep[u]
      /\ UNCHANGED <<repairClock, repairConn, repairTokens>>
  BY <1>1, <1>3, <1>4, Gone
<1>8. RepairTypeOK'
  BY <1>1, <1>3, <1>5, <1>7 DEF RepairTypeOK
<1>9. Progress(s)'
  <2>1. old.named => \A b \in RepairAccounts : is_live(b) => repairNamed[b] = "display" \/ b \in old.left
    BY <1>1 DEF RepairInv, Progress
  <2> HIDE DEF old
  <2>2. named => \A b \in RepairAccounts :
           is_live(b)' => repairNamed'[b] = "display" \/ b \in old.left \ {a}
    BY <1>3, <1>7, <2>1 DEF is_live
  <2> QED BY <1>6, <1>7, <2>2 DEF Progress, is_live
<1> QED BY <1>3, <1>5, <1>7, <1>8, <1>9, StepOfServer

(* The wait begins: every token under an old name ends before it does. *)
LEMMA SleepKeeps ==
    ASSUME RepairInv, NEW s \in RepairServers, Sleep(s) PROVE RepairInv'
<1> DEFINE old == repairStep[s]
           wake == repairClock + TRAIL_REPAIR_DELAY
           step == [at |-> "sleeping", left |-> old.left, named |-> old.named, wake |-> wake]
<1>1. RepairTypeOK /\ old \in Steps /\ old.at = "naming" /\ old.left = {}
  BY DEF RepairInv, RepairTypeOK, Sleep
<1>2. wake \in Nat
  BY <1>1, RepairDelayOutlivesTokens DEF RepairTypeOK
<1>3. step \in Steps /\ step.at = "sleeping" /\ step.named = old.named /\ step.wake = wake
  <2> HIDE DEF wake
  <2> QED BY <1>1, <1>2 DEF Steps
<1>4. Go(s, step)
  <2>1. [[old EXCEPT !.at = "sleeping"] EXCEPT !.wake = wake] = step
    <3>1. [old EXCEPT !.at = "sleeping"]
             = [at |-> "sleeping", left |-> old.left, named |-> old.named, wake |-> old.wake]
      BY <1>1 DEF Steps
    <3>2. \A at, left, named, before, after :
             [[at |-> at, left |-> left, named |-> named, wake |-> before] EXCEPT !.wake = after]
                = [at |-> at, left |-> left, named |-> named, wake |-> after]
      OBVIOUS
    <3> HIDE DEF wake, old
    <3>3. [[at |-> "sleeping", left |-> old.left, named |-> old.named, wake |-> old.wake]
              EXCEPT !.wake = wake] = step
      BY <3>2
    <3> HIDE DEF step
    <3> QED BY <3>1, <3>3, Zenon
  <2> QED BY <2>1 DEF Sleep
<1>5. UNCHANGED <<repairNamed, repairRows, repairDone>>
  BY DEF Sleep
<1>6. \A t \in repairTokens : t.until < wake
  <2>1. ASSUME NEW t \in repairTokens PROVE t.until < wake
    <3>1. t.until \in Nat /\ t.until <= repairClock + TokenLifetime + ClockLeeway
      BY DEF RepairInv, RepairTypeOK, Tokens, TokensEnd
    <3> QED BY <1>1, <3>1, RepairDelayOutlivesTokens DEF RepairTypeOK
  <2> QED BY <2>1
<1>7. old.named => EveryoneNamed
  BY <1>1 DEF RepairInv, Progress, EveryoneNamed
<1> HIDE DEF step, old, wake
<1>8. /\ repairStep' \in [RepairServers -> Steps]
      /\ repairStep'[s] = step
      /\ \A u \in RepairServers : u # s => repairStep'[u] = repairStep[u]
      /\ UNCHANGED <<repairClock, repairConn, repairTokens>>
  BY <1>1, <1>3, <1>4, Gone
<1>9. RepairTypeOK'
  BY <1>1, <1>5, <1>8 DEF RepairTypeOK
<1>10. old.named => EveryoneNamed'
  BY <1>5, <1>7, <1>8 DEF EveryoneNamed, is_live
<1>11. Progress(s)'
  BY <1>3, <1>6, <1>8, <1>10 DEF Progress, OldTokensEndBefore
<1> QED BY <1>5, <1>8, <1>9, <1>11, StepOfServer

(* The wait is over: no token under an old name is left, and the trail is named. *)
LEMMA TrailKeeps ==
    ASSUME RepairInv, NEW s \in RepairServers, rename_actors_in_trail(s) PROVE RepairInv'
<1> DEFINE old == repairStep[s]
           ended == [Asleep EXCEPT !.at = "ended"]
           step == [at |-> "completing", left |-> old.left, named |-> old.named, wake |-> old.wake]
<1>1. /\ RepairTypeOK /\ old \in Steps /\ old.at = "sleeping" /\ repairClock >= old.wake
      /\ repairDone \in BOOLEAN
  BY DEF RepairInv, RepairTypeOK, rename_actors_in_trail, Awake
<1>2. ended \in Steps /\ ended.at = "ended"
  BY DEF Asleep, Steps
<1>3. UNCHANGED <<repairNamed, repairDone>>
  BY DEF rename_actors_in_trail
<1>4. CASE Go(s, ended) /\ UNCHANGED repairRows
  <2> HIDE DEF ended
  <2>1. repairRows' \subseteq Rows
    BY <1>1, <1>4 DEF RepairTypeOK
  <2> QED BY <1>1, <1>2, <1>3, <1>4, <2>1, EndingKeeps
<1>5. ASSUME repairRows' = rename_actors(repairRows, list_accounts)
      PROVE  /\ repairRows' \subseteq Rows
             /\ \A r \in repairRows' : r \in repairRows \/ r.name = "current"
             /\ \A r \in repairRows' : is_live(r.account) => r.name = "current" \/ r.head # shownAs(r.name)
  <2>1. repairRows \in SUBSET Rows
    BY <1>1 DEF RepairTypeOK
  <2>2. /\ repairRows' \subseteq Rows
        /\ \A r \in repairRows' : r \in repairRows \/ r.name = "current"
        /\ \A r \in repairRows' : r.account \in list_accounts =>
              r.name = "current" \/ r.head # shownAs(r.name)
    BY <1>5, <2>1, RenamedRows
  <2>3. \A r \in repairRows' : is_live(r.account) => r.account \in list_accounts
    BY <2>2 DEF Rows, list_accounts, is_live
  <2> QED BY <2>2, <2>3
<1>6. CASE repairRows' = rename_actors(repairRows, list_accounts) /\ ~ old.named /\ Go(s, ended)
  <2> HIDE DEF ended
  <2> QED BY <1>1, <1>2, <1>3, <1>5, <1>6, EndingKeeps
<1>7. CASE /\ repairRows' = rename_actors(repairRows, list_accounts)
           /\ old.named /\ Go(s, [old EXCEPT !.at = "completing"])
  <2>1. step \in Steps /\ step.at = "completing" /\ [old EXCEPT !.at = "completing"] = step
    BY <1>1 DEF Steps
  <2>2. EveryoneNamed /\ OldTokensEndBefore(old.wake)
    BY <1>1, <1>7 DEF RepairInv, Progress
  <2>3. NoOldTokens
    <3>1. ASSUME NEW t \in repairTokens, is_live(t.account), t.name # "current" PROVE FALSE
      <4>1. t.until < old.wake /\ repairClock <= t.until
        BY <2>2, <3>1 DEF OldTokensEndBefore, RepairInv
      <4>2. t.until \in Nat /\ old.wake \in Nat /\ repairClock \in Nat
        BY <1>1 DEF RepairTypeOK, Tokens, Steps
      <4> QED BY <1>1, <4>1, <4>2
    <3> QED BY <3>1 DEF NoOldTokens
  <2> HIDE DEF step, old
  <2>4. Go(s, step)
    BY <1>7, <2>1
  <2>5. /\ repairStep' \in [RepairServers -> Steps]
        /\ repairStep'[s] = step
        /\ \A u \in RepairServers : u # s => repairStep'[u] = repairStep[u]
        /\ UNCHANGED <<repairClock, repairConn, repairTokens>>
    BY <1>1, <2>1, <2>4, Gone
  <2>6. Repaired'
    BY <1>3, <1>5, <1>7, <2>2, <2>3, <2>5 DEF Repaired, EveryoneNamed, NoOldTokens, TrailNamed, is_live
  <2>7. Progress(s)'
    BY <2>1, <2>5, <2>6 DEF Progress
  <2>8. RepairTypeOK'
    BY <1>1, <1>3, <1>5, <1>7, <2>5 DEF RepairTypeOK
  <2> QED BY <1>3, <1>5, <1>7, <2>5, <2>7, <2>8, StepOfServer
<1> QED BY <1>4, <1>6, <1>7 DEF rename_actors_in_trail

(* The repair is recorded as complete by a server that has completed it. *)
LEMMA CompletingKeeps ==
    ASSUME RepairInv, NEW s \in RepairServers, complete_name_repair(s) PROVE RepairInv'
<1> DEFINE ended == [Asleep EXCEPT !.at = "ended"]
<1>1. ended \in Steps /\ ended.at = "ended"
  BY DEF Asleep, Steps
<1>2. repairDone' \in BOOLEAN /\ repairRows' = repairRows /\ repairNamed' = repairNamed
  BY DEF complete_name_repair, RepairInv, RepairTypeOK
<1>3. Repaired
  BY DEF complete_name_repair, RepairInv, Progress
<1>4. Go(s, ended)
  BY DEF complete_name_repair
<1> HIDE DEF ended
<1> QED BY <1>1, <1>2, <1>3, <1>4, EndingKeeps DEF RepairInv, RepairTypeOK

(* A server stops, and claims nothing. *)
LEMMA RestartKeeps ==
    ASSUME RepairInv, NEW s \in RepairServers, Restart(s) PROVE RepairInv'
<1>1. Go(s, Asleep) /\ UNCHANGED <<repairNamed, repairRows, repairDone>>
  BY DEF Restart
<1>2. repairRows' \subseteq Rows /\ repairDone' \in BOOLEAN
  BY <1>1 DEF RepairInv, RepairTypeOK
<1> QED BY <1>1, <1>2, AsleepIsAStep, EndingKeeps

-----------------------------------------------------------------------------
(* RepairInv is kept by every step: of the clock, the tokens and the connections
   in use, and of each server's repair. *)
LEMMA RepairKeeps == RepairInv /\ [RepairNext]_repairVars => RepairInv'
<1> SUFFICES ASSUME RepairInv, [RepairNext]_repairVars PROVE RepairInv'
  OBVIOUS
<1>1. CASE RepairTick
  BY <1>1, TickKeeps
<1>2. CASE \E a \in RepairAccounts : \E name \in Names : MintToken(a, name)
  BY <1>2, MintKeeps
<1>3. CASE \E t \in repairTokens : RecordAccess(t)
  BY <1>3, AccessKeeps
<1>4. CASE \E a \in RepairAccounts : RevokeConnection(a)
  BY <1>4, RevokeKeeps
<1>5. ASSUME NEW s \in RepairServers PROVE
         /\ repair_actor_names(s) => RepairInv'
         /\ (\E a \in RepairAccounts : rename_account(s, a)) => RepairInv'
         /\ Sleep(s) => RepairInv'
         /\ rename_actors_in_trail(s) => RepairInv'
         /\ complete_name_repair(s) => RepairInv'
         /\ Restart(s) => RepairInv'
  BY ListingKeeps, NamingKeeps, SleepKeeps, TrailKeeps, CompletingKeeps, RestartKeeps
<1>6. CASE UNCHANGED repairVars
  <2>1. RepairTypeOK' /\ TokensEnd' /\ (\A t \in repairTokens' : repairClock' <= t.until) /\ Closer
    BY <1>6 DEF repairVars, RepairInv, RepairTypeOK, TokensEnd, Closer, is_live
  <2>2. repairRows' = repairRows /\ UNCHANGED <<repairStep, repairDone>>
    BY <1>6 DEF repairVars
  <2> QED BY <2>1, <2>2, StepBeside
<1> QED BY <1>1, <1>2, <1>3, <1>4, <1>5, <1>6 DEF RepairNext, Names

(* Once the repair of the names is recorded as complete, no event of a connection
   in use is under a name that its account has stopped carrying, whatever fails,
   restarts or runs beside it, for any number of servers and connections and any
   delay longer than a token lives: repair_actor_names and TRAIL_REPAIR_DELAY. *)
THEOREM RepairCorrect == RepairSpec => []CompletedRepairNamesEveryone
<1>1. RepairInv => CompletedRepairNamesEveryone
  BY DEF RepairInv, Repaired, TrailNamed, CompletedRepairNamesEveryone
<1> QED BY <1>1, InitRepaired, RepairKeeps, PTL DEF RepairSpec
=============================================================================
