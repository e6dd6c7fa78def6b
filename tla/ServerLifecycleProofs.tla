------------------------ MODULE ServerLifecycleProofs ------------------------
(***************************************************************************)
(* That a serving replica reveals what was written, for any number of      *)
(* replicas, keys, secrets and texts.                                      *)
(***************************************************************************)
EXTENDS ServerLifecycle, FiniteSetTheorems, TLAPS

Stages == {"off", "configured", "connected", "locked", "read", "sealed", "serving"}

Texts == LifeTexts \cup {"none"}

(* No text is in more than one envelope. *)
Representations == [layers : {0, 1}, key : LifeKeys \cup {"none", "damaged"},
                    bound : LifeRows \cup {"none"}, text : Texts]

LifeTypeOK ==
    /\ lifeRows \in [LifeRows -> Representations]
    /\ lifeWritten \in [LifeRows -> Texts]
    /\ lifeStage \in [LifeServers -> Stages]
    /\ lifeKey \in [LifeServers -> LifeKeys \cup {"none"}]
    /\ lifeRead \in [LifeServers -> [LifeRows -> Representations] \cup {<<>>}]
    /\ lifeLock \in LifeServers \cup {NoServer}
    /\ lifeExposed \in SUBSET LifeRows

Plain(stored) == stored # Absent /\ ~ is_envelope(stored)

Whole(stored) == is_envelope(stored) /\ stored.key # "damaged"

(* A row holds the text last written to it, unless it is exposed, and an envelope
   is its own. *)
RowsHoldTheirTexts ==
    \A r \in LifeRows : /\ r \notin lifeExposed => lifeRows[r].text = lifeWritten[r]
                        /\ is_envelope(lifeRows[r]) => lifeRows[r].bound = r

OneKey(rows) ==
    \A r, q \in LifeRows : Whole(rows[r]) /\ Whole(rows[q]) => rows[r].key = rows[q].key

(* Servers that run share one key. *)
OneEnvironment ==
    /\ \A s \in LifeServers : lifeStage[s] # "off" => lifeKey[s] \in LifeKeys
    /\ \A s, t \in LifeServers :
          lifeStage[s] # "off" /\ lifeStage[t] # "off" => lifeKey[s] = lifeKey[t]

PassesExclude == \A s \in LifeServers : lifeStage[s] \in {"locked", "read"} => lifeLock = s

(* Nothing is left in plaintext, unless it is exposed, or under another key. *)
AllSealed(key) ==
    \A r \in LifeRows : /\ r \notin lifeExposed => ~ Plain(lifeRows[r])
                        /\ Whole(lifeRows[r]) => lifeRows[r].key = key

PassesSeal == \A s \in LifeServers : lifeStage[s] \in {"sealed", "serving"} => AllSealed(lifeKey[s])

(* What a pass has read is still there where it is going to be overwritten. *)
StillRead(read, key) ==
    /\ read \in [LifeRows -> Representations]
    /\ OneKey(read)
    /\ \A r \in LifeRows :
          /\ Plain(read[r]) /\ r \notin lifeExposed => lifeRows[r] = read[r]
          /\ Plain(lifeRows[r]) /\ r \notin lifeExposed => Plain(read[r])
          /\ Whole(lifeRows[r]) =>
                lifeRows[r].key = key \/ (Whole(read[r]) /\ read[r].key = lifeRows[r].key)

ReadsLast == \A s \in LifeServers : lifeStage[s] = "read" => StillRead(lifeRead[s], lifeKey[s])

LifeInv ==
    /\ LifeTypeOK /\ RowsHoldTheirTexts /\ OneKey(lifeRows)
    /\ OneEnvironment /\ PassesExclude /\ PassesSeal /\ ReadsLast

-----------------------------------------------------------------------------
(* Representations. *)

(* What the representations are like. *)
LEMMA Shapes ==
    /\ Absent \in Representations /\ ~ is_envelope(Absent) /\ Absent.text = "none"
    /\ \A text \in Texts : /\ Legacy(text) \in Representations /\ ~ is_envelope(Legacy(text))
                           /\ Legacy(text).text = text /\ Legacy(text).layers = 0
    /\ \A stored \in Representations : is_envelope(stored) <=> stored.layers = 1
BY DEF Absent, Legacy, is_envelope, Representations, Texts

(* Sealing plaintext makes one whole envelope, of its row and under the key. *)
LEMMA Sealing ==
    ASSUME NEW key \in LifeKeys, NEW row \in LifeRows, NEW stored \in Representations,
           ~ is_envelope(stored)
    PROVE  LET sealed == encrypt(key, row, stored)
           IN  /\ sealed \in Representations
               /\ Whole(sealed) /\ ~ Plain(sealed)
               /\ sealed.key = key /\ sealed.bound = row /\ sealed.text = stored.text
<1> DEFINE sealed == encrypt(key, row, stored)
<1>1. stored.layers = 0 /\ stored.text \in Texts
  BY DEF Representations, is_envelope
<1>2. sealed = [layers |-> 1, key |-> key, bound |-> row, text |-> stored.text]
  BY <1>1 DEF encrypt
<1>3. /\ sealed \in Representations
      /\ sealed.layers = 1 /\ sealed.key = key /\ sealed.bound = row /\ sealed.text = stored.text
  BY <1>1, <1>2 DEF Representations
<1> QED BY <1>3, LifeAssumption DEF Whole, Plain, is_envelope

(* A damaged envelope keeps its row and its text. *)
LEMMA Damaging ==
    ASSUME NEW stored \in Representations, is_envelope(stored)
    PROVE  LET damaged == [stored EXCEPT !.key = "damaged"]
           IN  /\ damaged \in Representations /\ is_envelope(damaged)
               /\ damaged.key = "damaged"
               /\ damaged.bound = stored.bound /\ damaged.text = stored.text
BY DEF Representations, is_envelope

-----------------------------------------------------------------------------
(* Steps of a server that leave what is stored alone. *)

(* What To does. *)
LEMMA ToDoes ==
    ASSUME LifeTypeOK, NEW s \in LifeServers, NEW stage \in Stages, To(s, stage)
    PROVE  /\ lifeStage' \in [LifeServers -> Stages] /\ lifeStage'[s] = stage
           /\ lifeRead' \in [LifeServers -> [LifeRows -> Representations] \cup {<<>>}]
           /\ stage = "read" => lifeRead'[s] = lifeRows
           /\ lifeLock' \in LifeServers \cup {NoServer}
           /\ stage \in {"locked", "read"} => lifeLock' = s
           /\ \A u \in LifeServers : u # s =>
                 /\ lifeStage'[u] = lifeStage[u] /\ lifeRead'[u] = lifeRead[u]
                 /\ stage \notin {"locked", "read"} /\ lifeLock = u => lifeLock' = u
<1>1. lifeRows \in [LifeRows -> Representations]
  BY DEF LifeTypeOK
<1> DEFINE read == IF stage = "read" THEN lifeRows ELSE <<>>
<1>2. lifeRead' = [lifeRead EXCEPT ![s] = read] /\ read \in [LifeRows -> Representations] \cup {<<>>}
  BY <1>1 DEF To
<1>3. stage = "read" => read = lifeRows
  OBVIOUS
<1> HIDE DEF read
<1>4. /\ lifeRead' \in [LifeServers -> [LifeRows -> Representations] \cup {<<>>}]
      /\ lifeRead'[s] = read
      /\ \A u \in LifeServers : u # s => lifeRead'[u] = lifeRead[u]
  BY <1>2 DEF LifeTypeOK
<1>5. /\ lifeStage' \in [LifeServers -> Stages] /\ lifeStage'[s] = stage
      /\ \A u \in LifeServers : u # s => lifeStage'[u] = lifeStage[u]
  BY DEF To, LifeTypeOK
<1>6. /\ lifeLock' \in LifeServers \cup {NoServer}
      /\ stage \in {"locked", "read"} => lifeLock' = s
      /\ \A u \in LifeServers : u # s /\ stage \notin {"locked", "read"} /\ lifeLock = u => lifeLock' = u
  BY DEF To, LifeTypeOK
<1> QED BY <1>3, <1>4, <1>5, <1>6

(* A step on the way up or down. *)
LEMMA StageKeeps ==
    ASSUME LifeInv, NEW s \in LifeServers, NEW stage \in Stages, To(s, stage),
           UNCHANGED <<lifeRows, lifeWritten, lifeKey, lifeExposed>>,
           stage # "off" => lifeStage[s] # "off",
           stage \in {"locked", "read"} =>
              \A u \in LifeServers : u # s => lifeStage[u] \notin {"locked", "read"},
           stage \in {"sealed", "serving"} => AllSealed(lifeKey[s])
    PROVE  LifeInv'
<1> USE DEF LifeInv
<1>1. /\ lifeStage' \in [LifeServers -> Stages] /\ lifeStage'[s] = stage
      /\ lifeRead' \in [LifeServers -> [LifeRows -> Representations] \cup {<<>>}]
      /\ stage = "read" => lifeRead'[s] = lifeRows
      /\ lifeLock' \in LifeServers \cup {NoServer}
      /\ stage \in {"locked", "read"} => lifeLock' = s
      /\ \A u \in LifeServers : u # s =>
            /\ lifeStage'[u] = lifeStage[u] /\ lifeRead'[u] = lifeRead[u]
            /\ stage \notin {"locked", "read"} /\ lifeLock = u => lifeLock' = u
  BY ToDoes
<1>2. LifeTypeOK'
  BY <1>1 DEF LifeTypeOK
<1>3. RowsHoldTheirTexts' /\ OneKey(lifeRows')
  BY DEF RowsHoldTheirTexts
<1>4. \A u \in LifeServers : lifeStage'[u] # "off" => lifeStage[u] # "off"
  BY <1>1
<1>5. OneEnvironment'
  BY <1>4 DEF OneEnvironment
<1>6. PassesExclude'
  BY <1>1 DEF PassesExclude
<1>7. PassesSeal'
  BY <1>1 DEF PassesSeal, AllSealed
<1>8. ReadsLast'
  <2>1. ASSUME NEW u \in LifeServers, lifeStage'[u] = "read" PROVE StillRead(lifeRead[u], lifeKey[u])' 
    <3>1. CASE u = s
      <4>1. lifeRead'[u] = lifeRows
        BY <1>1, <2>1, <3>1
      <4>2. OneKey(lifeRows) /\ lifeRows \in [LifeRows -> Representations]
        BY DEF LifeTypeOK
      <4> QED BY <4>1, <4>2 DEF StillRead
    <3>2. CASE u # s
      BY <1>1, <2>1, <3>2 DEF ReadsLast, StillRead
    <3> QED BY <3>1, <3>2
  <2> QED BY <2>1 DEF ReadsLast
<1> QED BY <1>2, <1>3, <1>5, <1>6, <1>7, <1>8

(* A server reads its environment, which is that of the servers that run. *)
LEMMA ConfiguringKeeps ==
    ASSUME LifeInv, NEW s \in LifeServers, NEW key \in LifeKeys, from_env(s, key) PROVE LifeInv'
<1> USE DEF LifeInv
<1>1. UNCHANGED <<lifeRows, lifeWritten, lifeExposed>> /\ To(s, "configured") /\ lifeStage[s] = "off"
  BY DEF from_env, Stored
<1>2. /\ lifeStage' \in [LifeServers -> Stages] /\ lifeStage'[s] = "configured"
      /\ lifeRead' \in [LifeServers -> [LifeRows -> Representations] \cup {<<>>}]
      /\ lifeLock' \in LifeServers \cup {NoServer}
      /\ \A u \in LifeServers : u # s =>
            /\ lifeStage'[u] = lifeStage[u] /\ lifeRead'[u] = lifeRead[u]
            /\ lifeLock = u => lifeLock' = u
  BY <1>1, ToDoes DEF Stages
<1>3. /\ lifeKey' \in [LifeServers -> LifeKeys \cup {"none"}] /\ lifeKey'[s] = key
      /\ \A u \in LifeServers : u # s => lifeKey'[u] = lifeKey[u]
  BY DEF from_env, LifeTypeOK
<1>4. LifeTypeOK' /\ RowsHoldTheirTexts' /\ OneKey(lifeRows')
  BY <1>1, <1>2, <1>3 DEF LifeTypeOK, RowsHoldTheirTexts
<1>5. OneEnvironment'
  <2>1. \A u \in LifeServers : lifeStage'[u] # "off" => lifeKey'[u] = key
    BY <1>2, <1>3 DEF from_env
  <2> QED BY <2>1 DEF OneEnvironment
<1>6. PassesExclude'
  BY <1>2 DEF PassesExclude
<1>7. PassesSeal'
  BY <1>1, <1>2, <1>3 DEF PassesSeal, AllSealed
<1>8. ReadsLast'
  BY <1>1, <1>2, <1>3 DEF ReadsLast, StillRead
<1> QED BY <1>4, <1>5, <1>6, <1>7, <1>8

-----------------------------------------------------------------------------
(* Traffic, and what happens to the rows beside it. *)

(* A serving server puts an envelope under its key, or nothing, into a row.  No
   pass under way has read plaintext, because none is left where a server serves. *)
LEMMA WritingKeeps ==
    ASSUME LifeInv, NEW s \in LifeServers, lifeStage[s] = "serving",
           NEW row \in LifeRows, NEW stored \in Representations,
           lifeRows' = [lifeRows EXCEPT ![row] = stored],
           lifeWritten' = [lifeWritten EXCEPT ![row] = stored.text],
           is_envelope(stored) => stored.bound = row,
           ~ Plain(stored), Whole(stored) => stored.key = lifeKey[s], Rewritten(row),
           UNCHANGED <<lifeStage, lifeKey, lifeRead, lifeLock>>
    PROVE  LifeInv'
<1> USE DEF LifeInv
<1>1. stored.text \in Texts
  BY DEF Representations
<1>2. /\ lifeRows' \in [LifeRows -> Representations] /\ lifeRows'[row] = stored
      /\ \A r \in LifeRows : r # row => lifeRows'[r] = lifeRows[r]
  BY DEF LifeTypeOK
<1>3. /\ lifeWritten' \in [LifeRows -> Texts] /\ lifeWritten'[row] = stored.text
      /\ \A r \in LifeRows : r # row => lifeWritten'[r] = lifeWritten[r]
  BY <1>1 DEF LifeTypeOK
<1>0. /\ lifeExposed' \in SUBSET LifeRows
      /\ \A r \in LifeRows : r # row => (r \in lifeExposed' <=> r \in lifeExposed)
      /\ Passing => lifeExposed' = lifeExposed
  BY DEF Rewritten, LifeTypeOK
<1>4. LifeTypeOK' /\ RowsHoldTheirTexts'
  BY <1>0, <1>2, <1>3 DEF LifeTypeOK, RowsHoldTheirTexts
<1>5. AllSealed(lifeKey[s])
  BY DEF PassesSeal
<1>6. \A r \in LifeRows : /\ r \notin lifeExposed' => ~ Plain(lifeRows'[r])
                          /\ Whole(lifeRows'[r]) => lifeRows'[r].key = lifeKey[s]
  BY <1>0, <1>2, <1>5 DEF AllSealed
<1>7. OneKey(lifeRows')
  BY <1>6 DEF OneKey
<1>8. \A t \in LifeServers : lifeStage[t] # "off" => lifeKey[t] = lifeKey[s]
  BY DEF OneEnvironment
<1>9. OneEnvironment' /\ PassesExclude'
  BY DEF OneEnvironment, PassesExclude
<1>10. PassesSeal'
  BY <1>6, <1>8 DEF PassesSeal, AllSealed
<1>11. ReadsLast'
  <2>1. ASSUME NEW t \in LifeServers, lifeStage'[t] = "read" PROVE StillRead(lifeRead[t], lifeKey[t])'
    <3>1. StillRead(lifeRead[t], lifeKey[t]) /\ lifeKey[t] = lifeKey[s]
      BY <1>8, <2>1 DEF ReadsLast
    <3>2. \A r \in LifeRows : r \notin lifeExposed => ~ Plain(lifeRead[t][r])
      BY <1>5, <3>1 DEF StillRead, AllSealed
    <3>3. lifeExposed' = lifeExposed
      BY <1>0, <2>1 DEF Passing
    <3> QED BY <1>6, <3>1, <3>2, <3>3 DEF StillRead
  <2> QED BY <2>1 DEF ReadsLast
<1> QED BY <1>4, <1>7, <1>9, <1>10, <1>11

(* A secret is stored. *)
LEMMA StoringKeeps ==
    ASSUME LifeInv, NEW s \in LifeServers, NEW row \in LifeRows, NEW text \in LifeTexts,
           stored_representation(s, row, text)
    PROVE  LifeInv'
<1> DEFINE stored == encrypt(lifeKey[s], row, Legacy(text))
<1>1. /\ text \in Texts /\ Legacy(text) \in Representations
      /\ ~ is_envelope(Legacy(text)) /\ Legacy(text).text = text
  BY Shapes DEF Texts
<1>2. lifeStage[s] = "serving" /\ lifeKey[s] \in LifeKeys
  BY DEF stored_representation, LifeInv, OneEnvironment
<1>3. /\ stored \in Representations /\ Whole(stored) /\ ~ Plain(stored)
      /\ stored.key = lifeKey[s] /\ stored.bound = row /\ stored.text = text
  BY <1>1, <1>2, Sealing
<1>4. /\ lifeRows' = [lifeRows EXCEPT ![row] = stored]
      /\ lifeWritten' = [lifeWritten EXCEPT ![row] = text]
      /\ UNCHANGED <<lifeStage, lifeKey, lifeRead, lifeLock>> /\ Rewritten(row)
  BY DEF stored_representation
<1> HIDE DEF stored
<1> QED BY <1>2, <1>3, <1>4, WritingKeeps

(* A secret is deleted. *)
LEMMA DeletingKeeps ==
    ASSUME LifeInv, NEW s \in LifeServers, NEW row \in LifeRows, DeleteSecret(s, row)
    PROVE  LifeInv'
<1>1. /\ Absent \in Representations /\ ~ is_envelope(Absent) /\ Absent.text = "none"
      /\ ~ Plain(Absent) /\ ~ Whole(Absent)
  BY Shapes DEF Plain, Whole
<1>2. /\ lifeStage[s] = "serving"
      /\ lifeRows' = [lifeRows EXCEPT ![row] = Absent]
      /\ lifeWritten' = [lifeWritten EXCEPT ![row] = "none"]
      /\ UNCHANGED <<lifeStage, lifeKey, lifeRead, lifeLock>> /\ Rewritten(row)
  BY DEF DeleteSecret
<1> QED BY <1>1, <1>2, WritingKeeps

(* A release that predates encryption writes plaintext: a server that has read the
   rows by then exposes this one. *)
LEMMA EarlierKeeps ==
    ASSUME LifeInv, NEW row \in LifeRows, NEW text \in LifeTexts, EarlierRelease(row, text)
    PROVE  LifeInv'
<1> USE DEF LifeInv
<1> DEFINE stored == Legacy(text)
<1>1. /\ text \in Texts /\ stored \in Representations /\ stored.text = text
      /\ ~ is_envelope(stored) /\ ~ Whole(stored)
  BY Shapes DEF Texts, Whole
<1>2. /\ lifeRows' = [lifeRows EXCEPT ![row] = stored]
      /\ lifeWritten' = [lifeWritten EXCEPT ![row] = text]
      /\ UNCHANGED <<lifeStage, lifeKey, lifeRead, lifeLock>>
  BY DEF EarlierRelease
<1>7. /\ lifeExposed' \in SUBSET LifeRows
      /\ \A r \in LifeRows : r # row => (r \in lifeExposed' <=> r \in lifeExposed)
      /\ \A s \in LifeServers : lifeStage[s] \in {"read", "sealed", "serving"} => row \in lifeExposed'
  BY DEF EarlierRelease, LifeTypeOK
<1> HIDE DEF stored
<1>3. /\ lifeRows' \in [LifeRows -> Representations] /\ lifeRows'[row] = stored
      /\ \A r \in LifeRows : r # row => lifeRows'[r] = lifeRows[r]
  BY <1>1, <1>2 DEF LifeTypeOK
<1>4. /\ lifeWritten' \in [LifeRows -> Texts] /\ lifeWritten'[row] = text
      /\ \A r \in LifeRows : r # row => lifeWritten'[r] = lifeWritten[r]
  BY <1>1, <1>2 DEF LifeTypeOK
<1>5. LifeTypeOK' /\ RowsHoldTheirTexts'
  BY <1>1, <1>2, <1>3, <1>4, <1>7 DEF LifeTypeOK, RowsHoldTheirTexts
<1>6. OneKey(lifeRows')
  BY <1>1, <1>3 DEF OneKey
<1>8. OneEnvironment' /\ PassesExclude'
  BY <1>2 DEF OneEnvironment, PassesExclude
<1>9. PassesSeal'
  BY <1>1, <1>2, <1>3, <1>7 DEF PassesSeal, AllSealed
<1>10. ReadsLast'
  <2>1. ASSUME NEW t \in LifeServers, lifeStage'[t] = "read" PROVE StillRead(lifeRead[t], lifeKey[t])'
    <3>1. StillRead(lifeRead[t], lifeKey[t]) /\ row \in lifeExposed'
      BY <1>2, <1>7, <2>1 DEF ReadsLast
    <3> QED BY <1>1, <1>2, <1>3, <1>7, <3>1 DEF StillRead
  <2> QED BY <2>1 DEF ReadsLast
<1> QED BY <1>5, <1>6, <1>8, <1>9, <1>10

(* An envelope is damaged: nothing is under another key for it. *)
LEMMA DamagingKeeps ==
    ASSUME LifeInv, NEW row \in LifeRows, Damage(row) PROVE LifeInv'
<1> USE DEF LifeInv
<1> DEFINE stored == [lifeRows[row] EXCEPT !.key = "damaged"]
<1>1. lifeRows[row] \in Representations /\ is_envelope(lifeRows[row])
  BY DEF LifeTypeOK, Damage
<1>2. /\ stored \in Representations /\ is_envelope(stored) /\ ~ Whole(stored) /\ ~ Plain(stored)
      /\ stored.bound = lifeRows[row].bound /\ stored.text = lifeRows[row].text
  BY <1>1, Damaging DEF Whole, Plain
<1>3. lifeRows' = [lifeRows EXCEPT ![row] = stored]
  BY DEF Damage
<1>4. UNCHANGED <<lifeWritten, lifeStage, lifeKey, lifeRead, lifeLock, lifeExposed>>
  BY DEF Damage
<1> HIDE DEF stored
<1>5. /\ lifeRows' \in [LifeRows -> Representations] /\ lifeRows'[row] = stored
      /\ \A r \in LifeRows : r # row => lifeRows'[r] = lifeRows[r]
  BY <1>2, <1>3 DEF LifeTypeOK
<1>6. LifeTypeOK'
  BY <1>4, <1>5 DEF LifeTypeOK
<1>7. RowsHoldTheirTexts'
  BY <1>1, <1>2, <1>4, <1>5 DEF RowsHoldTheirTexts
<1>8. /\ \A r \in LifeRows : Plain(lifeRows'[r]) => Plain(lifeRows[r])
      /\ \A r \in LifeRows : Whole(lifeRows'[r]) => lifeRows'[r] = lifeRows[r] /\ Whole(lifeRows[r])
      /\ \A r \in LifeRows : ~ is_envelope(lifeRows[r]) => lifeRows'[r] = lifeRows[r]
  BY <1>1, <1>2, <1>5
<1>9. OneKey(lifeRows')
  BY <1>8 DEF OneKey
<1>10. OneEnvironment' /\ PassesExclude'
  BY <1>4 DEF OneEnvironment, PassesExclude
<1>11. PassesSeal'
  BY <1>4, <1>8 DEF PassesSeal, AllSealed
<1>12. ReadsLast'
  <2>1. ASSUME NEW t \in LifeServers, lifeStage'[t] = "read" PROVE StillRead(lifeRead[t], lifeKey[t])'
    <3>1. StillRead(lifeRead[t], lifeKey[t])
      BY <1>4, <2>1 DEF ReadsLast
    <3>2. \A r \in LifeRows : Plain(lifeRead[t][r]) /\ r \notin lifeExposed => lifeRows'[r] = lifeRows[r]
      BY <1>8, <3>1 DEF StillRead, Plain
    <3> QED BY <1>4, <1>8, <3>1, <3>2 DEF StillRead
  <2> QED BY <2>1 DEF ReadsLast
<1> QED BY <1>6, <1>7, <1>9, <1>10, <1>11, <1>12

-----------------------------------------------------------------------------
(* The encryption pass. *)

(* A pass that is not refused found no envelope, or one that its key opens: all
   that is whole is then under its key. *)
LEMMA NotRefused ==
    ASSUME LifeInv, NEW s \in LifeServers, lifeStage[s] = "read",
           NEW sealed, NEW unreadable,
           sealed = {r \in {q \in LifeRows : lifeRead[s][q] # Absent} : is_envelope(lifeRead[s][r])},
           unreadable = {r \in sealed : ~ decrypts(lifeKey[s], r, lifeRead[s][r])},
           ~ wrong_key(Cardinality(unreadable), Cardinality(sealed))
    PROVE  \A r \in LifeRows : Whole(lifeRows[r]) => lifeRows[r].key = lifeKey[s]
<1> DEFINE read == lifeRead[s]
<1>1. StillRead(read, lifeKey[s]) /\ lifeKey[s] \in LifeKeys
  BY DEF LifeInv, ReadsLast, OneEnvironment
<1>2. IsFiniteSet(unreadable)
  <2>1. unreadable \subseteq LifeRows
    OBVIOUS
  <2> QED BY <2>1, LifeAssumption, FS_Subset
<1>3. sealed = {} \/ \E q \in sealed : q \notin unreadable
  <2>1. CASE unreadable = {}
    BY <2>1
  <2>2. CASE unreadable # {}
    <3>1. Cardinality(unreadable) \in Nat /\ Cardinality(unreadable) # 0
      BY <1>2, <2>2, FS_CardinalityType, FS_EmptySet
    <3>2. Cardinality(unreadable) # Cardinality(sealed)
      BY <3>1 DEF wrong_key
    <3>3. unreadable # sealed
      BY <3>2
    <3> QED BY <3>3
  <2> QED BY <2>1, <2>2
<1>4. CASE sealed = {}
  <2>1. ASSUME NEW r \in LifeRows PROVE ~ Whole(read[r])
    BY <1>4, Shapes DEF Whole
  <2> HIDE DEF read
  <2> QED BY <1>1, <2>1 DEF StillRead
<1>5. ASSUME NEW q \in sealed, q \notin unreadable
      PROVE  \A r \in LifeRows : Whole(lifeRows[r]) => lifeRows[r].key = lifeKey[s]
  <2>1. q \in LifeRows /\ is_envelope(read[q]) /\ read[q].key = lifeKey[s]
    BY <1>5 DEF decrypts
  <2>2. Whole(read[q])
    BY <1>1, <2>1, LifeAssumption DEF Whole
  <2> HIDE DEF read
  <2> QED BY <1>1, <2>1, <2>2 DEF StillRead, OneKey
<1> QED BY <1>3, <1>4, <1>5

(* The pass seals what is left in plaintext, which is still what it read, or is
   refused and changes nothing. *)
LEMMA SealingKeeps ==
    ASSUME LifeInv, NEW s \in LifeServers, encrypt_stored_secrets(s) PROVE LifeInv'
<1> DEFINE read == lifeRead[s]
           present == {r \in LifeRows : read[r] # Absent}
           sealed == {r \in present : is_envelope(read[r])}
           unreadable == {r \in sealed : ~ decrypts(lifeKey[s], r, read[r])}
           refused == wrong_key(Cardinality(unreadable), Cardinality(sealed))
           plain == present \ sealed
           key == lifeKey[s]
           After(r) == IF r \in plain /\ lifeRows[r] # Absent THEN encrypt(key, r, read[r]) ELSE lifeRows[r]
<1>1. lifeStage[s] = "read" /\ UNCHANGED <<lifeWritten, lifeKey, lifeExposed>>
  BY DEF encrypt_stored_secrets
<1>2. CASE refused
  <2>1. To(s, "off") /\ UNCHANGED lifeRows
    BY <1>2 DEF encrypt_stored_secrets
  <2> QED BY <1>1, <2>1, StageKeeps DEF Stages
<1>3. CASE ~ refused
  <2>1. To(s, "sealed") /\ lifeRows' = [r \in LifeRows |-> After(r)]
    BY <1>3 DEF encrypt_stored_secrets
  <2>2. /\ \A r \in LifeRows : Whole(lifeRows[r]) => lifeRows[r].key = key
        /\ StillRead(read, key) /\ key \in LifeKeys
    <3>1. StillRead(read, key) /\ key \in LifeKeys
      BY <1>1 DEF LifeInv, ReadsLast, OneEnvironment
    <3> QED BY <1>1, <1>3, <3>1, NotRefused
  <2>3. \A r \in LifeRows : r \in plain <=> Plain(read[r])
    BY DEF Plain
  <2> HIDE DEF read, present, sealed, plain, unreadable, refused
  <2>4. ASSUME NEW r \in LifeRows
        PROVE  /\ After(r) \in Representations
               /\ r \notin lifeExposed => ~ Plain(After(r))
               /\ Whole(After(r)) => After(r).key = key
               /\ r \notin lifeExposed => After(r).text = lifeWritten[r]
               /\ is_envelope(After(r)) => After(r).bound = r
    <3>1. /\ lifeRows[r] \in Representations
          /\ r \notin lifeExposed => lifeRows[r].text = lifeWritten[r]
          /\ is_envelope(lifeRows[r]) => lifeRows[r].bound = r
      BY DEF LifeInv, LifeTypeOK, RowsHoldTheirTexts
    <3>2. CASE r \in plain /\ lifeRows[r] # Absent
      <4>1. Plain(read[r]) /\ ~ is_envelope(read[r]) /\ read[r] \in Representations
        BY <2>2, <2>3, <3>2 DEF Plain, StillRead
      <4>2. r \notin lifeExposed => lifeRows[r] = read[r]
        BY <2>2, <4>1 DEF StillRead
      <4>3. After(r) = encrypt(key, r, read[r])
        BY <3>2
      <4> HIDE DEF After, key
      <4> QED BY <2>2, <3>1, <4>1, <4>2, <4>3, Sealing
    <3>3. CASE ~ (r \in plain /\ lifeRows[r] # Absent)
      <4>1. After(r) = lifeRows[r]
        BY <3>3
      <4>2. r \notin lifeExposed => ~ Plain(lifeRows[r])
        BY <2>2, <2>3, <3>3 DEF StillRead, Plain
      <4> HIDE DEF After, key
      <4> QED BY <2>2, <3>1, <4>1, <4>2
    <3> QED BY <3>2, <3>3
  <2>5. ASSUME NEW r \in LifeRows PROVE lifeRows'[r] = After(r)
    BY <2>1
  <2> HIDE DEF After
  <2>6. lifeRows' \in [LifeRows -> Representations]
    BY <2>1, <2>4
  <2>7. \A r \in LifeRows : /\ r \notin lifeExposed' => ~ Plain(lifeRows'[r])
                            /\ Whole(lifeRows'[r]) => lifeRows'[r].key = key
    BY <1>1, <2>4, <2>5
  <2>8. RowsHoldTheirTexts'
    BY <1>1, <2>4, <2>5 DEF RowsHoldTheirTexts
  <2>9. OneKey(lifeRows')
    BY <2>7 DEF OneKey
  <2>10. /\ lifeStage' \in [LifeServers -> Stages] /\ lifeStage'[s] = "sealed"
         /\ lifeRead' \in [LifeServers -> [LifeRows -> Representations] \cup {<<>>}]
         /\ lifeLock' \in LifeServers \cup {NoServer}
         /\ \A u \in LifeServers : u # s => lifeStage'[u] = lifeStage[u]
    BY <2>1, ToDoes DEF Stages, LifeInv
  <2>11. LifeTypeOK'
    BY <1>1, <2>6, <2>10 DEF LifeInv, LifeTypeOK
  <2>12. \A u \in LifeServers : lifeStage'[u] # "off" => lifeStage[u] # "off" /\ lifeKey'[u] = key
    BY <1>1, <2>10 DEF LifeInv, OneEnvironment
  <2>13. OneEnvironment'
    BY <2>2, <2>12 DEF OneEnvironment
  <2>14. \A u \in LifeServers : lifeStage'[u] \notin {"locked", "read"}
    <3>1. ASSUME NEW u \in LifeServers, u # s PROVE lifeStage[u] \notin {"locked", "read"}
      BY <1>1, <3>1 DEF LifeInv, PassesExclude
    <3> QED BY <2>10, <3>1
  <2>15. PassesExclude' /\ ReadsLast'
    BY <2>14 DEF PassesExclude, ReadsLast
  <2>16. PassesSeal'
    BY <2>7, <2>12 DEF PassesSeal, AllSealed
  <2> QED BY <2>8, <2>9, <2>11, <2>13, <2>15, <2>16 DEF LifeInv
<1> QED BY <1>2, <1>3

-----------------------------------------------------------------------------
(* Nothing is stored at first, and no server runs. *)
LEMMA InitLives == LifeInit => LifeInv
<1> SUFFICES ASSUME LifeInit PROVE LifeInv
  OBVIOUS
<1>1. LifeTypeOK /\ RowsHoldTheirTexts /\ OneKey(lifeRows)
  BY Shapes DEF LifeInit, LifeTypeOK, RowsHoldTheirTexts, OneKey, Whole, Stages, Texts
<1>2. OneEnvironment /\ PassesExclude /\ PassesSeal /\ ReadsLast
  BY DEF LifeInit, OneEnvironment, PassesExclude, PassesSeal, ReadsLast
<1> QED BY <1>1, <1>2 DEF LifeInv

(* The steps of a start, and its end. *)
LEMMA StartingKeeps ==
    ASSUME LifeInv, NEW s \in LifeServers,
           \/ connect_database(s) \/ lock_encryption_pass(s) \/ stored_secrets(s)
           \/ serve(s) \/ Stop(s)
    PROVE  LifeInv'
<1> USE DEF Stored, Stages
<1>1. CASE connect_database(s)
  BY <1>1, StageKeeps DEF connect_database
<1>2. CASE lock_encryption_pass(s)
  <2>1. \A u \in LifeServers : lifeStage[u] \notin {"locked", "read"}
    BY <1>2, LifeAssumption DEF lock_encryption_pass, LifeInv, PassesExclude, NoServer
  <2> QED BY <1>2, <2>1, StageKeeps DEF lock_encryption_pass
<1>3. CASE stored_secrets(s)
  <2>1. \A u \in LifeServers : u # s => lifeStage[u] \notin {"locked", "read"}
    BY <1>3 DEF stored_secrets, LifeInv, PassesExclude
  <2> QED BY <1>3, <2>1, StageKeeps DEF stored_secrets
<1>4. CASE serve(s)
  <2>1. AllSealed(lifeKey[s])
    BY <1>4 DEF serve, LifeInv, PassesSeal
  <2> QED BY <1>4, <2>1, StageKeeps DEF serve
<1>5. CASE Stop(s)
  BY <1>5, StageKeeps DEF Stop
<1> QED BY <1>1, <1>2, <1>3, <1>4, <1>5

(* LifeInv is kept by every step of every server and of what happens beside them. *)
LEMMA LifeKeeps == LifeInv /\ [LifeNext]_lifeVars => LifeInv'
<1> SUFFICES ASSUME LifeInv, [LifeNext]_lifeVars PROVE LifeInv'
  OBVIOUS
<1>1. ASSUME NEW s \in LifeServers, NEW key \in LifeKeys, from_env(s, key) PROVE LifeInv'
  BY <1>1, ConfiguringKeeps
<1>2. ASSUME NEW s \in LifeServers,
             \/ connect_database(s) \/ lock_encryption_pass(s) \/ stored_secrets(s)
             \/ serve(s) \/ Stop(s)
      PROVE  LifeInv'
  BY <1>2, StartingKeeps
<1>3. ASSUME NEW s \in LifeServers, encrypt_stored_secrets(s) PROVE LifeInv'
  BY <1>3, SealingKeeps
<1>4. ASSUME NEW s \in LifeServers, NEW row \in LifeRows, NEW text \in LifeTexts,
             stored_representation(s, row, text)
      PROVE  LifeInv'
  BY <1>4, StoringKeeps
<1>5. ASSUME NEW s \in LifeServers, NEW row \in LifeRows, DeleteSecret(s, row) PROVE LifeInv'
  BY <1>5, DeletingKeeps
<1>6. ASSUME NEW row \in LifeRows, NEW text \in LifeTexts, EarlierRelease(row, text) PROVE LifeInv'
  BY <1>6, EarlierKeeps
<1>7. ASSUME NEW row \in LifeRows, Damage(row) PROVE LifeInv'
  BY <1>7, DamagingKeeps
<1>8. CASE UNCHANGED lifeVars
  BY <1>8 DEF lifeVars, LifeInv, LifeTypeOK, RowsHoldTheirTexts, OneEnvironment, PassesExclude,
              PassesSeal, AllSealed, ReadsLast, StillRead
<1> QED BY <1>1, <1>2, <1>3, <1>4, <1>5, <1>6, <1>7, <1>8 DEF LifeNext

(* A serving replica reveals every undamaged secret as the text last written to it,
   for any number of replicas, keys, secrets and texts, whatever starts, crashes and
   rollbacks came before, except where an earlier release wrote behind a pass:
   encrypt_stored_secrets, whose passes one lock orders, and stored_representation,
   which takes no lock against them. *)
THEOREM LifeCorrect == LifeSpec => []ServersRevealWhatWasWritten
<1>1. LifeInv => ServersRevealWhatWasWritten
  <2> SUFFICES ASSUME LifeInv, NEW s \in LifeServers, NEW row \in LifeRows, row \notin lifeExposed,
                      lifeStage[s] = "serving", lifeRows[row] # Absent, lifeRows[row].key # "damaged"
               PROVE  reveal_secret(s, row) = lifeWritten[row]
    BY DEF ServersRevealWhatWasWritten
  <2>1. AllSealed(lifeKey[s])
    BY DEF LifeInv, PassesSeal
  <2>2. is_envelope(lifeRows[row]) /\ Whole(lifeRows[row]) /\ lifeRows[row].key = lifeKey[s]
    BY <2>1 DEF AllSealed, Plain, Whole
  <2>3. /\ lifeRows[row] \in Representations /\ lifeRows[row].bound = row
        /\ lifeRows[row].text = lifeWritten[row]
    BY <2>2 DEF LifeInv, LifeTypeOK, RowsHoldTheirTexts
  <2>4. lifeRows[row].layers = 1 /\ decrypts(lifeKey[s], row, lifeRows[row])
    BY <2>2, <2>3, Shapes DEF decrypts
  <2> QED BY <2>3, <2>4 DEF reveal_secret
<1> QED BY <1>1, InitLives, LifeKeeps, PTL DEF LifeSpec
=============================================================================
