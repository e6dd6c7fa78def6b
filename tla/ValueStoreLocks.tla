-------------------------- MODULE ValueStoreLocks ---------------------------
(***************************************************************************)
(* What path locks exclude, and what envelopes seal.                       *)
(***************************************************************************)
EXTENDS ValueStoreTypes

(* A call past `locking` holds every lock of its paths. *)
Locked(t) == pc[t] \notin {"idle", "locking"}

(* Locks that different calls hold never conflict, and a call holds or has *)
(* yet to take every lock of its paths.                                    *)
NoConflict(t, u) ==
    \A g \in held[t], h \in held[u] : g.key = h.key => ~g.exclusive /\ ~h.exclusive

LocksTaken(t) ==
    /\ pc[t] # "idle" =>
          \A l \in MutationLocks(req[t]) :
              \/ l \in todo[t]
              \/ [key |-> l.key, exclusive |-> l.exclusive] \in held[t]
    /\ Locked(t) => todo[t] = {}

LocksInv ==
    /\ \A t \in Txs : LocksTaken(t)
    /\ \A t, u \in Txs : t # u => NoConflict(t, u)

(* What is written is sealed as what is stored. *)
SealInv ==
    /\ SecretsAreSealedToTheirRow
    /\ \A t \in Txs : \A c \in write[t].upd :
          c.stored.sealed = IF c.class = Secret THEN c.id ELSE 0

-----------------------------------------------------------------------------
(* Path locks. *)

(* Path locks change when a call begins, takes one, or ends. *)
LEMMA LockSteps ==
    ASSUME TypeInv, NEW t \in Txs, Begin(t) \/ Statement(t) \/ Fail(t)
    PROVE  /\ Frame(t)
           /\ Begin(t) \/ LockPath(t) \/ Ended(t) \/ (SameLocks(t) /\ Locked(t) /\ Locked(t)')
<1>1. CASE Begin(t)
  BY <1>1, BeginEffect
<1>2. CASE LockPath(t)
  BY <1>2, LockPathEffect
<1>3. CASE Commit(t) \/ Fail(t)
  BY <1>3, EndTxEffect DEF Commit, Fail, Rollback
<1>4. CASE PutRead(t)
  BY <1>4, PutReadEffect DEF Locked
<1>5. CASE PutOverwrite(t)
  BY <1>5, PutOverwriteEffect DEF Locked
<1>6. CASE PutCreate(t)
  BY <1>6, PutCreateEffect DEF Locked
<1>7. CASE DeletePaths(t)
  BY <1>7, DeletePathsEffect DEF Locked
<1>8. CASE LatchContent(t)
  BY <1>8, LatchContentEffect DEF Locked
<1>9. CASE PruneSelect(t)
  BY <1>9, PruneSelectEffect DEF Locked
<1>10. CASE PruneErase(t)
  BY <1>10, PruneEraseEffect DEF Locked
<1>11. CASE ReplaceRead(t)
  BY <1>11, ReplaceReadEffect DEF Locked
<1>12. CASE ReplaceClear(t)
  BY <1>12, ReplaceClearEffect DEF Locked
<1>13. CASE ReplaceResolve(t)
  BY <1>13, ReplaceResolveEffect DEF Locked
<1>14. CASE ReplaceUpdate(t)
  BY <1>14, ReplaceUpdateEffect DEF Locked
<1>15. CASE ReplaceInsert(t)
  BY <1>15, ReplaceInsertEffect DEF Locked
<1>16. CASE ReplaceRecord(t)
  BY <1>16, ReplaceRecordEffect DEF Locked
<1>17. CASE AddRead(t)
  BY <1>17, AddReadEffect DEF Locked
<1>18. CASE AddInsert(t)
  BY <1>18, AddInsertEffect DEF Locked
<1>19. QED
  BY <1>1, <1>2, <1>3, <1>4, <1>5, <1>6, <1>7, <1>8, <1>9, <1>10, <1>11, <1>12, <1>13,
     <1>14, <1>15, <1>16, <1>17, <1>18 DEF Statement

(* The locks stay granted as asked for. *)
LEMMA LocksKept ==
    ASSUME TypeInv, LocksInv, [Next]_vars
    PROVE  LocksInv'
<1>1. CASE UNCHANGED vars
  BY <1>1 DEF vars, LocksInv, LocksTaken, NoConflict, Locked
<1>2. CASE Next
  <2>1. PICK t \in Txs : Begin(t) \/ Statement(t) \/ Fail(t)
    BY <1>2 DEF Next
  <2>2. Frame(t)
    BY <2>1, LockSteps
  <2>3. \A u \in Txs \ {t} : LocksTaken(u)'
    BY <2>2 DEF LocksInv, LocksTaken, Locked, Frame
  <2>4. \A u, v \in Txs \ {t} : u # v => NoConflict(u, v)'
    BY <2>2 DEF LocksInv, NoConflict, Frame
  <2>5. LocksTaken(t)' /\ \A u \in Txs \ {t} : NoConflict(t, u)' /\ NoConflict(u, t)'
    <3>1. CASE Begin(t)
      <4>1. /\ pc'[t] = "locking" /\ todo'[t] = MutationLocks(req'[t]) /\ held'[t] = held[t]
        BY <3>1, BeginEffect
      <4>2. LocksTaken(t)'
        BY <4>1 DEF LocksTaken, Locked
      <4>3. QED
        BY <2>2, <4>1, <4>2 DEF LocksInv, NoConflict, Frame
    <3>2. CASE LockPath(t)
      <4>1. pc[t] = "locking" /\ req'[t] = req[t]
        BY <3>2, LockPathEffect
      <4>2. PICK l \in todo[t] :
               /\ \A u \in Txs \ {t} : ~PathLockBlocks(u, l)
               /\ todo'[t] = todo[t] \ {l}
               /\ held'[t] = held[t] \cup {[key |-> l.key, exclusive |-> l.exclusive]}
               /\ pc'[t] = IF todo[t] = {l} THEN "read" ELSE "locking"
        BY <3>2, LockPathEffect
      <4>3. LocksTaken(t)'
        <5>1. \A m \in MutationLocks(req[t]) :
                  \/ m \in todo'[t]
                  \/ [key |-> m.key, exclusive |-> m.exclusive] \in held'[t]
          BY <4>1, <4>2 DEF LocksInv, LocksTaken
        <5>2. Locked(t)' => todo'[t] = {}
          BY <4>2 DEF Locked
        <5>3. QED
          BY <4>1, <5>1, <5>2 DEF LocksTaken
      <4>4. ASSUME NEW u \in Txs \ {t} PROVE NoConflict(t, u)' /\ NoConflict(u, t)'
        <5>1. held'[u] = held[u] /\ NoConflict(t, u) /\ NoConflict(u, t)
          BY <2>2 DEF Frame, LocksInv
        <5>2. \A h \in held[u] : h.key = l.key => ~h.exclusive /\ ~l.exclusive
          BY <4>2 DEF PathLockBlocks
        <5>3. QED
          BY <4>2, <5>1, <5>2 DEF NoConflict
      <4>5. QED
        BY <4>3, <4>4
    <3>3. CASE Ended(t)
      BY <3>3 DEF Ended, LocksTaken, Locked, NoConflict
    <3>4. CASE SameLocks(t) /\ Locked(t) /\ Locked(t)'
      <4>1. held'[t] = held[t] /\ todo'[t] = todo[t] /\ req'[t] = req[t]
        BY <3>4 DEF SameLocks
      <4>2. LocksTaken(t)'
        BY <3>4, <4>1 DEF LocksInv, LocksTaken, Locked
      <4>3. QED
        BY <2>2, <4>1, <4>2 DEF LocksInv, NoConflict, Frame
    <3>5. QED
      BY <2>1, <3>1, <3>2, <3>3, <3>4, LockSteps
  <2>6. QED
    BY <2>3, <2>4, <2>5 DEF LocksInv
<1>3. QED
  BY <1>1, <1>2

(* A call past `locking` holds its targets exclusively and everything above *)
(* them shared.                                                            *)
LEMMA TargetsHeld ==
    ASSUME TypeInv, LocksInv, NEW t \in Txs, Locked(t), NEW f \in Targets(t)
    PROVE  /\ [key |-> f, exclusive |-> TRUE] \in held[t]
           /\ \A k \in ancestors(f) : [key |-> k, exclusive |-> FALSE] \in held[t]
<1>1. pc[t] # "idle" /\ \A l \in MutationLocks(req[t]) :
         [key |-> l.key, exclusive |-> l.exclusive] \in held[t]
  BY DEF LocksInv, LocksTaken, Locked
<1>2. PICK p, hop : f = fold(p) /\ lock_mutation_path(p, hop) \subseteq MutationLocks(req[t])
  <2>1. CASE req[t].op # "add"
    <3>1. f = fold(req[t].path) /\ MutationLocks(req[t]) = lock_mutation_path(req[t].path, 1)
      BY <2>1 DEF Targets, MutationLocks
    <3>2. QED
      BY <3>1
  <2>2. CASE req[t].op = "add" /\ path_less(req[t].new, req[t].path)
    <3>1. /\ f = fold(req[t].path) \/ f = fold(req[t].new)
          /\ MutationLocks(req[t]) =
                lock_mutation_path(req[t].new, 1) \cup lock_mutation_path(req[t].path, 2)
      BY <2>2 DEF Targets, MutationLocks
    <3>2. QED
      BY <3>1
  <2>3. CASE req[t].op = "add" /\ ~path_less(req[t].new, req[t].path)
    <3>1. /\ f = fold(req[t].path) \/ f = fold(req[t].new)
          /\ MutationLocks(req[t]) =
                lock_mutation_path(req[t].path, 1) \cup lock_mutation_path(req[t].new, 2)
      BY <2>3 DEF Targets, MutationLocks
    <3>2. QED
      BY <3>1
  <2>4. QED
    BY <2>1, <2>2, <2>3
<1>3. [hop |-> hop, key |-> f, exclusive |-> TRUE] \in MutationLocks(req[t])
  BY <1>2 DEF lock_mutation_path
<1>4. \A k \in ancestors(f) :
         [hop |-> hop, key |-> k, exclusive |-> FALSE] \in MutationLocks(req[t])
  BY <1>2 DEF lock_mutation_path
<1>5. \A k, x : /\ [hop |-> hop, key |-> k, exclusive |-> x].key = k
                /\ [hop |-> hop, key |-> k, exclusive |-> x].exclusive = x
  OBVIOUS
<1>6. QED
  BY <1>1, <1>3, <1>4, <1>5

(* A path is a sequence of naturals, as the lemmas on paths want it. *)
LEMMA BytesAreNaturals ==
    ASSUME NEW p \in Bytes
    PROVE  p \in Seq(Nat)
<1>1. 0..255 \subseteq Nat
  OBVIOUS
<1>2. QED
  BY <1>1, SeqOfNaturals DEF Bytes

(* What a call is about is a key of at least one byte. *)
LEMMA TargetsAreKeys ==
    ASSUME TypeInv, NEW t \in Txs, pc[t] # "idle", NEW f \in Targets(t)
    PROVE  f \in Seq(Nat) /\ Len(f) >= 1
<1>1. req[t] \in Requests /\ Accepted(req[t])
  BY TypedCall DEF Typed
<1>2. IsRequest(req[t])
  BY <1>1, RequestsAssumption
<1>3. req[t].path \in Seq(Nat) /\ (req[t].op = "add" => req[t].new \in Seq(Nat))
  BY <1>2, BytesAreNaturals DEF IsRequest
<1>4. parse_selection(req[t].path) /\ (req[t].op = "add" => parse_selection(req[t].new))
  BY <1>1, <1>2 DEF Accepted, IsRequest, parse_selection
<1>5. Len(req[t].path) >= 1 /\ (req[t].op = "add" => Len(req[t].new) >= 1)
  BY <1>3, <1>4, ParsedNotEmpty
<1>6. CASE f = fold(req[t].path)
  BY <1>3, <1>5, <1>6, FoldSeq
<1>7. CASE req[t].op = "add" /\ f = fold(req[t].new)
  BY <1>3, <1>5, <1>7, FoldSeq
<1>8. QED
  BY <1>6, <1>7 DEF Targets

(* Two calls past `locking` are about disjoint subtrees: the one further   *)
(* down would hold the other's target shared, which it holds exclusively.  *)
LEMMA Exclusion ==
    ASSUME TypeInv, LocksInv, NEW t \in Txs, NEW u \in Txs, t # u, Locked(t), Locked(u),
           NEW f \in Targets(t), NEW g \in Targets(u)
    PROVE  ~sql_at_or_below(f, g)
<1> SUFFICES ASSUME sql_at_or_below(f, g) PROVE FALSE
  OBVIOUS
<1>1. f \in Seq(Nat) /\ g \in Seq(Nat) /\ Len(g) >= 1
  BY TargetsAreKeys DEF Locked
<1>2. f = g \/ g \in ancestors(f)
  BY <1>1, RootIsAncestor
<1>3. [key |-> g, exclusive |-> TRUE] \in held[u]
  BY TargetsHeld
<1>4. \/ [key |-> g, exclusive |-> TRUE] \in held[t]
      \/ [key |-> g, exclusive |-> FALSE] \in held[t]
  BY <1>2, TargetsHeld
<1>5. NoConflict(t, u)
  BY DEF LocksInv
<1>6. QED
  BY <1>3, <1>4, <1>5 DEF NoConflict

(* No lock is held before the first call. *)
LEMMA LocksInit ==
    ASSUME Init
    PROVE  LocksInv
BY DEF Init, LocksInv, LocksTaken, NoConflict, Locked

(* "sibling subtrees can proceed together, while identical or              *)
(* parent/descendant mutations serialize" (lock_mutation_path): mutations  *)
(* that hold their path locks together are about disjoint subtrees.        *)
THEOREM OverlapsSerialize == Spec => []OverlappingMutationsSerialize
<1>1. Init => TypeInv /\ LocksInv
  BY TypedInit, LocksInit
<1>2. TypeInv /\ LocksInv /\ [Next]_vars => TypeInv' /\ LocksInv'
  BY TypeKept, LocksKept
<1>3. TypeInv /\ LocksInv => OverlappingMutationsSerialize
  BY Exclusion DEF OverlappingMutationsSerialize, Locked
<1>4. QED
  BY <1>1, <1>2, <1>3, PTL DEF Spec

-----------------------------------------------------------------------------
(* Envelopes. *)

IsSealed(c) == c.stored.sealed = IF c.class = Secret THEN c.id ELSE 0

(* stored_representation seals secrets and nothing else. *)
LEMMA StoredSealed ==
    ASSUME NEW id, NEW class, NEW value
    PROVE  IsSealed([id |-> id, class |-> class, stored |-> stored_representation(id, class, value)])
BY DEF IsSealed, stored_representation, Sealed

(* What a statement writes is sealed, or was written before. *)
LEMMA SealSteps ==
    ASSUME TypeInv, NEW t \in Txs, Begin(t) \/ Statement(t) \/ Fail(t)
    PROVE  /\ Frame(t)
           /\ contents' = contents \/ contents' = ContentView(t)
           /\ \A c \in write'[t].upd : c \in write[t].upd \/ IsSealed(c)
<1>0. Frame(t)
  BY LockSteps
<1>1. CASE Begin(t) \/ LockPath(t)
  BY <1>0, <1>1, BeginEffect, LockPathEffect DEF SameTables
<1>2. CASE Commit(t) \/ Fail(t)
  <2>1. write'[t].upd = {}
    BY <1>2, EndTxEffect DEF Commit, Fail, Rollback, Ended, NoWrite
  <2>2. QED
    BY <1>0, <1>2, <2>1 DEF Commit, Fail, Rollback, committed
<1>3. CASE Ended(t) /\ SameTables
  BY <1>0, <1>3 DEF Ended, NoWrite, SameTables
<1>4. CASE PutOverwrite(t)
  BY <1>0, <1>4, PutOverwriteEffect, StoredSealed DEF SameTables
<1>5. CASE PutCreate(t)
  BY <1>0, <1>3, <1>5, PutCreateEffect, StoredSealed DEF SameTables
<1>6. CASE ReplaceUpdate(t)
  BY <1>0, <1>6, ReplaceUpdateEffect, StoredSealed DEF SameTables
<1>7. CASE ReplaceInsert(t)
  BY <1>0, <1>7, ReplaceInsertEffect, StoredSealed DEF SameTables
<1>8. CASE SameTables /\ write'[t].upd = write[t].upd
  BY <1>0, <1>8 DEF SameTables
<1>9. CASE PutRead(t) \/ AddRead(t) \/ AddInsert(t)
  BY <1>3, <1>8, <1>9, PutReadEffect, AddReadEffect, AddInsertEffect DEF SameInserts
<1>10. CASE DeletePaths(t) \/ LatchContent(t) \/ PruneSelect(t) \/ PruneErase(t)
  BY <1>3, <1>8, <1>10, DeletePathsEffect, LatchContentEffect, PruneSelectEffect,
     PruneEraseEffect DEF SameInserts
<1>11. CASE ReplaceRead(t) \/ ReplaceClear(t) \/ ReplaceResolve(t) \/ ReplaceRecord(t)
  BY <1>3, <1>8, <1>11, ReplaceReadEffect, ReplaceClearEffect, ReplaceResolveEffect,
     ReplaceRecordEffect DEF SameInserts
<1>12. QED
  BY <1>1, <1>2, <1>4, <1>5, <1>6, <1>7, <1>9, <1>10, <1>11 DEF Statement

(* Every stored secret is an envelope bound to the row that holds it, and  *)
(* every plain value is stored as it is: no mutation writes a secret under *)
(* another row's envelope or without one.                                  *)
THEOREM SecretsSealed == Spec => []SecretsAreSealedToTheirRow
<1>1. Init => TypeInv /\ SealInv
  <2> SUFFICES ASSUME Init PROVE TypeInv /\ SealInv
    OBVIOUS
  <2>1. \A t \in Txs : write[t].upd = {}
    BY DEF Init, NoWrite
  <2>2. SecretsAreSealedToTheirRow
    BY StoresAssumption DEF Init, IsStore, SecretsAreSealedToTheirRow
  <2>3. QED
    BY <2>1, <2>2, TypedInit DEF SealInv
<1>2. TypeInv /\ SealInv /\ [Next]_vars => TypeInv' /\ SealInv'
  <2> SUFFICES ASSUME TypeInv, SealInv, [Next]_vars PROVE SealInv'
    BY TypeKept
  <2>1. CASE UNCHANGED vars
    BY <2>1 DEF vars, SealInv, SecretsAreSealedToTheirRow
  <2>2. CASE Next
    <3>1. PICK t \in Txs : Begin(t) \/ Statement(t) \/ Fail(t)
      BY <2>2 DEF Next
    <3>2. \A c \in contents' : c \in contents \/ c \in write[t].upd
      BY <3>1, SealSteps DEF ContentView
    <3>3. \A u \in Txs : \A c \in write'[u].upd : c \in write[u].upd \/ IsSealed(c)
      BY <3>1, SealSteps DEF Frame
    <3>4. QED
      BY <3>2, <3>3 DEF SealInv, SecretsAreSealedToTheirRow, IsSealed
  <2>3. QED
    BY <2>1, <2>2
<1>3. SealInv => SecretsAreSealedToTheirRow
  BY DEF SealInv
<1>4. QED
  BY <1>1, <1>2, <1>3, PTL DEF Spec
=============================================================================
