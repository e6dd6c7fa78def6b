---------------------------- MODULE MCValueStore ----------------------------
(***************************************************************************)
(* Instances of ValueStore: two or three concurrent calls on a handful of  *)
(* paths, starting from stores that a few puts and aliases reach.          *)
(***************************************************************************)
EXTENDS ValueStore, TLC

CONSTANTS t1, t2, t3, v1, v2, mask

pA == <<47, 97>>                \* /a
pUpperA == <<47, 65>>           \* /A
pAB == <<47, 97, 47, 98>>       \* /a/b
pAC == <<47, 97, 47, 99>>       \* /a/c
pABC == <<47, 97, 47, 98, 47, 99>> \* /a/b/c
pDash == <<47, 97, 45, 98>>     \* /a-b
pUpperAB == <<47, 65, 47, 98>>  \* /A/b
pSlashed == <<47, 97, 47>>      \* /a/, which is no path
pZ == <<47, 122>>               \* /z
pZB == <<47, 122, 47, 98>>      \* /z/b
pZC == <<47, 122, 47, 99>>      \* /z/c

Put(p, v, c) == [op |-> "put", path |-> p, value |-> v, class |-> c]
Delete(p, r) == [op |-> "delete", path |-> p, recurse |-> r]
Replace(p, es) == [op |-> "replace", path |-> p, entries |-> es]
Add(p, q) == [op |-> "add", path |-> p, new |-> q]
Entry(p, v) == [path |-> p, value |-> v]

PathRow(p, id) == [path |-> p, content |-> id]
PlainRow(id, v) == [id |-> id, class |-> Plain, stored |-> [sealed |-> 0, text |-> v]]
SecretRow(id, v) == [id |-> id, class |-> Secret, stored |-> Sealed(id, v)]
Store(rows, cs) == [pathRows |-> rows, contents |-> cs, nextId |-> Cardinality(cs) + 1]

MCTxs2 == {t1, t2}
MCTxs3 == {t1, t2, t3}
MCValues == {v1, v2}
TxSymmetry == Permutations(MCTxs2)
TxSymmetry3 == Permutations(MCTxs3)

(* One value behind two hierarchies, beside a secret. *)
AliasStores ==
    {Store({PathRow(pAB, 1), PathRow(pZ, 1), PathRow(pAC, 2)},
           {PlainRow(1, v1), SecretRow(2, v1)})}

AliasRequests ==
    {Put(pZ, v2, Plain), Put(pZ, v1, Secret),
     Delete(pZ, FALSE), Delete(pA, TRUE), Add(pZ, pDash), Add(pAB, pDash),
     Replace(pA, {Entry(pUpperAB, v2), Entry(pAC, Preserve)}), Replace(pUpperA, {}),
     Replace(pA, {Entry(pSlashed, v1)})}

(* Values being created around one another, from an empty store. *)
TreeStores == {Store({}, {})}

TreeRequests ==
    {Put(pA, v1, Plain), Put(pUpperA, v2, Secret), Put(pABC, v1, Secret),
     Add(pA, pZ), Add(pZ, pABC), Delete(pUpperA, TRUE),
     Replace(Root, {Entry(pUpperAB, Preserve), Entry(pZ, v1)})}

(* Two values, each behind the other's hierarchy. *)
CrossStores ==
    {Store({PathRow(pAB, 1), PathRow(pZC, 1), PathRow(pAC, 2), PathRow(pZB, 2)},
           {PlainRow(1, v1), PlainRow(2, v1)})}

(* A value aliased to two places whose byte order is not tree order. *)
LockOrderStores == {Store({PathRow(pDash, 1)}, {PlainRow(1, v1)})}
LockOrderRequests == {Add(pDash, pAB), Add(pDash, pA)}

WaitStores == CrossStores \cup LockOrderStores

CrossReplaces ==
    {Replace(pA, {Entry(pAB, v2), Entry(pAC, v1)}), Replace(pZ, {Entry(pZB, v2), Entry(pZC, v1)})}

(* Both values overwritten from either side, and both pruned. *)
CrossRequests == CrossReplaces \cup {Delete(pA, TRUE), Replace(pZ, {})}

WaitRequests ==
    LockOrderRequests \cup
        {Put(pAB, v2, Plain), Delete(pA, TRUE), Replace(pZ, {Entry(pZB, v2)})}

(* A replacement below a stored plain value. *)
NestingStores == {Store({PathRow(pA, 1)}, {PlainRow(1, v1)})}
NestingRequests == {Put(pA, v1, Plain), Replace(pAB, {Entry(pABC, v1)})}
=============================================================================
