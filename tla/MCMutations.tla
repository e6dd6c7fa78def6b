---------------------------- MODULE MCMutations ----------------------------
(***************************************************************************)
(* Three instances of ValueStore in one: mutations around one value behind *)
(* two hierarchies, values being created around one another in an empty    *)
(* store, and two values each behind the other's hierarchy, overwritten    *)
(* and pruned from both.  A behaviour keeps to the requests of its         *)
(* scenario.                                                               *)
(***************************************************************************)
EXTENDS MCValueStore

VARIABLE scenario

(* An identity drawn in vain leaves every scenario as many to draw.        *)
Drawn(stores) == {[s EXCEPT !.nextId = @ + 1] : s \in stores}

MutationStores == Drawn(AliasStores \cup CrossStores) \cup TreeStores
MutationRequests == AliasRequests \cup TreeRequests \cup CrossRequests

Asked == [alias |-> AliasRequests, tree |-> TreeRequests, cross |-> CrossRequests]

MutationsInit ==
    /\ Init
    /\ scenario = CASE Cardinality(pathRows) = 0 -> "tree"
                    [] Cardinality(pathRows) = 3 -> "alias"
                    [] OTHER -> "cross"

MutationsNext ==
    /\ Next
    /\ \A t \in Txs : req'[t].op # "none" => req'[t] \in Asked[scenario]
    /\ UNCHANGED scenario

MutationsSpec == MutationsInit /\ [][MutationsNext]_<<vars, scenario>>
=============================================================================
