----------------------------- MODULE MCServices -----------------------------
(***************************************************************************)
(* The parts that read what the store holds: what the server does with     *)
(* secrets at startup and for readers, and the provider and the broker     *)
(* that read layers of values for programs.  Each is checked on a small    *)
(* instance of its own: a behaviour keeps to one part, the one its first   *)
(* state has in focus, so the states are the sum and not the product of    *)
(* the parts'.                                                             *)
(***************************************************************************)
EXTENDS ValueReads, ServerLifecycle, LayerReads, BrokerGate

CONSTANT Parts   \* the parts checked

VARIABLE focus

vars == <<focus, readVars, lifeVars, layVars, gateVars>>

--------------------------------------------------------------------------
(* ValueReads: two spellings below one root and one beside it, selected from *)
(* above, by a caller who may read below /a and manage everything.           *)
pA   == <<47, 97>>                     \* "/a"
pAB  == <<47, 97, 47, 98>>             \* "/a/b"
pAC  == <<47, 65, 47, 99>>             \* "/A/c"
pABX == <<47, 97, 47, 98, 47, 88>>     \* "/a/b/X"
pAx  == <<47, 97, 47, 120>>            \* "/a/x"
pC   == <<47, 99>>                     \* "/c"
pZ   == <<47, 122>>                    \* "/z"

MCSpellings == {pAB, pAC, pZ}
MCSelections == {Root, pA, pAB}
MCReadGrants == {[prefix |-> pA, permissions |-> {"read"}],
                 [prefix |-> Root, permissions |-> {"manage"}]}

--------------------------------------------------------------------------
(* LayerReads: two broker requests behind a queue of one, a provider and     *)
(* renders, over a secret and a plain value that change meanwhile.           *)
LayerJob(id, kind, paths) == [id |-> id, kind |-> kind, layers |-> paths]

MCJobs ==
  {LayerJob(1, "broker", <<pA, pAB>>), LayerJob(2, "broker", <<pC>>),
   LayerJob(3, "provider", <<pA>>), LayerJob(4, "render", <<pA, pAB>>),
   LayerJob(5, "render", <<>>), LayerJob(6, "render", <<pC>>)}
MCFirstStore == (pAx :> [class |-> "secret", text |-> "t1"])
                  @@ (pABX :> [class |-> "plain", text |-> "t2"])
MCLayPaths == {pAx, pABX}

--------------------------------------------------------------------------
(* BrokerGate: a valid configuration and one for each way to fail; two       *)
(* repositories whose owners differ in case, and a body without its fields.  *)
Repository(owner, name) ==
  [shape |-> "valid", owner |-> owner, name |-> name, full_name |-> owner \o Root \o name,
   forge_id |-> <<>>, branch |-> <<109>>, event |-> <<112>>]

MCBodies == {Repository(<<97>>, <<98>>), Repository(<<65>>, <<98>>),
             [Repository(<<>>, <<>>) EXCEPT !.shape = "missing_fields"]}

MCEnv ==
  [url |-> "set", url_file |-> "absent",
   layers |-> <<<<Lit(<<47, 115>>)>>, <<>>, <<Lit(<<47, 114, 47>>), Field("repo.full_name")>>>>,
   listen |-> "a", metrics |-> "b", token_ttl |-> "absent", queue_depth |-> "positive",
   woodpecker_url |-> "absent", woodpecker_token |-> "absent", key_file |-> "key", connects |-> TRUE]

MCEnvs ==
  {MCEnv, [MCEnv EXCEPT !.metrics = "a"], [MCEnv EXCEPT !.metrics = "bad"],
   [MCEnv EXCEPT !.layers = <<<<Lit(<<47, 114, 46>>), Field("repo.name")>>>>],
   [MCEnv EXCEPT !.woodpecker_url = "set", !.woodpecker_token = "a page"],
   [MCEnv EXCEPT !.url = "absent", !.url_file = "blank"]}

MCChanges ==
  {"none", "no input", "two signatures", "not text", "label", "two members", "unbalanced",
   "components", "alg", "created", "no created", "expired", "parameter", "no digest",
   "digest scheme", "body", "body and digest", "target", "signature label", "signature",
   "signer"}

--------------------------------------------------------------------------

Init ==
  /\ focus \in Parts
  /\ ReadInit /\ LifeInit /\ LayInit /\ GateInit

Next ==
  \/ /\ focus = "reads" /\ ReadNext
     /\ UNCHANGED <<focus, lifeVars, layVars, gateVars>>
  \/ /\ focus = "lifecycle" /\ LifeNext
     /\ UNCHANGED <<focus, readVars, layVars, gateVars>>
  \/ /\ focus = "layers" /\ LayNext
     /\ UNCHANGED <<focus, readVars, lifeVars, gateVars>>
  \/ /\ focus = "broker" /\ GateNext
     /\ UNCHANGED <<focus, readVars, lifeVars, layVars>>

Spec == Init /\ [][Next]_vars

=============================================================================
