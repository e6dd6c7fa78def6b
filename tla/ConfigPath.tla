----------------------------- MODULE ConfigPath -----------------------------
(***************************************************************************)
(* Configuration paths (crates/sovereign-config-core/src/path.rs and       *)
(* crates/sovereign-config-server/src/values/paths.rs).                    *)
(*                                                                         *)
(* A path is the sequence of its bytes.  Nothing shorter will do: two      *)
(* paths are ordered byte by byte, and because '-' (45) sorts before '/'   *)
(* (47) that order is not the order of the tree the paths span.            *)
(***************************************************************************)
EXTENDS Naturals, Sequences, FiniteSets

Slash == 47
Root == <<Slash>>

uppercase == 65..90
lowercase == 97..122
digits == 48..57

to_ascii_lowercase(b) == IF b \in uppercase THEN b + 32 ELSE b

(* The fold key: every comparison, lookup and lock is made on it. *)
fold(p) == [i \in 1..Len(p) |-> to_ascii_lowercase(p[i])]

starts_with(p, prefix) ==
    /\ Len(prefix) <= Len(p)
    /\ SubSeq(p, 1, Len(prefix)) = prefix

-----------------------------------------------------------------------------
(* The grammar. *)

canonical_bytes == lowercase \cup digits \cup {45, 95}
segment_bytes == canonical_bytes \cup uppercase

(* Rooted, no empty segment, and every other byte one the grammar admits. *)
rooted(p, admitted) ==
    /\ Len(p) >= 2
    /\ p[1] = Slash
    /\ p[Len(p)] # Slash
    /\ \A i \in 1..Len(p) :
          \/ p[i] \in admitted
          \/ p[i] = Slash /\ (i > 1 => p[i - 1] # Slash)

parse(p) == p = Root \/ rooted(p, canonical_bytes)

parse_operation(p) == rooted(p, segment_bytes)

parse_selection(p) == p = Root \/ parse_operation(p)

-----------------------------------------------------------------------------
(* The tree. *)

is_at_or_below(p, root) ==
    \/ root = Root
    \/ /\ Len(p) >= Len(root)
       /\ fold(SubSeq(p, 1, Len(root))) = fold(root)
       /\ Len(p) > Len(root) => p[Len(root) + 1] = Slash

(* The SQL test of the statements that select a subtree, on fold keys. *)
sql_below(f, root) == starts_with(f, root \o Root)

sql_at_or_below(f, root) == root = Root \/ f = root \/ sql_below(f, root)

(* Neither key may be a proper ancestor of the other. *)
nests(f, g) == sql_below(f, g) \/ sql_below(g, f)

paths_collide(f, g) == f = g \/ nests(f, g)

parent_path(f) ==
    LET cut == CHOOSE i \in 1..Len(f) :
                  f[i] = Slash /\ \A j \in (i + 1)..Len(f) : f[j] # Slash
    IN  IF cut = 1 THEN Root ELSE SubSeq(f, 1, cut - 1)

(* The namespaces a key lies in: the root, and the prefix before each slash. *)
ancestors(f) ==
    IF f = Root THEN {}
    ELSE {Root} \cup {SubSeq(f, 1, i - 1) : i \in {j \in 2..Len(f) : f[j] = Slash}}

-----------------------------------------------------------------------------
(* The order: `Ord for ConfigPath` compares the folded bytes. *)

bytes_less(f, g) ==
    \/ Len(f) < Len(g) /\ starts_with(g, f)
    \/ \E i \in 1..Len(f) :
          /\ i <= Len(g)
          /\ f[i] < g[i]
          /\ \A j \in 1..(i - 1) : f[j] = g[j]

path_less(p, q) == bytes_less(fold(p), fold(q))

path_eq(p, q) == fold(p) = fold(q)
=============================================================================
