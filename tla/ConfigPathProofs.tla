-------------------------- MODULE ConfigPathProofs --------------------------
(***************************************************************************)
(* What the value store relies on about configuration paths, for paths of  *)
(* every length: the grammar yields keys, the two subtree tests agree, the *)
(* roots above one key are comparable, and an ancestor is found among the  *)
(* namespaces a key lies in.                                               *)
(***************************************************************************)
EXTENDS ConfigPath, TLAPS

(* Sequences of the same bytes are the same sequence. *)
LEMMA SameSequence ==
    ASSUME NEW f \in Seq(Nat), NEW g \in Seq(Nat), Len(f) = Len(g),
           \A i \in 1..Len(f) : f[i] = g[i]
    PROVE  f = g
OBVIOUS

(* A sequence of bytes is a sequence of naturals. *)
LEMMA SeqOfNaturals ==
    ASSUME NEW S, NEW p \in Seq(S), S \subseteq Nat
    PROVE  p \in Seq(Nat)
<1>1. Len(p) \in Nat /\ DOMAIN p = 1..Len(p) /\ p = [i \in 1..Len(p) |-> p[i]]
  OBVIOUS
<1>2. \A i \in 1..Len(p) : p[i] \in S
  OBVIOUS
<1>3. \A i \in 1..Len(p) : p[i] \in Nat
  BY <1>2
<1>4. p \in [1..Len(p) -> Nat]
  BY <1>1, <1>3
<1>5. QED
  BY <1>1, <1>4

(* Folding keeps a path's length and folds it byte by byte. *)
LEMMA FoldSeq ==
    ASSUME NEW p \in Seq(Nat)
    PROVE  /\ fold(p) \in Seq(Nat)
           /\ Len(fold(p)) = Len(p)
           /\ \A i \in 1..Len(p) : fold(p)[i] = to_ascii_lowercase(p[i])
<1>1. \A i \in 1..Len(p) : to_ascii_lowercase(p[i]) \in Nat
  BY DEF to_ascii_lowercase
<1>2. fold(p) = [i \in 1..Len(p) |-> to_ascii_lowercase(p[i])]
  BY DEF fold
<1>3. QED
  BY <1>1, <1>2

(* Whatever the grammar admits has a first byte. *)
LEMMA ParsedNotEmpty ==
    ASSUME NEW p \in Seq(Nat), parse_selection(p)
    PROVE  Len(p) >= 1
BY DEF parse_selection, parse_operation, rooted, Root

(* A key extends a prefix exactly when they agree on the prefix's bytes. *)
LEMMA StartsWith ==
    ASSUME NEW f \in Seq(Nat), NEW g \in Seq(Nat)
    PROVE  starts_with(f, g) <=> Len(g) <= Len(f) /\ \A i \in 1..Len(g) : f[i] = g[i]
<1>1. ASSUME Len(g) <= Len(f)
      PROVE  SubSeq(f, 1, Len(g)) = g <=> \A i \in 1..Len(g) : f[i] = g[i]
  BY <1>1
<1>2. QED
  BY <1>1 DEF starts_with

(* The SQL test of a proper descendant: the root's bytes, then a slash. *)
LEMMA SqlBelow ==
    ASSUME NEW f \in Seq(Nat), NEW g \in Seq(Nat)
    PROVE  sql_below(f, g) <=> /\ Len(g) < Len(f)
                               /\ \A i \in 1..Len(g) : f[i] = g[i]
                               /\ f[Len(g) + 1] = Slash
<1> DEFINE h == g \o Root
<1>1. /\ h \in Seq(Nat)
      /\ Len(h) = Len(g) + 1
      /\ \A i \in 1..Len(g) : h[i] = g[i]
      /\ h[Len(g) + 1] = Slash
  BY DEF Root, Slash
<1>2. starts_with(f, h) <=> Len(h) <= Len(f) /\ \A i \in 1..Len(h) : f[i] = h[i]
  BY <1>1, StartsWith
<1>3. sql_below(f, g) <=> starts_with(f, h)
  BY DEF sql_below
<1>4. ASSUME starts_with(f, h)
      PROVE  /\ Len(g) < Len(f)
             /\ \A i \in 1..Len(g) : f[i] = g[i]
             /\ f[Len(g) + 1] = Slash
  <2>1. Len(g) + 1 <= Len(f) /\ \A i \in 1..(Len(g) + 1) : f[i] = h[i]
    BY <1>1, <1>2, <1>4
  <2>2. Len(g) \in Nat /\ Len(f) \in Nat
    OBVIOUS
  <2>3. \A i \in 1..Len(g) : i \in 1..(Len(g) + 1)
    BY <2>2
  <2>4. QED
    BY <1>1, <2>1, <2>2, <2>3
<1>5. ASSUME Len(g) < Len(f), \A i \in 1..Len(g) : f[i] = g[i], f[Len(g) + 1] = Slash
      PROVE  starts_with(f, h)
  <2>1. ASSUME NEW i \in 1..(Len(g) + 1)
        PROVE  f[i] = h[i]
    <3>1. i = Len(g) + 1 \/ i \in 1..Len(g)
      OBVIOUS
    <3>2. QED
      BY <1>1, <1>5, <3>1
  <2>2. QED
    BY <1>1, <1>2, <1>5, <2>1
<1>6. QED
  BY <1>3, <1>4, <1>5

(* The subtree test in memory implies the subtree test in SQL, on the      *)
(* folded keys: what validation admits, the statements find.               *)
LEMMA BelowInSql ==
    ASSUME NEW p \in Seq(Nat), NEW r \in Seq(Nat), is_at_or_below(p, r)
    PROVE  sql_at_or_below(fold(p), fold(r))
<1>1. CASE r = Root
  <2>1. fold(Root) = Root
    <3>1. Root \in Seq(Nat) /\ Len(Root) = 1 /\ Root[1] = Slash
      BY DEF Root, Slash
    <3>2. to_ascii_lowercase(Slash) = Slash
      BY DEF Slash, to_ascii_lowercase, uppercase
    <3>3. \A i \in 1..Len(Root) : fold(Root)[i] = Root[i]
      <4>1. \A i \in 1..Len(Root) : fold(Root)[i] = to_ascii_lowercase(Root[i])
        BY <3>1, FoldSeq
      <4>2. \A i \in 1..Len(Root) : i = 1
        BY <3>1
      <4>3. QED
        BY <3>1, <3>2, <4>1, <4>2
    <3>4. QED
      BY <3>1, <3>3, FoldSeq, SameSequence
  <2>2. QED
    BY <1>1, <2>1 DEF sql_at_or_below
<1>2. CASE r # Root
  <2>1. /\ Len(p) >= Len(r)
        /\ fold(SubSeq(p, 1, Len(r))) = fold(r)
        /\ Len(p) > Len(r) => p[Len(r) + 1] = Slash
    BY <1>2 DEF is_at_or_below
  <2>2. /\ SubSeq(p, 1, Len(r)) \in Seq(Nat)
        /\ Len(SubSeq(p, 1, Len(r))) = Len(r)
        /\ \A i \in 1..Len(r) : SubSeq(p, 1, Len(r))[i] = p[i]
    BY <2>1
  <2>3. \A i \in 1..Len(r) : fold(p)[i] = fold(r)[i]
    <3>1. \A i \in 1..Len(r) : fold(SubSeq(p, 1, Len(r)))[i] = to_ascii_lowercase(p[i])
      <4>1. \A i \in 1..Len(r) : fold(SubSeq(p, 1, Len(r)))[i]
                = to_ascii_lowercase(SubSeq(p, 1, Len(r))[i])
        BY <2>2, FoldSeq
      <4>2. QED
        BY <2>2, <4>1
    <3>2. \A i \in 1..Len(r) : fold(p)[i] = to_ascii_lowercase(p[i])
      BY <2>1, FoldSeq
    <3>3. QED
      BY <2>1, <3>1, <3>2
  <2>4. /\ fold(p) \in Seq(Nat) /\ fold(r) \in Seq(Nat)
        /\ Len(fold(p)) = Len(p) /\ Len(fold(r)) = Len(r)
    BY FoldSeq
  <2>5. CASE Len(p) = Len(r)
    <3>1. fold(p) = fold(r)
      BY <2>3, <2>4, <2>5, SameSequence
    <3>2. QED
      BY <3>1 DEF sql_at_or_below
  <2>6. CASE Len(p) > Len(r)
    <3>1. fold(p)[Len(r) + 1] = Slash
      <4>1. to_ascii_lowercase(Slash) = Slash
        BY DEF to_ascii_lowercase, uppercase, Slash
      <4>2. Len(r) + 1 \in 1..Len(p)
        BY <2>6
      <4>3. QED
        BY <2>1, <2>6, <4>1, <4>2, FoldSeq
    <3>2. sql_below(fold(p), fold(r))
      BY <2>3, <2>4, <2>6, <3>1, SqlBelow
    <3>3. QED
      BY <3>2 DEF sql_at_or_below
  <2>7. QED
    BY <2>1, <2>5, <2>6
<1>3. QED
  BY <1>1, <1>2

(* Two roots above one key lie one at or below the other. *)
LEMMA RootsAreComparable ==
    ASSUME NEW f \in Seq(Nat), NEW g \in Seq(Nat), NEW h \in Seq(Nat),
           sql_at_or_below(f, g), sql_at_or_below(f, h)
    PROVE  sql_at_or_below(g, h) \/ sql_at_or_below(h, g)
<1>1. CASE g = Root \/ h = Root
  BY <1>1 DEF sql_at_or_below
<1>2. CASE f = g \/ f = h
  BY <1>2 DEF sql_at_or_below
<1>3. CASE sql_below(f, g) /\ sql_below(f, h)
  <2>1. /\ Len(g) < Len(f) /\ \A i \in 1..Len(g) : f[i] = g[i]
        /\ f[Len(g) + 1] = Slash
        /\ Len(h) < Len(f) /\ \A i \in 1..Len(h) : f[i] = h[i]
        /\ f[Len(h) + 1] = Slash
    BY <1>3, SqlBelow
  <2>2. CASE Len(g) < Len(h)
    <3>1. /\ \A i \in 1..Len(g) : h[i] = g[i]
          /\ h[Len(g) + 1] = Slash
      <4>1. \A i \in 1..(Len(g) + 1) : i \in 1..Len(h)
        BY <2>2
      <4>2. \A i \in 1..Len(g) : i \in 1..Len(h)
        BY <2>2
      <4>3. Len(g) + 1 \in 1..(Len(g) + 1)
        OBVIOUS
      <4>4. QED
        BY <2>1, <4>1, <4>2, <4>3
    <3>2. sql_below(h, g)
      BY <2>2, <3>1, SqlBelow
    <3>3. QED
      BY <3>2 DEF sql_at_or_below
  <2>3. CASE Len(h) < Len(g)
    <3>1. /\ \A i \in 1..Len(h) : g[i] = h[i]
          /\ g[Len(h) + 1] = Slash
      <4>1. \A i \in 1..(Len(h) + 1) : i \in 1..Len(g)
        BY <2>3
      <4>2. \A i \in 1..Len(h) : i \in 1..Len(g)
        BY <2>3
      <4>3. Len(h) + 1 \in 1..(Len(h) + 1)
        OBVIOUS
      <4>4. QED
        BY <2>1, <4>1, <4>2, <4>3
    <3>2. sql_below(g, h)
      BY <2>3, <3>1, SqlBelow
    <3>3. QED
      BY <3>2 DEF sql_at_or_below
  <2>4. CASE Len(g) = Len(h)
    <3>1. g = h
      BY <2>1, <2>4, SameSequence
    <3>2. QED
      BY <3>1 DEF sql_at_or_below
  <2>5. QED
    BY <2>2, <2>3, <2>4
<1>4. QED
  BY <1>1, <1>2, <1>3 DEF sql_at_or_below

(* A key strictly inside a subtree has the subtree's root among the        *)
(* namespaces it lies in: locking those locks the root.                    *)
LEMMA RootIsAncestor ==
    ASSUME NEW f \in Seq(Nat), NEW g \in Seq(Nat), Len(g) >= 1, f # g,
           sql_at_or_below(f, g)
    PROVE  g \in ancestors(f)
<1>1. CASE g = Root
  BY <1>1 DEF ancestors
<1>2. CASE g # Root
  <2>1. /\ Len(g) < Len(f)
        /\ \A i \in 1..Len(g) : f[i] = g[i]
        /\ f[Len(g) + 1] = Slash
    BY <1>2, SqlBelow DEF sql_at_or_below
  <2>2. f # Root
    BY <2>1 DEF Root
  <2>3. SubSeq(f, 1, (Len(g) + 1) - 1) = g
    BY <2>1
  <2>4. Len(g) + 1 \in {j \in 2..Len(f) : f[j] = Slash}
    BY <2>1
  <2>5. QED
    BY <2>2, <2>3, <2>4 DEF ancestors
<1>3. QED
  BY <1>1, <1>2
=============================================================================
