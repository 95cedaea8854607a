------------------------- MODULE ProjectTreeProofs -------------------------
(***************************************************************************)
(* Machine-checked proofs about ProjectTree, for any set of projects,      *)
(* conversations, users and names and any depth of nesting.                *)
(*                                                                         *)
(* The argument has two layers.  Structure is inductive whatever the clock *)
(* does, as long as it does not run backwards: a deletion takes everything *)
(* live below its root, so the timestamp of a deleted row never exceeds    *)
(* that of its deleted parent.  Provenance needs the clock to move between *)
(* two deletions: then a timestamp identifies one deletion.  What a user   *)
(* may do is derived from Structure alone: live projects form a tree.      *)
(*                                                                         *)
(* The last part is about the order among siblings (SiblingKeys), for any  *)
(* base, width and bound of the keys and any number of rows.  Keys compare *)
(* as strings; a key made for a place lies between its neighbours, and the *)
(* numbering of a full level ascends; an order of a level by its keys is   *)
(* the only one, so that every operation on keys is the operation on lists *)
(* that the abstract specification SiblingLists names.                     *)
(***************************************************************************)
EXTENDS ProjectTree, SiblingKeys, FiniteSetTheorems, WellFoundedInduction, TLAPS

-----------------------------------------------------------------------------
(* Inductions; the principle is stated with a set instead of a predicate. *)

\* A set of naturals that has 0 and the successor of each member has them all.
LEMMA Induction ==
  ASSUME NEW S \in SUBSET Nat, 0 \in S, \A n \in S : n + 1 \in S
  PROVE  S = Nat
<1> DEFINE R == OpToRel(<, Nat)
           T == Nat \ S
<1>1. IsWellFoundedOn(R, Nat)
  BY NatLessThanWellFounded
<1>2. \A m, n \in Nat : m < n => <<m, n>> \in R
  BY DEF OpToRel
<1> HIDE DEF R
<1>3. SUFFICES ASSUME T # {} PROVE FALSE
  OBVIOUS
<1>4. T \subseteq Nat
  OBVIOUS
<1> HIDE DEF T
<1>5. PICK n \in T : \A m \in T : ~ (<<m, n>> \in R)
  BY <1>1, <1>3, <1>4, WFMin
<1>6. n \in Nat /\ n # 0 /\ n \notin S
  BY <1>4 DEF T
<1>7. n - 1 \in Nat /\ n - 1 < n /\ n = (n - 1) + 1
  BY <1>6
<1>8. n - 1 \notin T
  BY <1>2, <1>5, <1>6, <1>7
<1>9. n - 1 \in S
  BY <1>7, <1>8 DEF T
<1> QED
  BY <1>6, <1>7, <1>9

\* f lists what n steps make of base.
Repeats(f, T, base, step, n) ==
  f \in [0..n -> T] /\ f[0] = base /\ \A d \in 1..n : f[d] = step[f[d - 1]]

\* Any step can be repeated.
LEMMA Iteration ==
  ASSUME NEW T, NEW base \in T, NEW step \in [T -> T], NEW N \in Nat
  PROVE  \E f : Repeats(f, T, base, step, N)
<1> DEFINE S == {n \in Nat : \E f : Repeats(f, T, base, step, n)}
<1>1. 0 \in S
  <2> DEFINE f == [d \in 0..0 |-> base]
  <2>1. Repeats(f, T, base, step, 0)
    BY DEF Repeats
  <2> HIDE DEF f
  <2> QED BY <2>1
<1>2. ASSUME NEW n \in S PROVE n + 1 \in S
  <2>1. PICK f : Repeats(f, T, base, step, n)
    BY <1>2
  <2> DEFINE g == [d \in 0..n + 1 |-> IF d = n + 1 THEN step[f[n]] ELSE f[d]]
  <2>2. n \in Nat
    OBVIOUS
  <2>3. g \in [0..n + 1 -> T]
    BY <2>1, <2>2 DEF Repeats
  <2>4. g[0] = base
    BY <2>1, <2>2 DEF Repeats
  <2>5. ASSUME NEW d \in 1..n + 1 PROVE g[d] = step[g[d - 1]]
    <3>1. CASE d = n + 1
      BY <2>2, <3>1
    <3>2. CASE d # n + 1
      BY <2>1, <2>2, <3>2 DEF Repeats
    <3> QED BY <3>1, <3>2
  <2>6. Repeats(g, T, base, step, n + 1)
    BY <2>3, <2>4, <2>5 DEF Repeats
  <2> HIDE DEF g
  <2> QED BY <2>2, <2>6
<1> HIDE DEF S
<1>3. S = Nat
  <2>1. S \in SUBSET Nat
    BY DEF S
  <2> QED BY <1>1, <1>2, <2>1, Induction
<1> QED BY <1>3 DEF S

-----------------------------------------------------------------------------
(* The recursive query Below. *)

\* Levels(p, Q, found): what the query has found after each of its levels.
Levels(p, Q, found) ==
  /\ found[0] = {p}
  /\ \A d \in 1..MaxDepth :
       found[d] = found[d - 1] \cup {q \in Q \cap Projects : up[q] \in found[d - 1]}
  /\ \A d \in 0..MaxDepth : found[d] \subseteq (Q \cap Projects) \cup {p}
  /\ Below(p, Q) = found[MaxDepth] \cup {c \in Q \cap Conversations : up[c] \in found[MaxDepth]}

\* The recursion is well founded.
LEMMA BelowByLevels ==
  ASSUME NEW p, NEW Q
  PROVE  \E found : Levels(p, Q, found)
<1> DEFINE
      T == SUBSET ((Q \cap Projects) \cup {p})
      Next1(X) == X \cup {q \in Q \cap Projects : up[q] \in X}
      Body(f, d) == IF d = 0 THEN {p} ELSE f[d - 1] \cup {q \in Q \cap Projects : up[q] \in f[d - 1]}
      step == [X \in T |-> Next1(X)]
<1>1. {p} \in T
  OBVIOUS
<1>2. step \in [T -> T]
  OBVIOUS
<1>3. PICK f : Repeats(f, T, {p}, step, MaxDepth)
  <2> HIDE DEF T, step
  <2> QED BY <1>1, <1>2, Iteration, DepthAssumption
<1>4. f \in [0..MaxDepth -> T] /\ f[0] = {p} /\ \A d \in 1..MaxDepth : f[d] = Next1(f[d - 1])
  <2> HIDE DEF T, Next1
  <2>1. ASSUME NEW d \in 1..MaxDepth PROVE f[d - 1] \in T
    BY <1>3, DepthAssumption DEF Repeats
  <2> QED BY <1>3, <2>1 DEF Repeats
<1>5. \A d \in 0..MaxDepth : f[d] = Body(f, d)
  <2> SUFFICES ASSUME NEW d \in 0..MaxDepth PROVE f[d] = Body(f, d)
    OBVIOUS
  <2>1. CASE d = 0
    BY <1>4, <2>1
  <2>2. CASE d # 0
    <3>1. d \in 1..MaxDepth
      BY <2>2, DepthAssumption
    <3>2. f[d] = Next1(f[d - 1])
      BY <1>4, <3>1
    <3> QED BY <2>2, <3>2
  <2> QED BY <2>1, <2>2
<1>6. f = [d \in 0..MaxDepth |-> Body(f, d)]
  <2> HIDE DEF Body, T
  <2> QED BY <1>4, <1>5
<1> DEFINE found[d \in 0..MaxDepth] == Body(found, d)
<1>7. found = [d \in 0..MaxDepth |-> Body(found, d)]
  <2> HIDE DEF Body
  <2> QED BY <1>6 DEF found
<1>8. Below(p, Q) = found[MaxDepth] \cup {c \in Q \cap Conversations : up[c] \in found[MaxDepth]}
  BY DEF Below
<1>9. \A d \in 0..MaxDepth : found[d] = Body(found, d)
  <2> HIDE DEF Body, found
  <2> QED BY <1>7
<1> HIDE DEF found
<1>10. found[0] = {p}
  <2>1. found[0] = Body(found, 0)
    <3> HIDE DEF Body
    <3> QED BY <1>9, DepthAssumption
  <2> QED BY <2>1
<1>11. ASSUME NEW d \in 1..MaxDepth
       PROVE  found[d] = found[d - 1] \cup {q \in Q \cap Projects : up[q] \in found[d - 1]}
  <2>1. d \in 0..MaxDepth /\ d # 0
    BY DepthAssumption
  <2> QED BY <1>9, <2>1
<1>12. \A d \in 0..MaxDepth : found[d] \subseteq (Q \cap Projects) \cup {p}
  <2> DEFINE S == {d \in Nat : d <= MaxDepth => found[d] \subseteq (Q \cap Projects) \cup {p}}
  <2>1. 0 \in S
    BY <1>10
  <2>2. ASSUME NEW d \in S PROVE d + 1 \in S
    <3> SUFFICES ASSUME d + 1 <= MaxDepth PROVE found[d + 1] \subseteq (Q \cap Projects) \cup {p}
      OBVIOUS
    <3>1. d + 1 \in 1..MaxDepth /\ (d + 1) - 1 = d /\ d <= MaxDepth
      BY DepthAssumption
    <3> QED BY <1>11, <3>1
  <2>3. S \in SUBSET Nat
    OBVIOUS
  <2> HIDE DEF S
  <2>4. S = Nat
    BY <2>1, <2>2, <2>3, Induction
  <2> QED BY <2>4, DepthAssumption DEF S
<1> QED
  <2> HIDE DEF found
  <2>1. Levels(p, Q, found)
    BY <1>8, <1>10, <1>11, <1>12 DEF Levels
  <2> QED BY <2>1

\* What a level has found, the later ones have.
LEMMA LevelsGrow ==
  ASSUME NEW p, NEW Q, NEW found, Levels(p, Q, found),
         NEW d \in 0..MaxDepth, NEW e \in 0..MaxDepth, d <= e
  PROVE  found[d] \subseteq found[e]
<1> DEFINE S == {n \in Nat : d + n <= MaxDepth => found[d] \subseteq found[d + n]}
<1>1. 0 \in S
  OBVIOUS
<1>2. ASSUME NEW n \in S PROVE n + 1 \in S
  <2> SUFFICES ASSUME d + (n + 1) <= MaxDepth PROVE found[d] \subseteq found[d + (n + 1)]
    OBVIOUS
  <2>1. d + (n + 1) \in 1..MaxDepth /\ (d + (n + 1)) - 1 = d + n /\ d + n <= MaxDepth
    BY DepthAssumption
  <2>2. found[d + n] \subseteq found[d + (n + 1)]
    BY <2>1 DEF Levels
  <2> QED BY <2>1, <2>2
<1>3. S \in SUBSET Nat
  OBVIOUS
<1> HIDE DEF S
<1>4. S = Nat
  BY <1>1, <1>2, <1>3, Induction
<1>5. e - d \in Nat /\ d + (e - d) = e
  BY DepthAssumption
<1>6. e - d \in S
  BY <1>4, <1>5
<1> QED BY <1>5, <1>6, DepthAssumption DEF S

\* p itself, otherwise only rows of Q.
LEMMA BelowRange ==
  ASSUME NEW p, NEW Q
  PROVE  p \in Below(p, Q) /\ Below(p, Q) \subseteq Q \cup {p}
<1>1. PICK found : Levels(p, Q, found)
  BY BelowByLevels
<1>2. 0 \in 0..MaxDepth /\ MaxDepth \in 0..MaxDepth /\ 0 <= MaxDepth
  BY DepthAssumption
<1>3. found[0] \subseteq found[MaxDepth]
  BY <1>1, <1>2, LevelsGrow
<1> QED BY <1>1, <1>2, <1>3 DEF Levels

\* A row that a level has found, other than p, was reached from its parent.
LEMMA LevelParent ==
  ASSUME NEW p, NEW Q, NEW found, Levels(p, Q, found),
         NEW n \in found[MaxDepth], n # p
  PROVE  n \in Q /\ up[n] \in found[MaxDepth]
<1> DEFINE S == {d \in Nat : d <= MaxDepth => \A m \in found[d] : m # p => up[m] \in found[d]}
<1>1. 0 \in S
  BY DEF Levels
<1>2. ASSUME NEW d \in S PROVE d + 1 \in S
  <2> SUFFICES ASSUME d + 1 <= MaxDepth, NEW m \in found[d + 1], m # p
               PROVE  up[m] \in found[d + 1]
    OBVIOUS
  <2>1. d + 1 \in 1..MaxDepth /\ (d + 1) - 1 = d /\ d <= MaxDepth
    BY DepthAssumption
  <2>2. found[d + 1] = found[d] \cup {q \in Q \cap Projects : up[q] \in found[d]}
    BY <2>1 DEF Levels
  <2> QED BY <2>1, <2>2
<1>3. S \in SUBSET Nat
  OBVIOUS
<1> HIDE DEF S
<1>4. S = Nat
  BY <1>1, <1>2, <1>3, Induction
<1>5. MaxDepth \in S /\ MaxDepth \in 0..MaxDepth
  BY <1>4, DepthAssumption
<1>6. up[n] \in found[MaxDepth]
  BY <1>5 DEF S
<1> QED BY <1>5, <1>6 DEF Levels

\* Whatever is below p, other than p, was reached from its parent.
LEMMA BelowParent ==
  ASSUME NEW p, NEW Q, NEW n \in Below(p, Q), n # p
  PROVE  n \in Q /\ up[n] \in Below(p, Q)
<1>1. PICK found : Levels(p, Q, found)
  BY BelowByLevels
<1>2. CASE n \in found[MaxDepth]
  <2>1. n \in Q /\ up[n] \in found[MaxDepth]
    BY <1>1, <1>2, LevelParent
  <2> QED BY <1>1, <2>1 DEF Levels
<1>3. CASE n \notin found[MaxDepth]
  BY <1>1, <1>3 DEF Levels
<1> QED BY <1>2, <1>3

\* A line of projects, each the parent of the next, from p to n.
Line(f, d) ==
  /\ f \in [0..d -> rows \cap Projects]
  /\ \A i, j \in 0..d : f[i] = f[j] => i = j
  /\ \A i \in 1..d : up[f[i]] = f[i - 1]

\* No line of projects, live or deleted, is longer than the queries go down.
WithinReach == ~ \E f : Line(f, MaxDepth + 1)

\* What the last of d levels has found first lies at the end of a line of d steps.
LEMMA NewAtTheEndOfALine ==
  ASSUME NEW p \in rows \cap Projects, NEW Q \in SUBSET rows, NEW found, Levels(p, Q, found)
  PROVE  \A d \in 0..MaxDepth : \A n \in found[d] :
           (\A e \in 0..d - 1 : n \notin found[e]) =>
             \E f : Line(f, d) /\ f[d] = n /\ \A i \in 0..d : f[i] \in found[i]
<1> DEFINE
      Ends(n, d) == \E f : Line(f, d) /\ f[d] = n /\ \A i \in 0..d : f[i] \in found[i]
      S == {d \in Nat : d <= MaxDepth =>
              \A n \in found[d] : (\A e \in 0..d - 1 : n \notin found[e]) => Ends(n, d)}
<1>1. 0 \in S
  <2> DEFINE f == [i \in 0..0 |-> p]
  <2>1. Line(f, 0) /\ f[0] = p /\ \A i \in 0..0 : f[i] \in found[i]
    BY DEF Line, Levels
  <2> HIDE DEF f
  <2>2. Ends(p, 0)
    BY <2>1
  <2> QED BY <2>2 DEF Levels
<1>2. ASSUME NEW d \in S PROVE d + 1 \in S
  <2> SUFFICES ASSUME d + 1 <= MaxDepth, NEW n \in found[d + 1],
                      \A e \in 0..(d + 1) - 1 : n \notin found[e]
               PROVE  Ends(n, d + 1)
    OBVIOUS
  <2>1. d + 1 \in 1..MaxDepth /\ (d + 1) - 1 = d /\ d <= MaxDepth /\ d \in 0..MaxDepth
    BY DepthAssumption
  <2>2. n \in Q \cap Projects /\ up[n] \in found[d]
    BY <2>1 DEF Levels
  <2>3. ASSUME NEW e \in 0..d - 1 PROVE up[n] \notin found[e]
    <3>1. e + 1 \in 1..MaxDepth /\ (e + 1) - 1 = e /\ e + 1 \in 0..d
      BY <2>1, DepthAssumption
    <3>2. up[n] \in found[e] => n \in found[e + 1]
      BY <2>2, <3>1 DEF Levels
    <3> QED BY <2>1, <3>1, <3>2
  <2>4. Ends(up[n], d)
    BY <2>1, <2>2, <2>3
  <2>5. PICK f : Line(f, d) /\ f[d] = up[n] /\ \A i \in 0..d : f[i] \in found[i]
    BY <2>4
  <2> DEFINE g == [i \in 0..d + 1 |-> IF i = d + 1 THEN n ELSE f[i]]
  <2>6. \A i \in 0..d : g[i] = f[i] /\ g[i] # n
    BY <2>1, <2>5
  <2>7. g[d + 1] = n
    BY <2>1
  <2>8. Line(g, d + 1)
    <3>1. g \in [0..d + 1 -> rows \cap Projects]
      BY <2>1, <2>2, <2>5 DEF Line
    <3>2. ASSUME NEW i \in 0..d + 1, NEW j \in 0..d + 1, g[i] = g[j] PROVE i = j
      <4> HIDE DEF g
      <4>1. (i \in 0..d \/ i = d + 1) /\ (j \in 0..d \/ j = d + 1)
        BY <2>1
      <4> QED BY <2>5, <2>6, <2>7, <3>2, <4>1 DEF Line
    <3>3. ASSUME NEW i \in 1..d + 1 PROVE up[g[i]] = g[i - 1]
      <4> HIDE DEF g
      <4>1. CASE i = d + 1
        BY <2>1, <2>5, <2>6, <2>7, <4>1
      <4>2. CASE i # d + 1
        <5>1. i \in 1..d /\ i \in 0..d /\ i - 1 \in 0..d
          BY <2>1, <4>2
        <5> QED BY <2>5, <2>6, <5>1 DEF Line
      <4> QED BY <4>1, <4>2
    <3> HIDE DEF g
    <3> QED BY <3>1, <3>2, <3>3 DEF Line
  <2> HIDE DEF g
  <2>9. \A i \in 0..d + 1 : g[i] \in found[i]
    <3>1. \A i \in 0..d + 1 : i \in 0..d \/ i = d + 1
      BY <2>1
    <3> QED BY <2>5, <2>6, <2>7, <3>1
  <2> QED BY <2>7, <2>8, <2>9
<1>3. S \in SUBSET Nat
  OBVIOUS
<1> HIDE DEF S
<1>4. S = Nat
  BY <1>1, <1>2, <1>3, Induction
<1> QED BY <1>4, DepthAssumption DEF S

\* As long as no line is longer than that, Below is closed: a row of Q whose parent
\* is in it is in it.
LEMMA BelowClosed ==
  ASSUME TypeOK, WithinReach, NEW p \in rows \cap Projects, NEW Q \in SUBSET rows,
         NEW m \in Q, up[m] \in Below(p, Q)
  PROVE  m \in Below(p, Q)
<1>1. PICK found : Levels(p, Q, found)
  BY BelowByLevels
<1>2. m \in Nodes /\ up[m] \in Projects \cup {Root}
  BY DEF TypeOK
<1>3. MaxDepth \in Nat /\ MaxDepth \in 0..MaxDepth
  BY DepthAssumption
<1>4. up[m] \in found[MaxDepth]
  BY <1>1, <1>2, IdAssumption DEF Levels, Nodes
<1>5. CASE m \in Conversations
  BY <1>1, <1>4, <1>5 DEF Levels
<1>6. ASSUME m \in Projects, m \notin found[MaxDepth] PROVE FALSE
  <2>1. ASSUME NEW e \in 0..MaxDepth - 1 PROVE up[m] \notin found[e]
    <3>1. e + 1 \in 1..MaxDepth /\ (e + 1) - 1 = e /\ e + 1 \in 0..MaxDepth /\ e + 1 <= MaxDepth
      BY <1>3
    <3>2. up[m] \in found[e] => m \in found[e + 1]
      BY <1>1, <1>6, <3>1 DEF Levels
    <3>3. found[e + 1] \subseteq found[MaxDepth]
      BY <1>1, <1>3, <3>1, LevelsGrow
    <3> QED BY <1>6, <3>2, <3>3
  <2>2. PICK f : Line(f, MaxDepth) /\ f[MaxDepth] = up[m] /\ \A i \in 0..MaxDepth : f[i] \in found[i]
    <3> DEFINE Ends(n, d) == \E f : Line(f, d) /\ f[d] = n /\ \A i \in 0..d : f[i] \in found[i]
    <3>1. \A d \in 0..MaxDepth : \A n \in found[d] :
            (\A e \in 0..d - 1 : n \notin found[e]) => Ends(n, d)
      BY <1>1, NewAtTheEndOfALine
    <3> HIDE DEF Ends
    <3>2. Ends(up[m], MaxDepth)
      BY <1>3, <1>4, <2>1, <3>1
    <3> QED BY <3>2 DEF Ends
  <2> DEFINE N == MaxDepth + 1
             g == [i \in 0..N |-> IF i = N THEN m ELSE f[i]]
  <2>3. \A i \in 0..MaxDepth : g[i] = f[i] /\ g[i] # m
    <3>1. ASSUME NEW i \in 0..MaxDepth PROVE g[i] = f[i] /\ g[i] # m
      <4>1. i \in 0..N /\ i # N /\ i <= MaxDepth
        BY <1>3
      <4>2. found[i] \subseteq found[MaxDepth]
        BY <1>1, <1>3, <4>1, LevelsGrow
      <4> QED BY <1>6, <2>2, <4>1, <4>2
    <3> QED BY <3>1
  <2>4. g[N] = m
    BY <1>3
  <2>5. Line(g, N)
    <3>1. g \in [0..N -> rows \cap Projects]
      BY <1>3, <1>6, <2>2 DEF Line
    <3>2. \A i \in 0..N : i \in 0..MaxDepth \/ i = N
      BY <1>3
    <3> HIDE DEF g
    <3>3. ASSUME NEW i \in 0..N, NEW j \in 0..N, g[i] = g[j] PROVE i = j
      BY <2>2, <2>3, <2>4, <3>2, <3>3 DEF Line
    <3>4. ASSUME NEW i \in 1..N PROVE up[g[i]] = g[i - 1]
      <4>1. CASE i = N
        BY <1>3, <2>2, <2>3, <2>4, <4>1
      <4>2. CASE i # N
        <5>1. i \in 1..MaxDepth /\ i \in 0..MaxDepth /\ i - 1 \in 0..MaxDepth
          BY <1>3, <4>2
        <5> QED BY <2>2, <2>3, <5>1 DEF Line
      <4> QED BY <4>1, <4>2
    <3> QED BY <3>1, <3>3, <3>4 DEF Line
  <2> HIDE DEF g
  <2> QED BY <2>5 DEF WithinReach
<1> QED BY <1>1, <1>2, <1>5, <1>6 DEF Levels, Nodes

\* No more projects than MAX_DEPTH make no longer line.
LEMMA FewProjectsAreWithinReach ==
  ASSUME IsFiniteSet(Projects), Cardinality(Projects) <= MaxDepth
  PROVE  WithinReach
<1> SUFFICES ASSUME NEW f, Line(f, MaxDepth + 1) PROVE FALSE
  BY DEF WithinReach
<1> DEFINE I == 0..MaxDepth + 1
<1>1. f \in Injection(I, Projects)
  BY DEF Line, Injection, IsInjective
<1>2. Cardinality(I) = MaxDepth + 2 /\ IsFiniteSet(I)
  BY FS_Interval, DepthAssumption
<1>3. IsFiniteSet(I) /\ Cardinality(I) <= Cardinality(Projects)
  <2> HIDE DEF I
  <2> QED BY <1>1, FS_Injection
<1>4. Cardinality(Projects) \in Nat
  BY FS_CardinalityType
<1> QED BY <1>2, <1>3, <1>4, DepthAssumption

-----------------------------------------------------------------------------
(* The access checks. *)

\* Write access, and ownership, are only ever given on a live project.
LEMMA AccessIsLive ==
  ASSUME NEW u, NEW p
  PROVE  /\ CanWrite(u, p) => Live(p)
         /\ PermissionFor(u, p) = "owner" => Live(p)
         /\ CanPlaceUnder(u, p) => Live(p) \/ p = Root
BY DEF CanWrite, PermissionFor, CanPlaceUnder

-----------------------------------------------------------------------------
(* The structural invariant. *)

\* An id that was not handed out has no history.
FreshUntouched == \A n \in fresh : deletedAt[n] = 0 /\ cause[n] = Root

\* No timestamp lies in the future, and no deleted row is younger in death
\* than its deleted parent: this is what lets a purge by cutoff take a parent
\* only together with everything below it.
StampOrder ==
  /\ clock > 0
  /\ \A n \in rows : deletedAt[n] <= clock
  /\ \A n \in rows : up[n] \in rows /\ deletedAt[n] # 0 /\ deletedAt[up[n]] # 0
                      => deletedAt[n] <= deletedAt[up[n]]

Structure ==
  /\ TypeOK
  /\ FreshUntouched
  /\ StampOrder
  /\ LiveUnderLive
  /\ ForeignKeysHold
  /\ Acyclic

USE IdAssumption, ClockAssumption

\* A soft deletion keeps the structure when it takes all that is live below
\* any row it takes.
LEMMA SoftDeleteKeepsStructure ==
  ASSUME Structure, NEW S \in SUBSET LiveNodes, NEW n \in S,
         \A m \in LiveNodes : up[m] \in S => m \in S,
         SoftDelete(S, n)
  PROVE  Structure'
<1> USE DEF Structure, LiveNodes
<1>0. PICK s \in ClockSteps :
        /\ clock' = clock + s
        /\ deletedAt' = [m \in Nodes |-> IF m \in S THEN clock + s ELSE deletedAt[m]]
        /\ cause' = [m \in Nodes |-> IF m \in S THEN n ELSE cause[m]]
        /\ projectIndex' = DropProjects(S)
        /\ conversationIndex' = DropConversations(S)
        /\ UNCHANGED <<fresh, rows, up, label, grants>>
  BY DEF SoftDelete
<1>1. s \in Nat /\ S \subseteq Nodes /\ rows \subseteq Nodes /\ rows \cap fresh = {} /\ clock \in Nat
  BY DEF TypeOK
<1>2. TypeOK'
  BY <1>0, <1>1 DEF TypeOK, DropProjects, DropConversations
<1>3. FreshUntouched'
  BY <1>0, <1>1 DEF FreshUntouched, TypeOK
<1>4. StampOrder'
  <2>1. \A m \in rows : deletedAt[m] \in Nat /\ deletedAt'[m] \in Nat /\ deletedAt'[m] <= clock'
    BY <1>0, <1>1 DEF StampOrder, TypeOK
  <2>2. ASSUME NEW m \in rows, up[m] \in rows, deletedAt'[m] # 0, deletedAt'[up[m]] # 0
        PROVE  deletedAt'[m] <= deletedAt'[up[m]]
    <3>1. CASE up[m] \in S
      BY <1>0, <1>1, <2>1, <2>2, <3>1
    <3>2. CASE up[m] \notin S
      <4>1. m \notin S
        BY <1>0, <1>1, <2>2, <3>2 DEF LiveUnderLive, Live, TypeOK
      <4> QED BY <1>0, <1>1, <2>2, <3>2, <4>1 DEF StampOrder
    <3> QED BY <3>1, <3>2
  <2>3. clock' > 0
    BY <1>0, <1>1 DEF StampOrder
  <2> QED BY <1>0, <2>1, <2>2, <2>3 DEF StampOrder
<1>5. LiveUnderLive'
  BY <1>0, <1>1 DEF LiveUnderLive, Live, StampOrder, TypeOK
<1>6. ForeignKeysHold' /\ Acyclic'
  BY <1>0 DEF ForeignKeysHold, Acyclic
<1> QED BY <1>2, <1>3, <1>4, <1>5, <1>6

\* A restore keeps it when every row it brings back hangs under a row that is
\* live or is brought back too.
LEMMA RestoreKeepsStructure ==
  ASSUME Structure, NEW S \in SUBSET rows,
         \A m \in S : up[m] \in S \/ Live(up[m]) \/ (m \in Projects /\ up[m] = Root),
         Restore(S)
  PROVE  Structure'
<1> USE DEF Structure
<1>1. S \subseteq Nodes /\ rows \subseteq Nodes /\ rows \cap fresh = {}
  BY DEF TypeOK
<1>2. TypeOK'
  <2>1. \A c \in S \cap Conversations : <<c, up[c], label[c]>> \in Conversations \X Projects \X Names
    BY <1>1 DEF TypeOK, Live, Nodes
  <2>2. \A p \in S \cap Projects : <<p, label[p]>> \in Projects \X Names
    BY <1>1 DEF TypeOK, Nodes
  <2>3. conversationIndex' \in SUBSET (Conversations \X Projects \X Names)
    BY <2>1 DEF TypeOK, Restore, DropConversations
  <2>4. projectIndex' \in SUBSET (Projects \X Names)
    BY <2>2 DEF TypeOK, Restore, DropProjects
  <2> QED BY <2>3, <2>4 DEF TypeOK, Restore
<1>3. FreshUntouched'
  BY <1>1 DEF FreshUntouched, Restore, TypeOK
<1>4. StampOrder'
  BY <1>1 DEF StampOrder, Restore, TypeOK
<1>5. LiveUnderLive'
  BY <1>1 DEF LiveUnderLive, LiveNodes, Live, Restore, TypeOK
<1>6. ForeignKeysHold' /\ Acyclic'
  BY DEF ForeignKeysHold, Acyclic, Restore
<1> QED BY <1>2, <1>3, <1>4, <1>5, <1>6

\* Deleting a project and everything live below it.
LEMMA DeleteProjectKeepsStructure ==
  ASSUME Structure, WithinReach, NEW u, NEW p \in Projects, DeleteProject(u, p)
  PROVE  Structure'
<1>1. p \in LiveNodes
  BY AccessIsLive DEF DeleteProject, LiveNodes, Live
<1> DEFINE S == Below(p, LiveNodes)
<1>2. S \in SUBSET LiveNodes /\ p \in S
  BY <1>1, BelowRange
<1>3. \A m \in LiveNodes : up[m] \in S => m \in S
  <2>1. TypeOK /\ p \in rows \cap Projects /\ LiveNodes \in SUBSET rows
    BY <1>1 DEF Structure, LiveNodes
  <2> QED BY <2>1, BelowClosed
<1>4. SoftDelete(S, p)
  BY DEF DeleteProject
<1> HIDE DEF S
<1> QED BY <1>2, <1>3, <1>4, SoftDeleteKeepsStructure

\* Deleting one conversation: nothing hangs under a conversation.
LEMMA DeleteConversationKeepsStructure ==
  ASSUME Structure, NEW u, NEW c \in Conversations, DeleteConversation(u, c)
  PROVE  Structure'
<1>1. {c} \in SUBSET LiveNodes
  BY DEF DeleteConversation, LiveNodes, Live
<1>2. \A m \in LiveNodes : up[m] # c
  BY DEF LiveNodes, Structure, TypeOK, Nodes
<1> QED BY <1>1, <1>2, SoftDeleteKeepsStructure DEF DeleteConversation

\* Restoring a project and what was deleted with it.
LEMMA RestoreProjectKeepsStructure ==
  ASSUME Structure, NEW u, NEW p \in Projects, RestoreProject(u, p)
  PROVE  Structure'
<1> DEFINE Q == StampedAt(deletedAt[p])
           S == Below(p, Q)
<1>1. S \in SUBSET rows
  BY BelowRange DEF RestoreProject, StampedAt
<1>2. Live(up[p]) \/ up[p] = Root
  BY AccessIsLive DEF RestoreProject
<1>3. \A m \in S : m # p => up[m] \in S
  BY BelowParent
<1>4. Restore(S)
  BY DEF RestoreProject
<1> HIDE DEF S
<1> QED BY <1>1, <1>2, <1>3, <1>4, RestoreKeepsStructure

\* Restoring one conversation under its live project.
LEMMA RestoreConversationKeepsStructure ==
  ASSUME Structure, NEW u, NEW c \in Conversations, RestoreConversation(u, c)
  PROVE  Structure'
<1>1. {c} \in SUBSET rows /\ Live(up[c]) /\ Restore({c})
  BY AccessIsLive DEF RestoreConversation
<1> QED BY <1>1, RestoreKeepsStructure

\* A new project hangs under a live one and nothing hangs under it yet.
LEMMA CreateProjectKeepsStructure ==
  ASSUME Structure, NEW u \in Users, NEW p \in Projects, NEW q \in Projects \cup {Root},
         NEW n \in Names, CreateProject(u, p, q, n)
  PROVE  Structure'
<1> USE DEF Structure, CreateProject
<1>1. p \in fresh /\ p \notin rows /\ p \in Nodes /\ rows \subseteq Nodes
  BY DEF TypeOK, Nodes
<1>2. q # p /\ (Live(q) \/ q = Root)
  BY <1>1, AccessIsLive DEF Live
<1>3. \A m \in rows : up[m] # p
  BY <1>1 DEF ForeignKeysHold
<1>4. TypeOK'
  <2>1. grants' \in [Projects -> [Users -> Permissions]]
    BY DEF TypeOK, Permissions
  <2>2. projectIndex' \in SUBSET (Projects \X Names)
    BY DEF TypeOK, DropProjects
  <2> QED BY <1>1, <2>1, <2>2 DEF TypeOK
<1>5. FreshUntouched'
  BY DEF FreshUntouched
<1>6. StampOrder'
  BY <1>1, <1>2, <1>3 DEF StampOrder, FreshUntouched, TypeOK, Live
<1>7. LiveUnderLive'
  BY <1>1, <1>2, <1>3 DEF LiveUnderLive, LiveNodes, Live, FreshUntouched, TypeOK
<1>8. ForeignKeysHold'
  BY <1>1, <1>2 DEF ForeignKeysHold, Live, TypeOK
<1>9. Acyclic'
  <2> SUFFICES ASSUME NEW S \in SUBSET (rows' \cap Projects), S # {},
                      \A m \in S : up'[m] \in S
               PROVE  FALSE
    BY DEF Acyclic
  <2>1. \A m \in S \ {p} : up[m] \in S \ {p}
    BY <1>1, <1>3 DEF TypeOK
  <2>2. S \ {p} = {}
    BY <2>1 DEF Acyclic
  <2> QED BY <1>1, <1>2, <2>2 DEF TypeOK
<1> QED BY <1>4, <1>5, <1>6, <1>7, <1>8, <1>9

\* A new conversation or fork, under a live project.
LEMMA InsertConversationKeepsStructure ==
  ASSUME Structure, NEW c \in Conversations, NEW q \in Projects, NEW n \in Names,
         Live(q), InsertConversation(c, q, n)
  PROVE  Structure'
<1> USE DEF Structure, InsertConversation
<1>1. c \in fresh /\ c \notin rows /\ c \in Nodes /\ c \notin Projects /\ rows \subseteq Nodes
  BY DEF TypeOK, Nodes
<1>2. \A m \in rows : up[m] # c
  BY <1>1 DEF ForeignKeysHold
<1>3. TypeOK'
  <2>1. conversationIndex' \in SUBSET (Conversations \X Projects \X Names)
    BY DEF TypeOK, DropConversations
  <2> QED BY <1>1, <2>1 DEF TypeOK
<1>4. FreshUntouched'
  BY DEF FreshUntouched
<1>5. StampOrder'
  BY <1>1, <1>2 DEF StampOrder, FreshUntouched, TypeOK, Live
<1>6. LiveUnderLive'
  BY <1>1, <1>2 DEF LiveUnderLive, LiveNodes, Live, FreshUntouched, TypeOK
<1>7. ForeignKeysHold'
  BY <1>1 DEF ForeignKeysHold, Live, TypeOK
<1>8. Acyclic'
  <2>1. rows' \cap Projects = rows \cap Projects
    BY <1>1
  <2>2. \A p \in rows' \cap Projects : up'[p] = up[p]
    BY <1>1, <2>1 DEF TypeOK
  <2> QED BY <2>1, <2>2 DEF Acyclic
<1> QED BY <1>3, <1>4, <1>5, <1>6, <1>7, <1>8

\* A live row gets another live parent, none of its own descendants: a project
\* moved under another, or to the top level.
LEMMA MoveProjectKeepsStructure ==
  ASSUME Structure, WithinReach, NEW u, NEW p \in Projects, NEW q \in Projects \cup {Root},
         MoveProject(u, p, q)
  PROVE  Structure'
<1> USE DEF Structure, MoveProject
<1>1. Live(p) /\ (Live(q) \/ q = Root)
  BY AccessIsLive
<1>2. TypeOK'
  BY DEF TypeOK, Nodes
<1>3. FreshUntouched'
  BY DEF FreshUntouched
<1>4. StampOrder'
  BY <1>1 DEF StampOrder, TypeOK, Live, Nodes
<1>5. LiveUnderLive'
  BY <1>1 DEF LiveUnderLive, LiveNodes, Live, TypeOK, Nodes
<1>6. ForeignKeysHold'
  BY <1>1 DEF ForeignKeysHold, Live, TypeOK, Nodes
<1>7. Acyclic'
  <2> DEFINE Q == rows \cap Projects
             B == Below(p, Q)
  <2> SUFFICES ASSUME NEW S \in SUBSET Q, S # {}, \A m \in S : up'[m] \in S
               PROVE  FALSE
    BY DEF Acyclic
  <2>1. p \in B /\ q \notin B
    BY BelowRange
  <2>2. \A m \in Q : up[m] \in B => m \in B
    <3>1. TypeOK /\ p \in rows \cap Projects /\ Q \in SUBSET rows
      BY <1>1 DEF Live
    <3> QED BY <3>1, BelowClosed
  <2> HIDE DEF B
  <2>3. \A m \in S : m # p => up[m] \in S
    BY DEF TypeOK, Nodes
  <2>4. CASE p \notin S
    BY <2>3, <2>4 DEF Acyclic
  <2>5. CASE p \in S
    <3>1. q \in S \ B
      BY <2>1, <2>5 DEF TypeOK, Nodes
    <3>2. \A m \in S \ B : up[m] \in S \ B
      BY <2>1, <2>2, <2>3
    <3> QED BY <3>1, <3>2 DEF Acyclic
  <2> QED BY <2>4, <2>5
<1> QED BY <1>2, <1>3, <1>4, <1>5, <1>6, <1>7

\* A conversation moves to another live project.
LEMMA MoveConversationKeepsStructure ==
  ASSUME Structure, NEW u, NEW c \in Conversations, NEW q \in Projects,
         MoveConversation(u, c, q)
  PROVE  Structure'
<1> USE DEF Structure, MoveConversation
<1>1. Live(c) /\ Live(q) /\ c \in Nodes /\ c \notin Projects
  BY AccessIsLive DEF Nodes
<1>2. TypeOK'
  BY <1>1 DEF TypeOK, DropConversations
<1>3. FreshUntouched'
  BY DEF FreshUntouched
<1>4. StampOrder'
  BY <1>1 DEF StampOrder, TypeOK, Live, Nodes
<1>5. LiveUnderLive'
  BY <1>1 DEF LiveUnderLive, LiveNodes, Live, TypeOK, Nodes
<1>6. ForeignKeysHold'
  BY <1>1 DEF ForeignKeysHold, Live, TypeOK, Nodes
<1>7. Acyclic'
  <2>1. \A p \in Projects : up'[p] = up[p]
    BY <1>1 DEF TypeOK, Nodes
  <2> QED BY <2>1 DEF Acyclic
<1> QED BY <1>2, <1>3, <1>4, <1>5, <1>6, <1>7

\* The purge takes, with any row, everything deleted below it.
LEMMA PurgeKeepsStructure ==
  ASSUME Structure, NEW u, NEW cutoff \in Nat, PurgeDeleted(u, cutoff)
  PROVE  Structure'
<1> USE DEF Structure
<1> DEFINE gone == {n \in rows : deletedAt[n] \in 1..cutoff}
<1>1. rows' = rows \ gone /\ UNCHANGED <<fresh, up, label, deletedAt, clock, cause>>
  BY DEF PurgeDeleted
<1>2. TypeOK'
  <2>1. grants' \in [Projects -> [Users -> Permissions]]
    BY DEF TypeOK, PurgeDeleted, Permissions
  <2>2. projectIndex' \subseteq projectIndex /\ conversationIndex' \subseteq conversationIndex
    BY DEF PurgeDeleted, DropProjects, DropConversations
  <2> QED BY <1>1, <2>1, <2>2 DEF TypeOK
<1>3. FreshUntouched'
  BY <1>1 DEF FreshUntouched
<1>4. StampOrder'
  BY <1>1 DEF StampOrder
<1>5. LiveUnderLive'
  BY <1>1 DEF LiveUnderLive, LiveNodes, Live, TypeOK
<1>6. ForeignKeysHold'
  <2> SUFFICES ASSUME NEW n \in rows', up[n] \in gone PROVE FALSE
    BY <1>1 DEF ForeignKeysHold
  <2>1. n \in rows /\ up[n] \in rows /\ deletedAt[n] \in Nat /\ deletedAt[up[n]] \in 1..cutoff
    BY <1>1 DEF TypeOK
  <2>2. deletedAt[n] # 0
    BY <2>1, IdAssumption DEF LiveUnderLive, LiveNodes, Live, TypeOK
  <2>3. deletedAt[n] <= deletedAt[up[n]]
    BY <2>1, <2>2 DEF StampOrder
  <2> QED BY <1>1, <2>1, <2>2, <2>3
<1>7. Acyclic'
  BY <1>1 DEF Acyclic
<1> QED BY <1>2, <1>3, <1>4, <1>5, <1>6, <1>7

\* The empty workspace is well formed.
LEMMA InitStructure == Init => Structure
<1> SUFFICES ASSUME Init PROVE Structure
  OBVIOUS
<1>1. (CHOOSE n \in Names : TRUE) \in Names
  BY FoldAssumption
<1>2. TypeOK
  BY <1>1 DEF Init, TypeOK, Permissions
<1> QED
  BY <1>2 DEF Init, Structure, FreshUntouched, StampOrder, LiveUnderLive, LiveNodes,
              ForeignKeysHold, Acyclic

\* Every operation of the service keeps the structure.
LEMMA NextStructure == Structure /\ WithinReach /\ [Next]_vars => Structure'
<1> SUFFICES ASSUME Structure, WithinReach, [Next]_vars PROVE Structure'
  OBVIOUS
<1>1. CASE UNCHANGED vars
  BY <1>1 DEF vars, Structure, TypeOK, FreshUntouched, StampOrder, LiveUnderLive, LiveNodes,
              Live, ForeignKeysHold, Acyclic
<1>2. ASSUME NEW u \in Users, NEW p \in Projects, NEW n \in Names, RenameProject(u, p, n)
      PROVE  Structure'
  <2>1. TypeOK'
    BY <1>2 DEF RenameProject, Structure, TypeOK, Nodes, DropProjects
  <2> QED
    BY <1>2, <2>1 DEF RenameProject, Structure, FreshUntouched, StampOrder, LiveUnderLive,
                      LiveNodes, Live, ForeignKeysHold, Acyclic
<1>3. ASSUME NEW u \in Users, NEW c \in Conversations, NEW n \in Names, RenameConversation(u, c, n)
      PROVE  Structure'
  <2>1. up[c] \in Projects
    BY <1>3, AccessIsLive DEF RenameConversation, Live, Structure, TypeOK, Nodes
  <2>2. TypeOK'
    BY <1>3, <2>1 DEF RenameConversation, Structure, TypeOK, Nodes, DropConversations
  <2> QED
    BY <1>3, <2>2 DEF RenameConversation, Structure, FreshUntouched, StampOrder,
                      LiveUnderLive, LiveNodes, Live, ForeignKeysHold, Acyclic
<1>4. ASSUME NEW u \in Users, NEW p \in Projects, NEW v \in Users,
             NEW permission \in Permissions, SetGrant(u, p, v, permission)
      PROVE  Structure'
  <2>1. TypeOK'
    BY <1>4 DEF SetGrant, Structure, TypeOK
  <2> QED
    BY <1>4, <2>1 DEF SetGrant, Structure, FreshUntouched, StampOrder, LiveUnderLive,
                      LiveNodes, Live, ForeignKeysHold, Acyclic
<1>5. ASSUME NEW u \in Users, ProjectStep(u) PROVE Structure'
  BY <1>2, <1>5, CreateProjectKeepsStructure, MoveProjectKeepsStructure,
     DeleteProjectKeepsStructure, RestoreProjectKeepsStructure DEF ProjectStep
<1>6. ASSUME NEW u \in Users, MembershipStep(u) PROVE Structure'
  <2>1. "none" \in Permissions
    BY DEF Permissions
  <2> QED BY <1>4, <1>6, <2>1, GrantAssumption DEF MembershipStep, Grant, Revoke
<1>7. ASSUME NEW u \in Users, ConversationStep(u) PROVE Structure'
  <2>1. ASSUME NEW c \in Conversations, NEW q \in Projects, NEW n \in Names,
               CreateConversation(u, c, q, n)
        PROVE  Structure'
    BY <2>1, AccessIsLive, InsertConversationKeepsStructure DEF CreateConversation
  <2>2. ASSUME NEW c \in Conversations, NEW s \in Conversations, NEW n \in Names,
               ForkConversation(u, s, c, n)
        PROVE  Structure'
    <3>1. Live(up[s]) /\ up[s] \in Projects
      BY <2>2, AccessIsLive DEF ForkConversation, Live, Structure, TypeOK, Nodes
    <3> QED BY <2>2, <3>1, InsertConversationKeepsStructure DEF ForkConversation
  <2> QED
    BY <1>3, <1>7, <2>1, <2>2, MoveConversationKeepsStructure,
       DeleteConversationKeepsStructure, RestoreConversationKeepsStructure
       DEF ConversationStep
<1>8. ASSUME NEW u \in Users, NEW cutoff \in 1..clock, PurgeDeleted(u, cutoff)
      PROVE  Structure'
  BY <1>8, PurgeKeepsStructure DEF Structure, TypeOK
<1> QED BY <1>1, <1>5, <1>6, <1>7, <1>8 DEF Next

\* The structural invariant holds in every reachable state, as long as no line of
\* projects is longer than the queries go down.
LEMMA StructureInvariant == Spec /\ []WithinReach => []Structure
BY InitStructure, NextStructure, PTL DEF Spec

\* Every column keeps its type (the rows written by services/tree.py).
THEOREM TypeCorrect == Spec /\ []WithinReach => []TypeOK
<1>1. Structure => TypeOK
  BY DEF Structure
<1> QED BY <1>1, StructureInvariant, PTL

\* In a workspace of any size whose projects are never nested more than MAX_DEPTH
\* deep, no sequence of creates, moves, deletions, restores and purges leaves a live
\* row under a deleted or missing project (tree.py restore_project's check of the
\* parent, projects.py soft_delete_subtree).  Below that depth the recursive query
\* ends and a deletion leaves live rows behind.
THEOREM NoLiveOrphans == Spec /\ []WithinReach => []LiveUnderLive
<1>1. Structure => LiveUnderLive
  BY DEF Structure
<1> QED BY <1>1, StructureInvariant, PTL

\* There move_project never ties the tree into a knot, deleted rows included.
\* Below that depth descendant_ids does not see all that hangs under the project.
THEOREM TreeStaysAcyclic == Spec /\ []WithinReach => []Acyclic
<1>1. Structure => Acyclic
  BY DEF Structure
<1> QED BY <1>1, StructureInvariant, PTL

\* There the purge by cutoff never removes a project some row still names, although
\* it looks at each row's own timestamp only (maintenance.py purge_deleted).  A row
\* that a deletion left behind would still name it.
THEOREM PurgeLeavesNoDanglingParent == Spec /\ []WithinReach => []ForeignKeysHold
<1>1. Structure => ForeignKeysHold
  BY DEF Structure
<1> QED BY <1>1, StructureInvariant, PTL

-----------------------------------------------------------------------------
(***************************************************************************)
(* The search indexes mirror the live rows after every operation: each     *)
(* handler deletes and inserts exactly the entries its own change touches. *)
(***************************************************************************)

Mirrored == Structure /\ IndexMirrorsRows

\* Dropping a set of deleted rows from both indexes.
LEMMA SoftDeleteKeepsIndex ==
  ASSUME Mirrored, NEW S \in SUBSET LiveNodes, NEW n \in S, SoftDelete(S, n)
  PROVE  IndexMirrorsRows'
<1> USE DEF Mirrored, IndexMirrorsRows
<1>0. PICK s \in ClockSteps :
        /\ deletedAt' = [m \in Nodes |-> IF m \in S THEN clock + s ELSE deletedAt[m]]
        /\ projectIndex' = DropProjects(S)
        /\ conversationIndex' = DropConversations(S)
        /\ UNCHANGED <<rows, up, label>>
  BY DEF SoftDelete
<1>1. clock + s # 0 /\ rows \subseteq Nodes
  BY DEF Structure, TypeOK, StampOrder
<1>2. LiveNodes' = LiveNodes \ S
  BY <1>0, <1>1 DEF LiveNodes
<1>3. projectIndex' = {<<p, label'[p]>> : p \in Projects \cap LiveNodes'}
  BY <1>0, <1>2 DEF DropProjects
<1>4. conversationIndex' = {<<c, up'[c], label'[c]>> : c \in Conversations \cap LiveNodes'}
  BY <1>0, <1>2 DEF DropConversations
<1> QED BY <1>3, <1>4

\* Putting a set of restored rows back into both indexes.
LEMMA RestoreKeepsIndex ==
  ASSUME Mirrored, NEW S \in SUBSET rows, Restore(S)
  PROVE  IndexMirrorsRows'
<1> USE DEF Mirrored, IndexMirrorsRows
<1>1. LiveNodes' = LiveNodes \cup S
  BY DEF LiveNodes, Restore, Structure, TypeOK
<1>2. projectIndex' = {<<p, label'[p]>> : p \in Projects \cap LiveNodes'}
  BY <1>1 DEF Restore, DropProjects
<1>3. conversationIndex' = {<<c, up'[c], label'[c]>> : c \in Conversations \cap LiveNodes'}
  BY <1>1 DEF Restore, DropConversations
<1> QED BY <1>2, <1>3

\* One project's entry is replaced: a creation or a rename.
LEMMA EntryOfProject ==
  ASSUME Mirrored, NEW p \in Projects, NEW n \in Names,
         LiveNodes' = LiveNodes \cup {p}, label' = [label EXCEPT ![p] = n],
         \A c \in Conversations : up'[c] = up[c],
         projectIndex' = DropProjects({p}) \cup {<<p, n>>},
         UNCHANGED conversationIndex
  PROVE  IndexMirrorsRows'
<1> USE DEF Mirrored, IndexMirrorsRows
<1>1. label'[p] = n /\ \A m \in Nodes \ {p} : label'[m] = label[m]
  BY DEF Structure, TypeOK, Nodes
<1>2. projectIndex' = {<<m, label'[m]>> : m \in Projects \cap LiveNodes'}
  BY <1>1 DEF DropProjects, Nodes
<1>3. Conversations \cap LiveNodes' = Conversations \cap LiveNodes
  BY DEF Nodes
<1>4. conversationIndex' = {<<c, up'[c], label'[c]>> : c \in Conversations \cap LiveNodes'}
  BY <1>1, <1>3 DEF Nodes
<1> QED BY <1>2, <1>4

\* One conversation's entry is replaced: a creation, fork, rename or move.
LEMMA EntryOfConversation ==
  ASSUME Mirrored, NEW c \in Conversations, NEW q \in Projects, NEW n \in Names,
         LiveNodes' = LiveNodes \cup {c}, label' = [label EXCEPT ![c] = n],
         up' = [up EXCEPT ![c] = q],
         conversationIndex' = DropConversations({c}) \cup {<<c, q, n>>},
         UNCHANGED projectIndex
  PROVE  IndexMirrorsRows'
<1> USE DEF Mirrored, IndexMirrorsRows
<1>1. /\ label'[c] = n /\ up'[c] = q
      /\ \A m \in Nodes \ {c} : label'[m] = label[m] /\ up'[m] = up[m]
  BY DEF Structure, TypeOK, Nodes
<1>2. conversationIndex' = {<<m, up'[m], label'[m]>> : m \in Conversations \cap LiveNodes'}
  BY <1>1 DEF DropConversations, Nodes
<1>3. Projects \cap LiveNodes' = Projects \cap LiveNodes
  BY DEF Nodes
<1>4. projectIndex' = {<<p, label'[p]>> : p \in Projects \cap LiveNodes'}
  BY <1>1, <1>3 DEF Nodes
<1> QED BY <1>2, <1>4

-----------------------------------------------------------------------------

\* Every project operation keeps the mirror.
LEMMA ProjectStepKeepsIndex ==
  ASSUME Mirrored, NEW u \in Users, ProjectStep(u)
  PROVE  IndexMirrorsRows'
<1>1. ASSUME NEW p \in Projects, NEW q \in Projects \cup {Root}, NEW n \in Names,
             CreateProject(u, p, q, n)
      PROVE  IndexMirrorsRows'
  <2>1. p \in fresh /\ p \in Nodes /\ deletedAt[p] = 0
    BY <1>1 DEF CreateProject, Mirrored, Structure, FreshUntouched, Nodes
  <2>2. LiveNodes' = LiveNodes \cup {p}
    BY <1>1, <2>1 DEF CreateProject, LiveNodes
  <2>3. \A c \in Conversations : up'[c] = up[c]
    BY <1>1 DEF CreateProject, Mirrored, Structure, TypeOK, Nodes
  <2> QED BY <1>1, <2>2, <2>3, EntryOfProject DEF CreateProject
<1>2. ASSUME NEW p \in Projects, NEW n \in Names, RenameProject(u, p, n)
      PROVE  IndexMirrorsRows'
  <2>1. LiveNodes' = LiveNodes \cup {p}
    BY <1>2, AccessIsLive DEF RenameProject, LiveNodes, Live
  <2> QED BY <1>2, <2>1, EntryOfProject DEF RenameProject
<1>3. ASSUME NEW p \in Projects, NEW q \in Projects \cup {Root}, MoveProject(u, p, q)
      PROVE  IndexMirrorsRows'
  <2>1. \A c \in Conversations : up'[c] = up[c]
    BY <1>3 DEF MoveProject, Mirrored, Structure, TypeOK, Nodes
  <2>2. LiveNodes' = LiveNodes /\ UNCHANGED <<label, projectIndex, conversationIndex>>
    BY <1>3 DEF MoveProject, LiveNodes
  <2> QED BY <2>1, <2>2 DEF Mirrored, IndexMirrorsRows
<1>4. ASSUME NEW p \in Projects, DeleteProject(u, p)
      PROVE  IndexMirrorsRows'
  <2> DEFINE S == Below(p, LiveNodes)
  <2>1. S \in SUBSET LiveNodes /\ p \in S
    BY <1>4, AccessIsLive, BelowRange DEF DeleteProject, LiveNodes, Live
  <2>2. SoftDelete(S, p)
    BY <1>4 DEF DeleteProject
  <2> HIDE DEF S
  <2> QED BY <2>1, <2>2, SoftDeleteKeepsIndex
<1>5. ASSUME NEW p \in Projects, RestoreProject(u, p)
      PROVE  IndexMirrorsRows'
  <2>1. Below(p, StampedAt(deletedAt[p])) \in SUBSET rows
    BY <1>5, BelowRange DEF RestoreProject, StampedAt
  <2> QED BY <1>5, <2>1, RestoreKeepsIndex DEF RestoreProject
<1> QED BY <1>1, <1>2, <1>3, <1>4, <1>5 DEF ProjectStep

\* Every conversation operation keeps the mirror.
LEMMA ConversationStepKeepsIndex ==
  ASSUME Mirrored, NEW u \in Users, ConversationStep(u)
  PROVE  IndexMirrorsRows'
<1> USE DEF Mirrored, Structure
<1>0. \A c \in Nodes : Live(up[c]) => up[c] \in Projects
  BY DEF Live, TypeOK
<1>1. ASSUME NEW c \in Conversations, NEW q \in Projects, NEW n \in Names,
             InsertConversation(c, q, n)
      PROVE  IndexMirrorsRows'
  <2>1. LiveNodes' = LiveNodes \cup {c}
    BY <1>1 DEF InsertConversation, FreshUntouched, LiveNodes
  <2> QED BY <1>1, <2>1, EntryOfConversation DEF InsertConversation
<1>2. ASSUME NEW c \in Conversations, NEW n \in Names, RenameConversation(u, c, n)
      PROVE  IndexMirrorsRows'
  <2>1. LiveNodes' = LiveNodes \cup {c} /\ up[c] \in Projects
    BY <1>0, <1>2, AccessIsLive DEF RenameConversation, LiveNodes, Live, Nodes
  <2>2. up' = [up EXCEPT ![c] = up[c]]
    BY <1>2 DEF RenameConversation, TypeOK
  <2> QED BY <1>2, <2>1, <2>2, EntryOfConversation DEF RenameConversation
<1>3. ASSUME NEW c \in Conversations, NEW q \in Projects, MoveConversation(u, c, q)
      PROVE  IndexMirrorsRows'
  <2>1. LiveNodes' = LiveNodes \cup {c} /\ label[c] \in Names
    BY <1>3 DEF MoveConversation, LiveNodes, Live, TypeOK
  <2>2. label' = [label EXCEPT ![c] = label[c]]
    BY <1>3 DEF MoveConversation, TypeOK
  <2> QED BY <1>3, <2>1, <2>2, EntryOfConversation DEF MoveConversation
<1>4. ASSUME NEW c \in Conversations, DeleteConversation(u, c)
      PROVE  IndexMirrorsRows'
  <2>1. {c} \in SUBSET LiveNodes
    BY <1>4 DEF DeleteConversation, LiveNodes, Live
  <2> QED BY <1>4, <2>1, SoftDeleteKeepsIndex DEF DeleteConversation
<1>5. ASSUME NEW c \in Conversations, RestoreConversation(u, c)
      PROVE  IndexMirrorsRows'
  BY <1>5, RestoreKeepsIndex DEF RestoreConversation
<1>6. ASSUME NEW c \in Conversations, NEW s \in Conversations, NEW n \in Names,
             ForkConversation(u, s, c, n)
      PROVE  IndexMirrorsRows'
  <2>1. up[s] \in Projects
    BY <1>0, <1>6, AccessIsLive DEF ForkConversation, Nodes
  <2> QED BY <1>1, <1>6, <2>1 DEF ForkConversation
<1> QED BY <1>1, <1>2, <1>3, <1>4, <1>5, <1>6 DEF ConversationStep, CreateConversation

\* A purge removes the entries of the rows it destroys, which were gone from
\* the indexes already.
LEMMA PurgeKeepsIndex ==
  ASSUME Mirrored, NEW u, NEW cutoff \in Nat, PurgeDeleted(u, cutoff)
  PROVE  IndexMirrorsRows'
<1> DEFINE gone == {n \in rows : deletedAt[n] \in 1..cutoff}
<1>1. /\ rows' = rows \ gone
      /\ projectIndex' = DropProjects(gone)
      /\ conversationIndex' = DropConversations(gone)
      /\ UNCHANGED <<up, label, deletedAt>>
  BY DEF PurgeDeleted
<1>2. LiveNodes' = LiveNodes /\ LiveNodes \cap gone = {}
  BY <1>1 DEF LiveNodes
<1> HIDE DEF gone
<1>3. projectIndex' = projectIndex /\ conversationIndex' = conversationIndex
  BY <1>1, <1>2 DEF DropProjects, DropConversations, Mirrored, IndexMirrorsRows
<1> QED BY <1>1, <1>2, <1>3 DEF Mirrored, IndexMirrorsRows

LEMMA NextIndex == Mirrored /\ [Next]_vars => IndexMirrorsRows'
<1> SUFFICES ASSUME Mirrored, [Next]_vars PROVE IndexMirrorsRows'
  OBVIOUS
<1>1. CASE UNCHANGED vars
  BY <1>1 DEF vars, Mirrored, IndexMirrorsRows, LiveNodes
<1>2. ASSUME NEW u \in Users, MembershipStep(u) PROVE IndexMirrorsRows'
  <2>1. UNCHANGED <<rows, up, label, deletedAt, projectIndex, conversationIndex>>
    BY <1>2 DEF MembershipStep, Grant, Revoke, SetGrant
  <2> QED BY <2>1 DEF Mirrored, IndexMirrorsRows, LiveNodes
<1>3. ASSUME NEW u \in Users, NEW cutoff \in 1..clock, PurgeDeleted(u, cutoff)
      PROVE  IndexMirrorsRows'
  BY <1>3, PurgeKeepsIndex DEF Mirrored, Structure, TypeOK
<1> QED
  BY <1>1, <1>2, <1>3, ProjectStepKeepsIndex, ConversationStepKeepsIndex DEF Next

\* The search indexes never name a deleted row, never miss a live one and
\* never carry an old name or an old project (repositories/search.py, called
\* from every handler of services/tree.py).
THEOREM SearchIndexMirrorsTree == Spec /\ []WithinReach => []IndexMirrorsRows
<1>1. Init => IndexMirrorsRows
  BY DEF Init, IndexMirrorsRows, LiveNodes
<1>2. Structure /\ IndexMirrorsRows /\ [Next]_vars => IndexMirrorsRows'
  BY NextIndex DEF Mirrored
<1> QED BY <1>1, <1>2, StructureInvariant, PTL DEF Spec

-----------------------------------------------------------------------------
(* Deletions and what undoes them.  Under a clock that moves between two     *)
(* deletions a timestamp identifies one deletion, which is what              *)
(* restore_subtree takes for granted.  Then a restore undoes exactly one     *)
(* deletion, and the rows it brings back clash with no live sibling.         *)

\* What a deletion leaves behind in the rows it took.
Provenance ==
  /\ \A n \in rows : deletedAt[n] = 0 <=> cause[n] = Root
  /\ \A n \in rows : cause[n] # Root =>
       cause[n] \in rows /\ cause[cause[n]] = cause[n] /\ deletedAt[cause[n]] = deletedAt[n]
  /\ \A m, n \in rows : deletedAt[m] # 0 /\ deletedAt[m] = deletedAt[n] => cause[m] = cause[n]
  /\ \A n \in rows : cause[n] # Root /\ cause[n] # n => up[n] \in rows /\ cause[up[n]] = cause[n]

\* Siblings that live together, or died together, have different names.
TogetherNamesUnique ==
  \A K \in {Projects, Conversations} : \A m, n \in K \cap rows :
    m # n /\ up[m] = up[n] /\ deletedAt[m] = deletedAt[n] => SqlFold[label[m]] # SqlFold[label[n]]

\* The rows that carry the timestamp of a deletion are all the rows it took, and all
\* of them are below its root.
LEMMA OneTimestampOneDeletion ==
  ASSUME Structure, Provenance, NEW p \in rows, cause[p] = p,
         NEW B, p \in B, \A n \in StampedAt(deletedAt[p]) : up[n] \in B => n \in B
  PROVE  /\ StampedAt(deletedAt[p]) \subseteq B
         /\ StampedAt(deletedAt[p]) = {n \in rows : cause[n] = p}
<1> DEFINE Q == StampedAt(deletedAt[p])
<1>1. p \in Nodes /\ p # Root /\ deletedAt[p] # 0
  BY DEF Structure, TypeOK, Provenance
<1>2. Q = {n \in rows : cause[n] = p}
  BY <1>1 DEF Provenance, StampedAt
<1>4. \A n \in Q \ B : n # p /\ up[n] \in Q \ B
  <2> SUFFICES ASSUME NEW n \in Q \ B PROVE n # p /\ up[n] \in Q \ B
    OBVIOUS
  <2>1. up[n] \notin B
    OBVIOUS
  <2> HIDE DEF Q
  <2> QED BY <1>1, <1>2, <2>1 DEF Provenance
<1>5. Q \ B = {}
  <2> DEFINE T == (Q \ B) \cap Projects
  <2>1. T \in SUBSET (rows \cap Projects)
    BY DEF StampedAt
  <2>2. \A n \in Q \ B : up[n] \in T
    <3>1. \A n \in Q : n \in Nodes /\ (up[n] \in Projects \/ up[n] = Root)
      BY DEF StampedAt, Structure, TypeOK
    <3>2. \A n \in Q : n # Root
      BY <3>1
    <3> HIDE DEF Q
    <3> QED BY <1>4, <3>1, <3>2
  <2> HIDE DEF Q
  <2>3. \A n \in T : up[n] \in T
    BY <2>2
  <2>4. T = {}
    <3> HIDE DEF T
    <3> QED BY <2>1, <2>3 DEF Structure, Acyclic
  <2> QED BY <2>2, <2>4
<1> QED BY <1>2, <1>5

\* Hence the query of a restore finds all of them.
LEMMA BelowIsTheDeletion ==
  ASSUME Structure, WithinReach, Provenance, NEW p \in rows \cap Projects, cause[p] = p
  PROVE  /\ Below(p, StampedAt(deletedAt[p])) = StampedAt(deletedAt[p])
         /\ StampedAt(deletedAt[p]) = {n \in rows : cause[n] = p}
<1> DEFINE Q == StampedAt(deletedAt[p])
           B == Below(p, Q)
<1>1. Q \in SUBSET rows /\ p \in Q /\ TypeOK
  BY DEF StampedAt, Structure
<1>2. p \in B /\ B \subseteq Q
  <2> HIDE DEF Q
  <2> QED BY <1>1, BelowRange
<1>3. \A n \in Q : up[n] \in B => n \in B
  <2> HIDE DEF Q
  <2> QED BY <1>1, BelowClosed
<1>4. Q \subseteq B /\ Q = {n \in rows : cause[n] = p}
  <2> HIDE DEF B
  <2> QED BY <1>2, <1>3, OneTimestampOneDeletion
<1> QED BY <1>2, <1>4

\* A row whose parent is live or the top level was the root of its deletion.
LEMMA RestorableIsRoot ==
  ASSUME Structure, Provenance, NEW p \in rows, deletedAt[p] # 0, Live(up[p]) \/ up[p] = Root
  PROVE  cause[p] = p
BY DEF Provenance, Live, Structure, TypeOK

\* Hence the restore of a project brings back all rows with its timestamp.
LEMMA RestoreProjectIsWhole ==
  ASSUME Structure, WithinReach, Provenance, NEW u, NEW p \in Projects, RestoreProject(u, p)
  PROVE  /\ Restore(StampedAt(deletedAt[p]))
         /\ Below(p, StampedAt(deletedAt[p])) = StampedAt(deletedAt[p])
         /\ p \in rows /\ deletedAt[p] # 0
         /\ Live(up[p]) \/ up[p] = Root
<1>1. p \in rows /\ deletedAt[p] # 0 /\ (Live(up[p]) \/ up[p] = Root)
  BY AccessIsLive DEF RestoreProject
<1>2. cause[p] = p
  BY <1>1, RestorableIsRoot
<1> QED BY <1>1, <1>2, BelowIsTheDeletion DEF RestoreProject

\* So does the restore of a conversation that was deleted on its own.
LEMMA RestoreConversationIsWhole ==
  ASSUME Structure, Provenance, NEW u, NEW c \in Conversations, RestoreConversation(u, c)
  PROVE  /\ Restore(StampedAt(deletedAt[c])) /\ StampedAt(deletedAt[c]) = {c}
         /\ c \in rows /\ deletedAt[c] # 0
         /\ Live(up[c])
<1> DEFINE Q == StampedAt(deletedAt[c])
<1>1. c \in rows /\ deletedAt[c] # 0 /\ Live(up[c]) /\ Restore({c})
  BY AccessIsLive DEF RestoreConversation
<1>2. cause[c] = c
  BY <1>1, RestorableIsRoot
<1>3. \A m \in Q : up[m] \notin {c}
  BY DEF StampedAt, Structure, TypeOK, Nodes
<1>4. Q \subseteq {c}
  <2> DEFINE B == {c}
  <2>1. c \in B /\ \A m \in Q : up[m] \in B => m \in B
    BY <1>3
  <2> HIDE DEF B
  <2>2. Q \subseteq B
    BY <1>1, <1>2, <2>1, OneTimestampOneDeletion
  <2> QED BY <2>2 DEF B
<1>5. c \in Q
  BY <1>1 DEF StampedAt
<1> QED BY <1>1, <1>4, <1>5

-----------------------------------------------------------------------------

History == Structure /\ Provenance

\* A soft deletion stamps its rows with a timestamp no other row has.
LEMMA SoftDeleteKeepsProvenance ==
  ASSUME History, 0 \notin ClockSteps, NEW S \in SUBSET LiveNodes, NEW n \in S,
         \A m \in S : m # n => up[m] \in S,
         SoftDelete(S, n)
  PROVE  Provenance' /\ (TogetherNamesUnique => TogetherNamesUnique')
<1> USE DEF History
<1>0. PICK t \in Nat :
        /\ t > clock
        /\ deletedAt' = [m \in Nodes |-> IF m \in S THEN t ELSE deletedAt[m]]
        /\ cause' = [m \in Nodes |-> IF m \in S THEN n ELSE cause[m]]
        /\ UNCHANGED <<rows, up, label>>
  BY DEF SoftDelete, Structure, TypeOK
<1>1. /\ rows \subseteq Nodes /\ S \subseteq rows /\ n # Root
      /\ \A m \in S : deletedAt[m] = 0 /\ cause[m] = Root
      /\ \A m \in rows : deletedAt[m] \in Nat /\ deletedAt[m] < t
      /\ t # 0
  BY <1>0 DEF Structure, TypeOK, StampOrder, LiveNodes, Provenance
<1>2. /\ \A m \in rows : deletedAt'[m] = IF m \in S THEN t ELSE deletedAt[m]
      /\ \A m \in rows : cause'[m] = IF m \in S THEN n ELSE cause[m]
      /\ UNCHANGED <<rows, up, label>>
  BY <1>0, <1>1
<1>3. \A m, k \in rows : deletedAt'[m] = deletedAt'[k] =>
        (m \in S /\ k \in S) \/ (m \notin S /\ k \notin S /\ deletedAt[m] = deletedAt[k])
  BY <1>1, <1>2
<1>4. \A m \in rows : cause[m] # Root => cause[m] \in rows \ S
  BY <1>1 DEF Provenance
<1>5. \A m \in rows : cause[m] # Root /\ cause[m] # m => up[m] \in rows \ S
  BY <1>1 DEF Provenance
<1>6. Provenance'
  BY <1>1, <1>2, <1>3, <1>4, <1>5 DEF Provenance
<1>7. TogetherNamesUnique => TogetherNamesUnique'
  <2> SUFFICES ASSUME TogetherNamesUnique, NEW K \in {Projects, Conversations},
                      NEW m \in K \cap rows', NEW k \in K \cap rows', m # k,
                      up'[m] = up'[k], deletedAt'[m] = deletedAt'[k]
               PROVE  SqlFold[label'[m]] # SqlFold[label'[k]]
    BY DEF TogetherNamesUnique
  <2>1. deletedAt[m] = deletedAt[k]
    BY <1>1, <1>2, <1>3
  <2> QED BY <1>2, <2>1 DEF TogetherNamesUnique
<1> QED BY <1>6, <1>7

\* A restore clears one timestamp entirely.
LEMMA RestoreKeepsProvenance ==
  ASSUME History, NEW p \in rows, deletedAt[p] # 0, Restore(StampedAt(deletedAt[p]))
  PROVE  Provenance'
<1> USE DEF History
<1> DEFINE S == StampedAt(deletedAt[p])
<1>1. /\ rows \subseteq Nodes /\ UNCHANGED <<rows, up>>
      /\ \A m \in rows : deletedAt'[m] = IF deletedAt[m] = deletedAt[p] THEN 0 ELSE deletedAt[m]
      /\ \A m \in rows : cause'[m] = IF deletedAt[m] = deletedAt[p] THEN Root ELSE cause[m]
  BY DEF Restore, StampedAt, Structure, TypeOK
<1>2. \A m \in rows : deletedAt[m] # 0 <=> cause[m] # Root
  BY DEF Provenance
<1>3. \A m \in rows : cause[m] # Root =>
        cause[m] \in rows /\ cause[cause[m]] = cause[m] /\ deletedAt[cause[m]] = deletedAt[m]
  BY DEF Provenance
<1>4. \A m \in rows : cause[m] # Root /\ cause[m] # m =>
        up[m] \in rows /\ cause[up[m]] = cause[m] /\ deletedAt[up[m]] = deletedAt[m]
  <2> SUFFICES ASSUME NEW m \in rows, cause[m] # Root, cause[m] # m
               PROVE  up[m] \in rows /\ cause[up[m]] = cause[m] /\ deletedAt[up[m]] = deletedAt[m]
    OBVIOUS
  <2>1. up[m] \in rows /\ cause[up[m]] = cause[m]
    BY DEF Provenance
  <2> QED BY <1>3, <2>1
<1>5. \A m \in rows : deletedAt'[m] = 0 <=> cause'[m] = Root
  BY <1>1, <1>2
<1>6. \A m \in rows : cause'[m] # Root =>
        cause'[m] \in rows /\ cause'[cause'[m]] = cause'[m] /\ deletedAt'[cause'[m]] = deletedAt'[m]
  BY <1>1, <1>3
<1>7. \A m, k \in rows : deletedAt'[m] # 0 /\ deletedAt'[m] = deletedAt'[k] => cause'[m] = cause'[k]
  BY <1>1 DEF Provenance
<1>8. \A m \in rows : cause'[m] # Root /\ cause'[m] # m => up[m] \in rows /\ cause'[up[m]] = cause'[m]
  BY <1>1, <1>4
<1> QED BY <1>1, <1>5, <1>6, <1>7, <1>8 DEF Provenance

\* It brings no two siblings of one name to life.
LEMMA RestoreKeepsNames ==
  ASSUME History, TogetherNamesUnique, NEW T \in {Projects, Conversations}, NEW p \in T \cap rows,
         deletedAt[p] # 0, Restore(StampedAt(deletedAt[p])),
         \A m \in StampedAt(deletedAt[p]) : m # p => up[m] \in StampedAt(deletedAt[p]),
         ~NameTaken(T, up[p], label[p], p)
  PROVE  TogetherNamesUnique'
<1> USE DEF History
<1> SUFFICES ASSUME NEW K \in {Projects, Conversations},
                    NEW m \in K \cap rows', NEW k \in K \cap rows', m # k,
                    up'[m] = up'[k], deletedAt'[m] = deletedAt'[k]
             PROVE  SqlFold[label'[m]] # SqlFold[label'[k]]
  BY DEF TogetherNamesUnique
<1>1. /\ rows \subseteq Nodes /\ UNCHANGED <<rows, up, label>>
      /\ \A j \in rows : deletedAt'[j] = IF deletedAt[j] = deletedAt[p] THEN 0 ELSE deletedAt[j]
  BY DEF Restore, StampedAt, Structure, TypeOK
<1>2. CASE deletedAt[m] = deletedAt[k]
  BY <1>1, <1>2 DEF TogetherNamesUnique
\* One of the two comes back and the other was live all along.
<1>3. ASSUME NEW x \in K \cap rows, NEW y \in K \cap rows, x # y, up[x] = up[y],
             deletedAt[x] = deletedAt[p], deletedAt[y] = 0
      PROVE  SqlFold[label[x]] # SqlFold[label[y]]
  <2>1. x = p
    <3> SUFFICES ASSUME x # p PROVE FALSE
      OBVIOUS
    <3>1. up[x] \in rows /\ deletedAt[up[x]] # 0
      BY <1>3 DEF StampedAt
    <3> QED BY <1>3, <3>1 DEF Structure, TypeOK, LiveUnderLive, LiveNodes, Live
  <2>2. K = T
    BY <2>1
  <2> QED BY <1>3, <2>1, <2>2 DEF NameTaken, Live
<1> QED BY <1>1, <1>2, <1>3

-----------------------------------------------------------------------------

\* lower() equates no two names that COLLATE NOCASE keeps apart: true of ASCII
\* names, false of others (the run ProjectTree_casefold).
FoldsAgree == \A m, n \in Names : PyFold[m] = PyFold[n] => SqlFold[m] = SqlFold[n]

\* A new row, live, under a free name: a created project, conversation, fork.
LEMMA InsertKeepsHistory ==
  ASSUME History, NEW T \in {Projects, Conversations}, NEW x \in T, NEW q, NEW n,
         x \in fresh, ~NameTaken(T, q, n, x),
         rows' = rows \cup {x}, up' = [up EXCEPT ![x] = q], label' = [label EXCEPT ![x] = n],
         UNCHANGED <<deletedAt, cause>>
  PROVE  Provenance' /\ (TogetherNamesUnique => TogetherNamesUnique')
<1> USE DEF History
<1>1. /\ x \in Nodes /\ x \notin rows /\ rows \subseteq Nodes
      /\ deletedAt[x] = 0 /\ cause[x] = Root
      /\ up'[x] = q /\ label'[x] = n
      /\ \A m \in rows : up'[m] = up[m] /\ label'[m] = label[m]
  BY DEF Structure, TypeOK, FreshUntouched, Nodes
<1>2. Provenance'
  BY <1>1 DEF Provenance
<1>3. ASSUME TogetherNamesUnique PROVE TogetherNamesUnique'
  <2> SUFFICES ASSUME NEW K \in {Projects, Conversations},
                      NEW m \in K \cap rows', NEW k \in K \cap rows', m # k,
                      up'[m] = up'[k], deletedAt'[m] = deletedAt'[k]
               PROVE  SqlFold[label'[m]] # SqlFold[label'[k]]
    BY DEF TogetherNamesUnique
  <2>1. CASE m # x /\ k # x
    BY <1>1, <1>3, <2>1 DEF TogetherNamesUnique
  <2>2. CASE m = x
    BY <1>1, <2>2 DEF NameTaken, Live
  <2>3. CASE k = x
    BY <1>1, <2>3 DEF NameTaken, Live
  <2> QED BY <2>1, <2>2, <2>3
<1> QED BY <1>2, <1>3

\* A live row changes its place or its name, to one that is free there.
LEMMA ChangeKeepsHistory ==
  ASSUME History, NEW T \in {Projects, Conversations}, NEW x \in T, Live(x), NEW q, NEW n,
         \/ ~NameTaken(T, q, n, x)
         \/ ~NameTaken(T, q, n, Root)
         \/ q = up[x] /\ SqlFold[n] = SqlFold[label[x]],
         up' = [up EXCEPT ![x] = q], label' = [label EXCEPT ![x] = n],
         UNCHANGED <<rows, deletedAt, cause>>
  PROVE  Provenance' /\ (TogetherNamesUnique => TogetherNamesUnique')
<1> USE DEF History
<1>1. /\ x \in Nodes /\ x \in rows /\ rows \subseteq Nodes
      /\ deletedAt[x] = 0 /\ cause[x] = Root
      /\ up'[x] = q /\ label'[x] = n
      /\ \A m \in rows \ {x} : up'[m] = up[m] /\ label'[m] = label[m]
  BY DEF Structure, TypeOK, Provenance, Live, Nodes
<1>2. Provenance'
  BY <1>1 DEF Provenance
<1>3. ASSUME TogetherNamesUnique, NEW m \in T \cap rows, m # x, up[m] = q, deletedAt[m] = 0
      PROVE  SqlFold[label[m]] # SqlFold[n]
  <2>1. CASE q = up[x] /\ SqlFold[n] = SqlFold[label[x]]
    BY <1>1, <1>3, <2>1 DEF TogetherNamesUnique
  <2>2. CASE ~NameTaken(T, q, n, x) \/ ~NameTaken(T, q, n, Root)
    BY <1>3, <2>2 DEF NameTaken, Live, Structure, TypeOK
  <2> QED BY <2>1, <2>2
<1>4. ASSUME TogetherNamesUnique PROVE TogetherNamesUnique'
  <2> SUFFICES ASSUME NEW K \in {Projects, Conversations},
                      NEW m \in K \cap rows', NEW k \in K \cap rows', m # k,
                      up'[m] = up'[k], deletedAt'[m] = deletedAt'[k]
               PROVE  SqlFold[label'[m]] # SqlFold[label'[k]]
    BY DEF TogetherNamesUnique
  <2>1. CASE m # x /\ k # x
    BY <1>1, <1>4, <2>1 DEF TogetherNamesUnique
  <2>2. CASE m = x
    BY <1>1, <1>3, <1>4, <2>2
  <2>3. CASE k = x
    BY <1>1, <1>3, <1>4, <2>3
  <2> QED BY <2>1, <2>2, <2>3
<1> QED BY <1>2, <1>4

\* A purge takes all rows of a timestamp or none.
LEMMA PurgeKeepsHistory ==
  ASSUME History, NEW u, NEW cutoff, PurgeDeleted(u, cutoff)
  PROVE  Provenance' /\ (TogetherNamesUnique => TogetherNamesUnique')
<1> USE DEF History
<1>1. /\ rows' \subseteq rows /\ UNCHANGED <<up, label, deletedAt, cause>>
      /\ \A m \in rows', k \in rows : deletedAt[m] = deletedAt[k] => k \in rows'
  BY DEF PurgeDeleted
<1>2. \A m \in rows : cause[m] # Root /\ cause[m] # m => deletedAt[up[m]] = deletedAt[m]
  <2> SUFFICES ASSUME NEW m \in rows, cause[m] # Root, cause[m] # m
               PROVE  deletedAt[up[m]] = deletedAt[m]
    OBVIOUS
  <2>1. up[m] \in rows /\ cause[up[m]] = cause[m]
    BY DEF Provenance
  <2> QED BY <2>1 DEF Provenance
<1>3. Provenance'
  BY <1>1, <1>2 DEF Provenance
<1>4. TogetherNamesUnique => TogetherNamesUnique'
  BY <1>1 DEF TogetherNamesUnique
<1> QED BY <1>3, <1>4

\* Every project operation keeps the history; names need FoldsAgree besides.
LEMMA ProjectStepKeepsHistory ==
  ASSUME History, WithinReach, 0 \notin ClockSteps, NEW u \in Users, ProjectStep(u)
  PROVE  Provenance' /\ (FoldsAgree /\ TogetherNamesUnique => TogetherNamesUnique')
<1> DEFINE Kept == Provenance' /\ (FoldsAgree /\ TogetherNamesUnique => TogetherNamesUnique')
<1>1. ASSUME NEW p \in Projects, NEW q \in Projects \cup {Root}, NEW n \in Names,
             CreateProject(u, p, q, n)
      PROVE  Kept
  BY <1>1, InsertKeepsHistory DEF CreateProject
<1>2. ASSUME NEW p \in Projects, NEW n \in Names, RenameProject(u, p, n)
      PROVE  Kept
  <2>1. Live(p) /\ label[p] \in Names /\ up' = [up EXCEPT ![p] = up[p]]
    BY <1>2, AccessIsLive DEF RenameProject, History, Structure, TypeOK, Nodes
  <2>2. CASE ~NameTaken(Projects, up[p], n, Root)
    BY <1>2, <2>1, <2>2, ChangeKeepsHistory DEF RenameProject
  <2>3. CASE PyFold[n] = PyFold[label[p]]
    <3>1. FoldsAgree => SqlFold[n] = SqlFold[label[p]]
      BY <2>1, <2>3 DEF FoldsAgree
    <3>2. Provenance'
      BY <1>2 DEF RenameProject, History, Provenance
    <3> QED BY <1>2, <2>1, <3>1, <3>2, ChangeKeepsHistory DEF RenameProject
  <2> QED BY <1>2, <2>2, <2>3 DEF RenameProject
<1>3. ASSUME NEW p \in Projects, NEW q \in Projects \cup {Root}, MoveProject(u, p, q)
      PROVE  Kept
  <2>1. Live(p) /\ label' = [label EXCEPT ![p] = label[p]]
    BY <1>3, AccessIsLive DEF MoveProject, History, Structure, TypeOK
  <2> QED BY <1>3, <2>1, ChangeKeepsHistory DEF MoveProject
<1>4. ASSUME NEW p \in Projects, DeleteProject(u, p)
      PROVE  Kept
  <2> DEFINE S == Below(p, LiveNodes)
  <2>1. S \in SUBSET LiveNodes /\ p \in S
    BY <1>4, AccessIsLive, BelowRange DEF DeleteProject, LiveNodes, Live
  <2>2. \A m \in S : m # p => up[m] \in S
    BY BelowParent
  <2>3. SoftDelete(S, p)
    BY <1>4 DEF DeleteProject
  <2> HIDE DEF S
  <2> QED BY <2>1, <2>2, <2>3, SoftDeleteKeepsProvenance
<1>5. ASSUME NEW p \in Projects, RestoreProject(u, p)
      PROVE  Kept
  <2> DEFINE S == StampedAt(deletedAt[p])
  <2>1. /\ Restore(S) /\ Below(p, S) = S /\ p \in rows /\ deletedAt[p] # 0
        /\ ~NameTaken(Projects, up[p], label[p], p)
    BY <1>5, RestoreProjectIsWhole DEF History, RestoreProject
  <2>2. \A m \in S : m # p => up[m] \in S
    BY <2>1, BelowParent
  <2> QED BY <2>1, <2>2, RestoreKeepsProvenance, RestoreKeepsNames
<1> QED BY <1>1, <1>2, <1>3, <1>4, <1>5 DEF ProjectStep

\* Every conversation operation does so too.
LEMMA ConversationStepKeepsHistory ==
  ASSUME History, 0 \notin ClockSteps, NEW u \in Users, ConversationStep(u)
  PROVE  Provenance' /\ (FoldsAgree /\ TogetherNamesUnique => TogetherNamesUnique')
<1> DEFINE Kept == Provenance' /\ (FoldsAgree /\ TogetherNamesUnique => TogetherNamesUnique')
<1>1. ASSUME NEW c \in Conversations, NEW q, NEW n, InsertConversation(c, q, n)
      PROVE  Kept
  BY <1>1, InsertKeepsHistory DEF InsertConversation
<1>2. ASSUME NEW c \in Conversations, NEW n \in Names, RenameConversation(u, c, n)
      PROVE  Kept
  <2>1. Live(c) /\ label[c] \in Names /\ up' = [up EXCEPT ![c] = up[c]]
    BY <1>2 DEF RenameConversation, History, Structure, TypeOK, Nodes
  <2>2. CASE ~NameTaken(Conversations, up[c], n, c)
    BY <1>2, <2>1, <2>2, ChangeKeepsHistory DEF RenameConversation
  <2>3. CASE PyFold[n] = PyFold[label[c]]
    <3>1. FoldsAgree => SqlFold[n] = SqlFold[label[c]]
      BY <2>1, <2>3 DEF FoldsAgree
    <3>2. Provenance'
      BY <1>2 DEF RenameConversation, History, Provenance
    <3> QED BY <1>2, <2>1, <3>1, <3>2, ChangeKeepsHistory DEF RenameConversation
  <2> QED BY <1>2, <2>2, <2>3 DEF RenameConversation
<1>3. ASSUME NEW c \in Conversations, NEW q \in Projects, MoveConversation(u, c, q)
      PROVE  Kept
  <2>1. label' = [label EXCEPT ![c] = label[c]]
    BY <1>3 DEF MoveConversation, History, Structure, TypeOK
  <2> QED BY <1>3, <2>1, ChangeKeepsHistory DEF MoveConversation
<1>4. ASSUME NEW c \in Conversations, DeleteConversation(u, c)
      PROVE  Kept
  <2>1. {c} \in SUBSET LiveNodes
    BY <1>4 DEF DeleteConversation, LiveNodes, Live
  <2> QED BY <1>4, <2>1, SoftDeleteKeepsProvenance DEF DeleteConversation
<1>5. ASSUME NEW c \in Conversations, RestoreConversation(u, c)
      PROVE  Kept
  <2> DEFINE S == StampedAt(deletedAt[c])
  <2>1. /\ Restore(S) /\ S = {c} /\ c \in rows /\ deletedAt[c] # 0
        /\ ~NameTaken(Conversations, up[c], label[c], c)
    BY <1>5, RestoreConversationIsWhole DEF History, RestoreConversation
  <2>2. \A m \in S : m # c => up[m] \in S
    BY <2>1
  <2> QED BY <2>1, <2>2, RestoreKeepsProvenance, RestoreKeepsNames
<1> QED BY <1>1, <1>2, <1>3, <1>4, <1>5
        DEF ConversationStep, CreateConversation, ForkConversation

LEMMA NextHistory ==
  ASSUME History, WithinReach, 0 \notin ClockSteps, [Next]_vars
  PROVE  Provenance' /\ (FoldsAgree /\ TogetherNamesUnique => TogetherNamesUnique')
<1> DEFINE Kept == Provenance' /\ (FoldsAgree /\ TogetherNamesUnique => TogetherNamesUnique')
<1>1. ASSUME UNCHANGED <<rows, up, label, deletedAt, cause>> PROVE Kept
  BY <1>1 DEF History, Provenance, TogetherNamesUnique
<1>2. ASSUME NEW u \in Users, MembershipStep(u) PROVE Kept
  BY <1>1, <1>2 DEF MembershipStep, Grant, Revoke, SetGrant
<1>3. CASE UNCHANGED vars
  BY <1>1, <1>3 DEF vars
<1> QED BY <1>2, <1>3, ProjectStepKeepsHistory, ConversationStepKeepsHistory, PurgeKeepsHistory
   DEF Next

\* Restoring a project brings back exactly what its own deletion removed
\* (restore_subtree), provided the clock moves between two deletions and no line of
\* projects is longer than the query goes down.
THEOREM RestoreUndoesItsDeletion ==
  ASSUME 0 \notin ClockSteps
  PROVE  Spec /\ []WithinReach => []RestoreUndoesOneDelete
<1>1. Init => Provenance
  BY DEF Init, Provenance
<1>2. Structure /\ WithinReach /\ Provenance /\ [Next]_vars => Provenance'
  BY NextHistory DEF History
<1>3. Structure /\ WithinReach /\ Provenance => RestoreUndoesOneDelete
  BY BelowIsTheDeletion DEF RestoreUndoesOneDelete
<1> QED BY <1>1, <1>2, <1>3, StructureInvariant, PTL DEF Spec

\* Under the same clock and names whose two foldings agree, the services' own
\* checks keep live siblings apart; the unique indexes never have to.
THEOREM SiblingsStayDistinct ==
  ASSUME 0 \notin ClockSteps, FoldsAgree
  PROVE  Spec /\ []WithinReach => []SiblingNamesUnique
<1> DEFINE Inv == Provenance /\ TogetherNamesUnique
<1>1. Init => Inv
  BY DEF Init, Provenance, TogetherNamesUnique
<1>2. Structure /\ WithinReach /\ Inv /\ [Next]_vars => Inv'
  BY NextHistory DEF History
<1>3. Inv => SiblingNamesUnique
  BY DEF TogetherNamesUnique, SiblingNamesUnique, LiveNodes
<1> QED BY <1>1, <1>2, <1>3, StructureInvariant, PTL DEF Spec

-----------------------------------------------------------------------------
(* The two permission algorithms, which recurse on the depth. *)

\* The recursion of the upward walk is well founded: it is the function its
\* defining equation says.
LEMMA WalkTowardsRoot ==
  ASSUME TypeOK, NEW u \in Users
  PROVE  \E walk :
           /\ \A q \in Projects \cup {Root} : walk[0][q] = "none"
           /\ \A d \in 1..MaxDepth, q \in Projects \cup {Root} :
                walk[d][q] = IF q \notin rows THEN "none"
                             ELSE IF grants[q][u] # "none" THEN grants[q][u]
                             ELSE walk[d - 1][up[q]]
           /\ \A p \in Projects : NearestGrant(u, p) = walk[MaxDepth][p]
<1> DEFINE
      D == Projects \cup {Root}
      T == [D -> Permissions]
      Body(f, d) == [q \in D |->
           IF d = 0 \/ q \notin rows THEN "none"
           ELSE IF grants[q][u] # "none" THEN grants[q][u]
           ELSE f[d - 1][up[q]]]
      Pass(w) == [q \in D |-> IF q \notin rows THEN "none"
                              ELSE IF grants[q][u] # "none" THEN grants[q][u] ELSE w[up[q]]]
      base == [q \in D |-> "none"]
      step == [w \in T |-> Pass(w)]
<1>1. \A q \in D \cap rows : q \in Projects /\ grants[q][u] \in Permissions /\ up[q] \in D
  BY IdAssumption DEF TypeOK, Nodes
<1>2. base \in T
  BY DEF Permissions
<1>3. \A w \in T : Pass(w) \in T
  BY <1>1 DEF Permissions
<1>4. step \in [T -> T]
  BY <1>3
<1>5. PICK f : Repeats(f, T, base, step, MaxDepth)
  <2> HIDE DEF T, base, step
  <2> QED BY <1>2, <1>4, Iteration, DepthAssumption
<1>6. f \in [0..MaxDepth -> T] /\ f[0] = base /\ \A d \in 1..MaxDepth : f[d] = Pass(f[d - 1])
  <2> HIDE DEF T, base, Pass
  <2>1. ASSUME NEW d \in 1..MaxDepth PROVE f[d - 1] \in T
    BY <1>5, DepthAssumption DEF Repeats
  <2> QED BY <1>5, <2>1 DEF Repeats
<1>7. \A d \in 0..MaxDepth : f[d] = Body(f, d)
  <2> SUFFICES ASSUME NEW d \in 0..MaxDepth PROVE f[d] = Body(f, d)
    OBVIOUS
  <2>1. CASE d = 0
    BY <1>6, <2>1
  <2>2. CASE d # 0
    <3>1. d \in 1..MaxDepth
      BY <2>2, DepthAssumption
    <3>2. f[d] = Pass(f[d - 1])
      BY <1>6, <3>1
    <3>3. Body(f, d) = Pass(f[d - 1])
      BY <2>2
    <3> QED BY <3>2, <3>3
  <2> QED BY <2>1, <2>2
<1>8. f = [d \in 0..MaxDepth |-> Body(f, d)]
  <2> HIDE DEF Body
  <2> QED BY <1>6, <1>7
<1> DEFINE walk[d \in 0..MaxDepth] == Body(walk, d)
<1>9. walk = [d \in 0..MaxDepth |-> Body(walk, d)]
  <2> HIDE DEF Body
  <2> QED BY <1>8 DEF walk
<1>10. ASSUME NEW p \in Projects PROVE NearestGrant(u, p) = walk[MaxDepth][p]
  BY DEF NearestGrant
<1>11. \A d \in 0..MaxDepth : walk[d] = Body(walk, d)
  <2> HIDE DEF Body, walk
  <2> QED BY <1>9
<1> HIDE DEF walk
<1>12. \A q \in D : walk[0][q] = "none"
  <2>1. walk[0] = Body(walk, 0)
    <3> HIDE DEF Body
    <3> QED BY <1>11, DepthAssumption
  <2> QED BY <2>1
<1>13. ASSUME NEW d \in 1..MaxDepth, NEW q \in D
       PROVE  walk[d][q] = IF q \notin rows THEN "none"
                           ELSE IF grants[q][u] # "none" THEN grants[q][u]
                           ELSE walk[d - 1][up[q]]
  <2>1. d \in 0..MaxDepth /\ d # 0
    BY DepthAssumption
  <2>2. walk[d] = Body(walk, d)
    BY <1>11, <2>1
  <2> QED BY <2>1, <2>2
<1> QED
  <2> HIDE DEF walk
  <2> QED BY <1>10, <1>12, <1>13

\* So is the recursion of the pass from the root downwards.
LEMMA PassDownwards ==
  ASSUME TypeOK, NEW u \in Users
  PROVE  \E level :
           /\ level[0] = [p \in {q \in Projects : Live(q) /\ up[q] = Root} |-> grants[p][u]]
           /\ \A d \in 1..MaxDepth : level[d] =
                [p \in {q \in Projects : Live(q) /\ up[q] \in DOMAIN level[d - 1]} |->
                   IF grants[p][u] # "none" THEN grants[p][u] ELSE level[d - 1][up[p]]]
           /\ VisibleProjects(u) =
                IF Role[u] = "admin" THEN [p \in Projects \cap LiveNodes |-> "owner"]
                ELSE [p \in UNION {DOMAIN level[d] : d \in 0..MaxDepth} |->
                        Cap(u, level[CHOOSE d \in 0..MaxDepth : p \in DOMAIN level[d]][p])]
<1> DEFINE
      T == UNION {[A -> Permissions] : A \in SUBSET Projects}
      base == [p \in {q \in Projects : Live(q) /\ up[q] = Root} |-> grants[p][u]]
      Pass(w) == [p \in {q \in Projects : Live(q) /\ up[q] \in DOMAIN w} |->
                    IF grants[p][u] # "none" THEN grants[p][u] ELSE w[up[p]]]
      step == [w \in T |-> Pass(w)]
      Body(f, d) == IF d = 0
        THEN [p \in {q \in Projects : Live(q) /\ up[q] = Root} |-> grants[p][u]]
        ELSE [p \in {q \in Projects : Live(q) /\ up[q] \in DOMAIN f[d - 1]} |->
                IF grants[p][u] # "none" THEN grants[p][u] ELSE f[d - 1][up[p]]]
<1>1. \A p \in Projects : grants[p][u] \in Permissions
  BY DEF TypeOK
<1>2. base \in T
  <2>1. base \in [{q \in Projects : Live(q) /\ up[q] = Root} -> Permissions]
    BY <1>1
  <2> QED BY <2>1
<1>3. ASSUME NEW w \in T PROVE Pass(w) \in T
  <2>1. PICK A \in SUBSET Projects : w \in [A -> Permissions]
    OBVIOUS
  <2>2. Pass(w) \in [{q \in Projects : Live(q) /\ up[q] \in DOMAIN w} -> Permissions]
    BY <1>1, <2>1
  <2> QED BY <2>2
<1>4. step \in [T -> T]
  <2> HIDE DEF T, Pass
  <2> QED BY <1>3
<1>5. PICK f : Repeats(f, T, base, step, MaxDepth)
  <2> HIDE DEF T, base, step
  <2> QED BY <1>2, <1>4, Iteration, DepthAssumption
<1>6. f \in [0..MaxDepth -> T] /\ f[0] = base /\ \A d \in 1..MaxDepth : f[d] = Pass(f[d - 1])
  <2> HIDE DEF T, base, Pass
  <2>1. ASSUME NEW d \in 1..MaxDepth PROVE f[d - 1] \in T
    BY <1>5, DepthAssumption DEF Repeats
  <2> QED BY <1>5, <2>1 DEF Repeats
<1>7. \A d \in 0..MaxDepth : f[d] = Body(f, d)
  <2> SUFFICES ASSUME NEW d \in 0..MaxDepth PROVE f[d] = Body(f, d)
    OBVIOUS
  <2>1. CASE d = 0
    BY <1>6, <2>1
  <2>2. CASE d # 0
    <3>1. d \in 1..MaxDepth
      BY <2>2, DepthAssumption
    <3>2. f[d] = Pass(f[d - 1])
      BY <1>6, <3>1
    <3>3. Body(f, d) = Pass(f[d - 1])
      BY <2>2
    <3> QED BY <3>2, <3>3
  <2> QED BY <2>1, <2>2
<1>8. f = [d \in 0..MaxDepth |-> Body(f, d)]
  <2> HIDE DEF Body
  <2> QED BY <1>6, <1>7
<1> DEFINE level[d \in 0..MaxDepth] == Body(level, d)
<1>9. level = [d \in 0..MaxDepth |-> Body(level, d)]
  <2> HIDE DEF Body
  <2> QED BY <1>8 DEF level
<1>10. VisibleProjects(u) =
         IF Role[u] = "admin" THEN [p \in Projects \cap LiveNodes |-> "owner"]
         ELSE [p \in UNION {DOMAIN level[d] : d \in 0..MaxDepth} |->
                 Cap(u, level[CHOOSE d \in 0..MaxDepth : p \in DOMAIN level[d]][p])]
  BY DEF VisibleProjects
<1>11. \A d \in 0..MaxDepth : level[d] = Body(level, d)
  <2> HIDE DEF Body, level
  <2> QED BY <1>9
<1> HIDE DEF level
<1>12. level[0] = base
  <2>1. level[0] = Body(level, 0)
    <3> HIDE DEF Body
    <3> QED BY <1>11, DepthAssumption
  <2> QED BY <2>1
<1>13. ASSUME NEW d \in 1..MaxDepth PROVE level[d] = Pass(level[d - 1])
  <2>1. d \in 0..MaxDepth /\ d # 0
    BY DepthAssumption
  <2> QED BY <1>11, <2>1
<1> QED
  <2> HIDE DEF Body
  <2> QED BY <1>10, <1>12, <1>13

\* No live project lies deeper than the walks reach.
ShallowTree ==
  \E depth \in [Projects \cap LiveNodes -> 0..MaxDepth - 1] :
    \A p \in Projects \cap LiveNodes :
      depth[p] = IF up[p] = Root THEN 0 ELSE depth[up[p]] + 1

\* A live project at depth k is on level k of the listing and on no other, and
\* the listing gives it what every walk of more than k steps finds.
LEMMA WalksAgreeInShallowTrees ==
  ASSUME TypeOK, LiveUnderLive, ShallowTree
  PROVE  ListingMatchesWalk
<1> DEFINE LP == Projects \cap LiveNodes
<1> SUFFICES ASSUME NEW u \in Users, NEW p \in LP
             PROVE  PermissionFor(u, p) = IF p \in DOMAIN VisibleProjects(u)
                                          THEN VisibleProjects(u)[p] ELSE "none"
  BY DEF ListingMatchesWalk
<1>1. PICK depth \in [LP -> 0..MaxDepth - 1] :
        \A q \in LP : depth[q] = IF up[q] = Root THEN 0 ELSE depth[up[q]] + 1
  BY DEF ShallowTree
<1>2. PICK walk :
        /\ \A q \in Projects \cup {Root} : walk[0][q] = "none"
        /\ \A d \in 1..MaxDepth, q \in Projects \cup {Root} :
             walk[d][q] = IF q \notin rows THEN "none"
                          ELSE IF grants[q][u] # "none" THEN grants[q][u]
                          ELSE walk[d - 1][up[q]]
        /\ \A q \in Projects : NearestGrant(u, q) = walk[MaxDepth][q]
  BY WalkTowardsRoot
<1>3. PICK level :
        /\ level[0] = [q \in {x \in Projects : Live(x) /\ up[x] = Root} |-> grants[q][u]]
        /\ \A d \in 1..MaxDepth : level[d] =
             [q \in {x \in Projects : Live(x) /\ up[x] \in DOMAIN level[d - 1]} |->
                IF grants[q][u] # "none" THEN grants[q][u] ELSE level[d - 1][up[q]]]
        /\ VisibleProjects(u) =
             IF Role[u] = "admin" THEN [q \in Projects \cap LiveNodes |-> "owner"]
             ELSE [q \in UNION {DOMAIN level[d] : d \in 0..MaxDepth} |->
                     Cap(u, level[CHOOSE d \in 0..MaxDepth : q \in DOMAIN level[d]][q])]
  BY PassDownwards
<1>4. /\ \A q \in LP : Live(q) /\ q \in rows /\ q \in Projects /\ depth[q] \in 0..MaxDepth - 1
      /\ \A q \in LP : up[q] # Root => up[q] \in LP /\ depth[q] = depth[up[q]] + 1
      /\ \A q \in LP : up[q] = Root => depth[q] = 0
      /\ \A q \in Projects : Live(q) => q \in LP
      /\ Root \notin rows /\ Root \notin LP
  BY <1>1, IdAssumption DEF LiveNodes, Live, LiveUnderLive, TypeOK, Nodes
<1> HIDE DEF LP
<1>5. \A d \in 0..MaxDepth : DOMAIN level[d] = {q \in LP : depth[q] = d}
  <2> DEFINE S == {d \in Nat : d <= MaxDepth => DOMAIN level[d] = {q \in LP : depth[q] = d}}
  <2>1. 0 \in S
    <3>1. DOMAIN level[0] = {x \in Projects : Live(x) /\ up[x] = Root}
      BY <1>3
    <3>2. {x \in Projects : Live(x) /\ up[x] = Root} = {q \in LP : depth[q] = 0}
      BY <1>4, DepthAssumption
    <3> QED BY <3>1, <3>2
  <2>2. ASSUME NEW d \in S PROVE d + 1 \in S
    <3> SUFFICES ASSUME d + 1 <= MaxDepth
                 PROVE  DOMAIN level[d + 1] = {q \in LP : depth[q] = d + 1}
      OBVIOUS
    <3>1. d \in Nat /\ d + 1 \in 1..MaxDepth /\ (d + 1) - 1 = d
      BY DepthAssumption
    <3>2. DOMAIN level[d + 1] = {x \in Projects : Live(x) /\ up[x] \in DOMAIN level[d]}
      <4>1. level[d + 1] =
              [q \in {x \in Projects : Live(x) /\ up[x] \in DOMAIN level[d]} |->
                 IF grants[q][u] # "none" THEN grants[q][u] ELSE level[d][up[q]]]
        BY <1>3, <3>1
      <4> QED BY <4>1
    <3>3. DOMAIN level[d] = {q \in LP : depth[q] = d}
      BY <3>1, DepthAssumption
    <3>4. {x \in Projects : Live(x) /\ up[x] \in DOMAIN level[d]} = {q \in LP : depth[q] = d + 1}
      BY <1>4, <3>1, <3>3, DepthAssumption
    <3> QED BY <3>2, <3>4
  <2> HIDE DEF S
  <2>3. S = Nat
    <3>1. S \in SUBSET Nat
      BY DEF S
    <3> QED BY <2>1, <2>2, <3>1, Induction
  <2> QED BY <2>3, DepthAssumption DEF S
<1>6. \A d \in 0..MaxDepth : walk[d][Root] = "none"
  BY <1>2, <1>4, DepthAssumption
<1>7. \A q \in LP : walk[MaxDepth][q] = level[depth[q]][q]
  <2> DEFINE S == {n \in Nat : \A q \in LP, e \in 0..MaxDepth :
                                 depth[q] = n /\ n < e => walk[e][q] = level[n][q]}
  <2>0. ASSUME NEW q \in LP, NEW e \in 0..MaxDepth, depth[q] < e
        PROVE  e \in 1..MaxDepth /\ e - 1 \in 0..MaxDepth
               /\ walk[e][q] = IF grants[q][u] # "none" THEN grants[q][u] ELSE walk[e - 1][up[q]]
    <3>1. e \in 1..MaxDepth /\ e - 1 \in 0..MaxDepth
      BY <1>4, <2>0, DepthAssumption
    <3> QED BY <1>2, <1>4, <3>1
  <2>1. 0 \in S
    <3> SUFFICES ASSUME NEW q \in LP, NEW e \in 0..MaxDepth, depth[q] = 0, 0 < e
                 PROVE  walk[e][q] = level[0][q]
      OBVIOUS
    <3>1. up[q] = Root
      BY <1>4
    <3>2. level[0][q] = grants[q][u]
      BY <1>3, <1>4, <3>1
    <3> QED BY <1>6, <2>0, <3>1, <3>2
  <2>2. ASSUME NEW n \in S PROVE n + 1 \in S
    <3> SUFFICES ASSUME NEW q \in LP, NEW e \in 0..MaxDepth, depth[q] = n + 1, n + 1 < e
                 PROVE  walk[e][q] = level[n + 1][q]
      OBVIOUS
    <3>1. up[q] \in LP /\ depth[up[q]] = n /\ n \in Nat
      BY <1>4
    <3>2. n < e - 1 /\ e - 1 \in 0..MaxDepth /\ n + 1 \in 1..MaxDepth /\ (n + 1) - 1 = n /\ n \in 0..MaxDepth
      BY <2>0, <3>1, DepthAssumption
    <3>3. walk[e - 1][up[q]] = level[n][up[q]]
      BY <3>1, <3>2
    <3>4. up[q] \in DOMAIN level[n]
      BY <1>5, <3>1, <3>2
    <3>5. level[n + 1][q] = IF grants[q][u] # "none" THEN grants[q][u] ELSE level[n][up[q]]
      <4> DEFINE next == [x \in {y \in Projects : Live(y) /\ up[y] \in DOMAIN level[n]} |->
                            IF grants[x][u] # "none" THEN grants[x][u] ELSE level[n][up[x]]]
      <4>1. level[n + 1] = next
        BY <1>3, <3>2
      <4>2. q \in Projects /\ Live(q)
        BY <1>4
      <4> QED BY <3>4, <4>1, <4>2
    <3> QED BY <2>0, <3>3, <3>5
  <2> HIDE DEF S
  <2>3. S = Nat
    <3>1. S \in SUBSET Nat
      BY DEF S
    <3> QED BY <2>1, <2>2, <3>1, Induction
  <2>4. ASSUME NEW q \in LP PROVE walk[MaxDepth][q] = level[depth[q]][q]
    <3>1. depth[q] \in Nat /\ depth[q] < MaxDepth /\ MaxDepth \in 0..MaxDepth
      BY <1>4, DepthAssumption
    <3>2. depth[q] \in S
      BY <2>3, <3>1
    <3> QED BY <3>1, <3>2 DEF S
  <2> QED BY <2>4
<1>8. PermissionFor(u, p) = IF Role[u] = "admin" THEN "owner" ELSE Cap(u, walk[MaxDepth][p])
  BY <1>2, <1>4 DEF PermissionFor
<1>9. CASE Role[u] = "admin"
  BY <1>3, <1>8, <1>9 DEF LP
<1>10. CASE Role[u] # "admin"
  <2>1. depth[p] \in 0..MaxDepth
    BY <1>4, DepthAssumption
  <2>2. \A d \in 0..MaxDepth : p \in DOMAIN level[d] <=> d = depth[p]
    BY <1>5
  <2>3. (CHOOSE d \in 0..MaxDepth : p \in DOMAIN level[d]) = depth[p]
    BY <2>1, <2>2
  <2>4. p \in UNION {DOMAIN level[d] : d \in 0..MaxDepth}
    BY <2>1, <2>2
  <2>5. p \in DOMAIN VisibleProjects(u) /\ VisibleProjects(u)[p] = Cap(u, level[depth[p]][p])
    BY <1>3, <1>10, <2>3, <2>4
  <2> QED BY <1>7, <1>8, <1>10, <2>5
<1> QED BY <1>9, <1>10

\* Projects that are not more than the walks reach make a shallow tree: every
\* set of live projects closed towards the root can be ranked, and, as long as
\* there are others, enlarged.
LEMMA FewProjectsAreShallow ==
  ASSUME TypeOK, LiveUnderLive, Acyclic,
         IsFiniteSet(Projects), Cardinality(Projects) <= MaxDepth
  PROVE  ShallowTree
<1> DEFINE LP == Projects \cap LiveNodes
           Ranks(A, r, n) ==
             /\ r \in [A -> Nat] /\ \A p \in A : r[p] < n
             /\ \A p \in A : IF up[p] = Root THEN r[p] = 0
                             ELSE up[p] \in A /\ r[p] = r[up[p]] + 1
           S == {n \in Nat : n <= Cardinality(LP) =>
                   \E A \in SUBSET LP : Cardinality(A) = n /\ \E r : Ranks(A, r, n)}
<1>1. LP \subseteq Projects /\ LP \in SUBSET (rows \cap Projects)
  BY DEF LiveNodes
<1>2. IsFiniteSet(LP) /\ Cardinality(LP) \in Nat /\ Cardinality(LP) <= Cardinality(Projects)
  BY <1>1, FS_Subset, FS_CardinalityType
<1>3. \A p \in LP : up[p] = Root \/ up[p] \in LP
  BY IdAssumption DEF LiveUnderLive, LiveNodes, Live, TypeOK, Nodes
<1>4. 0 \in S
  <2>1. Ranks({}, [p \in {} |-> 0], 0)
    OBVIOUS
  <2>2. Cardinality({}) = 0 /\ {} \in SUBSET LP
    BY FS_EmptySet
  <2> HIDE DEF Ranks, LP
  <2> QED BY <2>1, <2>2
<1> HIDE DEF LP
<1>5. ASSUME NEW n \in S PROVE n + 1 \in S
  <2> SUFFICES ASSUME n + 1 <= Cardinality(LP)
               PROVE  \E A \in SUBSET LP : Cardinality(A) = n + 1 /\ \E r : Ranks(A, r, n + 1)
    BY DEF S
  <2>1. n \in Nat /\ n <= Cardinality(LP)
    BY <1>2
  <2>2. PICK A \in SUBSET LP : Cardinality(A) = n /\ \E r : Ranks(A, r, n)
    BY <2>1
  <2>3. PICK r : Ranks(A, r, n)
    BY <2>2
  <2>4. LP \ A # {} /\ LP \ A \in SUBSET (rows \cap Projects)
    <3>1. ASSUME LP \ A = {} PROVE FALSE
      <4>1. A = LP
        BY <3>1
      <4> QED BY <1>2, <2>1, <2>2, <4>1
    <3> QED BY <1>1, <3>1
  <2>5. PICK p \in LP \ A : up[p] \notin LP \ A
    BY <2>4 DEF Acyclic
  <2>6. up[p] = Root \/ up[p] \in A
    BY <1>3, <2>5
  <2>7. p # Root /\ Root \notin A
    BY <1>1, IdAssumption DEF Nodes
  <2> DEFINE B == A \cup {p}
             q == [x \in B |-> IF x # p THEN r[x] ELSE IF up[p] = Root THEN 0 ELSE r[up[p]] + 1]
  <2>8. Cardinality(B) = n + 1
    <3>1. IsFiniteSet(A)
      BY <1>2, FS_Subset
    <3> QED BY <2>2, <2>5, <3>1, FS_AddElement
  <2>9. q \in [B -> Nat] /\ \A x \in B : q[x] < n + 1
    BY <2>1, <2>3, <2>5, <2>6
  <2>10. ASSUME NEW x \in B
         PROVE  IF up[x] = Root THEN q[x] = 0 ELSE up[x] \in B /\ q[x] = q[up[x]] + 1
    <3>1. CASE x = p
      <4>1. up[p] # Root => up[p] \in A /\ up[p] # p
        BY <2>5, <2>6
      <4> QED BY <3>1, <4>1
    <3>2. CASE x # p
      <4>1. x \in A /\ (up[x] # Root => up[x] \in A /\ up[x] # p)
        BY <2>3, <2>5, <3>2
      <4> QED BY <2>3, <3>2, <4>1
    <3> QED BY <3>1, <3>2
  <2>11. Ranks(B, q, n + 1)
    BY <2>9, <2>10
  <2>12. B \in SUBSET LP
    BY <2>5
  <2> HIDE DEF B, q, Ranks
  <2> QED BY <2>8, <2>11, <2>12
<1>6. Cardinality(LP) \in S
  <2> HIDE DEF S
  <2>1. S \in SUBSET Nat
    BY DEF S
  <2>2. S = Nat
    BY <1>4, <1>5, <2>1, Induction
  <2> QED BY <1>2, <2>2
<1>7. PICK A \in SUBSET LP : Cardinality(A) = Cardinality(LP) /\ \E r : Ranks(A, r, Cardinality(LP))
  BY <1>2, <1>6
<1>8. A = LP
  BY <1>2, <1>7, FS_Subset
<1>9. PICK r : Ranks(LP, r, Cardinality(LP))
  BY <1>7, <1>8
<1>10. r \in [LP -> 0..MaxDepth - 1]
  <2>1. \A p \in LP : r[p] \in 0..MaxDepth - 1
    BY <1>2, <1>9, FS_CardinalityType, DepthAssumption
  <2> QED BY <1>9, <2>1
<1>11. \A p \in LP : r[p] = IF up[p] = Root THEN 0 ELSE r[up[p]] + 1
  BY <1>9
<1> QED
  <2>1. ShallowTree <=> \E depth \in [LP -> 0..MaxDepth - 1] :
          \A p \in LP : depth[p] = IF up[p] = Root THEN 0 ELSE depth[up[p]] + 1
    BY DEF ShallowTree, LP
  <2> QED BY <1>10, <1>11, <2>1

\* In a tree no deeper than the walks reach, the listing and the walk that guards
\* every handler give each user the same permission (access.py permission_for,
\* visible_projects).
THEOREM ShallowTreesAgree == Spec /\ []WithinReach => [](ShallowTree => ListingMatchesWalk)
<1>1. Structure => (ShallowTree => ListingMatchesWalk)
  BY WalksAgreeInShallowTrees DEF Structure
<1> QED BY <1>1, StructureInvariant, PTL

\* A workspace with no more projects than MAX_DEPTH has no other trees, whatever
\* was moved, deleted, restored and purged in it.
THEOREM ListingAgreesWithWalk ==
  ASSUME IsFiniteSet(Projects), Cardinality(Projects) <= MaxDepth
  PROVE  Spec => []ListingMatchesWalk
<1>1. Structure => ListingMatchesWalk
  BY FewProjectsAreShallow, WalksAgreeInShallowTrees DEF Structure
<1>2. WithinReach
  BY FewProjectsAreWithinReach
<1> QED BY <1>1, <1>2, StructureInvariant, PTL

-----------------------------------------------------------------------------
(* Keys compare as strings. *)

\* Nothing from here on is about the clock or the identities of rows.
HIDE ClockAssumption
HIDE IdAssumption

\* A set of numbers has a least ...
LEMMA LeastOfAll ==
  ASSUME NEW S \in SUBSET Nat, S # {}
  PROVE  Least(S) \in S /\ \A i \in S : Least(S) <= i
<1> DEFINE R == OpToRel(<, Nat)
<1>1. IsWellFoundedOn(R, Nat)
  BY NatLessThanWellFounded
<1>2. \A m, n \in Nat : m < n => <<m, n>> \in R
  BY DEF OpToRel
<1> HIDE DEF R
<1>3. PICK n \in S : \A m \in S : ~ (<<m, n>> \in R)
  BY <1>1, WFMin
<1>4. ASSUME NEW m \in S PROVE n <= m
  <2>1. m \in Nat /\ n \in Nat /\ ~(m < n)
    BY <1>2, <1>3
  <2> QED BY <2>1
<1>5. \E i \in S : \A j \in S : i <= j
  BY <1>4
<1> QED BY <1>5 DEF Least

\* ... and with a bound a greatest.
LEMMA GreatestOfAll ==
  ASSUME NEW S \in SUBSET Nat, S # {}, NEW b \in Nat, \A s \in S : s <= b
  PROVE  Greatest(S) \in S /\ \A i \in S : Greatest(S) >= i
<1> DEFINE T == {b - s : s \in S}
<1>1. T # {} /\ T \subseteq Nat
  <2>1. \A s \in S : b - s \in Nat
    OBVIOUS
  <2> QED BY <2>1
<1>2. Least(T) \in T /\ \A t \in T : Least(T) <= t
  <2> HIDE DEF T
  <2> QED BY <1>1, LeastOfAll
<1>3. PICK x \in S : Least(T) = b - x
  BY <1>2
<1>4. ASSUME NEW s \in S PROVE x >= s
  <2>1. b - s \in T
    OBVIOUS
  <2>2. b - x <= b - s
    BY <1>2, <1>3, <2>1
  <2> QED BY <2>2
<1>5. \E i \in S : \A j \in S : i >= j
  BY <1>4
<1> QED BY <1>5 DEF Greatest

\* The order of strings is irreflexive ...
LEMMA NotLessThanItself ==
  ASSUME NEW a \in Seq(Nat)
  PROVE  ~Less(a, a)
BY DEF Less

\* ... it is transitive ...
LEMMA LessThrough ==
  ASSUME NEW a \in Seq(Nat), NEW b \in Seq(Nat), NEW c \in Seq(Nat), Less(a, b), Less(b, c)
  PROVE  Less(a, c)
<1>1. PICK i \in 1..Len(b) : /\ \A m \in 1..i - 1 : m <= Len(a) /\ a[m] = b[m]
                             /\ i <= Len(a) => a[i] < b[i]
  BY DEF Less
<1>2. PICK j \in 1..Len(c) : /\ \A m \in 1..j - 1 : m <= Len(b) /\ b[m] = c[m]
                             /\ j <= Len(b) => b[j] < c[j]
  BY DEF Less
<1>3. CASE i < j
  <2>1. i \in 1..j - 1 /\ i \in 1..Len(c)
    BY <1>3
  <2>2. \A m \in 1..i - 1 : m <= Len(a) /\ a[m] = c[m]
    BY <1>1, <1>2, <1>3
  <2>3. i <= Len(a) => a[i] < c[i]
    BY <1>1, <1>2, <2>1
  <2> QED BY <2>1, <2>2, <2>3 DEF Less
<1>4. CASE j <= i
  <2>1. \A m \in 1..j - 1 : m <= Len(a) /\ a[m] = c[m]
    BY <1>1, <1>2, <1>4
  <2>2. j <= Len(a) => a[j] < c[j]
    <3> SUFFICES ASSUME j <= Len(a) PROVE a[j] < c[j]
      OBVIOUS
    <3>1. a[j] \in Nat /\ b[j] \in Nat /\ c[j] \in Nat /\ j <= Len(b)
      BY <1>4
    <3>2. b[j] < c[j]
      BY <1>2, <3>1
    <3>3. j < i => a[j] = b[j]
      BY <1>1
    <3>4. j = i => a[j] < b[j]
      BY <1>1
    <3> QED BY <1>4, <3>1, <3>2, <3>3, <3>4
  <2> QED BY <2>1, <2>2 DEF Less
<1> QED BY <1>3, <1>4

\* ... and total.
LEMMA OneIsLess ==
  ASSUME NEW a \in Seq(Nat), NEW b \in Seq(Nat), a # b
  PROVE  Less(a, b) \/ Less(b, a)
<1> DEFINE D == {i \in 1..Len(a) + Len(b) + 1 : i > Len(a) \/ i > Len(b) \/ a[i] # b[i]}
           i == Least(D)
<1>1. i \in D /\ \A j \in D : i <= j
  <2>1. Len(a) + Len(b) + 1 \in D /\ D \subseteq Nat
    OBVIOUS
  <2> HIDE DEF D
  <2> QED BY <2>1, LeastOfAll
<1>2. \A j \in 1..i - 1 : j <= Len(a) /\ j <= Len(b) /\ a[j] = b[j]
  <2>1. ASSUME NEW j \in 1..i - 1 PROVE j \notin D /\ j \in 1..Len(a) + Len(b) + 1
    <3> HIDE DEF i
    <3>1. i \in 1..Len(a) + Len(b) + 1
      BY <1>1
    <3> QED BY <1>1, <3>1
  <2> HIDE DEF i
  <2> QED BY <2>1
<1>3. i \in 1..Len(a) + Len(b) + 1 /\ (i > Len(a) \/ i > Len(b) \/ a[i] # b[i])
  BY <1>1
<1> HIDE DEF i, D
<1>4. CASE i > Len(a) /\ i > Len(b)
  <2>1. Len(a) = Len(b)
    <3>1. Len(a) <= Len(b)
      <4>1. CASE Len(a) = 0
        BY <4>1
      <4>2. CASE Len(a) > 0
        BY <1>2, <1>3, <1>4, <4>2
      <4> QED BY <4>1, <4>2
    <3>2. Len(b) <= Len(a)
      <4>1. CASE Len(b) = 0
        BY <4>1
      <4>2. CASE Len(b) > 0
        BY <1>2, <1>3, <1>4, <4>2
      <4> QED BY <4>1, <4>2
    <3> QED BY <3>1, <3>2
  <2>2. \A j \in 1..Len(a) : a[j] = b[j]
    BY <1>2, <1>3, <1>4
  <2> QED BY <2>1, <2>2
<1>5. CASE i > Len(a) /\ i <= Len(b)
  <2>1. i \in 1..Len(b) /\ ~(i <= Len(a))
    BY <1>3, <1>5
  <2> QED BY <1>2, <2>1 DEF Less
<1>6. CASE i > Len(b) /\ i <= Len(a)
  <2>1. i \in 1..Len(a) /\ ~(i <= Len(b))
    BY <1>3, <1>6
  <2> QED BY <1>2, <2>1 DEF Less
<1>7. CASE i <= Len(a) /\ i <= Len(b)
  <2>1. a[i] \in Nat /\ b[i] \in Nat /\ a[i] # b[i] /\ i \in 1..Len(a) /\ i \in 1..Len(b)
    BY <1>3, <1>7
  <2>2. CASE a[i] < b[i]
    BY <1>2, <2>1, <2>2 DEF Less
  <2>3. CASE b[i] < a[i]
    BY <1>2, <2>1, <2>3 DEF Less
  <2> QED BY <2>1, <2>2, <2>3
<1> QED BY <1>3, <1>4, <1>5, <1>6, <1>7

-----------------------------------------------------------------------------
(* A level has one order. *)

AreKeys(k) == DOMAIN k \subseteq Rows /\ \A n \in DOMAIN k : k[n] \in Seq(Nat)

\* What can tell rows with the same key apart.
Tells(tie) == tie \in [Rows -> Nat] /\ \A m, n \in Rows : tie[m] = tie[n] => m = n

\* m stands above n.
Comes(k, tie, m, n) == Less(k[m], k[n]) \/ (k[m] = k[n] /\ tie[m] < tie[n])

Ascends(k, tie, s) == \A i, j \in 1..Len(s) : i < j => Comes(k, tie, s[i], s[j])

\* s lists the rows of k in order.
Orders(k, tie, s) == s \in Seq(DOMAIN k) /\ Range(s) = DOMAIN k /\ Ascends(k, tie, s)

\* The row numbers do, and so do the names.
LEMMA BothTell == Tells(RowId) /\ Tells(Name)
BY TieAssumption DEF Tells, Rows

HIDE TieAssumption

\* So is the order of the rows.
LEMMA ComesIsOrder ==
  ASSUME NEW tie, Tells(tie), NEW k, AreKeys(k)
  PROVE  /\ \A m \in DOMAIN k : ~Comes(k, tie, m, m)
         /\ \A l, m, n \in DOMAIN k : Comes(k, tie, l, m) /\ Comes(k, tie, m, n) => Comes(k, tie, l, n)
         /\ \A m, n \in DOMAIN k : m = n \/ Comes(k, tie, m, n) \/ Comes(k, tie, n, m)
<1>1. \A m \in DOMAIN k : m \in Rows /\ tie[m] \in Nat /\ k[m] \in Seq(Nat)
  BY DEF AreKeys, Tells
<1>2. \A m \in DOMAIN k : ~Comes(k, tie, m, m)
  BY <1>1, NotLessThanItself DEF Comes
<1>3. ASSUME NEW l \in DOMAIN k, NEW m \in DOMAIN k, NEW n \in DOMAIN k,
             Comes(k, tie, l, m), Comes(k, tie, m, n)
      PROVE  Comes(k, tie, l, n)
  <2>1. /\ tie[l] \in Nat /\ tie[m] \in Nat /\ tie[n] \in Nat
        /\ k[l] \in Seq(Nat) /\ k[m] \in Seq(Nat) /\ k[n] \in Seq(Nat)
    BY <1>1
  <2>2. Less(k[l], k[m]) /\ Less(k[m], k[n]) => Less(k[l], k[n])
    BY <2>1, LessThrough
  <2> QED BY <1>3, <2>1, <2>2 DEF Comes
<1>4. ASSUME NEW m \in DOMAIN k, NEW n \in DOMAIN k
      PROVE  m = n \/ Comes(k, tie, m, n) \/ Comes(k, tie, n, m)
  <2>1. tie[m] \in Nat /\ tie[n] \in Nat /\ k[m] \in Seq(Nat) /\ k[n] \in Seq(Nat)
    BY <1>1
  <2>2. k[m] # k[n] => Less(k[m], k[n]) \/ Less(k[n], k[m])
    BY <2>1, OneIsLess
  <2>3. tie[m] = tie[n] => m = n
    BY <1>1 DEF Tells
  <2> QED BY <2>1, <2>2, <2>3 DEF Comes
<1> QED BY <1>2, <1>3, <1>4

\* The first i entries of a sequence without repetition are i things.
LEMMA FirstEntries ==
  ASSUME NEW S, NEW s \in Seq(S), \A i, j \in 1..Len(s) : s[i] = s[j] => i = j,
         NEW n \in 0..Len(s)
  PROVE  Cardinality({s[i] : i \in 1..n}) = n
<1> DEFINE T == {s[i] : i \in 1..n}
           f == [i \in 1..n |-> s[i]]
<1>1. \A i \in 1..n : i \in 1..Len(s) /\ f[i] = s[i]
  OBVIOUS
<1>2. f \in [1..n -> T]
  OBVIOUS
<1>3. \A x \in T : \E i \in 1..n : f[i] = x
  BY <1>1
<1> HIDE DEF f, T
<1>4. \A i, j \in 1..n : f[i] = f[j] => i = j
  BY <1>1
<1>5. f \in Bijection(1..n, T)
  BY <1>2, <1>3, <1>4 DEF Bijection, Injection, Surjection, IsInjective
<1>6. IsFiniteSet(1..n) /\ Cardinality(1..n) = n
  BY FS_Interval
<1>7. Cardinality(T) = Cardinality(1..n)
  BY <1>5, <1>6, FS_Bijection DEF ExistsBijection
<1> QED BY <1>6, <1>7 DEF T

\* What lists the rows in order is what the query returns.
LEMMA OneOrder ==
  ASSUME NEW tie, Tells(tie), NEW k, AreKeys(k), NEW s, Orders(k, tie, s)
  PROVE  InOrder(k, tie) = s
<1> DEFINE D == DOMAIN k
           Under(n) == {m \in D : (k[m] = k[n] /\ tie[m] <= tie[n]) \/ Less(k[m], k[n])}
<1>1. s \in Seq(D) /\ D \subseteq Rows /\ D = {s[i] : i \in 1..Len(s)} /\ Len(s) \in Nat
  <2>1. s \in Seq(D) /\ D \subseteq Rows /\ Range(s) = D
    BY DEF Orders, AreKeys
  <2>2. DOMAIN s = 1..Len(s) /\ Len(s) \in Nat
    BY <2>1
  <2> QED BY <2>1, <2>2 DEF Range
<1>2. \A i \in 1..Len(s) : s[i] \in D /\ s[i] \in Rows /\ tie[s[i]] \in Nat
  BY <1>1 DEF Tells
<1>3. \A i, j \in 1..Len(s) : i < j => Comes(k, tie, s[i], s[j])
  BY DEF Orders, Ascends
<1>4. ASSUME NEW i \in 1..Len(s), NEW j \in 1..Len(s) PROVE s[i] = s[j] => i = j
  BY <1>2, <1>3, ComesIsOrder
<1>5. ASSUME NEW i \in 1..Len(s) PROVE Under(s[i]) = {s[j] : j \in 1..i}
  <2>1. ASSUME NEW j \in 1..i PROVE s[j] \in Under(s[i])
    <3>1. j \in 1..Len(s) /\ (j = i \/ j < i)
      OBVIOUS
    <3>2. j = i \/ Comes(k, tie, s[j], s[i])
      BY <1>3, <3>1
    <3> QED BY <1>2, <3>1, <3>2 DEF Comes
  <2>2. ASSUME NEW m \in Under(s[i]) PROVE m \in {s[j] : j \in 1..i}
    <3>1. PICK j \in 1..Len(s) : m = s[j]
      BY <1>1
    <3>2. m = s[i] \/ Comes(k, tie, m, s[i])
      <4>1. tie[m] = tie[s[i]] => m = s[i]
        BY <1>2, <3>1 DEF Tells
      <4> QED BY <1>2, <3>1, <4>1 DEF Comes
    <3>3. ~(i < j)
      <4> SUFFICES ASSUME i < j PROVE FALSE
        OBVIOUS
      <4>1. Comes(k, tie, s[i], m)
        BY <1>3, <3>1
      <4> QED BY <1>2, <3>1, <3>2, <4>1, ComesIsOrder
    <3> QED BY <3>1, <3>3
  <2> HIDE DEF Under
  <2> QED BY <2>1, <2>2
<1>6. ASSUME NEW i \in 1..Len(s) PROVE Cardinality(Under(s[i])) = i
  <2>1. Cardinality({s[j] : j \in 1..i}) = i
    <3>1. i \in 0..Len(s) /\ s \in Seq(D)
      BY <1>1
    <3> HIDE DEF D, Under
    <3> QED BY <1>4, <3>1, FirstEntries
  <2> QED BY <1>5, <2>1
<1>7. Cardinality(D) = Len(s)
  <2>1. Cardinality({s[j] : j \in 1..Len(s)}) = Len(s)
    <3> DEFINE n == Len(s)
    <3>1. n \in 0..Len(s) /\ s \in Seq(D)
      BY <1>1
    <3> HIDE DEF D, n
    <3>2. Cardinality({s[j] : j \in 1..n}) = n
      BY <1>4, <3>1, FirstEntries
    <3> QED BY <3>2 DEF n
  <2> QED BY <1>1, <2>1
<1> HIDE DEF D
<1>8. ASSUME NEW i \in 1..Len(s) PROVE (CHOOSE n \in D : Cardinality(Under(n)) = i) = s[i]
  <2> HIDE DEF Under
  <2>1. ASSUME NEW n \in D, Cardinality(Under(n)) = i PROVE n = s[i]
    <3>1. PICK j \in 1..Len(s) : n = s[j]
      BY <1>1
    <3> QED BY <1>6, <2>1, <3>1
  <2>2. s[i] \in D /\ Cardinality(Under(s[i])) = i
    BY <1>2, <1>6
  <2> QED BY <2>1, <2>2
<1>9. InOrder(k, tie) = [i \in 1..Cardinality(D) |-> CHOOSE n \in D : Cardinality(Under(n)) = i]
  BY DEF InOrder, D
<1> HIDE DEF Under
<1>10. InOrder(k, tie) = [i \in 1..Len(s) |-> s[i]]
  BY <1>7, <1>8, <1>9
<1> QED BY <1>1, <1>10

-----------------------------------------------------------------------------
(* Rows come and go. *)

\* What a sequence holds with one more at its end ...
LEMMA Appended ==
  ASSUME NEW S, NEW a \in Seq(S), NEW e \in S
  PROVE  /\ Append(a, e) \in Seq(S) /\ Len(Append(a, e)) = Len(a) + 1
         /\ \A i \in 1..Len(a) : Append(a, e)[i] = a[i]
         /\ Append(a, e)[Len(a) + 1] = e
         /\ Append(a, e) \in [1..Len(a) + 1 -> S]
<1>1. Append(a, e) \in Seq(S)
  OBVIOUS
<1>2. Len(Append(a, e)) = Len(a) + 1
  OBVIOUS
<1>3. \A i \in 1..Len(a) : Append(a, e)[i] = a[i]
  OBVIOUS
<1>4. Append(a, e)[Len(a) + 1] = e
  OBVIOUS
<1>5. Append(a, e) \in [1..Len(a) + 1 -> S]
  <2> DEFINE t == Append(a, e)
  <2>1. t \in Seq(S)
    BY <1>1
  <2> HIDE DEF t
  <2>2. t \in [1..Len(t) -> S]
    BY <2>1
  <2>3. Len(t) = Len(a) + 1
    BY <1>2 DEF t
  <2>4. t \in [1..Len(a) + 1 -> S]
    BY <2>2, <2>3
  <2> QED BY <2>4 DEF t
<1> QED BY <1>1, <1>2, <1>3, <1>4, <1>5

\* ... joined to another ...
LEMMA Joined ==
  ASSUME NEW S, NEW a \in Seq(S), NEW b \in Seq(S)
  PROVE  /\ a \o b \in Seq(S) /\ Len(a \o b) = Len(a) + Len(b)
         /\ \A i \in 1..Len(a) : (a \o b)[i] = a[i]
         /\ \A i \in 1..Len(b) : (a \o b)[Len(a) + i] = b[i]
<1>1. a \o b \in Seq(S)
  OBVIOUS
<1>2. Len(a \o b) = Len(a) + Len(b)
  OBVIOUS
<1>3. \A i \in 1..Len(a) : (a \o b)[i] = a[i]
  OBVIOUS
<1>4. \A i \in 1..Len(b) : (a \o b)[Len(a) + i] = b[i]
  OBVIOUS
<1> QED BY <1>1, <1>2, <1>3, <1>4

\* ... with one more at a place ...
LEMMA Inserted ==
  ASSUME NEW S, NEW s \in Seq(S), NEW e \in S, NEW i \in 1..Len(s) + 1
  PROVE  /\ InsertAt(s, i, e) \in Seq(S) /\ Len(InsertAt(s, i, e)) = Len(s) + 1
         /\ \A j \in 1..Len(s) + 1 :
              InsertAt(s, i, e)[j] = IF j < i THEN s[j] ELSE IF j = i THEN e ELSE s[j - 1]
         /\ Range(InsertAt(s, i, e)) = Range(s) \cup {e}
<1> DEFINE a == SubSeq(s, 1, i - 1)
           b == SubSeq(s, i, Len(s))
           t == a \o <<e>> \o b
<1>1. /\ a \in Seq(S) /\ Len(a) = i - 1 /\ \A j \in 1..i - 1 : a[j] = s[j]
      /\ b \in Seq(S) /\ Len(b) = Len(s) - i + 1 /\ \A j \in 1..Len(s) - i + 1 : b[j] = s[j + i - 1]
      /\ Len(s) \in Nat /\ i \in Nat /\ \A j \in 1..Len(s) : s[j] \in S
  OBVIOUS
<1> HIDE DEF a, b
<1>2. /\ a \o <<e>> \in Seq(S) /\ Len(a \o <<e>>) = i
      /\ \A j \in 1..i - 1 : (a \o <<e>>)[j] = s[j]
      /\ (a \o <<e>>)[i] = e
  <2> DEFINE c == a \o <<e>>
             one == <<e>>
  <2>1. one \in Seq(S) /\ Len(one) = 1 /\ one[1] = e
    OBVIOUS
  <2>2. a \in Seq(S)
    BY <1>1
  <2> HIDE DEF one, c, t
  <2>3. /\ a \o one \in Seq(S) /\ Len(a \o one) = Len(a) + Len(one)
        /\ \A j \in 1..Len(a) : (a \o one)[j] = a[j]
        /\ \A j \in 1..Len(one) : (a \o one)[Len(a) + j] = one[j]
    <3>1. one \in Seq(S)
      BY <2>1
    <3>2. a \o one \in Seq(S) /\ Len(a \o one) = Len(a) + Len(one)
      BY <3>1, <2>2, Joined
    <3>3. \A j \in 1..Len(a) : (a \o one)[j] = a[j]
      BY <3>1, <2>2, Joined, Zenon
    <3>4. \A j \in 1..Len(one) : (a \o one)[Len(a) + j] = one[j]
      BY <3>1, <2>2, Joined
    <3> QED BY <3>2, <3>3, <3>4
  <2>4. c = a \o one
    BY DEF one, c
  <2>5. c \in Seq(S) /\ Len(c) = i /\ \A j \in 1..i - 1 : c[j] = s[j]
    BY <1>1, <2>1, <2>3, <2>4
  <2>6. c[i] = e
    <3>1. Len(a) + 1 = i /\ 1 \in 1..Len(one)
      BY <1>1, <2>1
    <3> QED BY <2>1, <2>3, <2>4, <3>1
  <2> QED BY <2>5, <2>6 DEF c
<1>3. t \in Seq(S) /\ Len(t) = Len(s) + 1
  <2>1. (a \o <<e>>) \o b \in Seq(S) /\ Len((a \o <<e>>) \o b) = Len(a \o <<e>>) + Len(b)
    BY <1>1, <1>2, Joined
  <2>2. Len(b) = Len(s) - i + 1 /\ Len(a \o <<e>>) = i
    BY <1>1, <1>2
  <2>3. i + (Len(s) - i + 1) = Len(s) + 1
    BY <1>1
  <2> QED BY <2>1, <2>2, <2>3
<1>4. ASSUME NEW j \in 1..Len(s) + 1
      PROVE  t[j] = IF j < i THEN s[j] ELSE IF j = i THEN e ELSE s[j - 1]
  <2> DEFINE c == a \o <<e>>
  <2>1. c \o b = t /\ Len(b) = Len(s) - i + 1 /\ Len(c) = i
    BY <1>1, <1>2
  <2>2. /\ \A m \in 1..Len(c) : (c \o b)[m] = c[m]
        /\ \A m \in 1..Len(b) : (c \o b)[Len(c) + m] = b[m]
    <3>1. c \in Seq(S) /\ b \in Seq(S)
      BY <1>1, <1>2
    <3> HIDE DEF t, c
    <3>2. \A m \in 1..Len(c) : (c \o b)[m] = c[m]
      BY <3>1, Joined, Zenon
    <3>3. \A m \in 1..Len(b) : (c \o b)[Len(c) + m] = b[m]
      BY <3>1, Joined
    <3> QED BY <3>2, <3>3
  <2>3. CASE j <= i
    <3>1. t[j] = c[j]
      <4> HIDE DEF t, c
      <4> QED BY <1>1, <2>1, <2>2, <2>3
    <3>2. j \in 1..i - 1 \/ j = i
      BY <1>1, <2>3
    <3> QED BY <1>1, <1>2, <3>1, <3>2
  <2>4. CASE j > i
    <3>1. j - i \in 1..Len(s) - i + 1 /\ i + (j - i) = j
      BY <1>1, <2>4
    <3>2. t[j] = b[j - i]
      <4> HIDE DEF t, c
      <4> QED BY <2>1, <2>2, <3>1
    <3>3. b[j - i] = s[(j - i) + i - 1] /\ (j - i) + i - 1 = j - 1
      BY <1>1, <3>1
    <3> QED BY <1>1, <2>4, <3>2, <3>3
  <2> QED BY <1>1, <2>3, <2>4
<1>5. InsertAt(s, i, e) = t
  BY DEF InsertAt, a, b
<1> HIDE DEF t
<1>6. DOMAIN s = 1..Len(s) /\ DOMAIN t = 1..Len(s) + 1
  BY <1>3
<1>7. ASSUME NEW x \in Range(t) PROVE x \in Range(s) \cup {e}
  <2>1. PICK j \in 1..Len(s) + 1 : x = t[j]
    BY <1>6, <1>7 DEF Range
  <2>2. j < i => j \in 1..Len(s)
    OBVIOUS
  <2>3. j > i => j - 1 \in 1..Len(s)
    OBVIOUS
  <2>4. j < i \/ j = i \/ j > i
    OBVIOUS
  <2> QED BY <1>4, <1>6, <2>1, <2>2, <2>3, <2>4 DEF Range
<1>8. ASSUME NEW x \in Range(s) PROVE x \in Range(t)
  <2>1. PICK j \in 1..Len(s) : x = s[j]
    BY <1>6, <1>8 DEF Range
  <2>2. CASE j < i
    <3>1. j \in 1..Len(s) + 1 /\ t[j] = x
      BY <1>1, <1>4, <2>1, <2>2
    <3> QED BY <1>6, <3>1 DEF Range
  <2>3. CASE j >= i
    <3>1. j + 1 \in 1..Len(s) + 1 /\ ~(j + 1 < i) /\ j + 1 # i /\ (j + 1) - 1 = j
      BY <2>3
    <3>2. t[j + 1] = x
      BY <1>4, <2>1, <3>1
    <3> QED BY <1>6, <3>1, <3>2 DEF Range
  <2> QED BY <2>2, <2>3
<1>9. e \in Range(t)
  <2>1. t[i] = e
    BY <1>1, <1>4
  <2> QED BY <1>6, <2>1 DEF Range
<1> QED BY <1>3, <1>4, <1>5, <1>7, <1>8, <1>9

\* ... or one less.
LEMMA Removed ==
  ASSUME NEW S, NEW s \in Seq(S), NEW i \in 1..Len(s)
  PROVE  /\ RemoveAt(s, i) \in Seq(S) /\ Len(RemoveAt(s, i)) = Len(s) - 1
         /\ \A j \in 1..Len(s) - 1 : RemoveAt(s, i)[j] = IF j < i THEN s[j] ELSE s[j + 1]
<1> DEFINE a == SubSeq(s, 1, i - 1)
           b == SubSeq(s, i + 1, Len(s))
           t == a \o b
<1>1. /\ a \in Seq(S) /\ Len(a) = i - 1 /\ \A j \in 1..i - 1 : a[j] = s[j]
      /\ b \in Seq(S) /\ Len(b) = Len(s) - i /\ \A j \in 1..Len(s) - i : b[j] = s[j + i]
      /\ Len(s) \in Nat /\ i \in Nat
  OBVIOUS
<1> HIDE DEF a, b
<1>2. t \in Seq(S) /\ Len(t) = Len(s) - 1
  <2>1. t \in Seq(S) /\ Len(t) = Len(a) + Len(b)
    BY <1>1, Joined
  <2> QED BY <1>1, <2>1
<1>3. ASSUME NEW j \in 1..Len(s) - 1
      PROVE  t[j] = IF j < i THEN s[j] ELSE s[j + 1]
  <2>1. CASE j < i
    BY <1>1, <2>1
  <2>2. CASE j >= i
    <3>1. t[j] = b[j - (i - 1)] /\ j - (i - 1) \in 1..Len(s) - i
      BY <1>1, <2>2
    <3>2. b[j - (i - 1)] = s[(j - (i - 1)) + i] /\ (j - (i - 1)) + i = j + 1
      BY <1>1, <3>1
    <3> QED BY <1>1, <2>2, <3>1, <3>2
  <2> QED BY <1>1, <2>1, <2>2
<1>4. RemoveAt(s, i) = t
  BY DEF RemoveAt, a, b
<1> QED BY <1>2, <1>3, <1>4

\* A row between those above it and those below it.
LEMMA InsertedOrders ==
  ASSUME NEW tie, Tells(tie), NEW k, AreKeys(k), NEW s \in Seq(DOMAIN k), Ascends(k, tie, s), NEW n \in DOMAIN k,
         DOMAIN k = Range(s) \cup {n}, NEW place \in 1..Len(s) + 1,
         \A j \in 1..Len(s) : j < place => Comes(k, tie, s[j], n),
         \A j \in 1..Len(s) : j >= place => Comes(k, tie, n, s[j])
  PROVE  Orders(k, tie, InsertAt(s, place, n))
<1> DEFINE t == InsertAt(s, place, n)
<1>1. /\ t \in Seq(DOMAIN k) /\ Len(t) = Len(s) + 1 /\ Range(t) = DOMAIN k
      /\ \A j \in 1..Len(s) + 1 :
            t[j] = IF j < place THEN s[j] ELSE IF j = place THEN n ELSE s[j - 1]
  <2> DEFINE D == DOMAIN k
  <2>1. s \in Seq(D) /\ n \in D /\ D = Range(s) \cup {n}
    OBVIOUS
  <2> HIDE DEF D
  <2>2. /\ InsertAt(s, place, n) \in Seq(D) /\ Len(InsertAt(s, place, n)) = Len(s) + 1
        /\ \A j \in 1..Len(s) + 1 : InsertAt(s, place, n)[j] =
               IF j < place THEN s[j] ELSE IF j = place THEN n ELSE s[j - 1]
        /\ Range(InsertAt(s, place, n)) = Range(s) \cup {n}
    <3>1. s \in Seq(D) /\ n \in D /\ place \in 1..Len(s) + 1
      BY <2>1
    <3> HIDE DEF t
    <3>2. InsertAt(s, place, n) \in Seq(D) /\ Len(InsertAt(s, place, n)) = Len(s) + 1
      BY <3>1, Inserted
    <3>3. \A j \in 1..Len(s) + 1 : InsertAt(s, place, n)[j] =
               IF j < place THEN s[j] ELSE IF j = place THEN n ELSE s[j - 1]
      BY <3>1, Inserted
    <3>4. Range(InsertAt(s, place, n)) = Range(s) \cup {n}
      BY <3>1, Inserted
    <3> QED BY <3>2, <3>3, <3>4
  <2> QED BY <2>1, <2>2 DEF D
<1> HIDE DEF t
<1>2. ASSUME NEW i \in 1..Len(t), NEW j \in 1..Len(t), i < j PROVE Comes(k, tie, t[i], t[j])
  <2>0. i \in Nat /\ j \in Nat /\ Len(s) \in Nat /\ place \in Nat
    BY <1>1
  <2>1. CASE j < place
    <3>1. t[i] = s[i] /\ t[j] = s[j] /\ i \in 1..Len(s) /\ j \in 1..Len(s)
      BY <1>1, <1>2, <2>1
    <3> QED BY <1>2, <3>1 DEF Ascends
  <2>2. CASE j = place
    <3>1. t[i] = s[i] /\ t[j] = n /\ i \in 1..Len(s) /\ i < place
      BY <1>1, <1>2, <2>2
    <3> QED BY <3>1
  <2>3. CASE j > place /\ i < place
    <3>1. t[i] = s[i] /\ t[j] = s[j - 1] /\ i \in 1..Len(s) /\ j - 1 \in 1..Len(s) /\ i < j - 1
      BY <1>1, <1>2, <2>3
    <3> QED BY <3>1 DEF Ascends
  <2>4. CASE j > place /\ i = place
    <3>1. t[i] = n /\ t[j] = s[j - 1] /\ j - 1 \in 1..Len(s) /\ j - 1 >= place
      BY <1>1, <1>2, <2>4
    <3> QED BY <3>1
  <2>5. CASE j > place /\ i > place
    <3>1. /\ t[i] = s[i - 1] /\ t[j] = s[j - 1]
          /\ i - 1 \in 1..Len(s) /\ j - 1 \in 1..Len(s) /\ i - 1 < j - 1
      BY <1>1, <1>2, <2>5
    <3> QED BY <3>1 DEF Ascends
  <2> QED BY <2>0, <2>1, <2>2, <2>3, <2>4, <2>5
<1>3. Orders(k, tie, t)
  BY <1>1, <1>2 DEF Orders, Ascends
<1> QED BY <1>3 DEF t

\* A row that joins an ordered level has one place there.
LEMMA FindsItsPlace ==
  ASSUME NEW tie, Tells(tie), NEW k, AreKeys(k), NEW s \in Seq(DOMAIN k), Ascends(k, tie, s), NEW n \in DOMAIN k,
         DOMAIN k = Range(s) \cup {n}, n \notin Range(s)
  PROVE  \E place \in 1..Len(s) + 1 : Orders(k, tie, InsertAt(s, place, n))
<1> DEFINE Later == {j \in 1..Len(s) : Comes(k, tie, n, s[j])} \cup {Len(s) + 1}
           place == Least(Later)
<1>1. Len(s) \in Nat /\ \A j \in 1..Len(s) : s[j] \in DOMAIN k /\ s[j] # n
  <2>1. DOMAIN s = 1..Len(s)
    OBVIOUS
  <2> QED BY <2>1 DEF Range
<1>2. place \in Later /\ \A j \in Later : place <= j
  <2>1. Later \subseteq Nat /\ Later # {}
    BY <1>1
  <2> HIDE DEF Later
  <2> QED BY <2>1, LeastOfAll
<1>3. place \in 1..Len(s) + 1 /\ (place \in 1..Len(s) => Comes(k, tie, n, s[place]))
  <2> HIDE DEF place
  <2> QED BY <1>1, <1>2
<1>4. ASSUME NEW j \in 1..Len(s), j < place PROVE Comes(k, tie, s[j], n)
  <2>1. j \notin Later
    <3> HIDE DEF Later
    <3> QED BY <1>2, <1>3, <1>4
  <2>2. ~Comes(k, tie, n, s[j])
    BY <2>1
  <2> QED BY <1>1, <2>2, ComesIsOrder
<1> HIDE DEF place
<1>5. ASSUME NEW j \in 1..Len(s), j >= place PROVE Comes(k, tie, n, s[j])
  <2>1. place \in 1..Len(s) /\ Comes(k, tie, n, s[place])
    BY <1>3, <1>5
  <2>2. place = j \/ place < j
    BY <1>5, <2>1
  <2>3. place < j => Comes(k, tie, s[place], s[j])
    BY <2>1 DEF Ascends
  <2> QED BY <1>1, <2>1, <2>2, <2>3, ComesIsOrder
<1>6. Orders(k, tie, InsertAt(s, place, n))
  BY <1>3, <1>4, <1>5, InsertedOrders
<1> QED BY <1>3, <1>6

\* What an order says of each of its rows.
LEMMA EachOnce ==
  ASSUME NEW tie, Tells(tie), NEW k, AreKeys(k), NEW s, Orders(k, tie, s)
  PROVE  /\ Len(s) \in Nat /\ DOMAIN s = 1..Len(s)
         /\ \A i \in 1..Len(s) : s[i] \in DOMAIN k
         /\ \A i, j \in 1..Len(s) : s[i] = s[j] => i = j
         /\ \A n \in DOMAIN k : SlotOf(s, n) \in 1..Len(s) /\ s[SlotOf(s, n)] = n
<1>1. s \in Seq(DOMAIN k) /\ Range(s) = DOMAIN k
  BY DEF Orders
<1>2. Len(s) \in Nat /\ DOMAIN s = 1..Len(s) /\ \A i \in 1..Len(s) : s[i] \in DOMAIN k
  BY <1>1
<1>3. \A i, j \in 1..Len(s) : i < j => Comes(k, tie, s[i], s[j])
  BY DEF Orders, Ascends
<1>4. ASSUME NEW i \in 1..Len(s), NEW j \in 1..Len(s), s[i] = s[j] PROVE i = j
  BY <1>2, <1>3, <1>4, ComesIsOrder
<1>5. ASSUME NEW n \in DOMAIN k PROVE SlotOf(s, n) \in 1..Len(s) /\ s[SlotOf(s, n)] = n
  <2>1. \E i \in DOMAIN s : s[i] = n
    BY <1>1 DEF Range
  <2> QED BY <1>2, <2>1 DEF SlotOf
<1> QED BY <1>2, <1>4, <1>5

\* What is left of a level when a row goes.
LEMMA RemovedOrders ==
  ASSUME NEW tie, Tells(tie), NEW k, AreKeys(k), NEW s, Orders(k, tie, s), NEW n \in DOMAIN k,
         NEW q, q = [m \in DOMAIN k \ {n} |-> k[m]]
  PROVE  AreKeys(q) /\ Orders(q, tie, RemoveAt(s, SlotOf(s, n)))
<1> DEFINE at == SlotOf(s, n)
           t == RemoveAt(s, at)
<1>1. /\ Len(s) \in Nat /\ DOMAIN s = 1..Len(s) /\ \A i \in 1..Len(s) : s[i] \in DOMAIN k
      /\ \A i, j \in 1..Len(s) : s[i] = s[j] => i = j
      /\ at \in 1..Len(s) /\ s[at] = n
  BY EachOnce
<1> HIDE DEF at
<1>2. s \in Seq(DOMAIN k) /\ Range(s) = DOMAIN k /\ Ascends(k, tie, s)
  BY DEF Orders
<1>3. DOMAIN q = DOMAIN k \ {n} /\ \A m \in DOMAIN q : q[m] = k[m]
  OBVIOUS
<1>4. AreKeys(q)
  BY <1>3 DEF AreKeys
<1>5. /\ t \in Seq(DOMAIN k) /\ Len(t) = Len(s) - 1
      /\ \A j \in 1..Len(s) - 1 : t[j] = IF j < at THEN s[j] ELSE s[j + 1]
  <2> DEFINE D == DOMAIN k
  <2>1. s \in Seq(D)
    BY <1>2
  <2> HIDE DEF D
  <2>2. /\ t \in Seq(D) /\ Len(t) = Len(s) - 1
        /\ \A j \in 1..Len(s) - 1 : t[j] = IF j < at THEN s[j] ELSE s[j + 1]
    BY <1>1, <2>1, Removed
  <2> QED BY <2>2 DEF D
<1> HIDE DEF t
<1> DEFINE From(j) == IF j < at THEN j ELSE j + 1
<1>6. ASSUME NEW j \in 1..Len(t)
      PROVE  From(j) \in 1..Len(s) /\ From(j) # at /\ t[j] = s[From(j)] /\ t[j] \in DOMAIN q
  <2>1. From(j) \in 1..Len(s) /\ From(j) # at /\ t[j] = s[From(j)]
    BY <1>1, <1>5
  <2> HIDE DEF From
  <2> QED BY <1>1, <1>3, <2>1
<1>7. ASSUME NEW m \in DOMAIN q PROVE \E j \in 1..Len(t) : t[j] = m
  <2>1. PICK i \in 1..Len(s) : s[i] = m
    BY <1>1, <1>2, <1>3 DEF Range
  <2>2. i # at
    BY <1>1, <1>3, <2>1
  <2>3. CASE i < at
    BY <1>1, <1>5, <2>1, <2>3
  <2>4. CASE i > at
    <3>1. i - 1 \in 1..Len(t) /\ ~(i - 1 < at) /\ (i - 1) + 1 = i
      BY <1>1, <1>5, <2>4
    <3> QED BY <1>5, <2>1, <3>1
  <2> QED BY <1>1, <2>2, <2>3, <2>4
<1>8. t \in Seq(DOMAIN q) /\ DOMAIN t = 1..Len(t)
  <2>1. Len(t) \in Nat /\ t = [j \in 1..Len(t) |-> t[j]] /\ DOMAIN t = 1..Len(t)
    BY <1>5
  <2> QED BY <1>6, <2>1
<1>9. Range(t) = DOMAIN q
  BY <1>6, <1>7, <1>8 DEF Range
<1>10. ASSUME NEW i \in 1..Len(t), NEW j \in 1..Len(t), i < j PROVE Comes(q, tie, t[i], t[j])
  <2>1. From(i) < From(j)
    BY <1>1, <1>10
  <2> HIDE DEF From
  <2>2. Comes(k, tie, s[From(i)], s[From(j)])
    BY <1>2, <1>6, <2>1 DEF Ascends
  <2> QED BY <1>3, <1>6, <2>2 DEF Comes
<1>11. Orders(q, tie, t)
  BY <1>8, <1>9, <1>10 DEF Orders, Ascends
<1> QED BY <1>4, <1>11 DEF t, at

\* Every level has an order ...
LEMMA HasOrder ==
  ASSUME NEW tie, Tells(tie), NEW k, AreKeys(k)
  PROVE  Orders(k, tie, InOrder(k, tie))
<1> DEFINE Upto == [m \in Nat |-> [n \in DOMAIN k \cap 1..m |-> k[n]]]
           S == {m \in Nat : \E s : Orders(Upto[m], tie, s)}
<1>1. MaxRows \in Nat /\ DOMAIN k \subseteq 1..MaxRows
  BY RowsAssumption DEF AreKeys, Rows
<1>2. ASSUME NEW m \in Nat
      PROVE  /\ DOMAIN Upto[m] = DOMAIN k \cap 1..m
             /\ \A n \in DOMAIN k \cap 1..m : Upto[m][n] = k[n]
             /\ AreKeys(Upto[m])
  BY DEF AreKeys
<1> HIDE DEF Upto
<1>3. 0 \in S
  <2>1. DOMAIN Upto[0] = {}
    <3>1. DOMAIN Upto[0] = DOMAIN k \cap 1..0
      BY <1>2
    <3> QED BY <3>1
  <2>2. <<>> \in Seq(DOMAIN Upto[0]) /\ Len(<<>>) = 0 /\ Range(<<>>) = {}
    BY DEF Range
  <2>3. Orders(Upto[0], tie, <<>>)
    BY <2>1, <2>2 DEF Orders, Ascends
  <2> QED BY <2>3
<1>4. ASSUME NEW m \in S PROVE m + 1 \in S
  <2> DEFINE n == m + 1
             q == Upto[n]
  <2>1. m \in Nat /\ n \in Nat
    OBVIOUS
  <2>2. PICK s : Orders(Upto[m], tie, s)
    OBVIOUS
  <2>3. CASE n \notin DOMAIN k
    <3>1. DOMAIN q = DOMAIN Upto[m] /\ \A l \in DOMAIN q : q[l] = Upto[m][l]
      <4>1. DOMAIN k \cap 1..n = DOMAIN k \cap 1..m
        BY <2>1, <2>3
      <4> HIDE DEF n
      <4> QED BY <1>2, <2>1, <4>1
    <3> HIDE DEF q, n
    <3>2. s \in Seq(DOMAIN q) /\ Range(s) = DOMAIN q /\ \A i \in 1..Len(s) : s[i] \in DOMAIN q
      BY <2>2, <3>1 DEF Orders
    <3>3. Orders(q, tie, s)
      BY <2>2, <3>1, <3>2 DEF Orders, Ascends, Comes
    <3> QED BY <2>1, <3>3 DEF q, n
  <2>4. CASE n \in DOMAIN k
    <3>1. /\ DOMAIN q = DOMAIN Upto[m] \cup {n} /\ \A l \in DOMAIN Upto[m] : q[l] = Upto[m][l]
          /\ n \notin DOMAIN Upto[m] /\ AreKeys(q)
      <4>1. /\ DOMAIN k \cap 1..n = (DOMAIN k \cap 1..m) \cup {n} /\ n \notin 1..m
            /\ \A l \in DOMAIN k \cap 1..m : l \in DOMAIN k \cap 1..n
        BY <2>1, <2>4
      <4> HIDE DEF n
      <4> QED BY <1>2, <2>1, <4>1
    <3> HIDE DEF q, n
    <3>2. /\ s \in Seq(DOMAIN Upto[m]) /\ Range(s) = DOMAIN Upto[m]
          /\ \A i \in 1..Len(s) : s[i] \in DOMAIN Upto[m]
      BY <2>2 DEF Orders
    <3>3. s \in Seq(DOMAIN q)
      <4>1. s = [i \in 1..Len(s) |-> s[i]] /\ Len(s) \in Nat
        BY <3>2
      <4> QED BY <3>1, <3>2, <4>1
    <3>4. Ascends(q, tie, s)
      BY <2>2, <3>1, <3>2 DEF Orders, Ascends, Comes
    <3>5. \E place \in 1..Len(s) + 1 : Orders(q, tie, InsertAt(s, place, n))
      BY <3>1, <3>2, <3>3, <3>4, FindsItsPlace
    <3> QED BY <2>1, <3>5 DEF q, n
  <2> QED BY <2>3, <2>4
<1>5. MaxRows \in S
  <2>1. S \in SUBSET Nat
    OBVIOUS
  <2> HIDE DEF S
  <2>2. S = Nat
    BY <1>3, <1>4, <2>1, Induction
  <2> QED BY <1>1, <2>2
<1>6. PICK s : Orders(Upto[MaxRows], tie, s)
  BY <1>5
<1>7. DOMAIN Upto[MaxRows] = DOMAIN k /\ \A n \in DOMAIN k : Upto[MaxRows][n] = k[n]
  BY <1>1, <1>2
<1>8. s \in Seq(DOMAIN k) /\ Range(s) = DOMAIN k /\ \A i \in 1..Len(s) : s[i] \in DOMAIN k
  BY <1>6, <1>7 DEF Orders
<1>9. Orders(k, tie, s)
  BY <1>6, <1>7, <1>8 DEF Orders, Ascends, Comes
<1> QED BY <1>9, OneOrder

\* ... which is the same for everyone as long as no two keys are.
LEMMA NothingToTellApart ==
  ASSUME NEW a, Tells(a), NEW b, Tells(b), NEW k, AreKeys(k),
         \A m, n \in DOMAIN k : k[m] = k[n] => m = n
  PROVE  InOrder(k, a) = InOrder(k, b)
<1> DEFINE s == InOrder(k, a)
<1>1. Orders(k, a, s)
  BY HasOrder
<1> HIDE DEF s
<1>2. Len(s) \in Nat /\ \A i \in 1..Len(s) : s[i] \in DOMAIN k
  BY <1>1, EachOnce
<1>3. ASSUME NEW i \in 1..Len(s), NEW j \in 1..Len(s), i < j PROVE Comes(k, b, s[i], s[j])
  <2>1. s[i] # s[j]
    BY <1>1, <1>2, <1>3, EachOnce
  <2>2. Comes(k, a, s[i], s[j])
    BY <1>1, <1>3 DEF Orders, Ascends
  <2> QED BY <1>2, <2>1, <2>2 DEF Comes
<1>4. Orders(k, b, s)
  BY <1>1, <1>3 DEF Orders, Ascends
<1> QED BY <1>4, OneOrder DEF s

-----------------------------------------------------------------------------
(* A key between two keys. *)

\* A sort key as ids.py makes them: it never ends with the lowest digit.
Good(a) == a \in Key /\ a[Len(a)] # 0

\* A key has digits, at least one and not too many.
LEMMA KeysAreSequences ==
  ASSUME NEW a \in Key
  PROVE  /\ a \in Seq(0..BASE - 1) /\ a \in Seq(Nat) /\ a # <<>>
         /\ Len(a) \in 1..MAX_RANK_LENGTH + MaxRows /\ DOMAIN a = 1..Len(a)
         /\ \A i \in 1..Len(a) : a[i] \in 0..BASE - 1
<1>1. PICK n \in 1..MAX_RANK_LENGTH + MaxRows : a \in [1..n -> 0..BASE - 1]
  BY DEF Key
<1>2. n \in Nat /\ BASE \in Nat
  BY WidthAssumption, RowsAssumption
<1>3. a \in Seq(0..BASE - 1) /\ Len(a) = n /\ DOMAIN a = 1..n
  BY <1>1, <1>2
<1>4. \A i \in 1..n : a[i] \in 0..BASE - 1 /\ a[i] \in Nat
  BY <1>1, <1>2
<1>5. a \in Seq(Nat) /\ a # <<>>
  BY <1>3, <1>4
<1> QED BY <1>3, <1>4, <1>5

\* What has as many digits, and a last one above zero, is a key.
LEMMA MakesKey ==
  ASSUME NEW n \in 1..MAX_RANK_LENGTH + MaxRows, NEW a \in [1..n -> 0..BASE - 1], a[n] # 0
  PROVE  Good(a) /\ Len(a) = n
<1>1. n \in Nat
  BY WidthAssumption, RowsAssumption
<1>2. Len(a) = n
  BY <1>1
<1>3. a \in Key
  BY DEF Key
<1> QED BY <1>2, <1>3 DEF Good

\* rank_after() and rank_before() of nothing.
LEMMA FirstRankIsGood == Good(FirstRank)
<1>1. /\ RANK_WIDTH \in 1..MAX_RANK_LENGTH + MaxRows /\ RANK_WIDTH # 1
      /\ MID \in 0..BASE - 1 /\ 1 \in 0..BASE - 1 /\ 0 \in 0..BASE - 1
  BY WidthAssumption, RowsAssumption DEF MID
<1>2. FirstRank \in [1..RANK_WIDTH -> 0..BASE - 1] /\ FirstRank[RANK_WIDTH] = 1
  BY <1>1 DEF FirstRank
<1> QED BY <1>1, <1>2, MakesKey

\* rank_after() returns a key after the given one.
LEMMA KeyAfter ==
  ASSUME NEW last, Good(last), RankAfter(last) # Exhausted
  PROVE  Good(RankAfter(last)) /\ Less(last, RankAfter(last))
<1> DEFINE high == {i \in DOMAIN last : last[i] + 1 < BASE}
           at == Greatest(high)
           next == [i \in DOMAIN last |->
                     IF i < at THEN last[i] ELSE IF i = at THEN last[i] + 1
                     ELSE IF i = Len(last) THEN 1 ELSE 0]
           wider == Append(last, 1)
<1>1. /\ last \in Seq(0..BASE - 1) /\ last \in Seq(Nat) /\ last # <<>>
      /\ Len(last) \in 1..MAX_RANK_LENGTH + MaxRows /\ DOMAIN last = 1..Len(last)
      /\ \A i \in 1..Len(last) : last[i] \in 0..BASE - 1
  BY KeysAreSequences DEF Good
<1>2. /\ BASE \in 2..62 /\ MAX_RANK_LENGTH \in Nat /\ MaxRows \in Nat /\ Len(last) \in Nat
  BY <1>1, WidthAssumption, RowsAssumption
<1>3. RankAfter(last) = IF high # {} THEN next
                        ELSE IF Len(last) >= MAX_RANK_LENGTH THEN Exhausted ELSE wider
  BY <1>1 DEF RankAfter
<1>4. CASE high # {}
  <2>1. at \in high
    <3>1. high \subseteq Nat /\ \A i \in high : i <= Len(last)
      BY <1>1
    <3> HIDE DEF high
    <3> QED BY <1>2, <1>4, <3>1, GreatestOfAll
  <2> HIDE DEF at
  <2>2. at \in 1..Len(last) /\ last[at] + 1 < BASE /\ last[at] \in Nat
    BY <1>1, <2>1
  <2>0. /\ next = [i \in 1..Len(last) |-> next[i]]
        /\ \A i \in 1..Len(last) : next[i] =
             IF i < at THEN last[i] ELSE IF i = at THEN last[i] + 1
             ELSE IF i = Len(last) THEN 1 ELSE 0
    BY <1>1
  <2> HIDE DEF next
  <2>10. ASSUME NEW i \in 1..Len(last) PROVE next[i] \in 0..BASE - 1
    <3>1. last[i] \in 0..BASE - 1 /\ 0 \in 0..BASE - 1 /\ 1 \in 0..BASE - 1
      BY <1>1, <1>2
    <3>2. i = at => last[i] + 1 \in 0..BASE - 1
      BY <1>2, <2>2
    <3> QED BY <2>0, <3>1, <3>2
  <2>3. next \in [1..Len(last) -> 0..BASE - 1]
    BY <2>0, <2>10
  <2>4. next[Len(last)] # 0
    <3>1. Len(last) \in 1..Len(last) /\ at <= Len(last) /\ (Len(last) = at => last[Len(last)] = last[at])
      BY <1>2, <2>2
    <3> QED BY <1>2, <2>0, <2>2, <3>1
  <2>5. Good(next) /\ Len(next) = Len(last)
    BY <1>1, <2>3, <2>4, MakesKey
  <2>6. next[at] = last[at] + 1 /\ \A j \in 1..at - 1 : j <= Len(last) /\ next[j] = last[j]
    BY <1>2, <2>0, <2>2
  <2>7. Less(last, next)
    <3> QED BY <2>2, <2>5, <2>6 DEF Less
  <2> QED BY <1>3, <1>4, <2>5, <2>7
<1>5. CASE high = {}
  <2>1. Len(last) < MAX_RANK_LENGTH
    BY <1>1, <1>2, <1>3, <1>5
  <2> DEFINE n == Len(last) + 1
  <2>2. n \in 1..MAX_RANK_LENGTH + MaxRows /\ n - 1 = Len(last) /\ n \in 1..n
    BY <1>2, <2>1
  <2>3. /\ wider \in [1..n -> 0..BASE - 1] /\ wider[n] = 1
        /\ \A i \in 1..Len(last) : wider[i] = last[i]
    <3> DEFINE D == 0..BASE - 1
    <3>1. 1 \in D /\ last \in Seq(D)
      BY <1>1, <1>2
    <3> HIDE DEF D
    <3>2. /\ Append(last, 1) \in [1..Len(last) + 1 -> D] /\ Append(last, 1)[Len(last) + 1] = 1
          /\ \A i \in 1..Len(last) : Append(last, 1)[i] = last[i]
      BY <3>1, Appended
    <3> QED BY <3>2 DEF D
  <2> HIDE DEF wider, n
  <2>5. Good(wider) /\ Len(wider) = n
    BY <1>2, <2>2, <2>3, MakesKey
  <2>6. \A j \in 1..n - 1 : j <= Len(last) /\ last[j] = wider[j]
    <3>1. \A j \in 1..n - 1 : j \in 1..Len(last) /\ j <= Len(last)
      BY <1>2, <2>2
    <3> QED BY <2>3, <3>1
  <2>7. Less(last, wider)
    <3>1. n \in 1..Len(wider) /\ ~(n <= Len(last))
      BY <1>2, <2>2, <2>5
    <3> QED BY <2>6, <3>1 DEF Less
  <2> QED BY <1>3, <1>5, <2>1, <1>2, <2>5, <2>7
<1> QED BY <1>4, <1>5

\* rank_before() returns a key before the given one.
LEMMA KeyBefore ==
  ASSUME NEW first, Good(first), RankBefore(first) # Exhausted
  PROVE  Good(RankBefore(first)) /\ Less(RankBefore(first), first)
<1> DEFINE down == {i \in DOMAIN first : first[i] > (IF i = Len(first) THEN 1 ELSE 0)}
           at == Greatest(down)
           next == [i \in DOMAIN first |->
                     IF i < at THEN first[i] ELSE IF i = at THEN first[i] - 1 ELSE BASE - 1]
<1>1. /\ first \in Seq(0..BASE - 1) /\ first \in Seq(Nat) /\ first # <<>>
      /\ Len(first) \in 1..MAX_RANK_LENGTH + MaxRows /\ DOMAIN first = 1..Len(first)
      /\ \A i \in 1..Len(first) : first[i] \in 0..BASE - 1
  BY KeysAreSequences DEF Good
<1>2. /\ BASE \in 2..62 /\ MAX_RANK_LENGTH \in Nat /\ MaxRows \in Nat /\ Len(first) \in Nat
  BY <1>1, WidthAssumption, RowsAssumption
<1>3. RankBefore(first) = next /\ down # {}
  BY <1>1 DEF RankBefore
<1>4. at \in down
  <2>1. down \subseteq Nat /\ \A i \in down : i <= Len(first)
    BY <1>1
  <2> HIDE DEF down
  <2> QED BY <1>2, <1>3, <2>1, GreatestOfAll
<1> HIDE DEF at
<1>5. at \in 1..Len(first) /\ first[at] \in 1..BASE - 1 /\ (at = Len(first) => first[at] > 1)
  BY <1>1, <1>2, <1>4
<1>11. /\ next = [i \in 1..Len(first) |-> next[i]]
       /\ \A i \in 1..Len(first) : next[i] =
            IF i < at THEN first[i] ELSE IF i = at THEN first[i] - 1 ELSE BASE - 1
  BY <1>1
<1> HIDE DEF next
<1>12. ASSUME NEW i \in 1..Len(first) PROVE next[i] \in 0..BASE - 1
  <2>1. first[i] \in 0..BASE - 1 /\ BASE - 1 \in 0..BASE - 1
    BY <1>1, <1>2
  <2>2. i = at => first[i] - 1 \in 0..BASE - 1
    BY <1>2, <1>5
  <2> QED BY <1>11, <2>1, <2>2
<1>6. next \in [1..Len(first) -> 0..BASE - 1]
  BY <1>11, <1>12
<1>7. next[Len(first)] # 0
  <2>1. Len(first) \in 1..Len(first) /\ at <= Len(first) /\ (Len(first) = at => first[Len(first)] = first[at])
    BY <1>2, <1>5
  <2> QED BY <1>2, <1>5, <1>11, <2>1
<1>8. Good(next) /\ Len(next) = Len(first)
  BY <1>1, <1>6, <1>7, MakesKey
<1>9. next[at] = first[at] - 1 /\ \A j \in 1..at - 1 : j <= Len(next) /\ next[j] = first[j]
  BY <1>2, <1>5, <1>8, <1>11
<1>10. Less(next, first)
  <2> QED BY <1>2, <1>5, <1>9 DEF Less
<1> QED BY <1>3, <1>8, <1>10

\* The middle of two digits is a digit.
LEMMA Half ==
  ASSUME NEW b \in Nat, NEW n \in 0..2 * b - 1
  PROVE  n \div 2 \in 0..b - 1
<1>1. n \in Nat
  OBVIOUS
<1>2. n \div 2 \in Nat /\ 2 * (n \div 2) <= n
  BY <1>1
<1> QED BY <1>2

\* rank_between() returns a key strictly between its arguments, an open end being no
\* bound, or none: for any two keys, also equal ones or ones in the wrong order, any base and
\* any length at which it gives up.
THEOREM KeyBetween ==
  ASSUME NEW before, NEW after, before = <<>> \/ Good(before), after = <<>> \/ Good(after),
         MaxRows >= 1, RankBetween(before, after) # Exhausted
  PROVE  /\ Good(RankBetween(before, after))
         /\ before # <<>> => Less(before, RankBetween(before, after))
         /\ after # <<>> => Less(RankBetween(before, after), after)
<1>1. CASE before = <<>>
  <2>1. RankBetween(before, after) = RankBefore(after)
    BY <1>1 DEF RankBetween
  <2>2. CASE after = <<>>
    <3>1. RankBefore(after) = FirstRank
      BY <2>2 DEF RankBefore
    <3> QED BY <1>1, <2>1, <2>2, <3>1, FirstRankIsGood
  <2>3. CASE after # <<>>
    BY <1>1, <2>1, <2>3, KeyBefore
  <2> QED BY <2>2, <2>3
<1>2. CASE before # <<>> /\ after = <<>>
  <2>1. RankBetween(before, after) = RankAfter(before)
    BY <1>2 DEF RankBetween
  <2> QED BY <1>2, <2>1, KeyAfter
<1>3. CASE before # <<>> /\ after # <<>>
  <2> DEFINE Low(i) == IF i <= Len(before) THEN before[i] ELSE -1
             High(i) == IF i <= Len(after) THEN after[i] ELSE BASE
             room == {i \in 1..MAX_RANK_LENGTH : Low(i) + 1 < High(i)}
             at == Least(room)
             digit == (Low(at) + 1 + High(at)) \div 2
             head == [i \in 1..at - 1 |-> IF Low(i) >= 0 THEN Low(i) ELSE 0]
             tail == IF digit = 0 THEN <<0, MID>> ELSE <<digit>>
             found == head \o tail
             D == 0..BASE - 1
  <2>1. /\ RankBetween(before, after) = found
        /\ Less(before, found) /\ Less(found, after) /\ room # {}
    <3>1. RankBetween(before, after) =
            IF ~Less(before, after) \/ room = {} THEN Exhausted
            ELSE IF Less(before, found) /\ Less(found, after) THEN found ELSE Exhausted
      BY <1>3 DEF RankBetween
    <3> HIDE DEF found, room
    <3> QED BY <3>1
  <2>2. /\ BASE \in 2..62 /\ MAX_RANK_LENGTH \in Nat /\ MaxRows \in Nat
    BY WidthAssumption, RowsAssumption
  <2>3. /\ Len(before) \in Nat /\ \A i \in 1..Len(before) : before[i] \in D
        /\ Len(after) \in Nat /\ \A i \in 1..Len(after) : after[i] \in D
    BY <1>3, KeysAreSequences DEF Good
  <2>4. ASSUME NEW i \in Nat \ {0} PROVE Low(i) \in -1..BASE - 1 /\ High(i) \in 0..BASE
    <3>1. i <= Len(before) => i \in 1..Len(before)
      OBVIOUS
    <3>2. i <= Len(after) => i \in 1..Len(after)
      OBVIOUS
    <3> QED BY <2>2, <2>3, <3>1, <3>2
  <2>5. at \in room
    <3>1. room \subseteq Nat
      OBVIOUS
    <3> HIDE DEF room
    <3> QED BY <2>1, <3>1, LeastOfAll
  <2> HIDE DEF at
  <2>6. at \in 1..MAX_RANK_LENGTH /\ at \in Nat /\ Low(at) + 1 < High(at)
    BY <2>2, <2>5
  <2> HIDE DEF Low, High, room
  <2>7. digit \in D
    <3>1. /\ BASE \in Nat /\ Low(at) \in -1..BASE - 1 /\ High(at) \in 0..BASE
          /\ Low(at) + 1 < High(at)
      BY <2>2, <2>4, <2>6
    <3>2. Low(at) + 1 + High(at) \in 0..2 * BASE - 1
      BY <3>1
    <3> QED BY <3>1, <3>2, Half
  <2>8. \A i \in 1..at - 1 : Low(i) \in -1..BASE - 1
    BY <2>4, <2>6
  <2>9. head \in Seq(D) /\ Len(head) = at - 1
    <3>1. ASSUME NEW i \in 1..at - 1 PROVE (IF Low(i) >= 0 THEN Low(i) ELSE 0) \in D
      BY <2>2, <2>8
    <3> HIDE DEF D
    <3>2. at - 1 \in Nat /\ head \in [1..at - 1 -> D]
      BY <2>6, <3>1
    <3> HIDE DEF head
    <3> QED BY <3>2
  <2>10. /\ tail \in Seq(D) /\ Len(tail) \in {1, 2} /\ tail[Len(tail)] # 0
    <3>1. 0 \in D /\ MID \in D /\ MID # 0
      BY <2>2 DEF MID
    <3> HIDE DEF D, digit
    <3>2. CASE digit = 0
      BY <3>1, <3>2
    <3>3. CASE digit # 0
      BY <2>7, <3>3
    <3> QED BY <3>2, <3>3
  <2> HIDE DEF head, tail
  <2>11. /\ found \in Seq(D) /\ Len(found) = (at - 1) + Len(tail)
         /\ \A i \in 1..Len(tail) : found[(at - 1) + i] = tail[i]
    <3> HIDE DEF D
    <3> QED BY <2>9, <2>10, Joined
  <2> HIDE DEF found
  <2>12. found[Len(found)] # 0 /\ Len(found) \in 1..MAX_RANK_LENGTH + MaxRows
    <3>1. Len(tail) \in 1..Len(tail) /\ Len(tail) \in 1..2
      BY <2>10
    <3>2. found[Len(found)] # 0
      BY <2>10, <2>11, <3>1
    <3>3. ASSUME NEW n \in 1..2 PROVE (at - 1) + n \in 1..MAX_RANK_LENGTH + MaxRows
      BY <2>2, <2>6
    <3> QED BY <2>11, <3>1, <3>2, <3>3
  <2>13. found \in [1..Len(found) -> D]
    <3> HIDE DEF D
    <3> QED BY <2>11
  <2>14. Good(found)
    BY <2>12, <2>13, MakesKey
  <2> QED BY <2>1, <2>14
<1> QED BY <1>1, <1>2, <1>3

-----------------------------------------------------------------------------
(* The keys of a renumbered level. *)

\* The first m steps from zero on.
Runs(f, m, S, zero, step) ==
  f \in [0..m -> S] /\ f[0] = zero /\ \A n \in 1..m : f[n] = step[f[n - 1]]

\* They are determined.
LEMMA RunsAgree ==
  ASSUME NEW S, NEW zero, NEW step, NEW m \in Nat, NEW f, Runs(f, m, S, zero, step),
         NEW l \in Nat, NEW g, Runs(g, l, S, zero, step)
  PROVE  \A n \in Nat : n <= m /\ n <= l => f[n] = g[n]
<1> DEFINE N == {n \in Nat : n <= m /\ n <= l => f[n] = g[n]}
<1>1. 0 \in N
  BY DEF Runs
<1>2. ASSUME NEW n \in N PROVE n + 1 \in N
  <2> SUFFICES ASSUME n + 1 <= m, n + 1 <= l PROVE f[n + 1] = g[n + 1]
    OBVIOUS
  <2>1. n \in Nat /\ f[n] = g[n] /\ (n + 1) - 1 = n /\ n + 1 \in 1..m /\ n + 1 \in 1..l
    OBVIOUS
  <2> QED BY <2>1 DEF Runs
<1> HIDE DEF N
<1>3. N = Nat
  <2>1. N \subseteq Nat
    BY DEF N
  <2> QED BY <1>1, <1>2, <2>1, Induction
<1> QED BY <1>3 DEF N

\* They can always be taken.
LEMMA RunsExist ==
  ASSUME NEW S, NEW zero \in S, NEW step \in [S -> S]
  PROVE  \A m \in Nat : \E f : Runs(f, m, S, zero, step)
<1> DEFINE N == {m \in Nat : \E f : Runs(f, m, S, zero, step)}
<1>1. 0 \in N
  <2> DEFINE f == [n \in 0..0 |-> zero]
  <2>1. Runs(f, 0, S, zero, step)
    BY DEF Runs
  <2> HIDE DEF f
  <2> QED BY <2>1
<1>2. ASSUME NEW m \in N PROVE m + 1 \in N
  <2>1. m \in Nat
    OBVIOUS
  <2>2. PICK f : Runs(f, m, S, zero, step)
    OBVIOUS
  <2>3. f \in [0..m -> S] /\ f[0] = zero /\ \A n \in 1..m : f[n] = step[f[n - 1]]
    BY <2>2 DEF Runs
  <2> DEFINE g == [n \in 0..m + 1 |-> IF n = m + 1 THEN step[f[m]] ELSE f[n]]
  <2>4. step[f[m]] \in S
    BY <2>1, <2>3
  <2>5. g \in [0..m + 1 -> S] /\ g[0] = zero
    BY <2>1, <2>3, <2>4
  <2>6. ASSUME NEW n \in 1..m + 1 PROVE g[n] = step[g[n - 1]]
    <3>1. n - 1 \in 0..m /\ n - 1 # m + 1 /\ g[n - 1] = f[n - 1]
      BY <2>1
    <3>2. CASE n = m + 1
      <4>1. n - 1 = m /\ g[n] = step[f[m]]
        BY <2>1, <3>2
      <4> HIDE DEF g
      <4> QED BY <3>1, <4>1
    <3>3. CASE n # m + 1
      <4>1. n \in 1..m /\ g[n] = f[n]
        BY <2>1, <3>3
      <4> HIDE DEF g
      <4> QED BY <2>3, <3>1, <4>1
    <3> QED BY <3>2, <3>3
  <2>7. Runs(g, m + 1, S, zero, step)
    <3> HIDE DEF g
    <3> QED BY <2>5, <2>6 DEF Runs
  <2> HIDE DEF g
  <2> QED BY <2>1, <2>7
<1> HIDE DEF N
<1>3. N = Nat
  <2>1. N \subseteq Nat
    BY DEF N
  <2> QED BY <1>1, <1>2, <2>1, Induction
<1> QED BY <1>3 DEF N

\* A function that is a start and a step for ever.
LEMMA Recursion ==
  ASSUME NEW S, NEW zero \in S, NEW step \in [S -> S]
  PROVE  \E f \in [Nat -> S] : f[0] = zero /\ \A n \in Nat : f[n + 1] = step[f[n]]
<1> DEFINE Run(m) == CHOOSE f : Runs(f, m, S, zero, step)
           F == [n \in Nat |-> Run(n)[n]]
<1>1. ASSUME NEW m \in Nat PROVE Runs(Run(m), m, S, zero, step)
  BY RunsExist
<1> HIDE DEF Run
<1>2. ASSUME NEW n \in Nat PROVE F[n] = Run(n)[n] /\ Run(n)[n] \in S
  BY <1>1 DEF Runs
<1>3. F[0] = zero
  BY <1>1, <1>2 DEF Runs
<1>4. ASSUME NEW n \in Nat PROVE F[n + 1] = step[F[n]]
  <2>1. n + 1 \in Nat /\ n + 1 \in 1..n + 1 /\ (n + 1) - 1 = n /\ n <= n /\ n <= n + 1
    OBVIOUS
  <2>2. F[n + 1] = Run(n + 1)[n + 1] /\ F[n] = Run(n)[n]
    BY <1>2, <2>1
  <2>3. Runs(Run(n), n, S, zero, step) /\ Runs(Run(n + 1), n + 1, S, zero, step)
    BY <1>1, <2>1
  <2>4. Run(n + 1)[n] = Run(n)[n]
    BY <2>1, <2>3, RunsAgree
  <2>5. Run(n + 1)[n + 1] = step[Run(n + 1)[n]]
    BY <2>1, <2>3 DEF Runs
  <2> QED BY <2>2, <2>4, <2>5
<1>5. F \in [Nat -> S]
  BY <1>2
<1> HIDE DEF F
<1> QED BY <1>3, <1>4, <1>5

\* The powers of the base.
LEMMA PowerGrows ==
  /\ Power \in [Nat -> Nat] /\ Power[0] = 1
  /\ \A n \in Nat : Power[n + 1] = BASE * Power[n]
<1> DEFINE step == [p \in Nat |-> BASE * p]
           Is(f) == f = [n \in Nat |-> IF n = 0 THEN 1 ELSE BASE * f[n - 1]]
<1>0. BASE \in Nat
  BY WidthAssumption
<1>1. step \in [Nat -> Nat] /\ \A p \in Nat : step[p] = BASE * p
  BY <1>0
<1> HIDE DEF step
<1>2. PICK f \in [Nat -> Nat] : f[0] = 1 /\ \A n \in Nat : f[n + 1] = step[f[n]]
  <2> DEFINE S == Nat
             one == 1
  <2>1. one \in S /\ step \in [S -> S]
    BY <1>1
  <2> HIDE DEF S, one
  <2>2. \E f \in [Nat -> S] : f[0] = one /\ \A n \in Nat : f[n + 1] = step[f[n]]
    BY <2>1, Recursion
  <2> QED BY <2>2 DEF S, one
<1>3. ASSUME NEW n \in Nat PROVE f[n] = IF n = 0 THEN 1 ELSE BASE * f[n - 1]
  <2>1. n # 0 => n - 1 \in Nat /\ (n - 1) + 1 = n /\ f[n - 1] \in Nat
    BY <1>2
  <2>2. n # 0 => f[n] = step[f[n - 1]]
    BY <1>2, <2>1
  <2> QED BY <1>1, <1>2, <2>1, <2>2
<1>4. f = [n \in Nat |-> f[n]]
  BY <1>2
<1>5. Is(f)
  BY <1>3, <1>4
<1> HIDE DEF Is
<1>6. Is(CHOOSE g : Is(g))
  BY <1>5
<1>7. Power = CHOOSE g : Is(g)
  BY DEF Power, Is
<1>8. Is(Power)
  BY <1>6, <1>7
<1>9. \A n \in Nat : Power[n] = IF n = 0 THEN 1 ELSE BASE * Power[n - 1]
  BY <1>8 DEF Is
<1>10. ASSUME NEW n \in Nat PROVE Power[n + 1] = BASE * Power[n]
  <2>1. n + 1 \in Nat /\ n + 1 # 0 /\ (n + 1) - 1 = n
    OBVIOUS
  <2> QED BY <1>9, <2>1
<1>11. Power[0] = 1
  BY <1>9
<1> DEFINE N == {n \in Nat : Power[n] \in Nat}
<1>12. N = Nat
  <2>1. 0 \in N
    BY <1>11
  <2>2. ASSUME NEW n \in N PROVE n + 1 \in N
    <3>1. Power[n + 1] = BASE * Power[n] /\ Power[n] \in Nat
      BY <1>10
    <3> QED BY <1>0, <3>1
  <2> HIDE DEF N
  <2>3. N \subseteq Nat
    BY DEF N
  <2> QED BY <2>1, <2>2, <2>3, Induction
<1>13. Power = [n \in Nat |-> Power[n]]
  BY <1>8 DEF Is
<1>14. \A n \in Nat : Power[n] \in Nat
  BY <1>12
<1> HIDE DEF N, Is
<1>15. Power \in [Nat -> Nat]
  BY <1>13, <1>14
<1> QED BY <1>10, <1>11, <1>15

\* The digits of a number: those of its quotient and its remainder.
LEMMA DigitsGrow ==
  /\ \A w, v \in Nat : Digits[w][v] \in Seq(0..BASE - 1)
  /\ \A v \in Nat : Digits[0][v] = <<>>
  /\ \A w, v \in Nat : Digits[w + 1][v] = Append(Digits[w][v \div BASE], v % BASE)
<1> DEFINE D == 0..BASE - 1
           S == [Nat -> Seq(D)]
           none == [value \in Nat |-> <<>>]
           step == [d \in S |-> [value \in Nat |-> Append(d[value \div BASE], value % BASE)]]
           Is(f) == f = [width \in Nat |-> [value \in Nat |->
                      IF width = 0 THEN <<>> ELSE Append(f[width - 1][value \div BASE], value % BASE)]]
<1>0. BASE \in Nat \ {0}
  BY WidthAssumption
<1>1. \A v \in Nat : v \div BASE \in Nat /\ v % BASE \in D
  BY <1>0
<1> HIDE DEF D
<1>2. none \in S
  OBVIOUS
<1>3. ASSUME NEW d \in S
      PROVE  [value \in Nat |-> Append(d[value \div BASE], value % BASE)] \in S
  <2>1. ASSUME NEW v \in Nat PROVE Append(d[v \div BASE], v % BASE) \in Seq(D)
    <3>1. d[v \div BASE] \in Seq(D) /\ v % BASE \in D
      BY <1>1
    <3> QED BY <3>1, Appended
  <2> QED BY <2>1
<1>4. /\ step \in [S -> S]
      /\ \A d \in S, v \in Nat : step[d][v] = Append(d[v \div BASE], v % BASE)
  <2> HIDE DEF S
  <2> QED BY <1>3
<1>5. none[0] = <<>> /\ \A v \in Nat : none[v] = <<>>
  OBVIOUS
<1> HIDE DEF step, none
<1>6. PICK f \in [Nat -> S] : f[0] = none /\ \A n \in Nat : f[n + 1] = step[f[n]]
  <2>1. none \in S /\ step \in [S -> S]
    BY <1>2, <1>4
  <2> HIDE DEF S, Is
  <2> QED BY <2>1, Recursion
<1>7. \A n \in Nat : f[n] \in S /\ f[n] = [v \in Nat |-> f[n][v]]
  OBVIOUS
<1>8. ASSUME NEW n \in Nat, NEW v \in Nat
      PROVE  f[n][v] = IF n = 0 THEN <<>> ELSE Append(f[n - 1][v \div BASE], v % BASE)
  <2>1. n # 0 => n - 1 \in Nat /\ (n - 1) + 1 = n /\ f[n - 1] \in S
    BY <1>7
  <2>2. n # 0 => f[n] = step[f[n - 1]]
    BY <1>6, <2>1
  <2>3. n # 0 => f[n][v] = Append(f[n - 1][v \div BASE], v % BASE)
    BY <1>4, <2>1, <2>2
  <2> QED BY <1>5, <1>6, <2>3
<1>9. Is(f)
  <2>1. f = [n \in Nat |-> [v \in Nat |-> f[n][v]]]
    BY <1>7
  <2> QED BY <1>8, <2>1
<1> HIDE DEF Is, S
<1>10. Is(CHOOSE g : Is(g))
  BY <1>9
<1>11. Digits = CHOOSE g : Is(g)
  BY DEF Digits, Is
<1>12. Is(Digits)
  BY <1>10, <1>11
<1>13. \A n, v \in Nat : Digits[n][v] =
          IF n = 0 THEN <<>> ELSE Append(Digits[n - 1][v \div BASE], v % BASE)
  <2> SUFFICES ASSUME NEW n \in Nat, NEW v \in Nat
               PROVE  Digits[n][v] =
                        IF n = 0 THEN <<>> ELSE Append(Digits[n - 1][v \div BASE], v % BASE)
    OBVIOUS
  <2>1. Digits[n] = [value \in Nat |->
           IF n = 0 THEN <<>> ELSE Append(Digits[n - 1][value \div BASE], value % BASE)]
    BY <1>12 DEF Is
  <2> QED BY <2>1
<1>14. \A v \in Nat : Digits[0][v] = <<>>
  BY <1>13
<1>15. ASSUME NEW w \in Nat, NEW v \in Nat
       PROVE  Digits[w + 1][v] = Append(Digits[w][v \div BASE], v % BASE)
  <2>1. w + 1 \in Nat /\ w + 1 # 0 /\ (w + 1) - 1 = w
    OBVIOUS
  <2> QED BY <1>13, <2>1
<1> DEFINE N == {w \in Nat : \A v \in Nat : Digits[w][v] \in Seq(D)}
<1>16. N = Nat
  <2>1. 0 \in N
    <3>1. \A v \in Nat : Digits[0][v] \in Seq(D)
      <4>1. <<>> \in Seq(D)
        OBVIOUS
      <4> QED BY <1>14, <4>1
    <3> QED BY <3>1
  <2>2. ASSUME NEW w \in N PROVE w + 1 \in N
    <3>1. w \in Nat /\ \A v \in Nat : Digits[w][v] \in Seq(D)
      OBVIOUS
    <3>2. ASSUME NEW v \in Nat PROVE Digits[w + 1][v] \in Seq(D)
      <4>1. Digits[w][v \div BASE] \in Seq(D) /\ v % BASE \in D
        BY <1>1, <3>1
      <4>2. Append(Digits[w][v \div BASE], v % BASE) \in Seq(D)
        BY <4>1, Appended
      <4> QED BY <1>15, <3>1, <4>2
    <3> QED BY <3>1, <3>2
  <2> HIDE DEF N
  <2>3. N \subseteq Nat
    BY DEF N
  <2> QED BY <2>1, <2>2, <2>3, Induction
<1>17. \A w, v \in Nat : Digits[w][v] \in Seq(D)
  BY <1>16
<1> QED BY <1>14, <1>15, <1>17 DEF D

\* Digits at the end decide between numbers that agree so far.
LEMMA LessBySuffix ==
  ASSUME NEW a \in Seq(Nat), NEW b \in Seq(Nat), Len(a) = Len(b), NEW x \in Nat, NEW y \in Nat,
         Less(a, b) \/ (a = b /\ x < y)
  PROVE  Less(Append(a, x), Append(b, y))
<1> DEFINE s == Append(a, x)
           t == Append(b, y)
           n == Len(a)
<1>1. /\ n \in Nat /\ Len(s) = n + 1 /\ Len(t) = n + 1 /\ s[n + 1] = x /\ t[n + 1] = y
      /\ \A i \in 1..n : s[i] = a[i] /\ t[i] = b[i]
  <2>1. /\ Len(s) = n + 1 /\ s[n + 1] = x /\ \A i \in 1..n : s[i] = a[i]
    BY Appended
  <2>2. /\ Len(t) = Len(b) + 1 /\ t[Len(b) + 1] = y /\ \A i \in 1..Len(b) : t[i] = b[i]
    BY Appended
  <2> HIDE DEF s, t
  <2> QED BY <2>1, <2>2
<1> HIDE DEF s, t
<1>2. CASE Less(a, b)
  <2>1. PICK i \in 1..n : /\ \A m \in 1..i - 1 : m <= Len(a) /\ a[m] = b[m]
                          /\ i <= Len(a) => a[i] < b[i]
    BY <1>2 DEF Less
  <2>2. i \in 1..Len(t) /\ s[i] < t[i]
    BY <1>1, <2>1
  <2>3. ASSUME NEW m \in 1..i - 1 PROVE m <= Len(s) /\ s[m] = t[m]
    <3>1. m \in 1..n
      BY <1>1
    <3> QED BY <1>1, <2>1, <3>1
  <2>4. Less(s, t)
    BY <2>2, <2>3 DEF Less
  <2> QED BY <2>4 DEF s, t
<1>3. CASE a = b /\ x < y
  <2>1. n + 1 \in 1..Len(t) /\ s[n + 1] < t[n + 1]
    BY <1>1, <1>3
  <2>2. ASSUME NEW m \in 1..(n + 1) - 1 PROVE m <= Len(s) /\ s[m] = t[m]
    <3>1. m \in 1..n
      BY <1>1
    <3> QED BY <1>1, <1>3, <3>1
  <2>3. Less(s, t)
    BY <2>1, <2>2 DEF Less
  <2> QED BY <2>3 DEF s, t
<1> QED BY <1>2, <1>3

\* Numbers of one width have digits in their order.
LEMMA DigitsInOrder ==
  ASSUME NEW w \in Nat
  PROVE  /\ \A v \in Nat : Len(Digits[w][v]) = w
         /\ \A u, v \in Nat : u < v /\ v < Power[w] => Less(Digits[w][u], Digits[w][v])
<1> DEFINE Sorted(n) ==
             /\ \A v \in Nat : Len(Digits[n][v]) = n
             /\ \A u, v \in Nat : u < v /\ v < Power[n] => Less(Digits[n][u], Digits[n][v])
           N == {n \in Nat : Sorted(n)}
<1>0. BASE \in Nat \ {0}
  BY WidthAssumption
<1>1. \A n, v \in Nat : Digits[n][v] \in Seq(0..BASE - 1) /\ Digits[n][v] \in Seq(Nat)
  <2> SUFFICES ASSUME NEW n \in Nat, NEW v \in Nat PROVE Digits[n][v] \in Seq(Nat)
    BY DigitsGrow
  <2> DEFINE d == Digits[n][v]
  <2>1. d \in Seq(0..BASE - 1)
    BY DigitsGrow
  <2> HIDE DEF d
  <2>2. \A i \in 1..Len(d) : d[i] \in Nat
    BY <1>0, <2>1
  <2>3. d \in Seq(Nat)
    BY <2>1, <2>2
  <2> QED BY <2>3 DEF d
<1>2. 0 \in N
  <2>1. \A v \in Nat : Len(Digits[0][v]) = 0
    <3>1. \A v \in Nat : Digits[0][v] = <<>>
      BY DigitsGrow
    <3>2. Len(<<>>) = 0
      OBVIOUS
    <3> QED BY <3>1, <3>2
  <2>2. \A u, v \in Nat : ~(u < v /\ v < Power[0])
    BY PowerGrows
  <2>3. Sorted(0)
    BY <2>1, <2>2
  <2> HIDE DEF Sorted
  <2> QED BY <2>3
<1>3. ASSUME NEW n \in N PROVE n + 1 \in N
  <2>1. n \in Nat /\ Sorted(n)
    OBVIOUS
  <2>2. ASSUME NEW v \in Nat PROVE Len(Digits[n + 1][v]) = n + 1
    <3>1. v \div BASE \in Nat /\ v % BASE \in Nat
      BY <1>0
    <3>2. Digits[n][v \div BASE] \in Seq(Nat) /\ Len(Digits[n][v \div BASE]) = n
      BY <1>1, <2>1, <3>1
    <3>3. Digits[n + 1][v] = Append(Digits[n][v \div BASE], v % BASE)
      BY <2>1, DigitsGrow
    <3> HIDE DEF Sorted, N
    <3> QED BY <3>1, <3>2, <3>3, Appended
  <2>3. ASSUME NEW u \in Nat, NEW v \in Nat, u < v, v < Power[n + 1]
        PROVE  Less(Digits[n + 1][u], Digits[n + 1][v])
    <3> DEFINE a == Digits[n][u \div BASE]
               b == Digits[n][v \div BASE]
    <3>1. /\ u \div BASE \in Nat /\ u % BASE \in Nat /\ v \div BASE \in Nat /\ v % BASE \in Nat
          /\ u = BASE * (u \div BASE) + (u % BASE) /\ v = BASE * (v \div BASE) + (v % BASE)
          /\ u \div BASE <= v \div BASE
      BY <1>0, <2>3
    <3>2. v \div BASE < Power[n]
      <4>1. Power[n] \in Nat /\ v < BASE * Power[n]
        BY <2>1, <2>3, PowerGrows
      <4> HIDE DEF N, Sorted
      <4> QED BY <1>0, <3>1, <4>1
    <3>3. Less(a, b) \/ (a = b /\ u % BASE < v % BASE)
      <4>1. CASE u \div BASE < v \div BASE
        BY <2>1, <3>1, <3>2, <4>1
      <4>2. CASE u \div BASE = v \div BASE
        <5>1. a = b
          BY <4>2
        <5>2. ASSUME NEW q \in Nat, NEW m \in Nat, NEW n1 \in Nat, u = BASE * q + m, v = BASE * q + n1
              PROVE  m < n1
          <6>1. BASE * q \in Nat
            BY <1>0
          <6> QED BY <2>3, <5>2, <6>1
        <5>3. u % BASE < v % BASE
          BY <3>1, <4>2, <5>2
        <5> QED BY <5>1, <5>3
      <4> QED BY <3>1, <4>1, <4>2
    <3>4. a \in Seq(Nat) /\ b \in Seq(Nat) /\ Len(a) = Len(b)
      BY <1>1, <2>1, <3>1
    <3> HIDE DEF a, b
    <3>5. Less(Append(a, u % BASE), Append(b, v % BASE))
      BY <3>1, <3>3, <3>4, LessBySuffix
    <3>6. Digits[n + 1][u] = Append(a, u % BASE) /\ Digits[n + 1][v] = Append(b, v % BASE)
      BY <2>1, DigitsGrow DEF a, b
    <3> QED BY <3>5, <3>6
  <2>4. Sorted(n + 1)
    BY <2>2, <2>3
  <2> HIDE DEF Sorted
  <2> QED BY <2>1, <2>4
<1> HIDE DEF N
<1>4. N = Nat
  <2>1. N \subseteq Nat
    BY DEF N
  <2> QED BY <1>2, <1>3, <2>1, Induction
<1>5. w \in N
  BY <1>4
<1> QED BY <1>5 DEF N

\* A level always has a width that leaves room for four keys between two of its own.
LEMMA WideEnough ==
  ASSUME NEW count \in Nat
  PROVE  /\ Width(count) \in RANK_WIDTH..RANK_WIDTH + count
         /\ Power[Width(count)] >= (count + 1) * 4
<1> DEFINE widths == {w \in RANK_WIDTH..RANK_WIDTH + count : Power[w] >= (count + 1) * 4}
           N == {n \in Nat : Power[n + 2] >= (n + 1) * 4}
<1>1. BASE \in Nat /\ BASE >= 2 /\ RANK_WIDTH \in Nat /\ RANK_WIDTH >= 2
  BY WidthAssumption
<1>2. \A n \in Nat : Power[n] \in Nat
  BY PowerGrows
<1>3. 0 \in N
  <2>1. Power[1] = BASE * 1
    <3>1. Power[0 + 1] = BASE * Power[0] /\ Power[0] = 1
      BY PowerGrows
    <3> QED BY <3>1
  <2>2. Power[2] = BASE * Power[1]
    <3>1. Power[1 + 1] = BASE * Power[1]
      BY PowerGrows
    <3> QED BY <3>1
  <2>3. Power[2] = BASE * BASE
    BY <1>1, <2>1, <2>2
  <2>4. BASE * BASE >= 4
    BY <1>1
  <2>5. Power[0 + 2] >= (0 + 1) * 4
    BY <2>3, <2>4
  <2> QED BY <2>5
<1>4. ASSUME NEW n \in N PROVE n + 1 \in N
  <2>1. n \in Nat /\ Power[n + 2] >= (n + 1) * 4 /\ Power[n + 2] \in Nat
    BY <1>2
  <2>2. Power[(n + 1) + 2] = BASE * Power[n + 2]
    <3>1. Power[(n + 2) + 1] = BASE * Power[n + 2] /\ (n + 2) + 1 = (n + 1) + 2
      BY <2>1, PowerGrows
    <3> QED BY <3>1
  <2>3. ASSUME NEW p \in Nat, p >= (n + 1) * 4 PROVE BASE * p >= ((n + 1) + 1) * 4
    <3>1. BASE * p >= 2 * p
      BY <1>1
    <3>2. 2 * p >= ((n + 1) + 1) * 4
      BY <2>1, <2>3
    <3> HIDE DEF N
    <3>3. BASE * p \in Nat
      BY <1>1
    <3> QED BY <2>1, <3>1, <3>2, <3>3
  <2>4. Power[(n + 1) + 2] >= ((n + 1) + 1) * 4
    BY <2>1, <2>2, <2>3
  <2> QED BY <2>1, <2>4
<1> HIDE DEF N
<1>5. N = Nat
  <2>1. N \subseteq Nat
    BY DEF N
  <2> QED BY <1>3, <1>4, <2>1, Induction
<1>6. RANK_WIDTH + count \in widths
  <2> DEFINE n == (RANK_WIDTH - 2) + count
  <2>1. n \in Nat /\ n + 2 = RANK_WIDTH + count /\ n >= count
    BY <1>1
  <2> HIDE DEF n
  <2>2. Power[n + 2] >= (n + 1) * 4 /\ Power[n + 2] \in Nat
    <3>1. n \in N
      BY <1>5, <2>1
    <3> QED BY <1>2, <3>1 DEF N
  <2>3. Power[RANK_WIDTH + count] >= (count + 1) * 4
    BY <2>1, <2>2
  <2> QED BY <1>1, <2>3
<1>7. Least(widths) \in widths
  <2>1. widths \subseteq Nat
    BY <1>1
  <2> HIDE DEF widths
  <2> QED BY <1>6, <2>1, LeastOfAll
<1>8. Width(count) = Least(widths)
  BY DEF Width
<1> HIDE DEF Width
<1>9. Width(count) \in widths
  BY <1>7, <1>8
<1> QED BY <1>9

\* A quotient is the last one that fits.
LEMMA Quotient ==
  ASSUME NEW p \in Nat, NEW c \in Nat \ {0}
  PROVE  /\ p \div c \in Nat /\ c * (p \div c) <= p
         /\ p < c * (p \div c) + c
<1>1. p \div c \in Nat /\ c * (p \div c) <= p
  OBVIOUS
<1>2. p < c * (p \div c) + c
  OBVIOUS
<1> QED BY <1>1, <1>2

\* resequence() returns keys, strictly ascending, for any number of rows: the quotient it
\* steps by is large enough for the correction of a last digit that is zero.
THEOREM ResequencedInOrder ==
  ASSUME NEW count \in 1..MaxRows
  PROVE  /\ \A i \in 1..count : Good(Resequenced(count)[i])
         /\ \A i, j \in 1..count : i < j => Less(Resequenced(count)[i], Resequenced(count)[j])
<1> DEFINE width == Width(count)
           room == Power[width]
           step == room \div (count + 1)
           Value(i) == i * step + (IF (i * step) % BASE = 0 THEN 1 ELSE 0)
<1>1. /\ BASE \in Nat /\ BASE >= 2 /\ RANK_WIDTH \in Nat /\ RANK_WIDTH >= 2
      /\ MAX_RANK_LENGTH \in Nat /\ MAX_RANK_LENGTH >= RANK_WIDTH /\ MaxRows \in Nat
      /\ count \in Nat /\ count >= 1 /\ count <= MaxRows
  BY WidthAssumption, RowsAssumption
<1>2. /\ width \in Nat /\ width >= 2 /\ width \in 1..MAX_RANK_LENGTH + MaxRows
      /\ room >= (count + 1) * 4
  BY <1>1, WideEnough
<1>3. room \in Nat
  BY <1>2, PowerGrows
<1> HIDE DEF width, room
<1>4. step \in Nat /\ step >= 4 /\ (count + 1) * step <= room
  <2>1. /\ room \div (count + 1) \in Nat /\ (count + 1) * (room \div (count + 1)) <= room
        /\ room < (count + 1) * (room \div (count + 1)) + (count + 1)
    <3>1. count + 1 \in Nat \ {0}
      BY <1>1
    <3> QED BY <1>3, <3>1, Quotient
  <2>2. step >= 4
    <3>1. ASSUME NEW d \in Nat, room < (count + 1) * d + (count + 1) PROVE d >= 4
      <4>1. (count + 1) * 4 < (count + 1) * (d + 1)
        BY <1>1, <1>2, <1>3, <3>1
      <4> QED BY <1>1, <4>1
    <3> QED BY <2>1, <3>1
  <2> QED BY <2>1, <2>2
<1> HIDE DEF step
<1>5. ASSUME NEW i \in 1..count
      PROVE  /\ i * step \in Nat /\ Value(i) \in Nat /\ Value(i) % BASE # 0 /\ Value(i) < room
             /\ Value(i) >= i * step /\ Value(i) < i * step + 4
  <2>1. i * step \in Nat
    BY <1>4
  <2>2. i * step + 4 <= room
    <3>1. i * step + step <= (count + 1) * step
      BY <1>1, <1>4
    <3> QED BY <1>3, <1>4, <2>1, <3>1
  <2>3. ASSUME NEW v \in Nat, v % BASE = 0 PROVE (v + 1) % BASE # 0
    BY <1>1, <2>3
  <2>4. CASE (i * step) % BASE = 0
    <3>1. Value(i) = i * step + 1
      BY <2>4
    <3>2. (i * step + 1) % BASE # 0
      BY <2>1, <2>3, <2>4
    <3> HIDE DEF Value
    <3> QED BY <1>3, <2>1, <2>2, <3>1, <3>2
  <2>5. CASE (i * step) % BASE # 0
    <3>1. Value(i) = i * step
      BY <2>1, <2>5
    <3> HIDE DEF Value
    <3> QED BY <1>3, <2>1, <2>2, <2>5, <3>1
  <2> QED BY <2>4, <2>5
<1>6. ASSUME NEW i \in 1..count, NEW j \in 1..count, i < j PROVE Value(i) < Value(j)
  <2>1. i * step + 4 <= j * step
    BY <1>4, <1>6
  <2> HIDE DEF Value
  <2> QED BY <1>5, <2>1
<1>7. ASSUME NEW i \in 1..count
      PROVE  /\ Resequenced(count)[i] = Digits[width][Value(i)]
             /\ Good(Digits[width][Value(i)])
  <2> DEFINE D == 0..BASE - 1
             high == width - 1
  <2>1. high \in Nat /\ high + 1 = width
    BY <1>2
  <2>2. ASSUME NEW v \in Nat
        PROVE  /\ v \div BASE \in Nat /\ v % BASE \in D
               /\ Digits[width][v] = Append(Digits[high][v \div BASE], v % BASE)
               /\ Digits[high][v \div BASE] \in Seq(D) /\ Len(Digits[high][v \div BASE]) = high
               /\ Digits[width][v] \in [1..width -> D] /\ Digits[width][v][width] = v % BASE
    <3>1. v \div BASE \in Nat /\ v % BASE \in D
      BY <1>1
    <3>2. /\ Digits[high][v \div BASE] \in Seq(D) /\ Len(Digits[high][v \div BASE]) = high
          /\ Digits[high + 1][v] = Append(Digits[high][v \div BASE], v % BASE)
      BY <2>1, <3>1, DigitsGrow, DigitsInOrder
    <3> DEFINE rest == Digits[high][v \div BASE]
               last == v % BASE
               whole == Digits[width][v]
    <3>3. rest \in Seq(D) /\ Len(rest) = high /\ last \in D /\ whole = Append(rest, last)
      BY <2>1, <3>1, <3>2
    <3> HIDE DEF D, high, rest, last, whole
    <3>4. whole \in [1..high + 1 -> D] /\ whole[high + 1] = last
      BY <3>3, Appended
    <3>5. whole \in [1..width -> D] /\ whole[width] = last
      BY <2>1, <3>4
    <3> QED BY <3>1, <3>3, <3>5 DEF rest, last, whole
  <2>3. Good(Digits[width][Value(i)])
    <3> HIDE DEF Value
    <3> QED BY <1>2, <1>5, <2>2, MakesKey
  <2> DEFINE v == i * step
             digits == Digits[width][v]
  <2>4. Resequenced(count)[i] = IF digits[width] = 0 THEN [digits EXCEPT ![width] = 1] ELSE digits
    BY DEF Resequenced, width, room, step
  <2>5. v \in Nat
    BY <1>5
  <2> HIDE DEF v
  <2>6. digits[width] = v % BASE
    BY <2>2, <2>5
  <2>7. CASE v % BASE = 0
    <3>1. Value(i) = v + 1
      BY <2>7 DEF v
    <3>2. (v + 1) \div BASE = v \div BASE /\ (v + 1) % BASE = 1
      BY <1>1, <2>5, <2>7
    <3> DEFINE more == Digits[width][v + 1]
    <3>3. /\ digits = Append(Digits[high][v \div BASE], 0) /\ more = Append(Digits[high][v \div BASE], 1)
          /\ Digits[high][v \div BASE] \in Seq(D) /\ Len(Digits[high][v \div BASE]) = high
      <4>1. v + 1 \in Nat
        BY <2>5
      <4>2. /\ more = Append(Digits[high][(v + 1) \div BASE], (v + 1) % BASE)
            /\ digits = Append(Digits[high][v \div BASE], v % BASE)
            /\ Digits[high][v \div BASE] \in Seq(D) /\ Len(Digits[high][v \div BASE]) = high
        BY <2>2, <2>5, <4>1
      <4> QED BY <2>7, <3>2, <4>2
    <3>4. digits \in [1..width -> D] /\ more \in [1..width -> D] /\ more[width] = 1
      <4>1. v + 1 \in Nat
        BY <2>5
      <4>2. more \in [1..width -> D] /\ more[width] = (v + 1) % BASE
        BY <2>2, <4>1
      <4> QED BY <2>2, <2>5, <3>2, <4>2
    <3>5. ASSUME NEW l \in 1..width PROVE more[l] = [digits EXCEPT ![width] = 1][l]
      <4>1. CASE l = width
        BY <3>4, <4>1
      <4>2. CASE l # width
        <5>1. l \in 1..high
          BY <2>1, <4>2
        <5>2. 0 \in D /\ 1 \in D
          BY <1>1
        <5>3. more[l] = Digits[high][v \div BASE][l] /\ digits[l] = Digits[high][v \div BASE][l]
          <6> HIDE DEF D, high, digits, more
          <6> QED BY <3>3, <5>1, <5>2, Appended
        <5> HIDE DEF digits, more
        <5> QED BY <3>4, <4>2, <5>3
      <4> QED BY <4>1, <4>2
    <3> HIDE DEF digits, more
    <3>6. more = [digits EXCEPT ![width] = 1]
      BY <3>4, <3>5
    <3>7. Resequenced(count)[i] = more
      BY <2>4, <2>6, <2>7, <3>6
    <3> QED BY <2>3, <3>1, <3>7 DEF more
  <2>8. CASE v % BASE # 0
    <3>1. Value(i) = v
      BY <2>5, <2>8 DEF v
    <3>2. Resequenced(count)[i] = digits
      BY <2>4, <2>6, <2>8
    <3> QED BY <2>3, <3>1, <3>2
  <2> QED BY <2>7, <2>8
<1>8. ASSUME NEW i \in 1..count, NEW j \in 1..count, i < j
      PROVE  Less(Digits[width][Value(i)], Digits[width][Value(j)])
  <2>1. Value(i) \in Nat /\ Value(j) \in Nat /\ Value(i) < Value(j) /\ Value(j) < Power[width]
    BY <1>5, <1>6, <1>8 DEF room
  <2> HIDE DEF Value
  <2> QED BY <1>2, <2>1, DigitsInOrder
<1> HIDE DEF Value
<1> QED BY <1>7, <1>8

-----------------------------------------------------------------------------
(* A row gets the place it was given. *)

GoodKeys(k) == DOMAIN k \subseteq Rows /\ \A n \in DOMAIN k : Good(k[n])

\* A level of such keys is ordered.
LEMMA GoodKeysAreKeys ==
  ASSUME NEW k, GoodKeys(k)
  PROVE  AreKeys(k)
<1>1. \A n \in DOMAIN k : k[n] \in Seq(Nat)
  BY KeysAreSequences DEF GoodKeys, Good
<1> QED BY <1>1 DEF GoodKeys, AreKeys

\* There are no more of them than rows.
LEMMA OnlySoMany ==
  ASSUME NEW s \in Seq(Rows), \A i, j \in 1..Len(s) : s[i] = s[j] => i = j
  PROVE  Len(s) <= MaxRows
<1> DEFINE T == {s[i] : i \in 1..Len(s)}
<1>1. Len(s) \in Nat /\ \A i \in 1..Len(s) : s[i] \in Rows
  OBVIOUS
<1>2. Cardinality(T) = Len(s)
  <2> DEFINE n == Len(s)
  <2>1. n \in 0..Len(s)
    BY <1>1
  <2> QED BY <2>1, FirstEntries
<1>3. IsFiniteSet(Rows) /\ Cardinality(Rows) = MaxRows
  BY RowsAssumption, FS_Interval DEF Rows
<1>4. T \subseteq Rows
  BY <1>1
<1> HIDE DEF T
<1>5. Cardinality(T) <= Cardinality(Rows)
  BY <1>3, <1>4, FS_Subset
<1> QED BY <1>2, <1>3, <1>5

\* One step of the sort keys is one step of the list, and no two rows come to share
\* a key.
PlacesRow(q, tie, s, index, n) ==
  /\ GoodKeys(q) /\ DOMAIN q = Range(s) \cup {n}
  /\ Orders(q, tie, InsertAt(s, index, n))
  /\ \A l, m \in DOMAIN q : q[l] = q[m] => l = m \/ (l # n /\ m # n /\ key[l] = key[m])

\* With a key between its neighbours the row stands between them.
LEMMA FindsKey ==
  ASSUME NEW tie, Tells(tie), GoodKeys(key), NEW s \in Seq(DOMAIN key), Ascends(key, tie, s),
         NEW n \in Rows, n \notin Range(s), NEW index \in 1..Len(s) + 1, NEW found, Good(found),
         index > 1 => Less(key[s[index - 1]], found),
         index <= Len(s) => Less(found, key[s[index]])
  PROVE  PlacesRow([m \in Range(s) \cup {n} |-> IF m = n THEN found ELSE key[m]], tie, s, index, n)
<1> DEFINE q == [m \in Range(s) \cup {n} |-> IF m = n THEN found ELSE key[m]]
<1>1. /\ Len(s) \in Nat /\ DOMAIN s = 1..Len(s)
      /\ \A i \in 1..Len(s) : s[i] \in DOMAIN key /\ s[i] \in Range(s) /\ s[i] # n
  <2>1. Len(s) \in Nat /\ DOMAIN s = 1..Len(s) /\ \A i \in 1..Len(s) : s[i] \in DOMAIN key
    OBVIOUS
  <2> QED BY <2>1 DEF Range
<1>2. Range(s) \subseteq DOMAIN key
  BY <1>1 DEF Range
<1>3. DOMAIN q = Range(s) \cup {n} /\ q[n] = found /\ \A m \in Range(s) : q[m] = key[m]
  OBVIOUS
<1> HIDE DEF q
<1>4. GoodKeys(q)
  BY <1>2, <1>3 DEF GoodKeys
<1>5. AreKeys(q) /\ AreKeys(key)
  BY <1>4, GoodKeysAreKeys
<1>6. s \in Seq(DOMAIN q)
  <2>1. s = [i \in 1..Len(s) |-> s[i]]
    BY <1>1
  <2> QED BY <1>1, <1>3, <2>1
<1>7. Ascends(q, tie, s)
  BY <1>1, <1>3 DEF Ascends, Comes
<1>8. ASSUME NEW j \in 1..Len(s), j < index PROVE Less(q[s[j]], found)
  <2> DEFINE i == index - 1
  <2>1. i \in 1..Len(s) /\ index > 1 /\ (j = i \/ j < i)
    BY <1>1, <1>8
  <2>2. Less(key[s[i]], found)
    BY <2>1
  <2> HIDE DEF i
  <2>3. /\ q[s[i]] = key[s[i]] /\ q[s[j]] \in Seq(Nat) /\ q[s[i]] \in Seq(Nat)
        /\ found \in Seq(Nat)
    BY <1>1, <1>3, <1>5, <2>1 DEF AreKeys
  <2>4. q[s[j]] = q[s[i]] \/ Less(q[s[j]], q[s[i]])
    BY <1>7, <2>1 DEF Ascends, Comes
  <2> QED BY <2>2, <2>3, <2>4, LessThrough
<1>9. ASSUME NEW j \in 1..Len(s), j >= index PROVE Less(found, q[s[j]])
  <2>1. index \in 1..Len(s) /\ index <= Len(s) /\ (j = index \/ index < j)
    BY <1>1, <1>9
  <2>2. Less(found, q[s[index]])
    BY <1>1, <1>3, <2>1
  <2>3. q[s[j]] \in Seq(Nat) /\ q[s[index]] \in Seq(Nat) /\ found \in Seq(Nat)
    BY <1>1, <1>3, <1>5, <2>1 DEF AreKeys
  <2>4. q[s[index]] = q[s[j]] \/ Less(q[s[index]], q[s[j]])
    BY <1>7, <2>1 DEF Ascends, Comes
  <2> QED BY <2>2, <2>3, <2>4, LessThrough
<1>10. Orders(q, tie, InsertAt(s, index, n))
  <2>1. \A j \in 1..Len(s) : j < index => Comes(q, tie, s[j], n)
    BY <1>3, <1>8 DEF Comes
  <2>2. \A j \in 1..Len(s) : j >= index => Comes(q, tie, n, s[j])
    BY <1>3, <1>9 DEF Comes
  <2>3. n \in DOMAIN q
    BY <1>3
  <2> QED BY <1>3, <1>5, <1>6, <1>7, <2>1, <2>2, <2>3, InsertedOrders
<1>11. ASSUME NEW m \in Range(s) PROVE q[m] # found
  <2>1. PICK j \in 1..Len(s) : m = s[j]
    BY <1>1 DEF Range
  <2>2. Less(q[m], found) \/ Less(found, q[m])
    BY <1>1, <1>8, <1>9, <2>1
  <2>3. found \in Seq(Nat)
    BY <1>3, <1>5 DEF AreKeys
  <2> QED BY <2>2, <2>3, NotLessThanItself
<1>12. ASSUME NEW l \in DOMAIN q, NEW m \in DOMAIN q, q[l] = q[m]
       PROVE  l = m \/ (l # n /\ m # n /\ key[l] = key[m])
  BY <1>3, <1>11, <1>12
<1> QED BY <1>3, <1>4, <1>10, <1>12 DEF PlacesRow, q

\* Renumbered, the rows come as they are listed.
LEMMA Renumbers ==
  ASSUME NEW tie, NEW t \in Seq(Rows), \A i, j \in 1..Len(t) : t[i] = t[j] => i = j, Len(t) >= 1
  PROVE  LET q == [m \in Range(t) |-> Resequenced(Len(t))[SlotOf(t, m)]]
         IN  /\ GoodKeys(q) /\ DOMAIN q = Range(t) /\ Orders(q, tie, t)
             /\ \A l, m \in DOMAIN q : q[l] = q[m] => l = m
<1> DEFINE q == [m \in Range(t) |-> Resequenced(Len(t))[SlotOf(t, m)]]
<1>1. Len(t) \in Nat /\ DOMAIN t = 1..Len(t) /\ \A i \in 1..Len(t) : t[i] \in Rows
  OBVIOUS
<1>2. Len(t) \in 1..MaxRows
  BY <1>1, OnlySoMany, RowsAssumption
<1>3. ASSUME NEW i \in 1..Len(t) PROVE t[i] \in Range(t) /\ SlotOf(t, t[i]) = i
  BY <1>1 DEF SlotOf, Range
<1>4. ASSUME NEW i \in 1..Len(t) PROVE q[t[i]] = Resequenced(Len(t))[i]
  BY <1>3
<1>5. DOMAIN q = Range(t) /\ \A m \in Range(t) : \E i \in 1..Len(t) : m = t[i]
  BY <1>1 DEF Range
<1> HIDE DEF q
<1>6. ASSUME NEW m \in DOMAIN q PROVE m \in Rows /\ Good(q[m])
  <2>1. PICK i \in 1..Len(t) : m = t[i]
    BY <1>5
  <2>2. Good(Resequenced(Len(t))[i])
    BY <1>2, ResequencedInOrder
  <2> QED BY <1>1, <1>4, <2>1, <2>2
<1>7. GoodKeys(q)
  BY <1>6 DEF GoodKeys
<1>8. ASSUME NEW i \in 1..Len(t), NEW j \in 1..Len(t), i < j PROVE Less(q[t[i]], q[t[j]])
  <2>1. Less(Resequenced(Len(t))[i], Resequenced(Len(t))[j])
    BY <1>2, <1>8, ResequencedInOrder
  <2> QED BY <1>4, <2>1
<1>9. t \in Seq(DOMAIN q)
  <2>1. t = [i \in 1..Len(t) |-> t[i]]
    BY <1>1
  <2> QED BY <1>1, <1>3, <1>5, <2>1
<1>10. Orders(q, tie, t)
  BY <1>5, <1>8, <1>9 DEF Orders, Ascends, Comes
<1>11. ASSUME NEW l \in DOMAIN q, NEW m \in DOMAIN q, q[l] = q[m] PROVE l = m
  <2>1. PICK i \in 1..Len(t) : l = t[i]
    BY <1>5
  <2>2. PICK j \in 1..Len(t) : m = t[j]
    BY <1>5
  <2>3. q[l] \in Seq(Nat)
    BY <1>7, GoodKeysAreKeys DEF AreKeys
  <2>4. ~(i < j) /\ ~(j < i)
    BY <1>8, <1>11, <2>1, <2>2, <2>3, NotLessThanItself
  <2> QED BY <1>1, <2>1, <2>2, <2>4
<1> QED BY <1>5, <1>7, <1>10, <1>11 DEF q

\* place() puts a row where it is told, with a new key or with new keys for all.
LEMMA PlaceOrders ==
  ASSUME NEW tie, Tells(tie), GoodKeys(key), NEW s \in Seq(DOMAIN key), Ascends(key, tie, s),
         NEW n \in Rows, n \notin Range(s), NEW index \in 1..Len(s) + 1
  PROVE  PlacesRow(Place(s, index, n), tie, s, index, n)
<1> DEFINE before == IF index > 1 THEN key[s[index - 1]] ELSE <<>>
           after == IF index <= Len(s) THEN key[s[index]] ELSE <<>>
           found == RankBetween(before, after)
           placed == InsertAt(s, index, n)
<1>1. /\ Len(s) \in Nat /\ DOMAIN s = 1..Len(s)
      /\ \A i \in 1..Len(s) : s[i] \in DOMAIN key /\ s[i] \in Rows /\ s[i] # n
  <2>1. Len(s) \in Nat /\ DOMAIN s = 1..Len(s) /\ \A i \in 1..Len(s) : s[i] \in DOMAIN key
    OBVIOUS
  <2> QED BY <2>1 DEF Range, GoodKeys
<1>2. /\ placed \in Seq(Rows) /\ Len(placed) = Len(s) + 1 /\ Range(placed) = Range(s) \cup {n}
      /\ \A j \in 1..Len(s) + 1 :
            placed[j] = IF j < index THEN s[j] ELSE IF j = index THEN n ELSE s[j - 1]
  <2>1. s \in Seq(Rows)
    <3>1. s = [i \in 1..Len(s) |-> s[i]]
      BY <1>1
    <3> QED BY <1>1, <3>1
  <2> QED BY <2>1, Inserted
<1>3. Place(s, index, n) =
        IF found # Exhausted
          THEN [m \in Range(placed) |-> IF m = n THEN found ELSE key[m]]
          ELSE [m \in Range(placed) |-> Resequenced(Len(placed))[SlotOf(placed, m)]]
  BY DEF Place
<1>4. CASE found # Exhausted
  <2>1. before = <<>> \/ Good(before)
    <3>1. index > 1 => index - 1 \in 1..Len(s)
      BY <1>1
    <3> QED BY <1>1, <3>1 DEF GoodKeys
  <2>2. after = <<>> \/ Good(after)
    <3>1. index <= Len(s) => index \in 1..Len(s)
      BY <1>1
    <3> QED BY <1>1, <3>1 DEF GoodKeys
  <2>3. index > 1 => before # <<>> /\ before = key[s[index - 1]]
    <3>1. index > 1 => index - 1 \in 1..Len(s)
      BY <1>1
    <3>2. index > 1 => Good(key[s[index - 1]])
      BY <1>1, <3>1 DEF GoodKeys
    <3> QED BY <3>2, KeysAreSequences DEF Good
  <2>4. index <= Len(s) => after # <<>> /\ after = key[s[index]]
    <3>1. index <= Len(s) => index \in 1..Len(s)
      BY <1>1
    <3>2. index <= Len(s) => Good(key[s[index]])
      BY <1>1, <3>1 DEF GoodKeys
    <3> QED BY <3>2, KeysAreSequences DEF Good
  <2>5. MaxRows >= 1
    BY RowsAssumption DEF Rows
  <2> HIDE DEF before, after
  <2>6. /\ Good(found)
        /\ before # <<>> => Less(before, found)
        /\ after # <<>> => Less(found, after)
    BY <1>4, <2>1, <2>2, <2>5, KeyBetween
  <2> HIDE DEF found, placed
  <2>7. PlacesRow([m \in Range(s) \cup {n} |-> IF m = n THEN found ELSE key[m]], tie, s, index, n)
    BY <2>3, <2>4, <2>6, FindsKey
  <2> QED BY <1>2, <1>3, <1>4, <2>7
<1>5. CASE found = Exhausted
  <2> HIDE DEF before, after, found, placed
  <2>1. \A i, j \in 1..Len(s) : s[i] = s[j] => i = j
    <3>1. AreKeys(key)
      BY GoodKeysAreKeys
    <3>2. \A i, j \in 1..Len(s) : i < j => Comes(key, tie, s[i], s[j])
      BY DEF Ascends
    <3>3. ASSUME NEW i \in 1..Len(s), NEW j \in 1..Len(s), s[i] = s[j] PROVE i = j
      BY <1>1, <3>1, <3>2, <3>3, ComesIsOrder
    <3> QED BY <3>3
  <2> DEFINE From(j) == IF j < index THEN j ELSE j - 1
  <2>2. ASSUME NEW j \in 1..Len(s) + 1, j # index
        PROVE  From(j) \in 1..Len(s) /\ placed[j] = s[From(j)] /\ placed[j] # n
    <3>1. From(j) \in 1..Len(s) /\ placed[j] = s[From(j)]
      BY <1>1, <1>2, <2>2
    <3> HIDE DEF From
    <3> QED BY <1>1, <3>1
  <2>3. placed[index] = n
    BY <1>1, <1>2
  <2>4. ASSUME NEW i \in 1..Len(s) + 1, NEW j \in 1..Len(s) + 1, placed[i] = placed[j] PROVE i = j
    <3>1. CASE i = index \/ j = index
      <4> HIDE DEF From
      <4> QED BY <2>2, <2>3, <2>4, <3>1
    <3>2. CASE i # index /\ j # index
      <4>1. From(i) = From(j)
        <5> HIDE DEF From
        <5> QED BY <2>1, <2>2, <2>4, <3>2
      <4> QED BY <1>1, <3>2, <4>1
    <3> QED BY <3>1, <3>2
  <2>5. Len(placed) >= 1 /\ \A i, j \in 1..Len(placed) : placed[i] = placed[j] => i = j
    BY <1>1, <1>2, <2>4
  <2> DEFINE q == [m \in Range(placed) |-> Resequenced(Len(placed))[SlotOf(placed, m)]]
  <2>6. /\ GoodKeys(q) /\ DOMAIN q = Range(placed) /\ Orders(q, tie, placed)
        /\ \A l, m \in DOMAIN q : q[l] = q[m] => l = m
    BY <1>2, <2>5, Renumbers
  <2>7. Place(s, index, n) = q
    BY <1>3, <1>5
  <2> HIDE DEF q
  <2> QED BY <1>2, <2>6, <2>7 DEF PlacesRow, placed
<1> QED BY <1>4, <1>5

\* Where a row is placed, no two others change places.
LEMMA OthersStayInOrder ==
  ASSUME NEW tie, Tells(tie), GoodKeys(key), NEW s \in Seq(DOMAIN key), Ascends(key, tie, s),
         NEW n, NEW index \in 1..Len(s) + 1, NEW q, PlacesRow(q, tie, s, index, n), n \notin Range(s),
         NEW l \in Range(s), NEW m \in Range(s), Less(key[l], key[m])
  PROVE  Less(q[l], q[m])
<1> DEFINE t == InsertAt(s, index, n)
           To(i) == IF i < index THEN i ELSE i + 1
<1>1. /\ Len(s) \in Nat /\ DOMAIN s = 1..Len(s) /\ \A i \in 1..Len(s) : s[i] \in DOMAIN key
      /\ DOMAIN q = Range(s) \cup {n} /\ Orders(q, tie, t)
  BY DEF PlacesRow
<1>2. /\ l \in DOMAIN key /\ m \in DOMAIN key /\ key[l] \in Seq(Nat)
      /\ AreKeys(key)
  BY <1>1, GoodKeysAreKeys DEF AreKeys, Range
<1>3. key[l] # key[m]
  BY <1>2, NotLessThanItself
<1>4. PICK i \in 1..Len(s) : l = s[i]
  BY <1>1 DEF Range
<1>5. PICK j \in 1..Len(s) : m = s[j]
  BY <1>1 DEF Range
<1>6. i < j
  <2>1. Comes(key, tie, l, m)
    BY DEF Comes
  <2>2. ~Comes(key, tie, m, l)
    BY <1>2, <2>1, ComesIsOrder
  <2>3. j < i => Comes(key, tie, m, l)
    BY <1>4, <1>5 DEF Ascends
  <2>4. i # j
    BY <1>3, <1>4, <1>5
  <2> QED BY <1>1, <2>2, <2>3, <2>4
<1>7. /\ Len(t) = Len(s) + 1
      /\ \A h \in 1..Len(s) + 1 :
           t[h] = IF h < index THEN s[h] ELSE IF h = index THEN n ELSE s[h - 1]
  <2> DEFINE S == DOMAIN key \cup {n}
  <2>1. s \in Seq(S) /\ n \in S
    <3>1. s = [h \in 1..Len(s) |-> s[h]] /\ \A h \in 1..Len(s) : s[h] \in S
      BY <1>1
    <3> HIDE DEF S
    <3>2. s \in Seq(S)
      BY <1>1, <3>1
    <3> QED BY <3>2 DEF S
  <2> HIDE DEF S
  <2> QED BY <2>1, Inserted
<1> HIDE DEF t
<1>8. /\ To(i) \in 1..Len(t) /\ To(j) \in 1..Len(t) /\ To(i) < To(j)
      /\ t[To(i)] = l /\ t[To(j)] = m
  BY <1>1, <1>4, <1>5, <1>6, <1>7
<1> HIDE DEF To
<1>9. Comes(q, tie, l, m)
  BY <1>1, <1>8 DEF Orders, Ascends
<1>10. q[l] # q[m]
  <2>1. l \in DOMAIN q /\ m \in DOMAIN q /\ l # m
    BY <1>1, <1>3
  <2> QED BY <1>3, <2>1 DEF PlacesRow
<1> QED BY <1>9, <1>10 DEF Comes

-----------------------------------------------------------------------------
(* The level. *)

\* Where the conversations come from and which session each goes on with.
OriginOK ==
  /\ from \in [Rows -> Rows \cup {None}]
  /\ via \in [Rows -> Threads \cup {None}] /\ thread \in [Rows -> Threads \cup {None}]

\* Its rows are numbered as they were created, a row is live or deleted, and all keys are
\* keys; so the rows have the one order their keys and numbers give them, and the one
\* their keys and names do.
LevelOK ==
  /\ created \in 0..MaxRows
  /\ DOMAIN key \cup DOMAIN removed \subseteq 1..created /\ DOMAIN key \cap DOMAIN removed = {}
  /\ GoodKeys(key) /\ GoodKeys(removed)
  /\ OriginOK

\* What that says of the two orders.
LEMMA LevelFacts ==
  ASSUME LevelOK
  PROVE  /\ AreKeys(key) /\ Orders(key, RowId, Siblings) /\ Orders(key, Name, Shown)
         /\ KeysDiffer => Shown = Siblings
         /\ created \in Nat /\ MaxRows \in Nat /\ created <= MaxRows
         /\ DOMAIN key \subseteq Rows /\ DOMAIN removed \subseteq Rows
<1>1. AreKeys(key)
  BY GoodKeysAreKeys DEF LevelOK
<1>2. Orders(key, RowId, Siblings) /\ Orders(key, Name, Shown)
  BY <1>1, BothTell, HasOrder DEF Siblings, Shown
<1>3. KeysDiffer => Shown = Siblings
  BY <1>1, BothTell, NothingToTellApart DEF Siblings, Shown, KeysDiffer
<1>4. created \in Nat /\ MaxRows \in Nat /\ created <= MaxRows
  BY RowsAssumption DEF LevelOK
<1> QED BY <1>1, <1>2, <1>3, <1>4 DEF LevelOK, GoodKeys

\* What each of them says of its list.
LEMMA OrderFacts ==
  ASSUME NEW tie, NEW s, Orders(key, tie, s)
  PROVE  /\ s \in Seq(DOMAIN key) /\ Range(s) = DOMAIN key /\ Ascends(key, tie, s)
         /\ Len(s) \in Nat /\ DOMAIN s = 1..Len(s) /\ \A i \in 1..Len(s) : s[i] \in DOMAIN key
<1>1. s \in Seq(DOMAIN key) /\ Range(s) = DOMAIN key /\ Ascends(key, tie, s)
  BY DEF Orders
<1> QED BY <1>1

\* What a reader sees next.
LEMMA NextOrder ==
  ASSUME NEW k, k = key', GoodKeys(k), NEW s, Orders(k, Name, s)
  PROVE  Shown' = s /\ GoodKeys(key)'
<1>1. AreKeys(k)
  BY GoodKeysAreKeys
<1>2. InOrder(k, Name) = s
  BY <1>1, BothTell, OneOrder
<1>3. Shown' = InOrder(k, Name)
  BY DEF Shown
<1> QED BY <1>2, <1>3

\* A placed row is seen where it was put, unless keys were shared before.
LEMMA NextPlaced ==
  ASSUME NEW k, k = key', NEW s, Range(s) \subseteq DOMAIN key, NEW index, NEW n,
         PlacesRow(k, RowId, s, index, n), KeysDiffer
  PROVE  Shown' = InsertAt(s, index, n)
<1>1. GoodKeys(k) /\ DOMAIN k = Range(s) \cup {n} /\ Orders(k, RowId, InsertAt(s, index, n))
  BY DEF PlacesRow
<1>2. AreKeys(k)
  BY <1>1, GoodKeysAreKeys
<1>3. ASSUME NEW l \in DOMAIN k, NEW m \in DOMAIN k, k[l] = k[m] PROVE l = m
  <2>1. l = m \/ (l # n /\ m # n /\ key[l] = key[m])
    BY <1>3 DEF PlacesRow
  <2>2. l # n /\ m # n => l \in DOMAIN key /\ m \in DOMAIN key
    BY <1>1
  <2> QED BY <2>1, <2>2 DEF KeysDiffer
<1> DEFINE t == InsertAt(s, index, n)
<1> HIDE DEF t
<1>4. InOrder(k, RowId) = t
  BY <1>1, <1>2, BothTell, OneOrder DEF t
<1>5. InOrder(k, Name) = InOrder(k, RowId)
  BY <1>2, <1>3, BothTell, NothingToTellApart
<1>6. Shown' = InOrder(k, Name)
  BY DEF Shown
<1> QED BY <1>4, <1>5, <1>6 DEF t

\* A new row.
LEMMA PlacesNewRow ==
  ASSUME LevelOK, created < MaxRows, created' = created + 1,
         NEW index \in 1..Len(Siblings) + 1, key' = Place(Siblings, index, created'),
         UNCHANGED removed, OriginOK'
  PROVE  /\ LevelOK' /\ created' \notin DOMAIN key
         /\ KeysDiffer => Shown' = InsertAt(Shown, index, created')
         /\ \A l, m \in DOMAIN key : Less(key[l], key[m]) => Less(key'[l], key'[m])
<1> DEFINE n == created + 1
<1>1. n \in Rows /\ n \notin DOMAIN key /\ n \notin DOMAIN removed /\ created' = n
  BY LevelFacts DEF LevelOK, Rows
<1> HIDE DEF n
<1>2. PICK k : k = key'
  OBVIOUS
<1>3. PICK s : s = Siblings
  OBVIOUS
<1>4. /\ s \in Seq(DOMAIN key) /\ Range(s) = DOMAIN key /\ Ascends(key, RowId, s)
      /\ index \in 1..Len(s) + 1 /\ GoodKeys(key)
  BY <1>3, LevelFacts, OrderFacts DEF LevelOK
<1>5. k = Place(s, index, n)
  BY <1>1, <1>2, <1>3
<1>6. PlacesRow(k, RowId, s, index, n)
  BY <1>1, <1>4, <1>5, BothTell, PlaceOrders
<1>7. GoodKeys(k) /\ DOMAIN k = DOMAIN key \cup {n}
  BY <1>4, <1>6 DEF PlacesRow
<1>8. KeysDiffer => Shown' = InsertAt(s, index, n)
  BY <1>2, <1>4, <1>6, NextPlaced
<1>9. ASSUME NEW l \in DOMAIN key, NEW m \in DOMAIN key, Less(key[l], key[m])
      PROVE  Less(k[l], k[m])
  BY <1>1, <1>4, <1>6, <1>9, BothTell, OthersStayInOrder
<1>10. /\ created' \in 0..MaxRows
       /\ DOMAIN key' \cup DOMAIN removed' \subseteq 1..created'
       /\ DOMAIN key' \cap DOMAIN removed' = {}
  <2>1. DOMAIN key' = DOMAIN key \cup {n} /\ removed' = removed /\ created' = created + 1
    BY <1>2, <1>7
  <2>2. created \in Nat /\ created < MaxRows /\ MaxRows \in Nat /\ n = created + 1
    BY LevelFacts DEF n
  <2>3. DOMAIN key \subseteq 1..created /\ DOMAIN removed \subseteq 1..created
        /\ DOMAIN key \cap DOMAIN removed = {}
    BY DEF LevelOK
  <2> QED BY <1>1, <2>1, <2>2, <2>3
<1>11. GoodKeys(removed)' /\ GoodKeys(key)'
  <2>1. GoodKeys(removed)
    BY DEF LevelOK
  <2> QED BY <1>2, <1>7, <2>1
<1>12. LevelOK'
  BY <1>10, <1>11 DEF LevelOK
<1>13. KeysDiffer => Shown' = InsertAt(Shown, index, created')
  BY <1>1, <1>3, <1>8, LevelFacts
<1> QED BY <1>1, <1>2, <1>9, <1>12, <1>13

\* move_project() and move_conversation()
LEMMA MovesRow ==
  ASSUME LevelOK, NEW n \in Rows, NEW index \in DOMAIN Siblings, Move(n, index)
  PROVE  /\ LevelOK'
         /\ KeysDiffer => Shown' = InsertAt(RemoveAt(Shown, SlotOf(Shown, n)), index, n)
         /\ \A l, m \in DOMAIN key \ {n} : Less(key[l], key[m]) => Less(key'[l], key'[m])
<1> DEFINE s == RemoveAt(Siblings, SlotOf(Siblings, n))
           q == [m \in DOMAIN key \ {n} |-> key[m]]
<1>1. n \in DOMAIN key /\ key' = Place(s, index, n) /\ UNCHANGED <<removed, origin, created>>
  BY DEF Move, Without
<1>2. AreKeys(q) /\ Orders(q, RowId, s)
  <2>1. Orders(key, RowId, Siblings) /\ AreKeys(key)
    BY LevelFacts
  <2> HIDE DEF s
  <2> QED BY <1>1, <2>1, BothTell, RemovedOrders DEF s
<1>3. s \in Seq(DOMAIN q) /\ Range(s) = DOMAIN q /\ Ascends(q, RowId, s)
  BY <1>2 DEF Orders
<1>4. DOMAIN q = DOMAIN key \ {n} /\ \A m \in DOMAIN q : q[m] = key[m]
  OBVIOUS
<1>5. Len(s) = Len(Siblings) - 1 /\ Len(Siblings) \in Nat /\ index \in 1..Len(Siblings)
  <2>1. SlotOf(Siblings, n) \in 1..Len(Siblings)
    BY <1>1, LevelFacts, BothTell, EachOnce
  <2> QED BY <2>1, LevelFacts, OrderFacts, Removed
<1> HIDE DEF s, q
<1>6. /\ s \in Seq(DOMAIN key) /\ Ascends(key, RowId, s) /\ n \notin Range(s)
      /\ index \in 1..Len(s) + 1 /\ GoodKeys(key)
  <2>1. Len(s) \in Nat /\ \A i \in 1..Len(s) : s[i] \in DOMAIN q
    BY <1>3
  <2>2. s = [i \in 1..Len(s) |-> s[i]]
    BY <1>3
  <2>3. s \in Seq(DOMAIN key)
    BY <1>4, <2>1, <2>2
  <2>4. Ascends(key, RowId, s)
    BY <1>3, <1>4, <2>1 DEF Ascends, Comes
  <2> QED BY <1>3, <1>4, <1>5, <2>3, <2>4 DEF LevelOK
<1>7. PICK k : k = key'
  OBVIOUS
<1>8. PlacesRow(k, RowId, s, index, n)
  BY <1>1, <1>6, <1>7, BothTell, PlaceOrders
<1>9. GoodKeys(k) /\ DOMAIN k = DOMAIN key /\ Range(s) = DOMAIN key \ {n}
  BY <1>1, <1>3, <1>4, <1>8 DEF PlacesRow
<1>10. KeysDiffer => Shown' = InsertAt(s, index, n)
  BY <1>7, <1>8, <1>9, NextPlaced
<1>11. ASSUME NEW l \in DOMAIN key \ {n}, NEW m \in DOMAIN key \ {n}, Less(key[l], key[m])
       PROVE  Less(k[l], k[m])
  BY <1>6, <1>8, <1>9, <1>11, BothTell, OthersStayInOrder
<1>12. GoodKeys(removed)' /\ GoodKeys(key)' /\ OriginOK'
  <2>1. GoodKeys(removed) /\ OriginOK
    BY DEF LevelOK
  <2> QED BY <1>1, <1>7, <1>9, <2>1 DEF origin, OriginOK
<1>13. LevelOK'
  BY <1>1, <1>7, <1>9, <1>12 DEF LevelOK
<1>14. KeysDiffer => Shown' = InsertAt(RemoveAt(Shown, SlotOf(Shown, n)), index, n)
  BY <1>10, LevelFacts DEF s
<1> QED BY <1>7, <1>11, <1>13, <1>14

\* delete_project() and delete_conversation(), or a move away.
LEMMA TakesRowOff ==
  ASSUME LevelOK, NEW n \in DOMAIN key, key' = [m \in DOMAIN key \ {n} |-> key[m]],
         UNCHANGED created, OriginOK',
         \/ UNCHANGED removed
         \/ removed' = [m \in DOMAIN removed \cup {n} |-> IF m = n THEN key[n] ELSE removed[m]]
  PROVE  LevelOK' /\ Shown' = RemoveAt(Shown, SlotOf(Shown, n))
<1>1. PICK k : k = key'
  OBVIOUS
<1>2. AreKeys(k) /\ Orders(k, Name, RemoveAt(Shown, SlotOf(Shown, n)))
  <2>1. Orders(key, Name, Shown) /\ AreKeys(key)
    BY LevelFacts
  <2> QED BY <1>1, <2>1, BothTell, RemovedOrders
<1>3. DOMAIN k = DOMAIN key \ {n} /\ \A m \in DOMAIN k : k[m] = key[m]
  BY <1>1
<1>4. GoodKeys(k)
  BY <1>3 DEF LevelOK, GoodKeys
<1>5. Shown' = RemoveAt(Shown, SlotOf(Shown, n)) /\ GoodKeys(key)'
  BY <1>1, <1>2, <1>4, NextOrder
<1>6. PICK g : g = removed'
  OBVIOUS
<1>7. DOMAIN g \subseteq DOMAIN removed \cup {n} /\ GoodKeys(g)
  <2>1. GoodKeys(key) /\ GoodKeys(removed) /\ n \in DOMAIN key
    BY DEF LevelOK
  <2>2. CASE g = removed
    BY <2>1, <2>2
  <2>3. CASE g = [m \in DOMAIN removed \cup {n} |-> IF m = n THEN key[n] ELSE removed[m]]
    BY <2>1, <2>3 DEF GoodKeys
  <2> QED BY <1>6, <2>2, <2>3
<1>8. GoodKeys(removed)'
  BY <1>6, <1>7
<1>9. /\ DOMAIN key' \cup DOMAIN removed' \subseteq 1..created
      /\ DOMAIN key' \cap DOMAIN removed' = {}
  BY <1>1, <1>3, <1>6, <1>7 DEF LevelOK
<1>10. LevelOK'
  BY <1>5, <1>8, <1>9 DEF LevelOK
<1> QED BY <1>5, <1>10

\* restore_project() and restore_conversation()
LEMMA PutsRowBack ==
  ASSUME LevelOK, NEW n \in Rows, RestoreRow(n)
  PROVE  /\ LevelOK' /\ n \notin DOMAIN key
         /\ \E place \in 1..Len(Shown) + 1 : Shown' = InsertAt(Shown, place, n)
<1>1. /\ n \in DOMAIN removed /\ n \notin DOMAIN key
      /\ key' = [m \in DOMAIN key \cup {n} |-> IF m = n THEN removed[n] ELSE key[m]]
      /\ removed' = [m \in DOMAIN removed \ {n} |-> removed[m]]
      /\ UNCHANGED <<origin, created>>
  BY DEF RestoreRow, LevelOK
<1>2. PICK k : k = key'
  OBVIOUS
<1>3. DOMAIN k = DOMAIN key \cup {n} /\ k[n] = removed[n] /\ \A m \in DOMAIN key : k[m] = key[m]
  BY <1>1, <1>2
<1>4. GoodKeys(k)
  BY <1>1, <1>3 DEF LevelOK, GoodKeys
<1>5. AreKeys(k)
  BY <1>4, GoodKeysAreKeys
<1>6. PICK s : s = Shown
  OBVIOUS
<1>7. /\ s \in Seq(DOMAIN key) /\ Range(s) = DOMAIN key /\ Ascends(key, Name, s)
      /\ Len(s) \in Nat /\ \A i \in 1..Len(s) : s[i] \in DOMAIN key
  BY <1>6, LevelFacts, OrderFacts
<1>8. s \in Seq(DOMAIN k) /\ Ascends(k, Name, s)
  <2>1. s = [i \in 1..Len(s) |-> s[i]]
    BY <1>7
  <2>2. s \in Seq(DOMAIN k)
    BY <1>3, <1>7, <2>1
  <2>3. Ascends(k, Name, s)
    BY <1>3, <1>7 DEF Ascends, Comes
  <2> QED BY <2>2, <2>3
<1>9. PICK place \in 1..Len(s) + 1 : Orders(k, Name, InsertAt(s, place, n))
  BY <1>1, <1>3, <1>5, <1>7, <1>8, BothTell, FindsItsPlace
<1>10. Shown' = InsertAt(s, place, n) /\ GoodKeys(key)'
  BY <1>2, <1>4, <1>9, NextOrder
<1>11. PICK g : g = removed'
  OBVIOUS
<1>12. DOMAIN g = DOMAIN removed \ {n} /\ GoodKeys(g)
  BY <1>1, <1>11 DEF LevelOK, GoodKeys
<1>13. GoodKeys(removed)' /\ OriginOK'
  BY <1>1, <1>11, <1>12 DEF LevelOK, OriginOK, origin
<1>14. /\ DOMAIN key' \cup DOMAIN removed' \subseteq 1..created
       /\ DOMAIN key' \cap DOMAIN removed' = {}
  BY <1>1, <1>2, <1>3, <1>11, <1>12 DEF LevelOK
<1>15. LevelOK'
  BY <1>1, <1>10, <1>13, <1>14 DEF LevelOK
<1> QED BY <1>1, <1>6, <1>10, <1>15

\* What touches no key.
LEMMA LeavesOrder ==
  ASSUME LevelOK, UNCHANGED <<key, created>>, OriginOK',
         \/ UNCHANGED removed
         \/ \E n \in Rows : removed' = [m \in DOMAIN removed \ {n} |-> removed[m]]
  PROVE  LevelOK' /\ Shown' = Shown
<1>1. PICK k : k = key'
  OBVIOUS
<1>2. GoodKeys(k) /\ Orders(k, Name, Shown)
  BY <1>1, LevelFacts DEF LevelOK
<1>3. Shown' = Shown /\ GoodKeys(key)'
  BY <1>1, <1>2, NextOrder
<1>4. PICK g : g = removed'
  OBVIOUS
<1>5. DOMAIN g \subseteq DOMAIN removed /\ GoodKeys(g)
  BY <1>4 DEF LevelOK, GoodKeys
<1>6. GoodKeys(removed)'
  BY <1>4, <1>5
<1>7. /\ DOMAIN key' \cup DOMAIN removed' \subseteq 1..created
      /\ DOMAIN key' \cap DOMAIN removed' = {}
  BY <1>4, <1>5 DEF LevelOK
<1>8. LevelOK'
  BY <1>3, <1>6, <1>7 DEF LevelOK
<1> QED BY <1>3, <1>8

\* An empty level.
LEMMA LevelStart ==
  ASSUME LevelInit
  PROVE  LevelOK /\ Lists!Empty
<1>1. PICK k : k = key
  OBVIOUS
<1>2. DOMAIN k = {} /\ GoodKeys(k) /\ AreKeys(k)
  <2>1. DOMAIN k = {}
    BY <1>1 DEF LevelInit
  <2> QED BY <2>1 DEF GoodKeys, AreKeys
<1>3. Orders(k, Name, <<>>)
  <2>1. <<>> \in Seq(DOMAIN k) /\ Len(<<>>) = 0
    OBVIOUS
  <2>2. Range(<<>>) = {}
    BY DEF Range
  <2> QED BY <1>2, <2>1, <2>2 DEF Orders, Ascends
<1>4. Shown = <<>>
  <2>1. InOrder(k, Name) = <<>>
    BY <1>2, <1>3, BothTell, OneOrder
  <2> QED BY <1>1, <2>1 DEF Shown
<1>5. /\ removed = k /\ created = 0 /\ from = [n \in Rows |-> None] /\ via = from /\ thread = from
  BY <1>1 DEF LevelInit
<1>6. created \in 0..MaxRows /\ OriginOK
  BY <1>5, RowsAssumption DEF OriginOK
<1>7. LevelOK
  BY <1>1, <1>2, <1>5, <1>6 DEF LevelOK
<1> QED BY <1>4, <1>5, <1>7 DEF Lists!Empty

-----------------------------------------------------------------------------
(* Each operation is the list's. *)

\* The list and the level speak of sequences in the same words.
LEMMA SameWords ==
  ASSUME NEW s, NEW i, NEW n
  PROVE  /\ Lists!InsertAt(s, i, n) = InsertAt(s, i, n)
         /\ Lists!RemoveAt(s, i) = RemoveAt(s, i)
         /\ Lists!Range(s) = Range(s)
BY DEF Lists!InsertAt, InsertAt, Lists!RemoveAt, RemoveAt, Lists!Range, Range

\* The list holds the live rows.
LEMMA ListedIsLive ==
  ASSUME LevelOK, NEW n
  PROVE  Lists!Listed(n) <=> n \in DOMAIN key
BY LevelFacts, OrderFacts, SameWords DEF Lists!Listed

\* A row forgets its session and its source.
LEMMA Forgets ==
  ASSUME OriginOK, NEW n \in Rows, NEW sources \in [Rows -> Rows \cup {None}], Forget(n, sources)
  PROVE  OriginOK' /\ Lists!OthersStay(n)
BY DEF OriginOK, Forget, Lists!OthersStay

\* create_project() and create_conversation() are Add, or Enter at an index.
LEMMA CreateIsList ==
  ASSUME LevelOK, NEW index \in 1..Len(Siblings) + 1, Create(index)
  PROVE  /\ LevelOK'
         /\ KeysDiffer => IF index = Len(Shown) + 1 THEN Lists!Add(created')
                          ELSE Lists!Enter(created', index)
         /\ \A l, m \in DOMAIN key : Less(key[l], key[m]) => Less(key'[l], key'[m])
<1>1. PICK n : n = created'
  OBVIOUS
<1>2. /\ from' = [from EXCEPT ![n] = None] /\ via' = [via EXCEPT ![n] = None]
      /\ thread' = [thread EXCEPT ![n] = None]
  BY <1>1 DEF Create
<1>3. OriginOK'
  BY <1>2 DEF LevelOK, OriginOK
<1>4. /\ LevelOK' /\ n \notin DOMAIN key
      /\ KeysDiffer => Shown' = InsertAt(Shown, index, n)
      /\ \A l, m \in DOMAIN key : Less(key[l], key[m]) => Less(key'[l], key'[m])
  BY <1>1, <1>3, PlacesNewRow DEF Create
<1>5. KeysDiffer => Lists!Enter(n, index)
  BY <1>4, ListedIsLive, SameWords DEF Lists!Enter
<1> QED BY <1>1, <1>2, <1>4, <1>5 DEF Lists!Add

\* _fork_position() is below the source and its forks, where the list puts a fork if it
\* knows the same forks.
LEMMA ForkIsList ==
  ASSUME LevelOK, NEW n \in Rows, Fork(n)
  PROVE  /\ LevelOK'
         /\ KeysDiffer => LandsBelow(n) /\ (SameForks(n) => Lists!Fork(n, created'))
         /\ \A l, m \in DOMAIN key : Less(key[l], key[m]) => Less(key'[l], key'[m])
<1> DEFINE others == {i \in SlotOf(Siblings, n) + 1 .. Len(Siblings) : ~IsFork(n, Siblings[i])}
           place == IF others = {} THEN Len(Siblings) + 1 ELSE Least(others)
<1>1. PICK new : new = created'
  OBVIOUS
<1>2. /\ n \in DOMAIN key /\ from' = [from EXCEPT ![new] = n]
      /\ via' = [via EXCEPT ![new] = thread[n]] /\ thread' = [thread EXCEPT ![new] = None]
      /\ ForkPosition(n) = place
  BY <1>1 DEF Fork, ForkPosition
<1>3. /\ SlotOf(Siblings, n) \in 1..Len(Siblings) /\ Len(Siblings) \in Nat
      /\ \A i \in 1..Len(Siblings) : Siblings[i] \in DOMAIN key
  BY <1>2, LevelFacts, BothTell, EachOnce
<1>4. /\ place \in SlotOf(Siblings, n) + 1 .. Len(Siblings) + 1
      /\ \A i \in SlotOf(Siblings, n) + 1 .. place - 1 : IsFork(n, Siblings[i])
  <2>1. CASE others = {}
    <3>1. place = Len(Siblings) + 1
      BY <2>1
    <3> HIDE DEF place
    <3>2. ASSUME NEW i \in SlotOf(Siblings, n) + 1 .. place - 1 PROVE IsFork(n, Siblings[i])
      <4>1. i \in SlotOf(Siblings, n) + 1 .. Len(Siblings)
        BY <1>3, <3>1
      <4> QED BY <2>1, <4>1
    <3> QED BY <1>3, <3>1, <3>2
  <2>2. CASE others # {}
    <3>1. /\ others \subseteq Nat
          /\ \A i \in others : i \in SlotOf(Siblings, n) + 1 .. Len(Siblings)
      BY <1>3
    <3>2. place = Least(others)
      BY <2>2
    <3>3. place \in others /\ \A i \in others : place <= i
      <4> HIDE DEF others, place
      <4> QED BY <2>2, <3>1, <3>2, LeastOfAll
    <3> HIDE DEF place
    <3>4. place \in SlotOf(Siblings, n) + 1 .. Len(Siblings)
      BY <3>1, <3>3
    <3>5. ASSUME NEW i \in SlotOf(Siblings, n) + 1 .. place - 1 PROVE IsFork(n, Siblings[i])
      <4>1. i \in SlotOf(Siblings, n) + 1 .. Len(Siblings) /\ ~(place <= i)
        BY <1>3, <3>4
      <4> QED BY <3>3, <4>1
    <3> QED BY <1>3, <3>4, <3>5
  <2> QED BY <2>1, <2>2
<1>5. OriginOK'
  <2>1. thread[n] \in Threads \cup {None}
    BY DEF LevelOK, OriginOK
  <2> QED BY <1>2, <2>1 DEF LevelOK, OriginOK
<1>6. /\ created < MaxRows /\ created' = created + 1 /\ UNCHANGED removed
      /\ key' = Place(Siblings, place, created')
  <2> HIDE DEF place
  <2> QED BY <1>2 DEF Fork
<1> HIDE DEF place
<1>7. /\ LevelOK' /\ new \notin DOMAIN key
      /\ KeysDiffer => Shown' = InsertAt(Shown, place, new)
      /\ \A l, m \in DOMAIN key : Less(key[l], key[m]) => Less(key'[l], key'[m])
  <2>1. place \in 1..Len(Siblings) + 1
    BY <1>3, <1>4
  <2> QED BY <1>1, <1>5, <1>6, <2>1, PlacesNewRow
<1>8. ASSUME KeysDiffer PROVE LandsBelow(n)
  <2>1. Shown = Siblings
    BY <1>8, LevelFacts
  <2>2. Lists!Enter(created', place)
    BY <1>1, <1>7, <1>8, ListedIsLive, SameWords DEF Lists!Enter
  <2> QED BY <1>4, <2>1, <2>2 DEF LandsBelow
<1>9. ASSUME KeysDiffer, SameForks(n) PROVE Lists!Fork(n, created')
  <2>1. Shown = Siblings
    BY <1>9, LevelFacts
  <2> DEFINE after == {i \in Lists!IndexOf(n) + 1 .. Len(Shown) : via[Shown[i]] # thread[n]}
             at == IF after = {} THEN Len(Shown) + 1
                   ELSE CHOOSE i \in after : \A j \in after : i <= j
  <2>2. Lists!IndexOf(n) = SlotOf(Siblings, n)
    BY <2>1 DEF Lists!IndexOf, SlotOf
  <2>3. ASSUME NEW i \in SlotOf(Siblings, n) + 1 .. Len(Siblings)
        PROVE  ~IsFork(n, Siblings[i]) <=> via[Shown[i]] # thread[n]
    <3>1. Siblings[i] \in DOMAIN key
      BY <1>3
    <3> QED BY <1>9, <2>1, <3>1 DEF SameForks
  <2>4. after = others
    BY <2>1, <2>2, <2>3
  <2>5. at = place
    <3> HIDE DEF after, others
    <3> QED BY <2>1, <2>4 DEF place, Least
  <2>6. Shown' = Lists!InsertAt(Shown, at, new)
    <3> HIDE DEF at
    <3> QED BY <1>7, <1>9, <2>5, SameWords
  <2>7. Lists!Listed(n) /\ ~Lists!Listed(new) /\ thread[n] # None
    BY <1>2, <1>7, <1>9, ListedIsLive DEF SameForks
  <2>8. Lists!Fork(n, new)
    BY <1>2, <2>6, <2>7 DEF Lists!Fork
  <2> QED BY <1>1, <2>8
<1> QED BY <1>7, <1>8, <1>9

\* The list counts without the node it moves, too.
LEMMA MoveIsList ==
  ASSUME LevelOK, NEW n \in Rows, NEW index \in DOMAIN Siblings, Move(n, index)
  PROVE  LevelOK' /\ (KeysDiffer => Lists!MoveTo(n, index))
<1>1. LevelOK' /\ (KeysDiffer => Shown' = InsertAt(RemoveAt(Shown, SlotOf(Shown, n)), index, n))
  BY MovesRow
<1>2. Lists!Listed(n) /\ UNCHANGED <<thread, via>>
  BY ListedIsLive DEF Move, origin
<1>3. Lists!IndexOf(n) = SlotOf(Shown, n)
  BY DEF Lists!IndexOf, SlotOf
<1> QED BY <1>1, <1>2, <1>3, SameWords DEF Lists!MoveTo

\* A node that is deleted or leaves the level closes the gap.
LEMMA DeleteIsList ==
  ASSUME LevelOK, NEW n \in Rows, Delete(n) \/ Leave(n)
  PROVE  LevelOK' /\ Lists!Delete(n)
<1>1. OriginOK' /\ Lists!OthersStay(n)
  <2>1. CASE Delete(n)
    BY <2>1 DEF Delete, origin, LevelOK, OriginOK, Lists!OthersStay
  <2>2. CASE Leave(n)
    BY <2>2, Forgets DEF Leave, LevelOK, OriginOK
  <2> QED BY <2>1, <2>2
<1>2. LevelOK' /\ Shown' = RemoveAt(Shown, SlotOf(Shown, n))
  <2>1. CASE Delete(n)
    BY <1>1, <2>1, TakesRowOff DEF Delete
  <2>2. CASE Leave(n)
    BY <1>1, <2>2, TakesRowOff DEF Leave
  <2> QED BY <2>1, <2>2
<1>3. Lists!Listed(n)
  BY ListedIsLive DEF Delete, Leave
<1>4. Lists!IndexOf(n) = SlotOf(Shown, n)
  BY DEF Lists!IndexOf, SlotOf
<1> QED BY <1>1, <1>2, <1>3, <1>4, SameWords DEF Lists!Delete

\* A node that comes back pushes others apart but not about.
LEMMA RestoreIsList ==
  ASSUME LevelOK, NEW n \in Rows, RestoreRow(n)
  PROVE  LevelOK' /\ \E place \in 1..Len(Shown) + 1 : Lists!Enter(n, place)
<1>1. LevelOK' /\ n \notin DOMAIN key
  BY PutsRowBack
<1>2. PICK place \in 1..Len(Shown) + 1 : Shown' = InsertAt(Shown, place, n)
  BY PutsRowBack
<1>3. Lists!Enter(n, place)
  BY <1>1, <1>2, ListedIsLive, SameWords DEF Lists!Enter
<1> QED BY <1>1, <1>3

\* A session is set or forgotten, and a purge is seen by nobody.
LEMMA OthersAreList ==
  ASSUME LevelOK, NEW n \in Rows
  PROVE  /\ \A t \in Threads : SetThread(n, t) => LevelOK' /\ Lists!SetThread(n, t)
         /\ Reset(n) => LevelOK' /\ Lists!Reset(n)
         /\ Purge(n) => LevelOK' /\ UNCHANGED Shown /\ Lists!OthersStay(n)
<1>1. ASSUME NEW t \in Threads, SetThread(n, t) PROVE LevelOK' /\ Lists!SetThread(n, t)
  <2>1. OriginOK' /\ UNCHANGED <<key, removed, created>>
    BY <1>1 DEF SetThread, LevelOK, OriginOK
  <2>2. LevelOK' /\ Shown' = Shown
    BY <2>1, LeavesOrder
  <2>3. Lists!Listed(n)
    BY <1>1, ListedIsLive DEF SetThread
  <2> QED BY <1>1, <2>2, <2>3 DEF SetThread, Lists!SetThread
<1>2. ASSUME Reset(n) PROVE LevelOK' /\ Lists!Reset(n)
  <2>1. OriginOK' /\ UNCHANGED <<key, removed, created>>
    BY <1>2, Forgets DEF Reset, LevelOK, OriginOK
  <2>2. LevelOK' /\ Shown' = Shown
    BY <2>1, LeavesOrder
  <2>3. Lists!Listed(n)
    BY <1>2, ListedIsLive DEF Reset
  <2> QED BY <1>2, <2>2, <2>3 DEF Reset, Forget, Lists!Reset
<1>3. ASSUME Purge(n) PROVE LevelOK' /\ UNCHANGED Shown /\ Lists!OthersStay(n)
  <2> DEFINE sources == [m \in Rows |-> IF from[m] = n THEN None ELSE from[m]]
  <2>1. sources \in [Rows -> Rows \cup {None}]
    BY DEF LevelOK, OriginOK
  <2>2. Forget(n, sources)
    BY <1>3 DEF Purge
  <2> HIDE DEF sources
  <2>3. OriginOK' /\ Lists!OthersStay(n)
    BY <2>1, <2>2, Forgets DEF LevelOK
  <2>4. UNCHANGED <<key, created>> /\ removed' = [m \in DOMAIN removed \ {n} |-> removed[m]]
    BY <1>3 DEF Purge
  <2>5. LevelOK' /\ Shown' = Shown
    BY <2>3, <2>4, LeavesOrder
  <2> QED BY <2>3, <2>5
<1> QED BY <1>1, <1>2, <1>3

\* Every step keeps the level in order.
LEMMA LevelStep ==
  ASSUME LevelOK, [LevelNext]_levelVars
  PROVE  LevelOK'
<1>1. ASSUME NEW index \in 1..Len(Siblings) + 1, Create(index) PROVE LevelOK'
  BY <1>1, CreateIsList
<1>2. ASSUME NEW n \in Rows, Fork(n) PROVE LevelOK'
  BY <1>2, ForkIsList
<1>3. ASSUME NEW n \in Rows, Leave(n) \/ Delete(n) PROVE LevelOK'
  BY <1>3, DeleteIsList
<1>4. ASSUME NEW n \in Rows, RestoreRow(n) PROVE LevelOK'
  BY <1>4, RestoreIsList
<1>5. ASSUME NEW n \in Rows, Purge(n) \/ Reset(n) PROVE LevelOK'
  BY <1>5, OthersAreList
<1>6. ASSUME NEW n \in Rows, NEW t \in Threads, SetThread(n, t) PROVE LevelOK'
  BY <1>6, OthersAreList
<1>7. ASSUME NEW n \in Rows, NEW index \in DOMAIN Siblings, Move(n, index) PROVE LevelOK'
  BY <1>7, MoveIsList
<1>8. CASE UNCHANGED levelVars
  <2>1. UNCHANGED <<key, removed, created>> /\ OriginOK'
    BY <1>8 DEF levelVars, origin, LevelOK, OriginOK
  <2> QED BY <2>1, LeavesOrder
<1> QED BY <1>1, <1>2, <1>3, <1>4, <1>5, <1>6, <1>7, <1>8 DEF LevelNext

\* Every step is one of the list.
LEMMA LevelActsLikeList ==
  ASSUME LevelOK, KeysDiffer
  PROVE  StepsLikeList
<1>1. Shown = Siblings
  BY LevelFacts
<1>2. ASSUME NEW index \in 1..Len(Shown) + 1, Create(index)
      PROVE  IF index = Len(Shown) + 1 THEN Lists!Add(created') ELSE Lists!Enter(created', index)
  BY <1>1, <1>2, CreateIsList
<1>3. ASSUME NEW n \in Rows
      PROVE  /\ Fork(n) => LandsBelow(n) /\ (SameForks(n) => Lists!Fork(n, created'))
             /\ \A place \in DOMAIN Shown : Move(n, place) => Lists!MoveTo(n, place)
             /\ Delete(n) \/ Leave(n) => Lists!Delete(n)
             /\ RestoreRow(n) => \E place \in 1..Len(Shown) + 1 : Lists!Enter(n, place)
             /\ \A t \in Threads : SetThread(n, t) => Lists!SetThread(n, t)
             /\ Reset(n) => Lists!Reset(n)
             /\ Purge(n) => UNCHANGED Shown /\ Lists!OthersStay(n)
  <2>1. Fork(n) => LandsBelow(n) /\ (SameForks(n) => Lists!Fork(n, created'))
    BY ForkIsList
  <2>2. \A place \in DOMAIN Shown : Move(n, place) => Lists!MoveTo(n, place)
    BY <1>1, MoveIsList
  <2>3. Delete(n) \/ Leave(n) => Lists!Delete(n)
    BY DeleteIsList
  <2>4. RestoreRow(n) => \E place \in 1..Len(Shown) + 1 : Lists!Enter(n, place)
    BY RestoreIsList
  <2>5. /\ \A t \in Threads : SetThread(n, t) => Lists!SetThread(n, t)
        /\ Reset(n) => Lists!Reset(n)
        /\ Purge(n) => UNCHANGED Shown /\ Lists!OthersStay(n)
    BY OthersAreList
  <2> QED BY <2>1, <2>2, <2>3, <2>4, <2>5
<1> QED BY <1>2, <1>3 DEF StepsLikeList

\* No step turns two rows round that it does not move.
LEMMA LevelKeepsOrder ==
  ASSUME LevelOK, LevelNext
  PROVE  RowsKeepTheirOrder
<1> SUFFICES ASSUME NEW l \in DOMAIN key \cap DOMAIN key', NEW m \in DOMAIN key \cap DOMAIN key',
                    Less(key[l], key[m])
             PROVE  \/ Less(key'[l], key'[m])
                    \/ \E place \in DOMAIN Siblings : Move(l, place) \/ Move(m, place)
  BY DEF RowsKeepTheirOrder
<1>1. ASSUME NEW index \in 1..Len(Siblings) + 1, Create(index) PROVE Less(key'[l], key'[m])
  BY <1>1, CreateIsList
<1>2. ASSUME NEW n \in Rows, Fork(n) PROVE Less(key'[l], key'[m])
  BY <1>2, ForkIsList
<1>3. ASSUME NEW n \in Rows, Leave(n) \/ Delete(n) PROVE Less(key'[l], key'[m])
  <2>1. PICK k : k = key'
    OBVIOUS
  <2>2. k = [h \in DOMAIN key \ {n} |-> key[h]]
    BY <1>3, <2>1 DEF Leave, Delete
  <2>3. k[l] = key[l] /\ k[m] = key[m]
    BY <2>1, <2>2
  <2> QED BY <2>1, <2>3
<1>4. ASSUME NEW n \in Rows, RestoreRow(n) PROVE Less(key'[l], key'[m])
  <2>1. PICK k : k = key'
    OBVIOUS
  <2>2. /\ k = [h \in DOMAIN key \cup {n} |-> IF h = n THEN removed[n] ELSE key[h]]
        /\ n \notin DOMAIN key
    BY <1>4, <2>1 DEF RestoreRow, LevelOK
  <2>3. k[l] = key[l] /\ k[m] = key[m]
    BY <2>2
  <2> QED BY <2>1, <2>3
<1>5. ASSUME NEW n \in Rows, Purge(n) \/ Reset(n) \/ \E t \in Threads : SetThread(n, t)
      PROVE  Less(key'[l], key'[m])
  BY <1>5 DEF Purge, Reset, SetThread
<1>6. ASSUME NEW n \in Rows, NEW index \in DOMAIN Siblings, Move(n, index)
      PROVE  \/ Less(key'[l], key'[m])
             \/ \E place \in DOMAIN Siblings : Move(l, place) \/ Move(m, place)
  <2>1. CASE l = n \/ m = n
    BY <1>6, <2>1
  <2>2. CASE l # n /\ m # n
    BY <1>6, <2>2, MovesRow
  <2> QED BY <2>1, <2>2
<1> QED BY <1>1, <1>2, <1>3, <1>4, <1>5, <1>6 DEF LevelNext

\* The level is always in order.
LEMMA LevelInvariant == LevelSpec => []LevelOK
<1>1. LevelInit => LevelOK
  BY LevelStart
<1>2. LevelOK /\ [LevelNext]_levelVars => LevelOK'
  BY LevelStep
<1> QED BY <1>1, <1>2, PTL DEF LevelSpec

\* Whatever is created, forked, moved, deleted and restored, and in whatever order, every
\* sort key stays one: digits of the base, no more than there is room for, the last not zero.
THEOREM LevelTypeCorrect == LevelSpec => []LevelTypeOK
<1>1. LevelOK => LevelTypeOK
  BY DEF LevelOK, OriginOK, LevelTypeOK, GoodKeys, Good
<1> QED BY <1>1, LevelInvariant, PTL

\* The keys of place() do what a list does, for any number of rows, base, width of a key and
\* length at which a level is renumbered: as long as no restored row shares its key with
\* another, a reader sees a row exactly where it was put, at the end, below its source and
\* its forks or between two others, and no other row changes its place; and even then two
\* rows with different keys change places only if one of them is moved.
THEOREM KeysImplementLists == LevelSpec => ImplementsLists
<1>1. LevelInit => Lists!Empty
  BY LevelStart
<1>2. LevelOK /\ LevelNext => (KeysDiffer => StepsLikeList) /\ RowsKeepTheirOrder
  BY LevelActsLikeList, LevelKeepsOrder
<1>3. LevelOK /\ [LevelNext]_levelVars => [(KeysDiffer => StepsLikeList) /\ RowsKeepTheirOrder]_levelVars
  BY <1>2
<1> QED BY <1>1, <1>3, LevelInvariant, PTL DEF LevelSpec, ImplementsLists

=============================================================================
