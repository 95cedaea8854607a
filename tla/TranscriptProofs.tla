-------------------------- MODULE TranscriptProofs --------------------------
(***************************************************************************)
(* Messages, their index and their pages, for any number of conversations, *)
(* messages and deletions, and pages of any size.                          *)
(***************************************************************************)
EXTENDS Transcript, FiniteSetTheorems, WellFoundedInduction, TLAPS

-----------------------------------------------------------------------------
(* Numbers. *)

\* A set of numbers that has a bound has a greatest.
LEMMA Greatest ==
  ASSUME NEW S \in SUBSET Nat, S # {}, NEW b \in Nat, \A s \in S : s <= b
  PROVE  Max(S) \in S /\ \A s \in S : s <= Max(S)
<1> DEFINE R == OpToRel(<, Nat)
           T == {b - s : s \in S}
<1>1. IsWellFoundedOn(R, Nat)
  BY NatLessThanWellFounded
<1>2. \A m, n \in Nat : m < n => <<m, n>> \in R
  BY DEF OpToRel
<1>3. T # {} /\ T \subseteq Nat
  <2>1. \A s \in S : b - s \in Nat
    OBVIOUS
  <2> QED BY <2>1
<1> HIDE DEF R
<1>4. PICK n \in T : \A m \in T : ~ (<<m, n>> \in R)
  <2> HIDE DEF T
  <2> QED BY <1>1, <1>3, WFMin
<1>5. PICK x \in S : n = b - x
  BY <1>4
<1>6. ASSUME NEW s \in S PROVE x >= s
  <2>1. b - s \in T /\ b - s \in Nat /\ n \in Nat
    BY <1>3, <1>4
  <2>2. ~(b - s < n)
    BY <1>2, <1>4, <2>1
  <2> QED BY <1>5, <2>1, <2>2
<1>7. \E y \in S : \A s \in S : y >= s
  BY <1>6
<1>8. Max(S) \in S /\ \A s \in S : Max(S) >= s
  BY <1>7 DEF Max
<1> QED BY <1>8

\* How many members of S come before x.
Before(S, f, x) == Cardinality({y \in S : f[y] < f[x]})

\* Members are counted apart: each has as many before it as its place says.
LEMMA CountsAreApart ==
  ASSUME NEW S, IsFiniteSet(S), NEW f \in [S -> Nat], \A x, y \in S : f[x] = f[y] => x = y
  PROVE  /\ \A x \in S : Before(S, f, x) \in 0..(Cardinality(S) - 1)
         /\ \A x, y \in S : f[x] < f[y] => Before(S, f, x) < Before(S, f, y)
         /\ Cardinality(S) \in Nat
<1> DEFINE B == [x \in S |-> {y \in S : f[y] < f[x]}]
<1>1. Cardinality(S) \in Nat
  BY FS_CardinalityType
<1>2. \A x \in S : B[x] \subseteq S /\ x \notin B[x] /\ Before(S, f, x) = Cardinality(B[x])
  BY DEF Before
<1>3. ASSUME NEW x \in S, NEW y \in S, f[x] < f[y] PROVE B[x] \cup {x} \subseteq B[y]
  <2>1. \A z \in S : f[z] \in Nat
    OBVIOUS
  <2>2. \A z \in B[x] : z \in S /\ f[z] < f[y]
    BY <1>3, <2>1
  <2> QED BY <1>3, <2>2
<1> HIDE DEF B
<1>4. ASSUME NEW T \in SUBSET S
      PROVE  IsFiniteSet(T) /\ Cardinality(T) \in Nat /\ Cardinality(T) <= Cardinality(S)
  BY FS_Subset, FS_CardinalityType
<1>5. ASSUME NEW x \in S, NEW T \in SUBSET S, B[x] \cup {x} \subseteq T
      PROVE  Cardinality(B[x]) + 1 <= Cardinality(T) /\ Cardinality(B[x]) \in Nat /\ Cardinality(T) \in Nat
  <2>1. IsFiniteSet(B[x]) /\ Cardinality(B[x]) \in Nat /\ IsFiniteSet(T) /\ Cardinality(T) \in Nat
    BY <1>2, <1>4
  <2>2. Cardinality(B[x] \cup {x}) = Cardinality(B[x]) + 1
    BY <1>2, <2>1, FS_AddElement
  <2>3. Cardinality(B[x] \cup {x}) <= Cardinality(T)
    BY <1>5, <2>1, FS_Subset
  <2> QED BY <2>1, <2>2, <2>3
<1>6. ASSUME NEW x \in S PROVE Before(S, f, x) \in 0..(Cardinality(S) - 1)
  <2>1. B[x] \cup {x} \subseteq S
    BY <1>2
  <2> QED BY <1>1, <1>2, <1>5, <2>1
<1>7. ASSUME NEW x \in S, NEW y \in S, f[x] < f[y] PROVE Before(S, f, x) < Before(S, f, y)
  <2>1. B[x] \cup {x} \subseteq B[y] /\ B[y] \in SUBSET S
    BY <1>2, <1>3, <1>7
  <2> QED BY <1>2, <1>5, <2>1
<1> QED BY <1>1, <1>6, <1>7

\* The members with fewer than k before them are the first k, or all there are.
LEMMA FirstOnes ==
  ASSUME NEW S, IsFiniteSet(S), NEW f \in [S -> Nat], \A x, y \in S : f[x] = f[y] => x = y,
         NEW k \in Nat
  PROVE  LET first == {x \in S : Before(S, f, x) < k} IN
         /\ Cardinality(first) # k => first = S
         /\ \A x \in first, y \in S \ first : f[x] < f[y]
<1> DEFINE n == Cardinality(S)
           first == {x \in S : Before(S, f, x) < k}
           r == [x \in S |-> Before(S, f, x)]
<1>1. /\ \A x \in S : r[x] = Before(S, f, x) /\ r[x] \in 0..(n - 1)
      /\ \A x, y \in S : f[x] < f[y] => r[x] < r[y]
      /\ n \in Nat
  BY CountsAreApart
<1>2. \A x \in S : f[x] \in Nat
  OBVIOUS
<1>3. first = {x \in S : r[x] < k} /\ DOMAIN r = S
  BY <1>1
<1> HIDE DEF n, first
<1>4. \A x, y \in S : r[x] = r[y] => x = y
  <2> SUFFICES ASSUME NEW x \in S, NEW y \in S, x # y PROVE r[x] # r[y]
    OBVIOUS
  <2>1. f[x] < f[y] \/ f[y] < f[x]
    BY <1>2
  <2>2. r[x] \in Nat /\ r[y] \in Nat
    BY <1>1
  <2> HIDE DEF r
  <2> QED BY <1>1, <2>1, <2>2
<1>5. \A i \in 0..(n - 1) : \E x \in S : r[x] = i
  <2>1. r \in Injection(S, 0..(n - 1))
    BY <1>1, <1>4 DEF Injection, IsInjective
  <2>2. IsFiniteSet(0..(n - 1)) /\ Cardinality(0..(n - 1)) = n
    BY <1>1, FS_Interval
  <2> HIDE DEF r
  <2>3. r \in Surjection(S, 0..(n - 1))
    BY <2>1, <2>2, FS_Injection DEF n
  <2> QED BY <2>3 DEF Surjection
<1> HIDE DEF r
<1>6. ASSUME first # S PROVE Cardinality(first) = k
  <2>1. PICK x \in S : r[x] >= k
    BY <1>1, <1>3, <1>6
  <2>2. k <= n - 1
    BY <1>1, <2>1
  <2> DEFINE g == [y \in first |-> r[y]]
  <2>3. \A y \in first : y \in S /\ g[y] = r[y] /\ g[y] \in 0..(k - 1)
    BY <1>1, <1>3
  <2>4. DOMAIN g = first
    OBVIOUS
  <2>5. \A i \in 0..(k - 1) : \E y \in first : g[y] = i
    <3> SUFFICES ASSUME NEW i \in 0..(k - 1) PROVE \E y \in first : g[y] = i
      OBVIOUS
    <3>1. i \in 0..(n - 1) /\ i < k
      BY <1>1, <2>2
    <3>2. PICK y \in S : r[y] = i
      BY <1>5, <3>1
    <3> QED BY <1>3, <3>1, <3>2
  <2>6. \A y, z \in first : g[y] = g[z] => y = z
    BY <1>4, <2>3
  <2>7. g \in [first -> 0..(k - 1)]
    BY <2>3
  <2> HIDE DEF g
  <2>8. g \in Bijection(first, 0..(k - 1))
    BY <2>4, <2>5, <2>6, <2>7 DEF Bijection, Injection, Surjection, IsInjective
  <2>9. IsFiniteSet(first)
    BY <1>3, FS_Subset
  <2>10. Cardinality(0..(k - 1)) = Cardinality(first)
    BY <2>8, <2>9, FS_Bijection DEF ExistsBijection
  <2>11. Cardinality(0..(k - 1)) = k
    BY FS_Interval
  <2> QED BY <2>10, <2>11
<1>7. ASSUME NEW x \in first, NEW y \in S \ first PROVE f[x] < f[y]
  <2>1. x \in S /\ y \in S /\ r[x] < k /\ ~(r[y] < k) /\ r[x] \in Nat /\ r[y] \in Nat
    BY <1>1, <1>3
  <2>2. ~(f[y] < f[x]) /\ f[y] # f[x]
    BY <1>1, <2>1
  <2> QED BY <1>2, <2>1, <2>2
<1> QED BY <1>6, <1>7 DEF first

-----------------------------------------------------------------------------
(* The tables. *)

ConvsAreRows ==
  /\ conv = [c \in DOMAIN conv |-> conv[c]]
  /\ DOMAIN conv \subseteq Conversations
  /\ \A c \in DOMAIN conv : conv[c] \in ConvRows

\* A message belongs to a conversation that exists, and to a live one while it lives.
MessagesAreRows ==
  /\ rows = [m \in DOMAIN rows |-> rows[m]]
  /\ DOMAIN rows \subseteq Messages
  /\ \A m \in DOMAIN rows :
       rows[m] \in Rows /\ rows[m].conv \in DOMAIN conv /\ (Live(m) => LiveConv(rows[m].conv))

\* Not even a deleted message gives its number to another.
NumbersAreDistinct ==
  \A m, n \in DOMAIN rows : rows[m].conv = rows[n].conv /\ rows[m].no = rows[n].no => m = n

Tables == ConvsAreRows /\ MessagesAreRows /\ NumbersAreDistinct /\ RestoreIsExact

\* The next number is greater than any in use.
LEMMA NextIsGreater ==
  ASSUME Tables, NEW c
  PROVE  NextNo(c) \in Nat \ {0} /\ \A m \in RowsOf(c) : rows[m].no < NextNo(c)
<1> DEFINE S == {0} \cup {rows[m].no : m \in RowsOf(c)}
<1>1. \A m \in RowsOf(c) : rows[m].no \in 1..MaxNo
  BY DEF RowsOf, Tables, MessagesAreRows, Rows
<1>2. MaxNo \in Nat
  BY BoundsAssumption
<1>3. S \in SUBSET Nat /\ S # {} /\ \A s \in S : s <= MaxNo
  BY <1>1, <1>2
<1>4. \A m \in RowsOf(c) : rows[m].no \in S
  OBVIOUS
<1>5. NextNo(c) = 1 + Max(S)
  BY DEF NextNo
<1> HIDE DEF S
<1>6. Max(S) \in S /\ \A s \in S : s <= Max(S)
  BY <1>2, <1>3, Greatest
<1>7. Max(S) \in Nat
  BY <1>3, <1>6
<1>8. \A m \in RowsOf(c) : rows[m].no <= Max(S) /\ rows[m].no \in Nat
  BY <1>1, <1>4, <1>6
<1> QED BY <1>5, <1>7, <1>8

\* A step that only rewrites texts.
LEMMA Rewritten ==
  ASSUME Tables, UNCHANGED conv,
         rows' = [m \in DOMAIN rows |-> rows'[m]],
         \A m \in DOMAIN rows :
           /\ rows'[m] \in Rows
           /\ rows'[m].conv = rows[m].conv /\ rows'[m].no = rows[m].no
           /\ rows'[m].deleted = rows[m].deleted
  PROVE  Tables'
<1>1. DOMAIN rows' = DOMAIN rows
  OBVIOUS
<1>2. \A m, c : (Live(m)' <=> Live(m)) /\ (LiveConv(c)' <=> LiveConv(c))
  BY <1>1 DEF Live, LiveConv
<1>3. ConvsAreRows'
  BY DEF Tables, ConvsAreRows
<1>4. MessagesAreRows'
  BY <1>1, <1>2 DEF Tables, MessagesAreRows
<1>5. NumbersAreDistinct'
  BY <1>1 DEF Tables, NumbersAreDistinct
<1>6. RestoreIsExact'
  BY <1>1, <1>2 DEF Tables, RestoreIsExact, RowsOf
<1> QED BY <1>3, <1>4, <1>5, <1>6 DEF Tables

\* A step that adds a message to a live conversation.
LEMMA Added ==
  ASSUME Tables, UNCHANGED conv, NEW c, LiveConv(c), NEW m \in Messages \ DOMAIN rows,
         rows' = [n \in DOMAIN rows \cup {m} |-> rows'[n]],
         rows'[m] \in Rows, rows'[m].conv = c, rows'[m].no = NextNo(c), rows'[m].deleted = None,
         \A n \in DOMAIN rows :
           /\ rows'[n] \in Rows
           /\ rows'[n].conv = rows[n].conv /\ rows'[n].no = rows[n].no
           /\ rows'[n].deleted = rows[n].deleted
  PROVE  Tables'
<1>1. DOMAIN rows' = DOMAIN rows \cup {m}
  OBVIOUS
<1>2. \A d : LiveConv(d)' <=> LiveConv(d)
  BY DEF LiveConv
<1>3. \A n \in DOMAIN rows : Live(n)' <=> Live(n)
  BY <1>1 DEF Live
<1>4. ConvsAreRows'
  BY DEF Tables, ConvsAreRows
<1>5. MessagesAreRows'
  BY <1>1, <1>2, <1>3 DEF Tables, MessagesAreRows, LiveConv
<1>6. NumbersAreDistinct'
  <2>1. ASSUME NEW n \in DOMAIN rows, rows[n].conv = c PROVE rows[n].no # NextNo(c)
    <3>1. n \in RowsOf(c)
      BY <2>1 DEF RowsOf
    <3>2. rows[n].no < NextNo(c) /\ NextNo(c) \in Nat
      BY <3>1, NextIsGreater
    <3>3. rows[n].no \in Nat
      BY DEF Tables, MessagesAreRows, Rows
    <3> QED BY <3>2, <3>3
  <2> QED BY <1>1, <2>1 DEF Tables, NumbersAreDistinct
<1>7. RestoreIsExact'
  <2> SUFFICES ASSUME NEW d \in DOMAIN conv, ~LiveConv(d)
      PROVE  {n \in DOMAIN rows' : rows'[n].conv = d /\ rows'[n].deleted = conv[d].deleted} = conv[d].took
    BY <1>2 DEF RestoreIsExact, RowsOf
  <2>1. d # c
    OBVIOUS
  <2>2. {n \in DOMAIN rows : rows[n].conv = d /\ rows[n].deleted = conv[d].deleted} = conv[d].took
    BY DEF Tables, RestoreIsExact, RowsOf
  <2> QED BY <1>1, <2>1, <2>2
<1> QED BY <1>4, <1>5, <1>6, <1>7 DEF Tables

LEMMA AppendKeeps ==
  ASSUME Tables, NEW c \in Conversations, NEW m \in Messages, NEW text \in 0..MaxText,
         NEW closed \in {"open", "completed"}, AppendMessage(c, m, text, closed)
  PROVE  Tables'
<1> DEFINE row == NewRow(c, text, closed)
<1>1. /\ LiveConv(c) /\ m \notin DOMAIN rows /\ NextNo(c) <= MaxNo /\ UNCHANGED conv
      /\ rows' = [n \in DOMAIN rows \cup {m} |-> IF n = m THEN row ELSE rows[n]]
  BY DEF AppendMessage, NewMessage, Put
<1>2. NextNo(c) \in 1..MaxNo
  BY <1>1, NextIsGreater, BoundsAssumption
<1>3. row \in Rows /\ row.conv = c /\ row.no = NextNo(c) /\ row.deleted = None
  BY <1>2 DEF NewRow, Rows
<1> HIDE DEF row
<1>4. \A n \in DOMAIN rows : rows'[n] = rows[n] /\ rows[n] \in Rows
  BY <1>1 DEF Tables, MessagesAreRows
<1>5. rows'[m] = row /\ rows' = [n \in DOMAIN rows \cup {m} |-> rows'[n]]
  BY <1>1
<1> QED BY <1>1, <1>3, <1>4, <1>5, Added

LEMMA CancelKeeps ==
  ASSUME Tables, NEW c \in Conversations, NEW m \in Messages, CancelTurn(c, m)
  PROVE  Tables'
<1> DEFINE row == NewRow(c, 1, "completed")
           next(n) == IF n = m THEN row
                      ELSE IF n \in LiveRows(c) /\ rows[n].closed = "open"
                        THEN [rows[n] EXCEPT !.closed = "late"] ELSE rows[n]
<1>1. /\ LiveConv(c) /\ m \notin DOMAIN rows /\ NextNo(c) <= MaxNo /\ UNCHANGED conv
      /\ rows' = [n \in DOMAIN rows \cup {m} |-> next(n)]
  BY DEF CancelTurn, NewMessage
<1>2. NextNo(c) \in 1..MaxNo /\ 1 \in 0..MaxText
  BY <1>1, NextIsGreater, BoundsAssumption
<1>3. row \in Rows /\ row.conv = c /\ row.no = NextNo(c) /\ row.deleted = None
  BY <1>2 DEF NewRow, Rows
<1>4. next(m) = row
  OBVIOUS
<1> HIDE DEF row
<1>5. ASSUME NEW n \in DOMAIN rows
      PROVE  /\ next(n) \in Rows /\ next(n).conv = rows[n].conv /\ next(n).no = rows[n].no
             /\ next(n).deleted = rows[n].deleted
  <2>1. rows[n] \in Rows /\ n # m
    BY <1>1 DEF Tables, MessagesAreRows
  <2> QED BY <2>1 DEF Rows
<1> HIDE DEF next
<1>6. rows' = [n \in DOMAIN rows \cup {m} |-> rows'[n]] /\ rows'[m] = row
      /\ \A n \in DOMAIN rows : rows'[n] = next(n)
  BY <1>1, <1>4
<1> QED BY <1>1, <1>3, <1>5, <1>6, Added

LEMMA DeltaKeeps ==
  ASSUME Tables, NEW m \in Messages, AppendDelta(m)
  PROVE  Tables'
<1> DEFINE row == [rows[m] EXCEPT !.text = rows[m].text + 1,
                                  !.closed = IF rows[m].closed = "open" THEN rows[m].closed ELSE "late"]
<1>1. m \in DOMAIN rows /\ rows[m].text < MaxText /\ UNCHANGED conv /\ rows[m] \in Rows
  BY DEF AppendDelta, Live, Tables, MessagesAreRows
<1>2. rows' = [rows EXCEPT ![m] = row]
  BY DEF AppendDelta
<1>3. rows[m].text + 1 \in 0..MaxText
  BY <1>1, BoundsAssumption DEF Rows
<1>4. row \in Rows /\ row.conv = rows[m].conv /\ row.no = rows[m].no /\ row.deleted = rows[m].deleted
  BY <1>1, <1>3 DEF Rows
<1> HIDE DEF row
<1>5. rows' = [n \in DOMAIN rows |-> IF n = m THEN row ELSE rows[n]]
  BY <1>2 DEF Tables, MessagesAreRows
<1>6. \A n \in DOMAIN rows : rows[n] \in Rows
  BY DEF Tables, MessagesAreRows
<1>7. rows' = [n \in DOMAIN rows |-> rows'[n]] /\ \A n \in DOMAIN rows : rows'[n] = IF n = m THEN row ELSE rows[n]
  BY <1>5
<1> QED BY <1>1, <1>4, <1>6, <1>7, Rewritten

LEMMA CompleteKeeps ==
  ASSUME Tables, NEW m \in Messages, NEW text \in 0..MaxText, Complete(m, text)
  PROVE  Tables'
<1> DEFINE row == [rows[m] EXCEPT !.closed = "completed", !.text = text]
<1>1. m \in DOMAIN rows /\ UNCHANGED conv /\ rows[m] \in Rows
  BY DEF Complete, Live, Tables, MessagesAreRows
<1>2. rows' = [rows EXCEPT ![m] = row]
  BY DEF Complete
<1>3. row \in Rows /\ row.conv = rows[m].conv /\ row.no = rows[m].no /\ row.deleted = rows[m].deleted
  BY <1>1 DEF Rows
<1> HIDE DEF row
<1>4. rows' = [n \in DOMAIN rows |-> IF n = m THEN row ELSE rows[n]]
  BY <1>2 DEF Tables, MessagesAreRows
<1>5. \A n \in DOMAIN rows : rows[n] \in Rows
  BY DEF Tables, MessagesAreRows
<1>6. rows' = [n \in DOMAIN rows |-> rows'[n]] /\ \A n \in DOMAIN rows : rows'[n] = IF n = m THEN row ELSE rows[n]
  BY <1>4
<1> QED BY <1>1, <1>3, <1>5, <1>6, Rewritten

\* The messages M are deleted, together with their conversation or without it.
Deletes(M, s) ==
  /\ rows' = [m \in DOMAIN rows |-> rows'[m]]
  /\ \A m \in DOMAIN rows :
       /\ rows'[m] \in Rows /\ rows'[m].conv = rows[m].conv /\ rows'[m].no = rows[m].no
       /\ rows'[m].deleted = IF m \in M THEN s ELSE rows[m].deleted
       /\ rows'[m].text = rows[m].text /\ rows'[m].closed = rows[m].closed
  /\ \A m \in DOMAIN rows : Live(m)' <=> Live(m) /\ m \notin M
  /\ NumbersAreDistinct'
  /\ \A c \in DOMAIN conv : ~LiveConv(c) =>
       {m \in DOMAIN rows : rows'[m].conv = c /\ rows'[m].deleted = conv[c].deleted}
         = conv[c].took

LEMMA SoftDeleted ==
  ASSUME Tables, NEW M \in SUBSET DOMAIN rows, \A m \in M : Live(m),
         NEW s \in Stamps, NewStamp(s), rows' = SoftDelete(M, s)
  PROVE  Deletes(M, s)
<1> DEFINE next(m) == IF m \in M THEN [rows[m] EXCEPT !.deleted = s] ELSE rows[m]
<1>1. rows' = [m \in DOMAIN rows |-> next(m)]
  BY DEF SoftDelete
<1>2. ASSUME NEW m \in DOMAIN rows
      PROVE  /\ next(m) \in Rows /\ next(m).conv = rows[m].conv /\ next(m).no = rows[m].no
             /\ next(m).deleted = IF m \in M THEN s ELSE rows[m].deleted
             /\ next(m).text = rows[m].text /\ next(m).closed = rows[m].closed
  <2>1. rows[m] \in Rows
    BY DEF Tables, MessagesAreRows
  <2> QED BY <2>1 DEF Rows
<1> HIDE DEF next
<1>3. DOMAIN rows' = DOMAIN rows /\ \A m \in DOMAIN rows : rows'[m] = next(m)
  BY <1>1
<1>4. rows' = [m \in DOMAIN rows |-> rows'[m]]
  BY <1>1
<1>5. \A m \in DOMAIN rows : Live(m)' <=> Live(m) /\ m \notin M
  BY <1>2, <1>3, NoneAssumption DEF Live
<1>6. NumbersAreDistinct'
  BY <1>2, <1>3 DEF Tables, NumbersAreDistinct
<1>7. ASSUME NEW c \in DOMAIN conv, ~LiveConv(c)
      PROVE  {m \in DOMAIN rows : rows'[m].conv = c /\ rows'[m].deleted = conv[c].deleted} = conv[c].took
  <2>1. {m \in DOMAIN rows : rows[m].conv = c /\ rows[m].deleted = conv[c].deleted} = conv[c].took
    BY <1>7 DEF Tables, RestoreIsExact, RowsOf
  <2>2. conv[c].deleted # s /\ conv[c].deleted # None
    BY <1>7 DEF NewStamp, LiveConv
  <2>3. \A m \in M : rows[m].deleted = None
    BY DEF Live
  <2>4. ASSUME NEW m \in DOMAIN rows
        PROVE  rows'[m].deleted = conv[c].deleted <=> rows[m].deleted = conv[c].deleted
    BY <1>2, <1>3, <2>2, <2>3
  <2>5. \A m \in DOMAIN rows : rows'[m].conv = rows[m].conv
    BY <1>2, <1>3
  <2> QED BY <2>1, <2>4, <2>5
<1> QED BY <1>2, <1>3, <1>4, <1>5, <1>6, <1>7 DEF Deletes

LEMMA RemoveKeeps ==
  ASSUME Tables, NEW M \in SUBSET DOMAIN rows, \A m \in M : Live(m), NEW s \in Stamps, Remove(M, s)
  PROVE  Tables'
<1>1. NewStamp(s) /\ rows' = SoftDelete(M, s) /\ UNCHANGED conv
  BY DEF Remove
<1>2. /\ rows' = [m \in DOMAIN rows |-> rows'[m]]
      /\ \A m \in DOMAIN rows :
           /\ rows'[m] \in Rows /\ rows'[m].conv = rows[m].conv /\ rows'[m].no = rows[m].no
           /\ rows'[m].deleted = IF m \in M THEN s ELSE rows[m].deleted
      /\ \A m \in DOMAIN rows : Live(m)' <=> Live(m) /\ m \notin M
      /\ NumbersAreDistinct'
      /\ \A c \in DOMAIN conv : ~LiveConv(c) =>
           {m \in DOMAIN rows : rows'[m].conv = c /\ rows'[m].deleted = conv[c].deleted} = conv[c].took
  <2>1. Deletes(M, s)
    BY <1>1, SoftDeleted
  <2> QED BY <2>1 DEF Deletes
<1>3. DOMAIN rows' = DOMAIN rows /\ \A c : LiveConv(c)' <=> LiveConv(c)
  BY <1>1, <1>2 DEF LiveConv
<1>4. MessagesAreRows'
  BY <1>1, <1>2, <1>3 DEF Tables, MessagesAreRows
<1>5. ConvsAreRows'
  BY <1>1 DEF Tables, ConvsAreRows
<1>6. RestoreIsExact'
  BY <1>1, <1>2, <1>3 DEF RestoreIsExact, RowsOf
<1> QED BY <1>2, <1>4, <1>5, <1>6 DEF Tables

LEMMA DeleteConvKeeps ==
  ASSUME Tables, NEW c \in Conversations, NEW s \in Stamps, DeleteConversation(c, s)
  PROVE  Tables'
<1> DEFINE M == LiveRows(c)
           row == [conv[c] EXCEPT !.deleted = s, !.took = M]
<1>1. LiveConv(c) /\ NewStamp(s) /\ rows' = SoftDelete(M, s) /\ conv' = [conv EXCEPT ![c] = row]
  BY DEF DeleteConversation, Stamped
<1>2. M \in SUBSET DOMAIN rows /\ M \subseteq Messages /\ \A m \in M : Live(m)
  BY DEF LiveRows, Tables, MessagesAreRows
<1>3. \A m \in DOMAIN rows : m \in M <=> rows[m].conv = c /\ Live(m)
  BY DEF LiveRows
<1> HIDE DEF M
<1>4. c \in DOMAIN conv /\ conv[c] \in ConvRows
  BY <1>1 DEF LiveConv, Tables, ConvsAreRows
<1>5. row \in ConvRows /\ row.deleted = s /\ row.took = M
  BY <1>2, <1>4 DEF ConvRows
<1> HIDE DEF row
<1>6. conv' = [d \in DOMAIN conv |-> IF d = c THEN row ELSE conv[d]]
  BY <1>1 DEF Tables, ConvsAreRows
<1>7. /\ rows' = [m \in DOMAIN rows |-> rows'[m]]
      /\ \A m \in DOMAIN rows :
           /\ rows'[m] \in Rows /\ rows'[m].conv = rows[m].conv /\ rows'[m].no = rows[m].no
           /\ rows'[m].deleted = IF m \in M THEN s ELSE rows[m].deleted
      /\ \A m \in DOMAIN rows : Live(m)' <=> Live(m) /\ m \notin M
      /\ NumbersAreDistinct'
      /\ \A d \in DOMAIN conv : ~LiveConv(d) =>
           {m \in DOMAIN rows : rows'[m].conv = d /\ rows'[m].deleted = conv[d].deleted} = conv[d].took
  <2>1. Deletes(M, s)
    BY <1>1, <1>2, SoftDeleted
  <2> QED BY <2>1 DEF Deletes
<1>8. DOMAIN rows' = DOMAIN rows
  BY <1>7
<1>9. ConvsAreRows'
  BY <1>5, <1>6 DEF Tables, ConvsAreRows
<1>10. /\ DOMAIN conv' = DOMAIN conv /\ conv'[c] = row /\ \A d \in DOMAIN conv \ {c} : conv'[d] = conv[d]
       /\ ~LiveConv(c)' /\ \A d \in DOMAIN conv \ {c} : LiveConv(d)' <=> LiveConv(d)
  BY <1>4, <1>5, <1>6, NoneAssumption DEF LiveConv
<1>11. MessagesAreRows'
  BY <1>3, <1>7, <1>8, <1>10 DEF Tables, MessagesAreRows
<1>12. RestoreIsExact'
  <2> SUFFICES ASSUME NEW d \in DOMAIN conv, ~LiveConv(d)'
      PROVE  {m \in DOMAIN rows : rows'[m].conv = d /\ rows'[m].deleted = conv'[d].deleted} = conv'[d].took
    BY <1>8, <1>10 DEF RestoreIsExact, RowsOf
  <2>1. CASE d # c
    BY <1>7, <1>10, <2>1
  <2>2. CASE d = c
    <3>1. \A m \in DOMAIN rows : rows[m].deleted # s
      BY <1>1 DEF NewStamp
    <3>2. {m \in DOMAIN rows : rows'[m].conv = c /\ rows'[m].deleted = s} = M
      BY <1>2, <1>3, <1>7, <3>1
    <3> QED BY <1>5, <1>10, <2>2, <3>2
  <2> QED BY <2>1, <2>2
<1> QED BY <1>7, <1>9, <1>11, <1>12 DEF Tables

LEMMA CreateKeeps ==
  ASSUME Tables, NEW c \in Conversations, NEW p \in Projects, CreateConversation(c, p)
  PROVE  Tables'
<1> DEFINE row == [project |-> p, deleted |-> None, took |-> {}]
<1>1. /\ c \notin DOMAIN conv /\ UNCHANGED rows
      /\ conv' = [d \in DOMAIN conv \cup {c} |-> IF d = c THEN row ELSE conv[d]]
  BY DEF CreateConversation
<1>2. row \in ConvRows /\ row.deleted = None
  BY DEF ConvRows
<1> HIDE DEF row
<1>3. ConvsAreRows'
  BY <1>1, <1>2 DEF Tables, ConvsAreRows
<1>4. /\ DOMAIN conv' = DOMAIN conv \cup {c} /\ LiveConv(c)'
      /\ \A d \in DOMAIN conv : conv'[d] = conv[d] /\ (LiveConv(d)' <=> LiveConv(d))
      /\ \A m : Live(m)' <=> Live(m)
  BY <1>1, <1>2 DEF LiveConv, Live
<1>5. MessagesAreRows'
  BY <1>1, <1>4 DEF Tables, MessagesAreRows
<1>6. NumbersAreDistinct'
  BY <1>1 DEF Tables, NumbersAreDistinct
<1>7. RestoreIsExact'
  BY <1>1, <1>4 DEF Tables, RestoreIsExact, RowsOf
<1> QED BY <1>3, <1>5, <1>6, <1>7 DEF Tables

LEMMA MoveKeeps ==
  ASSUME Tables, NEW c \in Conversations, NEW p \in Projects, MoveConversation(c, p)
  PROVE  Tables'
<1> DEFINE row == [conv[c] EXCEPT !.project = p]
<1>1. LiveConv(c) /\ UNCHANGED rows /\ conv' = [conv EXCEPT ![c] = row]
  BY DEF MoveConversation
<1>2. c \in DOMAIN conv /\ conv[c] \in ConvRows
  BY <1>1 DEF LiveConv, Tables, ConvsAreRows
<1>3. row \in ConvRows /\ row.deleted = conv[c].deleted /\ row.took = conv[c].took
  BY <1>2 DEF ConvRows
<1> HIDE DEF row
<1>4. conv' = [d \in DOMAIN conv |-> IF d = c THEN row ELSE conv[d]]
  BY <1>1 DEF Tables, ConvsAreRows
<1>5. ConvsAreRows'
  BY <1>3, <1>4 DEF Tables, ConvsAreRows
<1>6. /\ DOMAIN conv' = DOMAIN conv
      /\ \A d \in DOMAIN conv : conv'[d].deleted = conv[d].deleted /\ conv'[d].took = conv[d].took
                                /\ (LiveConv(d)' <=> LiveConv(d))
      /\ \A m : Live(m)' <=> Live(m)
  BY <1>1, <1>3, <1>4 DEF LiveConv, Live
<1>7. MessagesAreRows'
  BY <1>1, <1>6 DEF Tables, MessagesAreRows
<1>8. NumbersAreDistinct'
  BY <1>1 DEF Tables, NumbersAreDistinct
<1>9. RestoreIsExact'
  BY <1>1, <1>6 DEF Tables, RestoreIsExact, RowsOf
<1> QED BY <1>5, <1>7, <1>8, <1>9 DEF Tables

LEMMA RestoreKeeps ==
  ASSUME Tables, NEW c \in Conversations, RestoreConversation(c)
  PROVE  Tables'
<1> DEFINE row == [conv[c] EXCEPT !.deleted = None, !.took = {}]
           back(m) == rows[m].conv = c /\ rows[m].deleted = conv[c].deleted
           next(m) == IF back(m) THEN [rows[m] EXCEPT !.deleted = None] ELSE rows[m]
<1>1. /\ c \in DOMAIN conv /\ ~LiveConv(c) /\ conv' = [conv EXCEPT ![c] = row]
      /\ rows' = [m \in DOMAIN rows |-> next(m)]
  BY DEF RestoreConversation
<1>2. row \in ConvRows /\ row.deleted = None
  BY <1>1 DEF Tables, ConvsAreRows, ConvRows
<1> HIDE DEF row
<1>3. conv' = [d \in DOMAIN conv |-> IF d = c THEN row ELSE conv[d]]
  BY <1>1 DEF Tables, ConvsAreRows
<1>4. ConvsAreRows'
  BY <1>2, <1>3 DEF Tables, ConvsAreRows
<1>5. /\ DOMAIN conv' = DOMAIN conv /\ LiveConv(c)'
      /\ \A d \in DOMAIN conv \ {c} : conv'[d] = conv[d] /\ (LiveConv(d)' <=> LiveConv(d))
  BY <1>1, <1>2, <1>3 DEF LiveConv
<1>6. ASSUME NEW m \in DOMAIN rows
      PROVE  /\ next(m) \in Rows /\ next(m).conv = rows[m].conv /\ next(m).no = rows[m].no
             /\ next(m).deleted = IF back(m) THEN None ELSE rows[m].deleted
  <2>1. rows[m] \in Rows
    BY DEF Tables, MessagesAreRows
  <2> QED BY <2>1 DEF Rows
<1>7. \A m \in DOMAIN rows : rows[m].conv # c => next(m) = rows[m]
  OBVIOUS
<1> HIDE DEF next
<1>8. /\ DOMAIN rows' = DOMAIN rows /\ rows' = [m \in DOMAIN rows |-> rows'[m]]
      /\ \A m \in DOMAIN rows : rows'[m] = next(m)
  BY <1>1
<1>9. MessagesAreRows'
  <2>1. ASSUME NEW m \in DOMAIN rows, Live(m)', NEW d, d = rows[m].conv PROVE LiveConv(d)'
    <3>1. CASE d = c
      BY <1>5, <3>1
    <3>2. CASE d # c
      <4>1. Live(m)
        BY <1>7, <1>8, <2>1, <3>2 DEF Live
      <4>2. d \in DOMAIN conv /\ LiveConv(d)
        BY <2>1, <4>1 DEF Tables, MessagesAreRows
      <4> QED BY <1>5, <3>2, <4>2
    <3> QED BY <3>1, <3>2
  <2>2. \A m \in DOMAIN rows : rows'[m].conv = rows[m].conv
    BY <1>6, <1>8
  <2>3. \A m \in DOMAIN rows : Live(m)' => LiveConv(rows[m].conv)'
    BY <2>1, <2>2
  <2> QED BY <1>5, <1>6, <1>8, <2>3 DEF Tables, MessagesAreRows
<1>10. NumbersAreDistinct'
  BY <1>6, <1>8 DEF Tables, NumbersAreDistinct
<1>11. RestoreIsExact'
  <2> SUFFICES ASSUME NEW d \in DOMAIN conv, d # c, ~LiveConv(d)
      PROVE  {m \in DOMAIN rows : rows'[m].conv = d /\ rows'[m].deleted = conv[d].deleted} = conv[d].took
    BY <1>5, <1>8 DEF RestoreIsExact, RowsOf
  <2>1. {m \in DOMAIN rows : rows[m].conv = d /\ rows[m].deleted = conv[d].deleted} = conv[d].took
    BY DEF Tables, RestoreIsExact, RowsOf
  <2>2. ASSUME NEW m \in DOMAIN rows
        PROVE  rows'[m].conv = d /\ rows'[m].deleted = conv[d].deleted
                 <=> rows[m].conv = d /\ rows[m].deleted = conv[d].deleted
    BY <1>6, <1>7, <1>8
  <2> QED BY <2>1, <2>2
<1> QED BY <1>4, <1>9, <1>10, <1>11 DEF Tables

LEMMA PurgeKeeps ==
  ASSUME Tables, NEW old \in SUBSET Stamps, Purge(old)
  PROVE  Tables'
<1> DEFINE gone == {c \in DOMAIN conv : conv[c].deleted \in old}
           dead == {m \in DOMAIN rows : rows[m].deleted \in old \/ rows[m].conv \in gone}
<1>1. /\ conv' = [c \in DOMAIN conv \ gone |-> conv[c]]
      /\ rows' = [m \in DOMAIN rows \ dead |-> rows[m]]
  BY DEF Purge
<1>2. DOMAIN conv' = DOMAIN conv \ gone /\ DOMAIN rows' = DOMAIN rows \ dead
      /\ (\A c \in DOMAIN conv' : conv'[c] = conv[c]) /\ (\A m \in DOMAIN rows' : rows'[m] = rows[m])
  BY <1>1
<1>3. \A m \in DOMAIN rows' : rows[m].conv \in DOMAIN conv'
  BY <1>2 DEF Tables, MessagesAreRows
<1>4. ConvsAreRows'
  BY <1>1, <1>2 DEF Tables, ConvsAreRows
<1>5. MessagesAreRows'
  <2>1. ASSUME NEW m \in DOMAIN rows', Live(m)', NEW c, c = rows[m].conv PROVE LiveConv(c)'
    <3>1. Live(m) /\ LiveConv(c) /\ c \in DOMAIN conv'
      BY <1>2, <1>3, <2>1 DEF Tables, MessagesAreRows, Live
    <3> QED BY <1>2, <3>1 DEF LiveConv
  <2>2. \A m \in DOMAIN rows' : rows'[m] = rows[m] /\ m \in Messages /\ rows[m] \in Rows
    BY <1>2 DEF Tables, MessagesAreRows
  <2>3. rows' = [m \in DOMAIN rows' |-> rows'[m]] /\ DOMAIN rows' \subseteq Messages
    BY <1>1, <2>2
  <2>4. \A m \in DOMAIN rows' : (Live(m) => LiveConv(rows[m].conv))'
    <3>1. \A m \in DOMAIN rows' : rows'[m].conv = rows[m].conv
      BY <2>2
    <3> QED BY <2>1, <3>1
  <2> QED BY <1>3, <2>2, <2>3, <2>4 DEF MessagesAreRows
<1>6. NumbersAreDistinct'
  BY <1>2 DEF Tables, NumbersAreDistinct
<1>7. RestoreIsExact'
  <2> SUFFICES ASSUME NEW c \in DOMAIN conv', ~LiveConv(c)
      PROVE  {m \in DOMAIN rows' : rows'[m].conv = c /\ rows'[m].deleted = conv[c].deleted} = conv[c].took
    BY <1>2 DEF RestoreIsExact, RowsOf, LiveConv
  <2>1. {m \in DOMAIN rows : rows[m].conv = c /\ rows[m].deleted = conv[c].deleted} = conv[c].took
    BY <1>2 DEF Tables, RestoreIsExact, RowsOf
  <2>2. conv[c].deleted \notin old /\ c \notin gone
    BY <1>2
  <2>3. \A m \in DOMAIN rows : rows[m].conv = c /\ rows[m].deleted = conv[c].deleted => m \in DOMAIN rows'
    BY <1>2, <2>2
  <2> QED BY <1>2, <2>1, <2>3
<1> QED BY <1>4, <1>5, <1>6, <1>7 DEF Tables

\* The live messages of a conversation are finitely many.
LEMMA LiveRowsAreFinite ==
  ASSUME Tables, NEW c
  PROVE  /\ IsFiniteSet(LiveRows(c)) /\ Cardinality(LiveRows(c)) \in Nat
         /\ \A m \in LiveRows(c) : m \in DOMAIN rows /\ rows[m].no \in Nat \ {0}
         /\ \A m, n \in LiveRows(c) : rows[m].no = rows[n].no => m = n
<1> DEFINE S == LiveRows(c)
           no == [m \in S |-> rows[m].no]
<1>1. \A m \in S : m \in DOMAIN rows /\ rows[m].conv = c /\ rows[m].no \in 1..MaxNo
  BY DEF LiveRows, Tables, MessagesAreRows, Rows
<1>2. MaxNo \in Nat
  BY BoundsAssumption
<1>3. \A m, n \in S : rows[m].no = rows[n].no => m = n
  BY <1>1 DEF Tables, NumbersAreDistinct
<1> HIDE DEF S
<1>4. no \in Injection(S, 1..MaxNo)
  BY <1>1, <1>3 DEF Injection, IsInjective
<1>5. IsFiniteSet(1..MaxNo)
  BY <1>2, FS_Interval
<1> HIDE DEF no
<1>6. IsFiniteSet(S)
  BY <1>4, <1>5, FS_Injection
<1>7. Cardinality(S) \in Nat
  BY <1>6, FS_CardinalityType
<1>8. \A m \in S : rows[m].no \in Nat \ {0}
  BY <1>1, <1>2
<1> QED BY <1>1, <1>3, <1>6, <1>7, <1>8 DEF S

\* A fork numbers its messages from 1.
LEMMA Places ==
  ASSUME Tables, NEW c
  PROVE  LET S == LiveRows(c)
             Place(m) == Cardinality({n \in S : rows[n].no <= rows[m].no})
         IN  /\ \A m \in S : Place(m) \in 1..Cardinality(S)
             /\ \A m, n \in S : Place(m) = Place(n) => m = n
<1> DEFINE S == LiveRows(c)
           Place(m) == Cardinality({n \in S : rows[n].no <= rows[m].no})
           no == [m \in S |-> rows[m].no]
<1>1. /\ IsFiniteSet(S) /\ Cardinality(S) \in Nat
      /\ \A m \in S : rows[m].no \in Nat
      /\ \A m, n \in S : rows[m].no = rows[n].no => m = n
  BY LiveRowsAreFinite
<1> HIDE DEF S
<1>2. no \in [S -> Nat] /\ \A m, n \in S : no[m] = no[n] => m = n
  BY <1>1
<1>3. \A m \in S : no[m] = rows[m].no /\ no[m] \in Nat
  BY <1>1
<1> HIDE DEF no
<1>4. /\ \A m \in S : Before(S, no, m) \in 0..(Cardinality(S) - 1)
      /\ \A m, n \in S : no[m] < no[n] => Before(S, no, m) < Before(S, no, n)
  BY <1>1, <1>2, CountsAreApart
<1>5. ASSUME NEW m \in S PROVE Place(m) = Before(S, no, m) + 1
  <2> DEFINE B == {n \in S : no[n] < no[m]}
             A == {n \in S : rows[n].no <= rows[m].no}
  <2>1. A = B \cup {m} /\ m \notin B /\ B \in SUBSET S
    BY <1>2, <1>3
  <2>2. Place(m) = Cardinality(A) /\ Before(S, no, m) = Cardinality(B)
    BY DEF Before
  <2> HIDE DEF A, B
  <2>3. IsFiniteSet(B)
    BY <1>1, <2>1, FS_Subset
  <2>4. Cardinality(B \cup {m}) = Cardinality(B) + 1
    BY <2>1, <2>3, FS_AddElement
  <2> QED BY <2>1, <2>2, <2>4
<1> HIDE DEF Place
<1>6. \A m \in S : Place(m) \in 1..Cardinality(S)
  BY <1>1, <1>4, <1>5
<1>7. ASSUME NEW m \in S, NEW n \in S, m # n PROVE Place(m) # Place(n)
  <2>1. no[m] < no[n] \/ no[n] < no[m]
    BY <1>2, <1>3, <1>7
  <2>2. Before(S, no, m) # Before(S, no, n)
    <3>1. Before(S, no, m) \in Nat /\ Before(S, no, n) \in Nat
      BY <1>1, <1>4
    <3> QED BY <1>4, <2>1, <3>1
  <2>3. Before(S, no, m) \in Nat /\ Before(S, no, n) \in Nat
    BY <1>1, <1>4
  <2> QED BY <1>5, <2>2, <2>3
<1> QED BY <1>6, <1>7 DEF S, Place

\* The messages N are new, and live in d with numbers of their own.
NewRows(N, d) ==
  /\ N \subseteq Messages /\ N \cap DOMAIN rows = {}
  /\ rows' = [n \in DOMAIN rows \cup N |-> rows'[n]]
  /\ \A n \in DOMAIN rows : rows'[n] = rows[n]
  /\ \A n \in N : rows'[n] \in Rows /\ rows'[n].conv = d /\ rows'[n].deleted = None
  /\ \A m, n \in N : rows'[m].no = rows'[n].no => m = n

\* What a fork adds: the copies and its note.
LEMMA ForkAdds ==
  ASSUME Tables, NEW c \in Conversations, NEW d \in Conversations, NEW note \in Messages,
         ForkConversation(c, d, note)
  PROVE  \E N : NewRows(N, d)
<1> DEFINE S == LiveRows(c)
           k == Cardinality(S)
           Place(m) == Cardinality({n \in S : rows[n].no <= rows[m].no})
<1>1. k \in Nat /\ k < MaxNo /\ MaxNo \in Nat /\ note \notin DOMAIN rows /\ 1 \in 0..MaxText
  <2>1. NewMessage(note) /\ k < MaxNo
    BY DEF ForkConversation
  <2> QED BY <2>1, LiveRowsAreFinite, BoundsAssumption DEF NewMessage
<1>2. /\ \A m \in S : Place(m) \in 1..k
      /\ \A m, n \in S : Place(m) = Place(n) => m = n
  BY Places
<1>3. \A m \in S : m \in DOMAIN rows /\ rows[m] \in Rows /\ rows[m].deleted = None
  BY DEF LiveRows, Live, Tables, MessagesAreRows
<1> DEFINE From(f, n) == CHOOSE m \in S : f[m] = n
           Copy(m) == [rows[m] EXCEPT !.conv = d, !.no = Place(m),
                         !.closed = IF rows[m].closed = "open" THEN rows[m].closed ELSE "completed"]
           Note == [NewRow(d, 1, "open") EXCEPT !.no = k + 1]
<1>4. PICK f \in Copies(S) :
        LET copy == {f[m] : m \in S} IN
        /\ note \notin copy
        /\ rows' = [n \in DOMAIN rows \cup copy \cup {note} |->
             IF n \in DOMAIN rows THEN rows[n]
             ELSE IF n \in copy THEN Copy(From(f, n)) ELSE Note]
  BY DEF ForkConversation
<1> DEFINE copy == {f[m] : m \in S}
           N == copy \cup {note}
<1>5. /\ note \notin copy
      /\ rows' = [n \in DOMAIN rows \cup copy \cup {note} |->
             IF n \in DOMAIN rows THEN rows[n]
             ELSE IF n \in copy THEN Copy(From(f, n)) ELSE Note]
  BY <1>4
<1>6. \A m \in S : f[m] \in Messages /\ f[m] \notin DOMAIN rows
  BY DEF Copies, NewMessage
<1>7. \A n \in copy : n \in Messages /\ n \notin DOMAIN rows
  BY <1>6
<1>8. \A n \in copy : From(f, n) \in S /\ f[From(f, n)] = n
  OBVIOUS
<1>9. ASSUME NEW m \in S
      PROVE  Copy(m) \in Rows /\ Copy(m).conv = d /\ Copy(m).deleted = None /\ Copy(m).no = Place(m)
  <2>1. Place(m) \in 1..MaxNo
    BY <1>1, <1>2
  <2> HIDE DEF Place
  <2> QED BY <1>3, <2>1 DEF Rows
<1>10. Note \in Rows /\ Note.conv = d /\ Note.deleted = None /\ Note.no = k + 1
  <2>1. k + 1 \in 1..MaxNo
    BY <1>1
  <2> HIDE DEF k
  <2> QED BY <1>1, <2>1 DEF Rows, NewRow
<1> HIDE DEF S, k, Place, Copy, From, Note, copy
<1>11. rows' = [n \in DOMAIN rows \cup N |-> rows'[n]]
  BY <1>5
<1>12. \A n \in DOMAIN rows : rows'[n] = rows[n]
  BY <1>5
<1>13. \A n \in copy : rows'[n] = Copy(From(f, n))
  BY <1>5, <1>7
<1>14. rows'[note] = Note
  BY <1>1, <1>5
<1>15. \A m, n \in copy : rows'[m].no = rows'[n].no => m = n
  <2>1. \A n \in copy : rows'[n].no = Place(From(f, n))
    BY <1>8, <1>9, <1>13
  <2> QED BY <1>2, <1>8, <2>1
<1>16. \A n \in copy : rows'[n].no # k + 1
  <2>1. \A n \in copy : rows'[n].no \in 1..k
    BY <1>2, <1>8, <1>9, <1>13
  <2> QED BY <1>1, <2>1
<1>17. \A m, n \in N : rows'[m].no = rows'[n].no => m = n
  BY <1>10, <1>14, <1>15, <1>16
<1>18. \A n \in N : rows'[n] \in Rows /\ rows'[n].conv = d /\ rows'[n].deleted = None
  BY <1>8, <1>9, <1>10, <1>13, <1>14
<1>19. N \subseteq Messages /\ N \cap DOMAIN rows = {}
  BY <1>1, <1>7
<1> HIDE DEF N
<1>20. NewRows(N, d)
  BY <1>11, <1>12, <1>17, <1>18, <1>19 DEF NewRows
<1> QED BY <1>20

LEMMA ForkKeeps ==
  ASSUME Tables, NEW c \in Conversations, NEW d \in Conversations, NEW note \in Messages,
         ForkConversation(c, d, note)
  PROVE  Tables'
<1> DEFINE row == [project |-> conv[c].project, deleted |-> None, took |-> {}]
<1>1. LiveConv(c) /\ d \notin DOMAIN conv /\ conv' = [e \in DOMAIN conv \cup {d} |-> IF e = d THEN row ELSE conv[e]]
  BY DEF ForkConversation
<1>2. row \in ConvRows /\ row.deleted = None
  BY <1>1 DEF ConvRows, LiveConv, Tables, ConvsAreRows
<1> HIDE DEF row
<1>3. ConvsAreRows'
  BY <1>1, <1>2 DEF Tables, ConvsAreRows
<1>4. /\ DOMAIN conv' = DOMAIN conv \cup {d} /\ LiveConv(d)'
      /\ \A e \in DOMAIN conv : conv'[e] = conv[e] /\ (LiveConv(e)' <=> LiveConv(e))
  BY <1>1, <1>2 DEF LiveConv
<1>5. PICK N : NewRows(N, d)
  BY ForkAdds
<1>6. /\ DOMAIN rows' = DOMAIN rows \cup N /\ rows' = [n \in DOMAIN rows' |-> rows'[n]]
      /\ \A n \in DOMAIN rows : rows'[n] = rows[n] /\ n \notin N /\ (Live(n)' <=> Live(n))
  BY <1>5 DEF NewRows, Live
<1>7. \A n \in DOMAIN rows : rows[n].conv \in DOMAIN conv /\ rows[n].conv # d
  BY <1>1 DEF Tables, MessagesAreRows
<1>8. MessagesAreRows'
  <2>1. ASSUME NEW n \in DOMAIN rows PROVE (Live(n) => LiveConv(rows[n].conv))'
    <3>1. ASSUME NEW e, e = rows[n].conv PROVE Live(n) => LiveConv(e)'
      BY <1>4, <1>7, <3>1 DEF Tables, MessagesAreRows
    <3> QED BY <1>6, <3>1
  <2>2. ASSUME NEW n \in N PROVE (Live(n) => LiveConv(rows[n].conv))'
    BY <1>4, <1>5 DEF NewRows
  <2>3. \A n \in N : n \in Messages /\ rows'[n] \in Rows /\ rows'[n].conv = d
    BY <1>5 DEF NewRows
  <2> QED BY <1>4, <1>6, <2>1, <2>2, <2>3 DEF Tables, MessagesAreRows
<1>9. NumbersAreDistinct'
  <2>1. /\ \A n \in N : rows'[n].conv = d
        /\ \A m, n \in N : rows'[m].no = rows'[n].no => m = n
    BY <1>5 DEF NewRows
  <2> QED BY <1>6, <1>7, <2>1 DEF Tables, NumbersAreDistinct
<1>10. RestoreIsExact'
  <2> SUFFICES ASSUME NEW e \in DOMAIN conv, ~LiveConv(e)
      PROVE  {m \in DOMAIN rows' : rows'[m].conv = e /\ rows'[m].deleted = conv[e].deleted} = conv[e].took
    BY <1>4 DEF RestoreIsExact, RowsOf
  <2>1. {m \in DOMAIN rows : rows[m].conv = e /\ rows[m].deleted = conv[e].deleted} = conv[e].took
    BY DEF Tables, RestoreIsExact, RowsOf
  <2>2. \A n \in N : rows'[n].conv # e
    BY <1>1, <1>5 DEF NewRows
  <2> QED BY <1>6, <2>1, <2>2
<1> QED BY <1>3, <1>8, <1>9, <1>10 DEF Tables

\* The steps that change the tables, one by one.
LEMMA Changes ==
  ASSUME [Next]_vars
  PROVE  \/ UNCHANGED <<conv, rows, index>>
         \/ \E c \in Conversations, m \in Messages :
              \/ \E text \in 0..MaxText, closed \in {"open", "completed"} :
                   AppendMessage(c, m, text, closed)
              \/ CancelTurn(c, m)
         \/ \E m \in Messages : AppendDelta(m) \/ \E text \in 0..MaxText : Complete(m, text)
         \/ \E M \in SUBSET DOMAIN rows, s \in Stamps : (\A m \in M : Live(m)) /\ Remove(M, s)
         \/ \E c \in Conversations, s \in Stamps : DeleteConversation(c, s)
         \/ \E c \in Conversations, p \in Projects : CreateConversation(c, p) \/ MoveConversation(c, p)
         \/ \E c, d \in Conversations, m \in Messages : ForkConversation(c, d, m)
         \/ \E c \in Conversations : RestoreConversation(c)
         \/ \E old \in SUBSET Stamps : Purge(old)
<1> DEFINE Removal == \E M \in SUBSET DOMAIN rows, s \in Stamps : (\A m \in M : Live(m)) /\ Remove(M, s)
<1>1. CASE UNCHANGED vars
  BY <1>1 DEF vars
<1>2. ASSUME NEW m \in Messages, NEW s \in Stamps, DeleteMessage(m, s) PROVE Removal
  <2>1. Live(m) /\ Remove({m}, s)
    BY <1>2 DEF DeleteMessage
  <2>2. {m} \in SUBSET DOMAIN rows /\ \A n \in {m} : Live(n)
    BY <2>1 DEF Live
  <2> QED BY <2>1, <2>2
<1>3. ASSUME NEW c \in Conversations, NEW s \in Stamps, ResetConversation(c, s) PROVE Removal
  <2>1. Remove(LiveRows(c), s)
    BY <1>3 DEF ResetConversation
  <2>2. LiveRows(c) \in SUBSET DOMAIN rows /\ \A m \in LiveRows(c) : Live(m)
    BY DEF LiveRows
  <2> QED BY <2>1, <2>2
<1>4. CASE (\E c \in Conversations : StartWalk(c)) \/ ReadPage \/ StopWalk
  BY <1>4 DEF StartWalk, ReadPage, StopWalk
<1> HIDE DEF Removal
<1>5. CASE MessageRequest
  BY <1>2, <1>5 DEF MessageRequest, Removal
<1>6. CASE ConversationRequest
  BY <1>3, <1>6 DEF ConversationRequest, Removal
<1> QED BY <1>1, <1>4, <1>5, <1>6 DEF Next

LEMMA TablesNext ==
  ASSUME Tables, [Next]_vars
  PROVE  Tables'
<1>1. CASE UNCHANGED <<conv, rows, index>>
  BY <1>1
     DEF Tables, ConvsAreRows, MessagesAreRows, NumbersAreDistinct, RestoreIsExact, RowsOf, Live, LiveConv
<1> QED
  BY <1>1, Changes, AppendKeeps, CancelKeeps, DeltaKeeps, CompleteKeeps, RemoveKeeps, DeleteConvKeeps,
     CreateKeeps, MoveKeeps, ForkKeeps, RestoreKeeps, PurgeKeeps

-----------------------------------------------------------------------------
(* The index. *)

Entries == [message : Messages, conv : Conversations, project : Projects, text : 1..MaxText]

\* An entry of a live message, with its conversation's present project, and with the
\* text it was completed with.
EntryIsTrue(e) ==
  /\ e \in Entries /\ Live(e.message)
  /\ e.conv = rows[e.message].conv /\ e.project = conv[e.conv].project
  /\ e.message \in Indexed /\ rows[e.message].closed = "completed" => e.text = rows[e.message].text

\* A message that somebody may look for.
Expected(m) ==
  m \in DOMAIN rows /\ Live(m) /\ m \in Indexed /\ rows[m].closed = "completed" /\ rows[m].text # 0

IndexFollows ==
  /\ \A e \in index : EntryIsTrue(e)
  /\ \A m \in Messages : Expected(m) => \E e \in index : e.message = m

\* What renewing a conversation's entries leaves and what it makes.
LEMMA Reindexed ==
  ASSUME NEW c \in Conversations, NEW p \in Projects, NEW table,
         \A m \in DOMAIN table : m \in Messages /\ table[m].text \in 0..MaxText
  PROVE  /\ \A e \in Reindex(c, p, table) :
              \/ /\ e \in index
                 /\ ~(e.message \in DOMAIN table /\ table[e.message].conv = c
                      /\ table[e.message].deleted = None)
              \/ /\ e \in Entries /\ e.message \in DOMAIN table
                 /\ table[e.message].conv = c /\ table[e.message].deleted = None
                 /\ e.conv = c /\ e.project = p /\ e.text = table[e.message].text
         /\ \A m \in DOMAIN table :
              table[m].conv = c /\ table[m].deleted = None /\ table[m].text # 0
                => \E e \in Reindex(c, p, table) : e.message = m
         /\ \A e \in index :
              ~(e.message \in DOMAIN table /\ table[e.message].conv = c
                /\ table[e.message].deleted = None)
                => e \in Reindex(c, p, table)
<1> DEFINE live == {m \in DOMAIN table : table[m].conv = c /\ table[m].deleted = None}
<1>1. Reindex(c, p, table) = Drop(live) \cup UNION {Entry(m, c, p, table[m].text) : m \in live}
  BY DEF Reindex
<1>2. \A e : e \in Drop(live) <=> e \in index /\ e.message \notin live
  BY DEF Drop
<1>3. ASSUME NEW m \in live, NEW e \in Entry(m, c, p, table[m].text)
      PROVE  /\ e \in Entries /\ e.message = m /\ e.conv = c /\ e.project = p
             /\ e.text = table[m].text
  BY <1>3 DEF Entry, Entries
<1>4. ASSUME NEW m \in live, table[m].text # 0
      PROVE  \E e \in Entry(m, c, p, table[m].text) : e.message = m
  BY <1>4 DEF Entry
<1>5. ASSUME NEW e \in Reindex(c, p, table)
      PROVE  \/ e \in index /\ e.message \notin live
             \/ /\ e \in Entries /\ e.message \in live
                /\ e.conv = c /\ e.project = p /\ e.text = table[e.message].text
  <2>1. CASE e \in Drop(live)
    BY <1>2, <2>1
  <2>2. CASE e \notin Drop(live)
    <3>1. PICK m \in live : e \in Entry(m, c, p, table[m].text)
      BY <1>1, <1>5, <2>2
    <3> HIDE DEF live
    <3> QED BY <1>3, <3>1
  <2> QED BY <2>1, <2>2
<1>6. ASSUME NEW m \in live, table[m].text # 0 PROVE \E e \in Reindex(c, p, table) : e.message = m
  <2> HIDE DEF live
  <2> QED BY <1>1, <1>4, <1>6
<1> QED BY <1>1, <1>2, <1>5, <1>6

\* An entry stays true as long as what it says of its message does.
LEMMA StaysTrue ==
  ASSUME NEW e, EntryIsTrue(e), e.message \in DOMAIN rows', rows'[e.message].deleted = None,
         rows'[e.message].conv = rows[e.message].conv,
         rows'[e.message].closed = "completed" =>
           rows[e.message].closed = "completed" /\ rows'[e.message].text = rows[e.message].text,
         conv'[e.conv].project = conv[e.conv].project
  PROVE  EntryIsTrue(e)'
BY DEF EntryIsTrue, Live

LEMMA AppendIndexes ==
  ASSUME Tables, IndexFollows, NEW c \in Conversations, NEW m \in Messages, NEW text \in 0..MaxText,
         NEW closed \in {"open", "completed"}, AppendMessage(c, m, text, closed)
  PROVE  IndexFollows'
<1> DEFINE row == NewRow(c, text, closed)
           p == conv[c].project
           new == IF m \in Indexed THEN Entry(m, c, p, text) ELSE {}
<1>1. /\ LiveConv(c) /\ m \notin DOMAIN rows /\ UNCHANGED conv
      /\ rows' = [n \in DOMAIN rows \cup {m} |-> IF n = m THEN row ELSE rows[n]]
      /\ index' = index \cup new
  BY DEF AppendMessage, NewMessage, Put
<1>2. row.conv = c /\ row.text = text /\ row.closed = closed /\ row.deleted = None
  BY DEF NewRow
<1>3. p \in Projects
  BY <1>1 DEF LiveConv, Tables, ConvsAreRows, ConvRows
<1> HIDE DEF row
<1>4. rows'[m] = row /\ DOMAIN rows' = DOMAIN rows \cup {m} /\ \A n \in DOMAIN rows : rows'[n] = rows[n]
  BY <1>1
<1>5. ASSUME NEW e \in index PROVE EntryIsTrue(e)'
  <2>1. EntryIsTrue(e) /\ e.message \in DOMAIN rows /\ rows[e.message].deleted = None
    BY DEF IndexFollows, EntryIsTrue, Live
  <2> QED BY <1>1, <1>4, <2>1, StaysTrue
<1>6. ASSUME NEW e \in new PROVE EntryIsTrue(e)'
  <2>1. e = [message |-> m, conv |-> c, project |-> p, text |-> text] /\ text # 0
    BY <1>6 DEF Entry
  <2>2. e \in Entries /\ e.message = m /\ e.conv = c /\ e.project = p /\ e.text = text
    BY <1>3, <2>1 DEF Entries
  <2> QED BY <1>1, <1>2, <1>4, <2>2 DEF EntryIsTrue, Live
<1>7. ASSUME NEW n \in Messages, Expected(n)' PROVE \E e \in index' : e.message = n
  <2>1. CASE n = m
    <3>1. m \in Indexed /\ text # 0
      BY <1>2, <1>4, <1>7, <2>1 DEF Expected
    <3>2. [message |-> m, conv |-> c, project |-> p, text |-> text] \in new
      BY <3>1 DEF Entry
    <3> QED BY <1>1, <2>1, <3>2
  <2>2. CASE n # m
    <3>1. Expected(n)
      BY <1>4, <1>7, <2>2 DEF Expected, Live
    <3> QED BY <1>1, <3>1 DEF IndexFollows
  <2> QED BY <2>1, <2>2
<1> QED BY <1>1, <1>5, <1>6, <1>7 DEF IndexFollows

LEMMA CancelIndexes ==
  ASSUME Tables, IndexFollows, NEW c \in Conversations, NEW m \in Messages, CancelTurn(c, m)
  PROVE  IndexFollows'
<1> DEFINE row == NewRow(c, 1, "completed")
           p == conv[c].project
           next(n) == IF n = m THEN row
                      ELSE IF n \in LiveRows(c) /\ rows[n].closed = "open"
                        THEN [rows[n] EXCEPT !.closed = "late"] ELSE rows[n]
           e0 == [message |-> m, conv |-> c, project |-> p, text |-> 1]
<1>1. /\ LiveConv(c) /\ m \notin DOMAIN rows /\ UNCHANGED conv
      /\ rows' = [n \in DOMAIN rows \cup {m} |-> next(n)]
      /\ index' = index \cup {e0}
  BY DEF CancelTurn, NewMessage, Entry
<1>2. row.conv = c /\ row.text = 1 /\ row.closed = "completed" /\ row.deleted = None
  BY DEF NewRow
<1>3. p \in Projects
  BY <1>1 DEF LiveConv, Tables, ConvsAreRows, ConvRows
<1>4. next(m) = row
  OBVIOUS
<1> HIDE DEF row
<1>5. ASSUME NEW n \in DOMAIN rows
      PROVE  /\ next(n).conv = rows[n].conv /\ next(n).deleted = rows[n].deleted
             /\ next(n).text = rows[n].text
             /\ next(n).closed = "completed" => rows[n].closed = "completed"
  <2>1. rows[n] \in Rows /\ n # m
    BY <1>1 DEF Tables, MessagesAreRows
  <2> QED BY <2>1 DEF Rows
<1> HIDE DEF next
<1>6. rows'[m] = row /\ DOMAIN rows' = DOMAIN rows \cup {m} /\ \A n \in DOMAIN rows : rows'[n] = next(n)
  BY <1>1, <1>4
<1>7. ASSUME NEW e \in index PROVE EntryIsTrue(e)'
  <2>1. EntryIsTrue(e) /\ e.message \in DOMAIN rows /\ rows[e.message].deleted = None
    BY DEF IndexFollows, EntryIsTrue, Live
  <2> QED BY <1>1, <1>5, <1>6, <2>1, StaysTrue
<1>8. ASSUME NEW e, e = e0 PROVE EntryIsTrue(e)'
  <2>1. e \in Entries /\ e.message = m /\ e.conv = c /\ e.project = p /\ e.text = 1
    BY <1>3, <1>8, BoundsAssumption DEF Entries
  <2> HIDE DEF e0
  <2> QED BY <1>1, <1>2, <1>6, <2>1 DEF EntryIsTrue, Live
<1>9. ASSUME NEW n \in Messages, Expected(n)' PROVE \E e \in index' : e.message = n
  <2>1. CASE n = m
    <3>1. e0.message = m /\ e0 \in index'
      BY <1>1
    <3> QED BY <2>1, <3>1
  <2>2. CASE n # m
    <3>1. Expected(n)
      BY <1>5, <1>6, <1>9, <2>2 DEF Expected, Live
    <3> QED BY <1>1, <3>1 DEF IndexFollows
  <2> QED BY <2>1, <2>2
<1> QED BY <1>1, <1>7, <1>8, <1>9 DEF IndexFollows

LEMMA DeltaIndexes ==
  ASSUME Tables, IndexFollows, NEW m \in Messages, AppendDelta(m)
  PROVE  IndexFollows'
<1> DEFINE row == [rows[m] EXCEPT !.text = rows[m].text + 1,
                                  !.closed = IF rows[m].closed = "open" THEN rows[m].closed ELSE "late"]
<1>1. m \in DOMAIN rows /\ UNCHANGED <<conv, index>> /\ rows[m] \in Rows
  BY DEF AppendDelta, Live, Tables, MessagesAreRows
<1>2. rows' = [rows EXCEPT ![m] = row]
  BY DEF AppendDelta
<1>3. row.conv = rows[m].conv /\ row.deleted = rows[m].deleted /\ row.closed # "completed"
  BY <1>1 DEF Rows
<1> HIDE DEF row
<1>4. /\ DOMAIN rows' = DOMAIN rows /\ rows'[m] = row
      /\ \A n \in DOMAIN rows : n # m => rows'[n] = rows[n]
  BY <1>1, <1>2 DEF Tables, MessagesAreRows
<1>5. ASSUME NEW e \in index PROVE EntryIsTrue(e)'
  <2>1. EntryIsTrue(e) /\ e.message \in DOMAIN rows /\ rows[e.message].deleted = None
    BY DEF IndexFollows, EntryIsTrue, Live
  <2> QED BY <1>1, <1>3, <1>4, <2>1, StaysTrue
<1>6. ASSUME NEW n \in Messages, Expected(n)' PROVE \E e \in index' : e.message = n
  <2>1. Expected(n)
    BY <1>3, <1>4, <1>6 DEF Expected, Live
  <2> QED BY <1>1, <2>1 DEF IndexFollows
<1> QED BY <1>1, <1>5, <1>6 DEF IndexFollows

LEMMA CompleteIndexes ==
  ASSUME Tables, IndexFollows, NEW m \in Messages, NEW text \in 0..MaxText, Complete(m, text)
  PROVE  IndexFollows'
<1> DEFINE row == [rows[m] EXCEPT !.closed = "completed", !.text = text]
           c == rows[m].conv
           new == Entry(m, c, conv[c].project, text)
<1>1. /\ m \in DOMAIN rows /\ UNCHANGED conv /\ rows[m] \in Rows
      /\ c \in DOMAIN conv /\ conv[c] \in ConvRows /\ c \in Conversations
      /\ Live(m)
  BY DEF Complete, Live, Tables, MessagesAreRows, ConvsAreRows
<1>2. rows' = [rows EXCEPT ![m] = row] /\ index' = IF m \in Indexed THEN Drop({m}) \cup new ELSE index
  BY DEF Complete
<1>3. row.conv = c /\ row.deleted = rows[m].deleted /\ row.text = text
  BY <1>1 DEF Rows
<1> HIDE DEF row
<1>4. /\ DOMAIN rows' = DOMAIN rows /\ rows'[m] = row
      /\ \A n \in DOMAIN rows : n # m => rows'[n] = rows[n]
  BY <1>1, <1>2 DEF Tables, MessagesAreRows
<1>5. ASSUME NEW e \in index, e.message # m \/ m \notin Indexed PROVE EntryIsTrue(e)'
  <2>1. EntryIsTrue(e) /\ e.message \in DOMAIN rows /\ rows[e.message].deleted = None
    BY DEF IndexFollows, EntryIsTrue, Live
  <2>2. CASE e.message # m
    BY <1>1, <1>4, <2>1, <2>2, StaysTrue
  <2>3. CASE e.message = m /\ m \notin Indexed
    BY <1>1, <1>3, <1>4, <2>1, <2>3 DEF EntryIsTrue, Live
  <2> QED BY <1>5, <2>2, <2>3
<1>6. ASSUME NEW e \in new PROVE EntryIsTrue(e)'
  <2>1. /\ e = [message |-> m, conv |-> c, project |-> conv[c].project, text |-> text]
        /\ text # 0
    BY <1>6 DEF Entry
  <2>2. text \in 1..MaxText /\ conv[c].project \in Projects
    BY <1>1, <2>1, BoundsAssumption DEF ConvRows
  <2>3. e \in Entries /\ e.message = m /\ e.conv = c /\ e.project = conv[c].project /\ e.text = text
    BY <1>1, <2>1, <2>2 DEF Entries
  <2> QED BY <1>1, <1>3, <1>4, <2>3 DEF EntryIsTrue, Live
<1>7. \A e \in index' : e \in new \/ (e \in index /\ (e.message # m \/ m \notin Indexed))
  BY <1>2 DEF Drop
<1>8. ASSUME NEW n \in Messages, Expected(n)' PROVE \E e \in index' : e.message = n
  <2>1. CASE n = m
    <3>1. m \in Indexed /\ text # 0
      BY <1>3, <1>4, <1>8, <2>1 DEF Expected
    <3>2. [message |-> m, conv |-> c, project |-> conv[c].project, text |-> text] \in new
      BY <3>1 DEF Entry
    <3> QED BY <1>2, <2>1, <3>1, <3>2
  <2>2. CASE n # m
    <3>1. Expected(n)
      BY <1>4, <1>8, <2>2 DEF Expected, Live
    <3>2. PICK e \in index : e.message = n
      BY <3>1 DEF IndexFollows
    <3> QED BY <1>2, <2>2, <3>2 DEF Drop
  <2> QED BY <2>1, <2>2
<1> QED BY <1>5, <1>6, <1>7, <1>8 DEF IndexFollows

\* Deleted messages leave the index with their rows.
LEMMA DropIndexes ==
  ASSUME Tables, IndexFollows, NEW M \in SUBSET DOMAIN rows, \A m \in M : Live(m),
         NEW s \in Stamps, NewStamp(s), rows' = SoftDelete(M, s), index' = Drop(M),
         \A c \in DOMAIN conv : conv'[c].project = conv[c].project
  PROVE  IndexFollows'
<1>1. /\ rows' = [m \in DOMAIN rows |-> rows'[m]]
      /\ \A m \in DOMAIN rows :
           /\ rows'[m].conv = rows[m].conv
           /\ rows'[m].deleted = IF m \in M THEN s ELSE rows[m].deleted
           /\ rows'[m].text = rows[m].text /\ rows'[m].closed = rows[m].closed
      /\ \A m \in DOMAIN rows : Live(m)' <=> Live(m) /\ m \notin M
  <2>1. Deletes(M, s)
    BY SoftDeleted
  <2> QED BY <2>1 DEF Deletes
<1>2. DOMAIN rows' = DOMAIN rows
  BY <1>1
<1>3. \A e : e \in index' <=> e \in index /\ e.message \notin M
  BY DEF Drop
<1>4. ASSUME NEW e \in index' PROVE EntryIsTrue(e)'
  <2>1. EntryIsTrue(e) /\ e.message \in DOMAIN rows /\ rows[e.message].deleted = None /\ e.message \notin M
    BY <1>3 DEF IndexFollows, EntryIsTrue, Live
  <2>2. e.conv \in DOMAIN conv
    BY <2>1 DEF EntryIsTrue, Tables, MessagesAreRows
  <2> QED BY <1>1, <1>2, <2>1, <2>2, StaysTrue
<1>5. ASSUME NEW n \in Messages, Expected(n)' PROVE \E e \in index' : e.message = n
  <2>1. n \in DOMAIN rows /\ n \notin M /\ Expected(n)
    BY <1>1, <1>2, <1>5 DEF Expected
  <2> QED BY <1>3, <2>1 DEF IndexFollows
<1> QED BY <1>4, <1>5 DEF IndexFollows

LEMMA DeleteConvIndexes ==
  ASSUME Tables, IndexFollows, NEW c \in Conversations, NEW s \in Stamps, DeleteConversation(c, s)
  PROVE  IndexFollows'
<1> DEFINE row == [conv[c] EXCEPT !.deleted = s, !.took = LiveRows(c)]
<1>1. /\ LiveConv(c) /\ NewStamp(s) /\ rows' = SoftDelete(LiveRows(c), s) /\ index' = Drop(LiveRows(c))
      /\ conv' = [conv EXCEPT ![c] = row]
  BY DEF DeleteConversation, Stamped
<1>2. LiveRows(c) \in SUBSET DOMAIN rows /\ \A m \in LiveRows(c) : Live(m)
  BY DEF LiveRows
<1>3. row.project = conv[c].project
  BY <1>1 DEF LiveConv, Tables, ConvsAreRows, ConvRows
<1> HIDE DEF row
<1>4. \A d \in DOMAIN conv : conv'[d].project = conv[d].project
  BY <1>1, <1>3 DEF Tables, ConvsAreRows
<1> QED BY <1>1, <1>2, <1>4, DropIndexes

LEMMA CreateIndexes ==
  ASSUME Tables, IndexFollows, NEW c \in Conversations, NEW p \in Projects, CreateConversation(c, p)
  PROVE  IndexFollows'
<1>1. /\ c \notin DOMAIN conv /\ UNCHANGED <<rows, index>>
      /\ \A d \in DOMAIN conv : conv'[d] = conv[d]
  BY DEF CreateConversation
<1>2. ASSUME NEW e \in index PROVE EntryIsTrue(e)'
  <2>1. EntryIsTrue(e) /\ e.message \in DOMAIN rows /\ rows[e.message].deleted = None
    BY DEF IndexFollows, EntryIsTrue, Live
  <2>2. e.conv \in DOMAIN conv
    BY <2>1 DEF EntryIsTrue, Tables, MessagesAreRows
  <2> QED BY <1>1, <2>1, <2>2, StaysTrue
<1> QED BY <1>1, <1>2 DEF IndexFollows, Expected, Live

\* A move, a fork and a restore renew the entries of one conversation, whose messages
\* may all be new ones; the others keep rows and projects.
LEMMA ReindexIndexes ==
  ASSUME Tables, IndexFollows, Tables', NEW c \in Conversations, NEW p \in Projects,
         index' = Reindex(c, p, rows'), conv'[c].project = p,
         \A d \in DOMAIN conv \ {c} : conv'[d] = conv[d],
         DOMAIN rows \subseteq DOMAIN rows',
         \A m \in DOMAIN rows : rows[m].conv = c => rows'[m].conv = c /\ (Live(m) => Live(m)'),
         \A m \in DOMAIN rows : rows[m].conv # c => rows'[m] = rows[m],
         \A m \in DOMAIN rows' \ DOMAIN rows : rows'[m].conv = c
  PROVE  IndexFollows'
<1> DEFINE mine(m) == m \in DOMAIN rows' /\ rows'[m].conv = c /\ rows'[m].deleted = None
<1>1. /\ \A e \in index' :
           \/ e \in index /\ ~mine(e.message)
           \/ /\ e \in Entries /\ mine(e.message)
              /\ e.conv = c /\ e.project = p /\ e.text = rows'[e.message].text
      /\ \A m \in DOMAIN rows' : mine(m) /\ rows'[m].text # 0 => \E e \in index' : e.message = m
      /\ \A e \in index : ~mine(e.message) => e \in index'
  <2>1. \A m \in DOMAIN rows' : m \in Messages /\ rows'[m].text \in 0..MaxText
    BY DEF Tables, MessagesAreRows, Rows
  <2> QED BY <2>1, Reindexed
<1>2. ASSUME NEW e \in index, ~mine(e.message) PROVE EntryIsTrue(e)'
  <2>1. EntryIsTrue(e) /\ e.message \in DOMAIN rows /\ rows[e.message].deleted = None
    BY DEF IndexFollows, EntryIsTrue, Live
  <2>2. e.conv = rows[e.message].conv /\ e.conv \in DOMAIN conv
    BY <2>1 DEF EntryIsTrue, Tables, MessagesAreRows
  <2>3. e.conv # c
    BY <1>2, <2>1, <2>2 DEF Live
  <2> QED BY <2>1, <2>2, <2>3, StaysTrue
<1>3. ASSUME NEW e \in Entries, mine(e.message), e.conv = c, e.project = p, e.text = rows'[e.message].text
      PROVE  EntryIsTrue(e)'
  BY <1>3 DEF EntryIsTrue, Live
<1>4. ASSUME NEW m \in Messages, Expected(m)' PROVE \E e \in index' : e.message = m
  <2>1. m \in DOMAIN rows' /\ rows'[m].deleted = None /\ rows'[m].text # 0
    BY <1>4 DEF Expected, Live
  <2>2. CASE mine(m)
    BY <1>1, <2>1, <2>2
  <2>3. CASE ~mine(m)
    <3>1. m \in DOMAIN rows /\ rows[m].conv # c /\ rows'[m] = rows[m]
      BY <2>1, <2>3
    <3>2. Expected(m)
      BY <1>4, <3>1 DEF Expected, Live
    <3>3. PICK e \in index : e.message = m
      BY <3>2 DEF IndexFollows
    <3> QED BY <1>1, <2>3, <3>3
  <2> QED BY <2>2, <2>3
<1> HIDE DEF mine
<1> QED BY <1>1, <1>2, <1>3, <1>4 DEF IndexFollows

LEMMA MoveIndexes ==
  ASSUME Tables, IndexFollows, NEW c \in Conversations, NEW p \in Projects, MoveConversation(c, p)
  PROVE  IndexFollows'
<1> DEFINE row == [conv[c] EXCEPT !.project = p]
<1>1. LiveConv(c) /\ UNCHANGED rows /\ conv' = [conv EXCEPT ![c] = row] /\ index' = Reindex(c, p, rows)
  BY DEF MoveConversation
<1>2. row.project = p /\ c \in DOMAIN conv
  BY <1>1 DEF LiveConv, Tables, ConvsAreRows, ConvRows
<1> HIDE DEF row
<1>3. conv'[c].project = p /\ \A d \in DOMAIN conv \ {c} : conv'[d] = conv[d]
  BY <1>1, <1>2 DEF Tables, ConvsAreRows
<1>4. index' = Reindex(c, p, rows')
  BY <1>1
<1>5. \A m : Live(m) => Live(m)'
  BY <1>1 DEF Live
<1> QED BY <1>1, <1>3, <1>4, <1>5, MoveKeeps, ReindexIndexes

LEMMA ForkIndexes ==
  ASSUME Tables, IndexFollows, NEW c \in Conversations, NEW d \in Conversations, NEW note \in Messages,
         ForkConversation(c, d, note)
  PROVE  IndexFollows'
<1> DEFINE p == conv[c].project
           row == [project |-> p, deleted |-> None, took |-> {}]
<1>1. /\ LiveConv(c) /\ d \notin DOMAIN conv
      /\ conv' = [e \in DOMAIN conv \cup {d} |-> IF e = d THEN row ELSE conv[e]]
      /\ index' = Reindex(d, p, rows')
  BY DEF ForkConversation
<1>2. p \in Projects /\ row.project = p
  BY <1>1 DEF ConvRows, LiveConv, Tables, ConvsAreRows
<1> HIDE DEF row, p
<1>3. conv'[d].project = p /\ \A e \in DOMAIN conv \ {d} : conv'[e] = conv[e]
  BY <1>1, <1>2
<1>4. PICK N : NewRows(N, d)
  BY ForkAdds
<1>5. /\ DOMAIN rows \subseteq DOMAIN rows' /\ \A m \in DOMAIN rows : rows'[m] = rows[m]
      /\ \A m \in DOMAIN rows' \ DOMAIN rows : rows'[m].conv = d
  BY <1>4 DEF NewRows
<1>6. \A m \in DOMAIN rows : rows[m].conv # d
  BY <1>1 DEF Tables, MessagesAreRows
<1> QED BY <1>1, <1>2, <1>3, <1>5, <1>6, ForkKeeps, ReindexIndexes

LEMMA RestoreIndexes ==
  ASSUME Tables, IndexFollows, NEW c \in Conversations, RestoreConversation(c)
  PROVE  IndexFollows'
<1> DEFINE p == conv[c].project
           row == [conv[c] EXCEPT !.deleted = None, !.took = {}]
           next(m) == IF rows[m].conv = c /\ rows[m].deleted = conv[c].deleted
                        THEN [rows[m] EXCEPT !.deleted = None] ELSE rows[m]
<1>1. /\ c \in DOMAIN conv /\ conv' = [conv EXCEPT ![c] = row]
      /\ rows' = [m \in DOMAIN rows |-> next(m)]
      /\ index' = Reindex(c, p, rows')
  BY DEF RestoreConversation
<1>2. p \in Projects /\ row.project = p
  BY <1>1 DEF Tables, ConvsAreRows, ConvRows
<1> HIDE DEF row, p
<1>3. conv'[c].project = p /\ \A d \in DOMAIN conv \ {c} : conv'[d] = conv[d]
  BY <1>1, <1>2 DEF Tables, ConvsAreRows
<1>4. ASSUME NEW m \in DOMAIN rows
      PROVE  /\ next(m).conv = rows[m].conv
             /\ rows[m].deleted = None => next(m).deleted = None
             /\ rows[m].conv # c => next(m) = rows[m]
  <2>1. rows[m] \in Rows
    BY DEF Tables, MessagesAreRows
  <2> QED BY <2>1 DEF Rows
<1> HIDE DEF next
<1>5. DOMAIN rows' = DOMAIN rows /\ \A m \in DOMAIN rows : rows'[m] = next(m)
  BY <1>1
<1>6. \A m \in DOMAIN rows : rows[m].conv = c => rows'[m].conv = c /\ (Live(m) => Live(m)')
  BY <1>4, <1>5 DEF Live
<1>7. \A m \in DOMAIN rows : rows[m].conv # c => rows'[m] = rows[m]
  BY <1>4, <1>5
<1> QED BY <1>1, <1>2, <1>3, <1>5, <1>6, <1>7, RestoreKeeps, ReindexIndexes

LEMMA PurgeIndexes ==
  ASSUME Tables, IndexFollows, NEW old \in SUBSET Stamps, Purge(old)
  PROVE  IndexFollows'
<1> DEFINE gone == {c \in DOMAIN conv : conv[c].deleted \in old}
           dead == {m \in DOMAIN rows : rows[m].deleted \in old \/ rows[m].conv \in gone}
<1>1. /\ conv' = [c \in DOMAIN conv \ gone |-> conv[c]]
      /\ rows' = [m \in DOMAIN rows \ dead |-> rows[m]]
      /\ index' = Drop(dead)
  BY DEF Purge
<1>2. DOMAIN rows' = DOMAIN rows \ dead /\ (\A c \in DOMAIN conv \ gone : conv'[c] = conv[c])
      /\ (\A m \in DOMAIN rows' : rows'[m] = rows[m])
  BY <1>1
<1>3. \A e : e \in index' <=> e \in index /\ e.message \notin dead
  BY <1>1 DEF Drop
<1>4. ASSUME NEW e \in index' PROVE EntryIsTrue(e)'
  <2>1. EntryIsTrue(e) /\ e.message \in DOMAIN rows /\ rows[e.message].deleted = None /\ e.message \in DOMAIN rows'
    BY <1>2, <1>3 DEF IndexFollows, EntryIsTrue, Live
  <2>2. e.conv = rows[e.message].conv /\ e.conv \in DOMAIN conv /\ e.conv \notin gone
    BY <1>2, <2>1 DEF EntryIsTrue, Tables, MessagesAreRows
  <2> HIDE DEF gone, dead
  <2> QED BY <1>2, <2>1, <2>2, StaysTrue
<1>5. ASSUME NEW n \in Messages, Expected(n)' PROVE \E e \in index' : e.message = n
  <2>1. Expected(n) /\ n \notin dead
    BY <1>2, <1>5 DEF Expected, Live
  <2> HIDE DEF dead
  <2> QED BY <1>3, <2>1 DEF IndexFollows
<1> QED BY <1>4, <1>5 DEF IndexFollows

LEMMA IndexNext ==
  ASSUME Tables, IndexFollows, [Next]_vars
  PROVE  IndexFollows'
<1>1. CASE UNCHANGED <<conv, rows, index>>
  BY <1>1 DEF IndexFollows, EntryIsTrue, Expected, Live
<1>2. ASSUME NEW M \in SUBSET DOMAIN rows, NEW s \in Stamps, \A m \in M : Live(m), Remove(M, s)
      PROVE  IndexFollows'
  <2>1. NewStamp(s) /\ rows' = SoftDelete(M, s) /\ index' = Drop(M) /\ conv' = conv
    BY <1>2 DEF Remove
  <2>2. \A c \in DOMAIN conv : conv'[c].project = conv[c].project
    BY <2>1
  <2> QED BY <1>2, <2>1, <2>2, DropIndexes
<1> QED
  BY <1>1, <1>2, Changes, AppendIndexes, CancelIndexes, DeltaIndexes, CompleteIndexes,
     DeleteConvIndexes, CreateIndexes, MoveIndexes, ForkIndexes, RestoreIndexes, PurgeIndexes

-----------------------------------------------------------------------------
(* The client that walks a transcript. *)

\* What a reading client is owed comes after its cursor; it never ends short.
WalkFollows ==
  \/ walk = Idle
  \/ /\ walk = [at |-> "reading", conv |-> walk.conv, after |-> walk.after, due |-> walk.due]
     /\ walk.after \in Nat
     /\ \A m \in walk.due : Live(m) /\ rows[m].conv = walk.conv /\ rows[m].no > walk.after

\* Messages that live stay where they are.
LiveRowsStay ==
  \A m \in DOMAIN rows :
    Live(m) => Live(m)' /\ rows'[m].conv = rows[m].conv /\ rows'[m].no = rows[m].no

LEMMA WalkStays ==
  ASSUME WalkFollows, UNCHANGED walk, LiveRowsStay
  PROVE  WalkFollows'
<1>1. CASE walk = Idle
  BY <1>1 DEF WalkFollows
<1>2. CASE walk # Idle
  <2>1. ASSUME NEW m \in walk.due
        PROVE  Live(m)' /\ rows'[m].conv = walk.conv /\ rows'[m].no > walk.after
    <3>1. Live(m) /\ m \in DOMAIN rows /\ rows[m].conv = walk.conv /\ rows[m].no > walk.after
      BY <1>2 DEF WalkFollows, Live
    <3> QED BY <3>1 DEF LiveRowsStay
  <2> QED BY <1>2, <2>1 DEF WalkFollows
<1> QED BY <1>1, <1>2

\* A deletion takes from the client's due what it deletes.
LEMMA WalkOwes ==
  ASSUME WalkFollows, NEW table, table = rows', Owe(table),
         \A m \in DOMAIN rows : rows'[m].conv = rows[m].conv /\ rows'[m].no = rows[m].no
  PROVE  WalkFollows'
<1>1. CASE walk = Idle
  <2>1. walk' = Idle
    BY <1>1 DEF Owe, Idle
  <2> QED BY <2>1 DEF WalkFollows
<1>2. CASE walk # Idle
  <2> DEFINE due == {m \in walk.due : m \in DOMAIN table /\ table[m].deleted = None}
  <2>1. /\ walk = [at |-> "reading", conv |-> walk.conv, after |-> walk.after, due |-> walk.due]
        /\ walk.after \in Nat
        /\ \A m \in walk.due : m \in DOMAIN rows /\ rows[m].conv = walk.conv /\ rows[m].no > walk.after
    BY <1>2 DEF WalkFollows, Live
  <2>2. walk' = [walk EXCEPT !.due = due]
    BY <2>1 DEF Owe
  <2> HIDE DEF due
  <2>3. walk' = [at |-> "reading", conv |-> walk.conv, after |-> walk.after, due |-> due]
    BY <2>1, <2>2
  <2>4. walk'.conv = walk.conv /\ walk'.after = walk.after /\ walk'.due = due
    BY <2>3
  <2>5. ASSUME NEW m \in due
        PROVE  Live(m)' /\ rows'[m].conv = walk.conv /\ rows'[m].no > walk.after
    BY <2>1 DEF due, Live
  <2> QED BY <2>1, <2>3, <2>4, <2>5 DEF WalkFollows
<1> QED BY <1>1, <1>2

LEMMA AppendStays ==
  ASSUME NEW c, NEW m, NEW text, NEW closed, AppendMessage(c, m, text, closed)
  PROVE  LiveRowsStay /\ UNCHANGED walk
<1>1. /\ m \notin DOMAIN rows /\ UNCHANGED walk
      /\ rows' = [n \in DOMAIN rows \cup {m} |-> IF n = m THEN NewRow(c, text, closed) ELSE rows[n]]
  BY DEF AppendMessage, NewMessage, Put
<1> QED BY <1>1 DEF LiveRowsStay, Live

LEMMA CancelStays ==
  ASSUME Tables, NEW c, NEW m, CancelTurn(c, m)
  PROVE  LiveRowsStay /\ UNCHANGED walk
<1> DEFINE next(n) == IF n = m THEN NewRow(c, 1, "completed")
                      ELSE IF n \in LiveRows(c) /\ rows[n].closed = "open"
                        THEN [rows[n] EXCEPT !.closed = "late"] ELSE rows[n]
<1>1. m \notin DOMAIN rows /\ UNCHANGED walk /\ rows' = [n \in DOMAIN rows \cup {m} |-> next(n)]
  BY DEF CancelTurn, NewMessage
<1>2. ASSUME NEW n \in DOMAIN rows
      PROVE  next(n).conv = rows[n].conv /\ next(n).no = rows[n].no /\ next(n).deleted = rows[n].deleted
  <2>1. rows[n] \in Rows /\ n # m
    BY <1>1 DEF Tables, MessagesAreRows
  <2> QED BY <2>1 DEF Rows
<1> HIDE DEF next
<1> QED BY <1>1, <1>2 DEF LiveRowsStay, Live

LEMMA RewritingStays ==
  ASSUME Tables, NEW m, AppendDelta(m) \/ \E text \in 0..MaxText : Complete(m, text)
  PROVE  LiveRowsStay /\ UNCHANGED walk
<1>1. m \in DOMAIN rows /\ rows[m] \in Rows /\ UNCHANGED walk
  BY DEF AppendDelta, Complete, Live, Tables, MessagesAreRows
<1>2. PICK row :
        /\ rows' = [rows EXCEPT ![m] = row]
        /\ row.conv = rows[m].conv /\ row.no = rows[m].no /\ row.deleted = rows[m].deleted
  <2>1. CASE AppendDelta(m)
    <3> DEFINE row == [rows[m] EXCEPT !.text = rows[m].text + 1,
                                      !.closed = IF rows[m].closed = "open" THEN rows[m].closed ELSE "late"]
    <3>1. rows' = [rows EXCEPT ![m] = row]
      BY <2>1 DEF AppendDelta
    <3>2. row.conv = rows[m].conv /\ row.no = rows[m].no /\ row.deleted = rows[m].deleted
      BY <1>1 DEF Rows
    <3> HIDE DEF row
    <3> QED BY <3>1, <3>2
  <2>2. ASSUME NEW text \in 0..MaxText, Complete(m, text)
        PROVE  \E row : /\ rows' = [rows EXCEPT ![m] = row]
                        /\ row.conv = rows[m].conv /\ row.no = rows[m].no
                        /\ row.deleted = rows[m].deleted
    <3> DEFINE row == [rows[m] EXCEPT !.closed = "completed", !.text = text]
    <3>1. rows' = [rows EXCEPT ![m] = row]
      BY <2>2 DEF Complete
    <3>2. row.conv = rows[m].conv /\ row.no = rows[m].no /\ row.deleted = rows[m].deleted
      BY <1>1 DEF Rows
    <3> HIDE DEF row
    <3> QED BY <3>1, <3>2
  <2> QED BY <2>1, <2>2
<1>3. /\ DOMAIN rows' = DOMAIN rows /\ rows'[m] = row
      /\ \A n \in DOMAIN rows : n # m => rows'[n] = rows[n]
  BY <1>1, <1>2 DEF Tables, MessagesAreRows
<1> QED BY <1>1, <1>2, <1>3 DEF LiveRowsStay, Live

LEMMA ForkStays ==
  ASSUME Tables, NEW c \in Conversations, NEW d \in Conversations, NEW note \in Messages,
         ForkConversation(c, d, note)
  PROVE  LiveRowsStay /\ UNCHANGED walk
<1>1. UNCHANGED walk
  BY DEF ForkConversation
<1>2. PICK N : NewRows(N, d)
  BY ForkAdds
<1>3. DOMAIN rows \subseteq DOMAIN rows' /\ \A n \in DOMAIN rows : rows'[n] = rows[n]
  BY <1>2 DEF NewRows
<1> QED BY <1>1, <1>3 DEF LiveRowsStay, Live

LEMMA RestoreStays ==
  ASSUME Tables, NEW c, RestoreConversation(c)
  PROVE  LiveRowsStay /\ UNCHANGED walk
<1> DEFINE next(m) == IF rows[m].conv = c /\ rows[m].deleted = conv[c].deleted
                        THEN [rows[m] EXCEPT !.deleted = None] ELSE rows[m]
<1>1. UNCHANGED walk /\ rows' = [m \in DOMAIN rows |-> next(m)]
  BY DEF RestoreConversation
<1>2. ASSUME NEW m \in DOMAIN rows
      PROVE  /\ next(m).conv = rows[m].conv /\ next(m).no = rows[m].no
             /\ rows[m].deleted = None => next(m).deleted = None
  <2>1. rows[m] \in Rows
    BY DEF Tables, MessagesAreRows
  <2> QED BY <2>1 DEF Rows
<1> HIDE DEF next
<1> QED BY <1>1, <1>2 DEF LiveRowsStay, Live

LEMMA PurgeStays ==
  ASSUME Tables, NEW old \in SUBSET Stamps, Purge(old)
  PROVE  LiveRowsStay /\ UNCHANGED walk
<1> DEFINE gone == {c \in DOMAIN conv : conv[c].deleted \in old}
           dead == {m \in DOMAIN rows : rows[m].deleted \in old \/ rows[m].conv \in gone}
<1>1. UNCHANGED walk /\ rows' = [m \in DOMAIN rows \ dead |-> rows[m]]
  BY DEF Purge
<1>2. ASSUME NEW m \in DOMAIN rows, Live(m) PROVE m \notin dead
  <2>1. rows[m].deleted = None /\ conv[rows[m].conv].deleted = None
    BY <1>2 DEF Tables, MessagesAreRows, Live, LiveConv
  <2> QED BY <2>1, NoneAssumption
<1> HIDE DEF dead
<1>3. \A m \in DOMAIN rows : Live(m) => m \in DOMAIN rows' /\ rows'[m] = rows[m]
  BY <1>1, <1>2
<1> QED BY <1>1, <1>3 DEF LiveRowsStay, Live

\* A client that begins is owed every message, and all are numbered from 1.
LEMMA StartFollows ==
  ASSUME Tables, NEW c, StartWalk(c)
  PROVE  WalkFollows'
<1>1. /\ walk' = [at |-> "reading", conv |-> c, after |-> 0, due |-> LiveRows(c)]
      /\ UNCHANGED rows
  BY DEF StartWalk
<1>2. ASSUME NEW m \in LiveRows(c) PROVE Live(m)' /\ rows'[m].conv = c /\ rows'[m].no > 0
  <2>1. rows[m].no \in Nat \ {0}
    BY LiveRowsAreFinite
  <2>2. rows[m].conv = c /\ Live(m)
    BY DEF LiveRows
  <2> QED BY <1>1, <2>1, <2>2 DEF Live
<1>3. walk'.conv = c /\ walk'.after = 0 /\ walk'.due = LiveRows(c)
  BY <1>1
<1> QED BY <1>1, <1>2, <1>3 DEF WalkFollows

\* What a page leaves is numbered after everything on it, and a page that is not full
\* leaves nothing.
LEMMA Pages ==
  ASSUME Tables, NEW c, walk.after \in Nat
  PROVE  LET rest == {m \in LiveRows(c) : rows[m].no > walk.after}
             page == Page(c)
         IN  /\ page \subseteq rest
             /\ Cardinality(page) # PageSize => page = rest
             /\ Cardinality(page) = PageSize =>
                  /\ Max({rows[m].no : m \in page}) \in Nat
                  /\ \A m \in rest \ page : rows[m].no > Max({rows[n].no : n \in page})
<1> DEFINE rest == {m \in LiveRows(c) : rows[m].no > walk.after}
           f == [m \in rest |-> rows[m].no]
           first == {m \in rest : Before(rest, f, m) < PageSize}
           page == Page(c)
<1>1. /\ IsFiniteSet(LiveRows(c)) /\ \A m \in LiveRows(c) : rows[m].no \in Nat
      /\ \A m, n \in LiveRows(c) : rows[m].no = rows[n].no => m = n
  BY LiveRowsAreFinite
<1>2. IsFiniteSet(rest) /\ rest \subseteq LiveRows(c)
  BY <1>1, FS_Subset
<1>3. f \in [rest -> Nat] /\ \A m, n \in rest : f[m] = f[n] => m = n
  BY <1>1
<1>4. PageSize \in Nat \ {0}
  BY BoundsAssumption
<1>5. page = first
  <2>1. page = {m \in rest : Cardinality({n \in rest : rows[n].no < rows[m].no}) < PageSize}
    BY DEF Page
  <2>2. ASSUME NEW m \in rest
        PROVE  Before(rest, f, m) = Cardinality({n \in rest : rows[n].no < rows[m].no})
    <3>1. {n \in rest : f[n] < f[m]} = {n \in rest : rows[n].no < rows[m].no}
      OBVIOUS
    <3> HIDE DEF f, rest
    <3> QED BY <3>1 DEF Before
  <2> HIDE DEF f, rest, page
  <2> QED BY <2>1, <2>2
<1>6. \A m \in rest : f[m] = rows[m].no /\ rows[m].no \in Nat
  BY <1>1
<1>7. /\ Cardinality(first) # PageSize => first = rest
      /\ \A m \in first, n \in rest \ first : f[m] < f[n]
  <2> HIDE DEF f, rest
  <2> QED BY <1>2, <1>3, <1>4, FirstOnes
<1>8. page \subseteq rest
  BY <1>5
<1>9. ASSUME Cardinality(page) = PageSize
      PROVE  LET N == {rows[m].no : m \in page} IN Max(N) \in N /\ \A n \in N : n <= Max(N)
  <2> DEFINE N == {rows[m].no : m \in page}
  <2>1. page # {}
    BY <1>4, <1>9, FS_EmptySet
  <2>2. \A m \in page : rows[m].no \in Nat /\ rows[m].no <= MaxNo
    BY <1>8 DEF LiveRows, Tables, MessagesAreRows, Rows
  <2>3. MaxNo \in Nat
    BY BoundsAssumption
  <2> HIDE DEF page
  <2>4. N # {} /\ N \in SUBSET Nat /\ \A n \in N : n <= MaxNo
    BY <2>1, <2>2
  <2> HIDE DEF N
  <2>5. Max(N) \in N /\ \A n \in N : n <= Max(N)
    BY <2>3, <2>4, Greatest
  <2> QED BY <2>5 DEF N
<1> HIDE DEF f, rest, page, first
<1>10. ASSUME Cardinality(page) = PageSize
       PROVE  /\ Max({rows[m].no : m \in page}) \in Nat
              /\ \A m \in rest \ page : rows[m].no > Max({rows[n].no : n \in page})
  <2>1. PICK x \in page : Max({rows[m].no : m \in page}) = rows[x].no
    BY <1>9, <1>10
  <2> QED BY <1>5, <1>6, <1>7, <1>8, <2>1
<1> QED BY <1>5, <1>7, <1>8, <1>10 DEF rest, page

LEMMA ReadFollows ==
  ASSUME Tables, WalkFollows, ReadPage
  PROVE  WalkFollows'
<1> DEFINE c == walk.conv
           page == Page(c)
           rest == {m \in LiveRows(c) : rows[m].no > walk.after}
           top == Max({rows[m].no : m \in page})
<1>1. /\ UNCHANGED rows /\ walk.at = "reading"
      /\ walk' = IF Cardinality(page) = PageSize
                   THEN [walk EXCEPT !.due = walk.due \ page, !.after = top]
                   ELSE [at |-> IF walk.due \subseteq page THEN "idle" ELSE "short"]
  BY DEF ReadPage
<1>2. /\ walk = [at |-> "reading", conv |-> walk.conv, after |-> walk.after, due |-> walk.due]
      /\ walk.after \in Nat
      /\ \A m \in walk.due : Live(m) /\ rows[m].conv = c /\ rows[m].no > walk.after
  BY <1>1 DEF WalkFollows, Idle
<1>3. /\ page \subseteq rest
      /\ Cardinality(page) # PageSize => page = rest
      /\ Cardinality(page) = PageSize => top \in Nat /\ \A m \in rest \ page : rows[m].no > top
  <2>1. walk.after \in Nat
    BY <1>2
  <2> QED BY <2>1, Pages
<1>4. walk.due \subseteq rest
  BY <1>2 DEF LiveRows, Live
<1> HIDE DEF page, rest, top
<1>5. CASE Cardinality(page) # PageSize
  <2>1. walk' = Idle
    BY <1>1, <1>3, <1>4, <1>5 DEF Idle
  <2> QED BY <2>1 DEF WalkFollows
<1>6. CASE Cardinality(page) = PageSize
  <2>1. walk' = [walk EXCEPT !.due = walk.due \ page, !.after = top]
    BY <1>1, <1>6
  <2> DEFINE due == walk.due \ page
  <2>2. walk' = [at |-> "reading", conv |-> c, after |-> top, due |-> due]
    <3>1. PICK d, a, q : walk = [at |-> "reading", conv |-> d, after |-> a, due |-> q]
      BY <1>2
    <3>2. d = c
      BY <3>1
    <3>3. walk' = [walk EXCEPT !.due = due, !.after = top]
      BY <2>1
    <3> HIDE DEF due, c
    <3> QED BY <3>1, <3>2, <3>3
  <2> HIDE DEF c
  <2>3. walk'.conv = c /\ walk'.after = top /\ walk'.due = walk.due \ page
    BY <2>2
  <2>4. ASSUME NEW m \in walk.due \ page PROVE Live(m)' /\ rows'[m].conv = c /\ rows'[m].no > top
    BY <1>1, <1>2, <1>3, <1>4, <1>6 DEF Live
  <2> QED BY <1>3, <1>6, <2>2, <2>3, <2>4 DEF WalkFollows
<1> QED BY <1>5, <1>6

LEMMA WalkNext ==
  ASSUME Tables, WalkFollows, [Next]_vars
  PROVE  WalkFollows'
<1>1. CASE UNCHANGED vars
  BY <1>1, WalkStays DEF vars, LiveRowsStay, Live
<1>2. ASSUME NEW M \in SUBSET DOMAIN rows, \A m \in M : Live(m), NEW s \in Stamps, Remove(M, s)
      PROVE  WalkFollows'
  <2>1. NewStamp(s) /\ rows' = SoftDelete(M, s)
    BY <1>2 DEF Remove
  <2>2. \A m \in DOMAIN rows : rows'[m].conv = rows[m].conv /\ rows'[m].no = rows[m].no
    <3>1. Deletes(M, s)
      BY <1>2, <2>1, SoftDeleted
    <3> QED BY <3>1 DEF Deletes
  <2>3. \A table : table = rows' => Owe(table)
    BY <1>2 DEF Remove
  <2> QED BY <2>2, <2>3, WalkOwes
<1>3. ASSUME NEW c \in Conversations, NEW s \in Stamps, DeleteConversation(c, s) PROVE WalkFollows'
  <2>1. LiveRows(c) \in SUBSET DOMAIN rows /\ \A m \in LiveRows(c) : Live(m)
    BY DEF LiveRows
  <2>2. NewStamp(s) /\ rows' = SoftDelete(LiveRows(c), s)
    BY <1>3 DEF DeleteConversation, Stamped
  <2>3. \A m \in DOMAIN rows : rows'[m].conv = rows[m].conv /\ rows'[m].no = rows[m].no
    <3>1. Deletes(LiveRows(c), s)
      BY <2>1, <2>2, SoftDeleted
    <3> QED BY <3>1 DEF Deletes
  <2>4. \A table : table = rows' => Owe(table)
    BY <1>3 DEF DeleteConversation
  <2> QED BY <2>3, <2>4, WalkOwes
<1>4. ASSUME NEW c, NEW p, CreateConversation(c, p) \/ MoveConversation(c, p) PROVE WalkFollows'
  <2>1. UNCHANGED <<rows, walk>>
    BY <1>4 DEF CreateConversation, MoveConversation
  <2> QED BY <2>1, WalkStays DEF LiveRowsStay, Live
<1>5. CASE StopWalk
  BY <1>5 DEF StopWalk, WalkFollows
<1>6. CASE MessageRequest
  <2>1. CASE \E m \in Messages, s \in Stamps : DeleteMessage(m, s)
    <3>1. PICK m \in Messages, s \in Stamps : DeleteMessage(m, s)
      BY <2>1
    <3>2. {m} \in SUBSET DOMAIN rows /\ (\A n \in {m} : Live(n)) /\ Remove({m}, s)
      BY <3>1 DEF DeleteMessage, Live
    <3> QED BY <1>2, <3>2
  <2> QED BY <1>6, <2>1, WalkStays, AppendStays, CancelStays, RewritingStays DEF MessageRequest
<1>7. CASE ConversationRequest
  <2>1. ASSUME NEW c \in Conversations, NEW s \in Stamps, ResetConversation(c, s) PROVE WalkFollows'
    <3>1. Remove(LiveRows(c), s)
      BY <2>1 DEF ResetConversation
    <3>2. LiveRows(c) \in SUBSET DOMAIN rows /\ \A m \in LiveRows(c) : Live(m)
      BY DEF LiveRows
    <3> QED BY <1>2, <3>1, <3>2
  <2> QED BY <1>3, <1>4, <1>7, <2>1, WalkStays, ForkStays, RestoreStays DEF ConversationRequest
<1> QED BY <1>1, <1>5, <1>6, <1>7, WalkStays, PurgeStays, StartFollows, ReadFollows DEF Next

-----------------------------------------------------------------------------
(* Theorems *)

LEMMA InitFollows ==
  ASSUME Init
  PROVE  Tables /\ IndexFollows /\ WalkFollows
<1>1. DOMAIN conv = {} /\ DOMAIN rows = {} /\ index = {} /\ walk = Idle
      /\ conv = [c \in {} |-> Idle] /\ rows = [m \in {} |-> Idle]
  BY DEF Init
<1>2. conv = [c \in DOMAIN conv |-> conv[c]] /\ rows = [m \in DOMAIN rows |-> rows[m]]
  BY <1>1
<1>3. Tables
  BY <1>1, <1>2
  DEF Tables, ConvsAreRows, MessagesAreRows, NumbersAreDistinct, RestoreIsExact
<1>4. IndexFollows /\ WalkFollows
  BY <1>1 DEF IndexFollows, Expected, WalkFollows
<1> QED BY <1>3, <1>4

\* The inductive invariant of the theorems below.
IInv == Tables /\ IndexFollows /\ WalkFollows

LEMMA Invariance == Spec => []IInv
<1>1. Init => IInv
  BY InitFollows DEF IInv
<1>2. IInv /\ [Next]_vars => IInv'
  BY TablesNext, IndexNext, WalkNext DEF IInv
<1> QED BY <1>1, <1>2, PTL DEF Spec

\* Every row, entry and cursor has its type.
THEOREM TypeCorrect == Spec => []TypeOK
<1>1. ASSUME IInv PROVE TypeOK
  <2>1. DOMAIN conv \subseteq Conversations /\ (\A c \in DOMAIN conv : conv[c] \in ConvRows)
        /\ DOMAIN rows \subseteq Messages /\ (\A m \in DOMAIN rows : rows[m] \in Rows)
    BY <1>1 DEF IInv, Tables, ConvsAreRows, MessagesAreRows
  <2>2. index \subseteq Entries
    BY <1>1 DEF IInv, IndexFollows, EntryIsTrue
  <2>3. walk.at \in {"idle", "reading", "short"}
    BY <1>1 DEF IInv, WalkFollows, Idle
  <2> QED BY <2>1, <2>2, <2>3 DEF TypeOK, Entries
<1> QED BY <1>1, Invariance, PTL

\* Restoring a conversation brings back exactly the messages its deletion took
\* (conversations.soft_delete() and restore()): however many deletions, resets, forks and
\* purges came before, none of the stamps has been mixed up.
THEOREM RestoresAreExact == Spec => []RestoreIsExact
<1>1. IInv => RestoreIsExact
  BY DEF IInv, Tables
<1> QED BY <1>1, Invariance, PTL

\* A client that pages through a transcript of any length with list_messages() is given every
\* message that was there all the time, whatever happens between its pages: the cursor is a
\* number that no other message of the conversation ever has.
THEOREM WalksAreWhole == Spec => []PagesMissNothing
<1>1. IInv => PagesMissNothing
  BY DEF IInv, WalkFollows, Idle, PagesMissNothing
<1> QED BY <1>1, Invariance, PTL

\* Other roles get into the index with their conversation alone.
LEMMA EntriesAreIndexed ==
  ASSUME Tables, [Next]_vars
  PROVE  OtherRolesAreCarriedIn
<1>1. ASSUME NEW c, NEW m, NEW text, NEW closed, AppendMessage(c, m, text, closed) PROVE OtherRolesAreCarriedIn
  BY <1>1 DEF AppendMessage, Entry, OtherRolesAreCarriedIn
<1>2. ASSUME NEW c, NEW m, CancelTurn(c, m) PROVE OtherRolesAreCarriedIn
  BY <1>2 DEF CancelTurn, Entry, OtherRolesAreCarriedIn
<1>3. ASSUME NEW m, NEW text, Complete(m, text) PROVE OtherRolesAreCarriedIn
  BY <1>3 DEF Complete, Entry, Drop, OtherRolesAreCarriedIn
<1>4. ASSUME index' = index \/ \E M : index' = Drop(M) PROVE OtherRolesAreCarriedIn
  BY <1>4 DEF Drop, OtherRolesAreCarriedIn
<1>5. ASSUME NEW m, AppendDelta(m) PROVE OtherRolesAreCarriedIn
  BY <1>4, <1>5 DEF AppendDelta
<1>6. ASSUME NEW M, NEW s, Remove(M, s) PROVE OtherRolesAreCarriedIn
  BY <1>4, <1>6 DEF Remove
<1>7. ASSUME NEW c, NEW s, DeleteConversation(c, s) PROVE OtherRolesAreCarriedIn
  BY <1>4, <1>7 DEF DeleteConversation
<1>8. ASSUME NEW old, Purge(old) PROVE OtherRolesAreCarriedIn
  BY <1>4, <1>8 DEF Purge
<1>9. ASSUME NEW c, NEW p, CreateConversation(c, p) PROVE OtherRolesAreCarriedIn
  BY <1>4, <1>9 DEF CreateConversation
<1>10. ASSUME conv' # conv PROVE OtherRolesAreCarriedIn
  BY <1>10 DEF OtherRolesAreCarriedIn
<1>11. ASSUME NEW c, NEW p, MoveConversation(c, p) PROVE conv' # conv
  <2>1. c \in DOMAIN conv /\ p # conv[c].project /\ conv' = [conv EXCEPT ![c].project = p]
    BY <1>11 DEF MoveConversation, LiveConv
  <2>2. conv[c] \in ConvRows
    BY <2>1 DEF Tables, ConvsAreRows
  <2>3. conv'[c].project = p
    BY <2>1, <2>2 DEF ConvRows
  <2> QED BY <2>1, <2>3
<1>12. ASSUME NEW c, NEW d, NEW m, ForkConversation(c, d, m) PROVE conv' # conv
  <2>1. d \notin DOMAIN conv /\ d \in DOMAIN conv'
    BY <1>12 DEF ForkConversation
  <2> QED BY <2>1
<1>13. ASSUME NEW c, RestoreConversation(c) PROVE conv' # conv
  <2>1. c \in DOMAIN conv /\ conv[c].deleted # None
        /\ conv' = [conv EXCEPT ![c].deleted = None, ![c].took = {}]
    BY <1>13 DEF RestoreConversation, LiveConv
  <2>2. conv[c] \in ConvRows
    BY <2>1 DEF Tables, ConvsAreRows
  <2>3. conv'[c].deleted = None
    BY <2>1, <2>2 DEF ConvRows
  <2> QED BY <2>1, <2>3
<1>14. CASE UNCHANGED <<conv, rows, index>>
  BY <1>4, <1>14
<1> QED BY <1>1, <1>2, <1>3, <1>5, <1>6, <1>7, <1>8, <1>9, <1>10, <1>11, <1>12, <1>13, <1>14, Changes

\* search_messages() finds what the transcripts say and nothing else, in whatever projects:
\* every step that changes a message, moves its conversation, deletes, restores, forks or
\* purges leaves message_fts with true entries only, and with one of every text completed.
\* What is written to a conversation indexes the indexed roles alone; other roles get there
\* only with their conversation.
THEOREM SearchIsCurrent == Spec => SearchFollowsTranscript
<1>1. ASSUME IInv PROVE IndexIsTrue
  <2>1. ASSUME NEW e \in index
        PROVE  /\ e.message \in DOMAIN rows /\ Live(e.message) /\ LiveConv(rows[e.message].conv)
               /\ e.conv = rows[e.message].conv /\ e.project = conv[e.conv].project
               /\ e.project \in Projects /\ e.text # 0
    <3>1. EntryIsTrue(e) /\ Tables
      BY <1>1 DEF IInv, IndexFollows
    <3>2. e.text \in 1..MaxText /\ e.project \in Projects
      BY <3>1 DEF EntryIsTrue, Entries
    <3>3. e.text # 0
      BY <3>2, BoundsAssumption
    <3> QED BY <3>1, <3>2, <3>3 DEF EntryIsTrue, Live, Tables, MessagesAreRows
  <2>2. index = Found(Projects)
    BY <2>1 DEF Found
  <2>3. ASSUME NEW P \in SUBSET Projects, NEW e \in Found(P)
        PROVE  e.conv = rows[e.message].conv /\ conv[e.conv].project \in P
    <3>1. e \in index /\ e.project \in P
      BY DEF Found
    <3> QED BY <2>1, <3>1
  <2>4. ASSUME NEW P \in SUBSET Projects, NEW m \in DOMAIN rows \cap Indexed,
               Live(m), LiveConv(rows[m].conv), conv[rows[m].conv].project \in P,
               rows[m].closed = "completed"
        PROVE  {e.text : e \in {f \in Found(P) : f.message = m}} = {rows[m].text} \ {0}
    <3> DEFINE S == {f \in Found(P) : f.message = m}
    <3>1. ASSUME NEW e \in S PROVE e.text = rows[m].text /\ e.text # 0
      <4>1. e \in index /\ e.message = m
        BY DEF Found
      <4>2. EntryIsTrue(e)
        BY <1>1, <4>1 DEF IInv, IndexFollows
      <4> QED BY <2>1, <2>4, <4>1, <4>2 DEF EntryIsTrue
    <3>2. ASSUME rows[m].text # 0 PROVE S # {}
      <4>1. m \in Messages /\ Expected(m)
        BY <1>1, <2>4, <3>2 DEF IInv, Tables, MessagesAreRows, Expected
      <4>2. PICK e \in index : e.message = m
        BY <1>1, <4>1 DEF IInv, IndexFollows
      <4>3. e.project \in P
        BY <2>1, <2>4, <4>2
      <4>4. e \in S
        BY <2>1, <4>2, <4>3 DEF Found
      <4> QED BY <4>4
    <3> HIDE DEF S
    <3>3. {e.text : e \in S} = {rows[m].text} \ {0}
      <4>1. CASE rows[m].text = 0
        BY <3>1, <4>1
      <4>2. CASE rows[m].text # 0
        <5>1. PICK e \in S : TRUE
          BY <3>2, <4>2
        <5>2. rows[m].text \in {f.text : f \in S}
          BY <3>1, <5>1
        <5> QED BY <3>1, <4>2, <5>2
      <4> QED BY <4>1, <4>2
    <3> QED BY <3>3 DEF S
  <2> QED BY <2>2, <2>3, <2>4 DEF IndexIsTrue
<1>2. ASSUME IInv, [Next]_vars PROVE [OtherRolesAreCarriedIn]_vars
  BY <1>2, EntriesAreIndexed DEF IInv
<1>3. Spec => []IndexIsTrue
  BY <1>1, Invariance, PTL
<1>4. Spec => [][OtherRolesAreCarriedIn]_vars
  BY <1>2, Invariance, PTL DEF Spec
<1>5. Spec => [][IndexIsTrue' /\ OtherRolesAreCarriedIn]_vars
  BY <1>3, <1>4, PTL
<1> QED BY <1>5 DEF SearchFollowsTranscript

=============================================================================
