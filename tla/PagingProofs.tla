----------------------------- MODULE PagingProofs -----------------------------
(***************************************************************************)
(* Proofs about reading page by page: with a time stamp as the cursor      *)
(* (HistoryPaging), and by LIMIT and OFFSET (OffsetPaging).                *)
(***************************************************************************)
EXTENDS HistoryPaging, OffsetPaging, FiniteSetTheorems, WellFoundedInduction, TLAPS

-----------------------------------------------------------------------------
(* Finite sets of integers have a first and a last element.                *)

\* A smallest nonempty set that has whatever is below its elements.
LEMMA HasLeast ==
  ASSUME NEW S \in SUBSET Int, IsFiniteSet(S), S # {}
  PROVE  \E x \in S : \A y \in S : x <= y
<1> DEFINE R == StrictSubsetOrdering(S)
           D == {T \in SUBSET S : T # {} /\ \A x \in T, y \in S : y <= x => y \in T}
<1>1. IsWellFoundedOn(R, SUBSET S)
  BY FS_StrictSubsetOrderingWellFounded, FS_FiniteSubsetsOfFinite
<1>2. D \subseteq SUBSET S /\ S \in D
  OBVIOUS
<1>3. PICK T \in D : \A U \in D : ~(<<U, T>> \in R)
  <2> HIDE DEF R, D
  <2>1. QED
    BY <1>1, <1>2, WFMin
<1>4. PICK x \in T : TRUE
  OBVIOUS
<1>5. ASSUME NEW y \in S, y < x PROVE FALSE
  <2> DEFINE U == {z \in S : z <= y}
  <2>1. y \in U /\ x \notin U
    BY <1>5
  <2>2. U \subseteq T
    <3>1. \A z \in U : z \in S /\ z <= x
      BY <1>5, x \in S
    <3>2. QED
      BY <3>1
  <2>3. U \in D
    BY <2>1
  <2>4. <<U, T>> \in R
    BY <2>1, <2>2, Zenon DEF StrictSubsetOrdering
  <2>5. QED
    BY <2>3, <2>4, <1>3
<1>6. QED
  BY <1>5

LEMMA HasGreatest ==
  ASSUME NEW S \in SUBSET Int, IsFiniteSet(S), S # {}
  PROVE  \E x \in S : \A y \in S : y <= x
<1> DEFINE R == StrictSubsetOrdering(S)
           D == {T \in SUBSET S : T # {} /\ \A x \in T, y \in S : y >= x => y \in T}
<1>1. IsWellFoundedOn(R, SUBSET S)
  BY FS_StrictSubsetOrderingWellFounded, FS_FiniteSubsetsOfFinite
<1>2. D \subseteq SUBSET S /\ S \in D
  OBVIOUS
<1>3. PICK T \in D : \A U \in D : ~(<<U, T>> \in R)
  <2> HIDE DEF R, D
  <2>1. QED
    BY <1>1, <1>2, WFMin
<1>4. PICK x \in T : TRUE
  OBVIOUS
<1>5. ASSUME NEW y \in S, y > x PROVE FALSE
  <2> DEFINE U == {z \in S : z >= y}
  <2>1. y \in U /\ x \notin U
    BY <1>5
  <2>2. U \subseteq T
    <3>1. \A z \in U : z \in S /\ z >= x
      BY <1>5, x \in S
    <3>2. QED
      BY <3>1
  <2>3. U \in D
    BY <2>1
  <2>4. <<U, T>> \in R
    BY <2>1, <2>2, Zenon DEF StrictSubsetOrdering
  <2>5. QED
    BY <2>3, <2>4, <1>3
<1>6. QED
  BY <1>5

-----------------------------------------------------------------------------
(* Pages of messages.                                                      *)

\* The first page has at least one message, if there is any, what is left is not
\* younger than what is on it, and all is on it when it is not more than a page.
LEMMA FirstPageFacts ==
  ASSUME sentAt \in [Messages -> Times], NEW S \in SUBSET Messages
  PROVE  /\ FirstPage(S) \subseteq S
         /\ S # {} => FirstPage(S) # {}
         /\ \A m \in S \ FirstPage(S), p \in FirstPage(S) : sentAt[m] <= sentAt[p]
         /\ Cardinality(S) <= Limit => FirstPage(S) = S
<1> DEFINE Before(m) == {n \in S : Younger(n, m)}
<1> USE ConstantsAssumption DEF ConstantsAssumption
<1>1. IsFiniteSet(S) /\ \A m \in S : sentAt[m] \in Int /\ m \in Int
  BY FS_Subset
<1>2. \A m \in S : IsFiniteSet(Before(m)) /\ Cardinality(Before(m)) \in Nat
  BY <1>1, FS_Subset, FS_CardinalityType
<1>3. FirstPage(S) = {m \in S : Cardinality(Before(m)) < Limit}
  BY DEF FirstPage
<1>4. ASSUME S # {} PROVE FirstPage(S) # {}
  <2> DEFINE T == {sentAt[m] : m \in S}
             f == [m \in S |-> sentAt[m]]
  <2>1. IsFiniteSet(T)
    <3>1. f \in Surjection(S, T)
      BY DEF Surjection
    <3>2. QED
      BY <3>1, <1>1, FS_Surjection
  <2>2. PICK t \in T : \A u \in T : u <= t
    <3>1. T \in SUBSET Int /\ T # {}
      BY <1>1, <1>4
    <3> HIDE DEF T
    <3>2. QED
      BY <3>1, <2>1, HasGreatest
  <2> DEFINE L == {m \in S : sentAt[m] = t}
  <2>3. PICK m \in L : \A n \in L : n <= m
    <3>1. L \in SUBSET Int /\ L # {} /\ IsFiniteSet(L)
      BY <1>1, FS_Subset
    <3> HIDE DEF L
    <3>2. QED
      BY <3>1, HasGreatest
  <2>4. Before(m) = {}
    <3>1. SUFFICES ASSUME NEW n \in S, Younger(n, m) PROVE FALSE
      OBVIOUS
    <3>2. sentAt[n] <= t /\ sentAt[m] = t
      BY <2>2
    <3>3. sentAt[n] = t /\ n > m
      BY <3>1, <3>2, <1>1 DEF Younger
    <3>4. QED
      BY <3>3, <2>3, <1>1
  <2>5. QED
    BY <2>4, <1>3, FS_EmptySet
<1>5. ASSUME NEW m \in S \ FirstPage(S), NEW p \in FirstPage(S)
      PROVE  sentAt[m] <= sentAt[p]
  <2>0. /\ m \in S /\ p \in S /\ sentAt[m] \in Int /\ sentAt[p] \in Int
        /\ ~ (Cardinality(Before(m)) < Limit) /\ Cardinality(Before(p)) < Limit
    BY <1>1, <1>3
  <2>1. SUFFICES ASSUME sentAt[m] > sentAt[p] PROVE FALSE
    BY <2>0
  <2>2. Before(m) \subseteq Before(p)
    <3>1. SUFFICES ASSUME NEW n \in S, Younger(n, m) PROVE Younger(n, p)
      OBVIOUS
    <3>2. sentAt[n] > sentAt[p]
      BY <3>1, <2>0, <2>1, <1>1 DEF Younger
    <3>3. QED
      BY <3>2 DEF Younger
  <2>3. Cardinality(Before(m)) <= Cardinality(Before(p))
    BY <2>0, <2>2, <1>2, FS_Subset
  <2>4. QED
    BY <2>0, <2>3, <1>2
<1>6. ASSUME Cardinality(S) <= Limit, NEW m \in S PROVE m \in FirstPage(S)
  <2>1. m \notin Before(m)
    BY <1>1 DEF Younger
  <2>2. Before(m) # S
    BY <2>1
  <2>3. Cardinality(Before(m)) < Cardinality(S)
    BY <2>2, <1>1, <1>2, FS_Subset, FS_CardinalityType
  <2>4. QED
    BY <2>3, <1>1, <1>2, <1>3, <1>6, FS_CardinalityType
<1>7. QED
  BY <1>3, <1>4, <1>5, <1>6

LEMMA CursorFacts ==
  ASSUME sentAt \in [Messages -> Times], NEW P \in SUBSET Messages, P # {}
  PROVE  /\ Cursor(P) \in Times
         /\ \E n \in P : sentAt[n] = Cursor(P)
         /\ \A n \in P : Cursor(P) <= sentAt[n]
<1> DEFINE T == {sentAt[m] : m \in P}
           f == [m \in P |-> sentAt[m]]
<1>1. IsFiniteSet(P)
  BY ConstantsAssumption, FS_Subset DEF ConstantsAssumption
<1>2. T \subseteq Times /\ T # {}
  OBVIOUS
<1>3. T \in SUBSET Int
  BY <1>2, ConstantsAssumption DEF ConstantsAssumption
<1>4. IsFiniteSet(T)
  <2>1. f \in Surjection(P, T)
    BY DEF Surjection
  <2>2. QED
    BY <2>1, <1>1, FS_Surjection
<1>5. \E t \in T : \A u \in T : t <= u
  <2> HIDE DEF T
  <2>1. QED
    BY <1>2, <1>3, <1>4, HasLeast
<1>6. \E t \in T : \A m \in P : t <= sentAt[m]
  BY <1>5
<1>7. Cursor(P) \in T /\ \A m \in P : Cursor(P) <= sentAt[m]
  BY <1>6 DEF Cursor, Oldest
<1>8. QED
  BY <1>2, <1>7

-----------------------------------------------------------------------------
(* The reader of a history.                                                *)

HistoryTypeOK ==
    /\ sentAt \in [Messages -> Times]
    /\ stored \subseteq Messages /\ wanted \subseteq stored
    /\ pages \in Seq(SUBSET Messages)
    /\ before \in Times \cup {NoLimit}
    /\ phase \in {"idle", "reading", "done"}

\* The cursor stands below all that was read; before the first page there is none.
CursorIsBelow ==
    phase = "reading" =>
        /\ before = NoLimit => pages = <<>>
        /\ before # NoLimit => \A i \in DOMAIN pages : \A m \in pages[i] : before <= sentAt[m]

\* A message that ties with the oldest one of a page.
Tied(m) ==
    \E i \in DOMAIN pages : \E n \in pages[i] :
        sentAt[n] = sentAt[m] /\ \A p \in pages[i] : sentAt[n] <= sentAt[p]

\* What was wanted and not read yet is still to come, or ties.
StillToCome ==
    \A m \in wanted :
        /\ InRange(m, from, to)
        /\ m \in Read \/ Tied(m) \/ (phase = "reading" /\ (before # NoLimit => sentAt[m] < before))

HistoryIInv ==
    /\ HistoryTypeOK
    /\ phase = "idle" => wanted = {} /\ pages = <<>> /\ before = NoLimit
    /\ CursorIsBelow /\ PagesDescend /\ StillToCome

LEMMA HistoryInit == Init => HistoryIInv
BY DEF Init, HistoryIInv, HistoryTypeOK, CursorIsBelow, PagesDescend, StillToCome

LEMMA StoreKeeps ==
  ASSUME HistoryIInv, NEW m \in Messages, Store(m)
  PROVE  HistoryIInv'
BY DEF Store, HistoryIInv, HistoryTypeOK, CursorIsBelow, PagesDescend, StillToCome, InRange, Read, Tied

LEMMA StartKeeps ==
  ASSUME HistoryIInv, Start
  PROVE  HistoryIInv'
<1>1. /\ HistoryTypeOK /\ PagesDescend /\ pages = <<>> /\ before = NoLimit
      /\ phase' = "reading" /\ UNCHANGED <<sentAt, stored, before, pages>>
  BY DEF Start, HistoryIInv
<1>2. \A m \in wanted' : m \in stored /\ InRange(m, from', to')
  BY DEF Start
<1>3. HistoryTypeOK' /\ CursorIsBelow' /\ PagesDescend'
  BY <1>1, <1>2 DEF HistoryTypeOK, CursorIsBelow, PagesDescend
<1>4. StillToCome'
  BY <1>1, <1>2 DEF StillToCome, InRange
<1>5. QED
  BY <1>1, <1>3, <1>4 DEF HistoryIInv

\* What a page adds: the pages before it stay where they are.
LEMMA NextPage ==
  ASSUME HistoryIInv, NEW P \in SUBSET Messages, pages' = Append(pages, P)
  PROVE  /\ pages' \in Seq(SUBSET Messages)
         /\ DOMAIN pages' = DOMAIN pages \cup {Len(pages) + 1} /\ Len(pages) + 1 \notin DOMAIN pages
         /\ \A i \in DOMAIN pages : i < Len(pages) + 1 /\ pages'[i] = pages[i]
         /\ pages'[Len(pages) + 1] = P
         /\ Read' = Read \cup P
<1>1. pages \in Seq(SUBSET Messages)
  BY DEF HistoryIInv, HistoryTypeOK
<1>2. /\ pages' \in Seq(SUBSET Messages)
      /\ DOMAIN pages' = DOMAIN pages \cup {Len(pages) + 1} /\ Len(pages) + 1 \notin DOMAIN pages
      /\ \A i \in DOMAIN pages : i < Len(pages) + 1 /\ pages'[i] = pages[i]
      /\ pages'[Len(pages) + 1] = P
  BY <1>1
<1>3. Read' = Read \cup P
  BY <1>2 DEF Read
<1>4. QED
  BY <1>2, <1>3

LEMMA ReadPageKeeps ==
  ASSUME HistoryIInv, ReadPage
  PROVE  HistoryIInv'
<1> DEFINE P == FirstPage(Matching)
           k == Len(pages) + 1
<1>1. /\ HistoryTypeOK /\ CursorIsBelow /\ PagesDescend /\ StillToCome
      /\ phase = "reading" /\ pages' = Append(pages, P)
      /\ UNCHANGED <<sentAt, stored, from, to, wanted>>
  BY DEF ReadPage, HistoryIInv
<1>2. sentAt \in [Messages -> Times] /\ Matching \in SUBSET Messages /\ Times \subseteq Int /\ NoLimit \notin Int
  BY <1>1, ConstantsAssumption DEF ConstantsAssumption, HistoryTypeOK, Matching
<1>3. /\ P \subseteq Matching
      /\ Matching # {} => P # {}
      /\ \A m \in Matching \ P, p \in P : sentAt[m] <= sentAt[p]
      /\ Cardinality(Matching) <= Limit => P = Matching
  BY <1>2, FirstPageFacts
<1> HIDE DEF P
<1>4. /\ pages' \in Seq(SUBSET Messages)
      /\ DOMAIN pages' = DOMAIN pages \cup {k} /\ k \notin DOMAIN pages
      /\ \A i \in DOMAIN pages : i < k /\ pages'[i] = pages[i]
      /\ pages'[k] = P
      /\ Read' = Read \cup P
  BY <1>1, <1>2, <1>3, NextPage
<1>5. /\ Cardinality(Matching) \in Nat /\ Limit \in Nat
      /\ Cardinality(Matching) > Limit => Matching # {}
  <2>1. IsFiniteSet(Matching) /\ Limit \in Nat
    BY <1>2, ConstantsAssumption, FS_Subset DEF ConstantsAssumption
  <2>2. QED
    BY <2>1, FS_CardinalityType, FS_EmptySet
<1>6. Cardinality(Matching) > Limit =>
        /\ before' = Cursor(P) /\ phase' = "reading"
        /\ Cursor(P) \in Times
        /\ \E n \in P : sentAt[n] = Cursor(P)
        /\ \A n \in P : Cursor(P) <= sentAt[n]
  BY <1>1, <1>2, <1>3, <1>5, CursorFacts DEF ReadPage, P
<1>7. ~(Cardinality(Matching) > Limit) => phase' = "done" /\ before' = before /\ P = Matching
  BY <1>3, <1>5, ConstantsAssumption DEF ReadPage, ConstantsAssumption
<1>8. \A i \in DOMAIN pages : \A m \in pages[i] :
        m \in Messages /\ before # NoLimit /\ before \in Int /\ before <= sentAt[m]
  BY <1>1, <1>2 DEF HistoryTypeOK, CursorIsBelow
<1>9. \A m \in P : m \in Messages /\ sentAt[m] \in Int /\ (before # NoLimit => sentAt[m] < before)
  BY <1>2, <1>3 DEF Matching
<1>10. HistoryTypeOK'
  BY <1>1, <1>4, <1>6, <1>7 DEF HistoryTypeOK
<1>11. CursorIsBelow'
  <2>1. SUFFICES ASSUME Cardinality(Matching) > Limit PROVE CursorIsBelow'
    BY <1>7 DEF CursorIsBelow
  <2>2. before' \in Int /\ before' # NoLimit /\ \A m \in P : before' <= sentAt[m]
    BY <2>1, <1>2, <1>6
  <2>3. PICK n \in P : sentAt[n] = before'
    BY <2>1, <1>6
  <2>4. ASSUME NEW i \in DOMAIN pages, NEW m \in pages[i] PROVE before' <= sentAt[m]
    <3>1. before \in Int /\ before <= sentAt[m] /\ sentAt[n] < before /\ sentAt[m] \in Int
      BY <1>2, <1>8, <1>9
    <3>2. QED
      BY <3>1, <2>2, <2>3
  <2>5. QED
    BY <2>2, <2>4, <1>1, <1>4 DEF CursorIsBelow
<1>12. PagesDescend'
  <2>1. SUFFICES ASSUME NEW i \in DOMAIN pages', NEW j \in DOMAIN pages', i < j,
                        NEW m \in pages'[i], NEW n \in pages'[j]
                 PROVE  sentAt[n] < sentAt[m]
    BY <1>1 DEF PagesDescend
  <2>2. i \in DOMAIN pages
    BY <1>4, <2>1
  <2>3. CASE j \in DOMAIN pages
    BY <2>1, <2>2, <2>3, <1>1, <1>4 DEF PagesDescend
  <2>4. CASE j = k
    <3>1. n \in P /\ m \in pages[i]
      BY <2>2, <2>4, <1>4
    <3>2. before \in Int /\ before <= sentAt[m] /\ sentAt[n] < before /\ sentAt[m] \in Int /\ sentAt[n] \in Int
      BY <3>1, <2>2, <1>2, <1>8, <1>9
    <3>3. QED
      BY <3>2
  <2>5. QED
    BY <2>3, <2>4, <1>4
<1>13. \A m : Tied(m) => Tied(m)'
  BY <1>1, <1>4 DEF Tied
<1>14. ASSUME NEW m \in wanted
       PROVE  m \in Read' \/ Tied(m)' \/ (phase' = "reading" /\ (before' # NoLimit => sentAt[m] < before'))
  <2>1. CASE m \in Matching \ P
    <3>1. /\ Cardinality(Matching) > Limit /\ P # {}
          /\ m \in Messages /\ sentAt[m] \in Int
      BY <2>1, <1>2, <1>3, <1>7
    <3>2. PICK n \in P : sentAt[n] = before'
      BY <3>1, <1>6
    <3>3. before' \in Int /\ sentAt[m] <= before' /\ \A p \in P : before' <= sentAt[p]
      BY <3>1, <3>2, <2>1, <1>2, <1>3, <1>6
    <3>4. CASE sentAt[m] = before'
      BY <3>2, <3>3, <3>4, <1>1, <1>4 DEF Tied
    <3>5. QED
      BY <3>1, <3>3, <3>4, <1>6
  <2>2. CASE m \in Matching /\ m \in P
    BY <2>2, <1>4
  <2>3. CASE m \notin Matching
    <3>1. m \in Read \/ Tied(m)
      BY <2>3, <1>1 DEF StillToCome, HistoryTypeOK, Matching
    <3>2. QED
      BY <3>1, <1>4, <1>13
  <2>4. QED
    BY <2>1, <2>2, <2>3
<1>15. StillToCome'
  BY <1>1, <1>14 DEF StillToCome, InRange
<1>16. QED
  BY <1>1, <1>6, <1>7, <1>10, <1>11, <1>12, <1>15 DEF HistoryIInv

LEMMA HistoryStep == HistoryIInv /\ [Next]_vars => HistoryIInv'
<1> SUFFICES ASSUME HistoryIInv, [Next]_vars PROVE HistoryIInv'
  OBVIOUS
<1>1. CASE \E m \in Messages : Store(m)
  BY <1>1, StoreKeeps
<1>2. CASE Start
  BY <1>2, StartKeeps
<1>3. CASE ReadPage
  BY <1>3, ReadPageKeeps
<1>4. CASE UNCHANGED vars
  BY <1>4 DEF vars, HistoryIInv, HistoryTypeOK, CursorIsBelow, PagesDescend, StillToCome, InRange, Read, Tied
<1>5. QED
  BY <1>1, <1>2, <1>3, <1>4 DEF Next

(* The pages of a history follow one another in time and repeat nothing,   *)
(* whatever is stored while it is read (ListMessages, buildDocument).      *)
THEOREM PagesAreInOrder == Spec => []PagesDescend
<1>1. HistoryIInv => PagesDescend
  BY DEF HistoryIInv
<1>2. QED
  BY <1>1, HistoryInit, HistoryStep, PTL DEF Spec

(* All that an export misses ties with the last message of one of its      *)
(* pages.                                                                  *)
THEOREM MissedOnesTie == Spec => []OnlyTiesAreMissed
<1>1. HistoryIInv => OnlyTiesAreMissed
  BY DEF HistoryIInv, StillToCome, OnlyTiesAreMissed, Tied
<1>2. QED
  BY <1>1, HistoryInit, HistoryStep, PTL DEF Spec

NoTies == \A m, n \in Messages : sentAt[m] = sentAt[n] => m = n

(* An export of messages that have time stamps of their own is complete:   *)
(* equal time stamps are the only reason for the failure of Complete that  *)
(* a run shows.                                                            *)
THEOREM CompleteWithoutTies == Spec => [](NoTies => Complete)
<1>1. HistoryIInv => (NoTies => Complete)
  <2>1. SUFFICES ASSUME HistoryIInv, NoTies, phase = "done", NEW m \in wanted PROVE m \in Read
    BY DEF Complete
  <2>2. CASE Tied(m)
    <3>1. PICK i \in DOMAIN pages : \E n \in pages[i] : sentAt[n] = sentAt[m]
      BY <2>2 DEF Tied
    <3>2. m \in Messages /\ pages[i] \subseteq Messages
      BY <2>1, <3>1 DEF HistoryIInv, HistoryTypeOK
    <3>3. QED
      BY <2>1, <3>1, <3>2 DEF NoTies, Read
  <2>3. QED
    BY <2>1, <2>2 DEF HistoryIInv, StillToCome
<1>2. QED
  BY <1>1, HistoryInit, HistoryStep, PTL DEF Spec

-----------------------------------------------------------------------------
(* Lists by offset.                                                        *)

OffsetTypeOK ==
    /\ list \in {"runs", "audit", "chats"}
    /\ createdAt \in [Rows -> CreatedAts]
    /\ rows \subseteq Rows /\ gone \subseteq Rows /\ risen \subseteq Rows
    /\ there \subseteq rows \cup gone /\ rows \cap gone = {}
    /\ limit \in Nat /\ offset \in Nat /\ total \in Nat
    /\ reading \in {"count", "list", "done"}
    /\ slips \in Nat /\ sunk \in Nat

Above(r) == {s \in rows : Precedes(s, r)}

\* No row of the same time: the order says where it is.
Ranked(r) == list # "audit" \/ \A s \in rows \ {r} : createdAt[s] # createdAt[r]

\* Rows that the client should have got: as SkipsAreSlips counts them.
Due == {r \in (there \cap rows) \ seen : Ranked(r) /\ r \notin risen}

\* They are behind the client.
Passed == {r \in Due : Cardinality(Above(r)) < offset}

OffsetIInv ==
    /\ OffsetTypeOK
    /\ list = "audit" => gone = {} /\ sunk = 0 /\ risen = {}
    /\ reading # "done" => Cardinality(Passed) <= Cardinality(gone) + sunk
    /\ reading = "list" => Cardinality(rows) <= total + slips
    /\ reading = "done" => Cardinality(Due) <= Cardinality(gone) + slips + sunk

LEMMA AtMostOneMore ==
  ASSUME NEW A, IsFiniteSet(A), NEW B, NEW D, B \subseteq A \cup D, \A x, y \in D : x = y
  PROVE  Cardinality(B) <= Cardinality(A) + 1
<1>1. CASE D = {}
  BY <1>1, FS_Subset, FS_CardinalityType
<1>2. ASSUME NEW d \in D PROVE Cardinality(B) <= Cardinality(A) + 1
  <2>1. B \subseteq A \cup {d}
    BY <1>2
  <2>2. IsFiniteSet(A \cup {d}) /\ Cardinality(A \cup {d}) <= Cardinality(A) + 1
    BY FS_AddElement, FS_CardinalityType
  <2>3. Cardinality(B) <= Cardinality(A \cup {d})
    BY <2>1, <2>2, FS_Subset
  <2>4. QED
    BY <2>1, <2>2, <2>3, FS_Subset, FS_CardinalityType
<1>3. QED
  BY <1>1, <1>2

LEMMA OffsetFinite ==
  ASSUME OffsetTypeOK
  PROVE  /\ IsFiniteSet(Rows) /\ \A S \in SUBSET Rows : IsFiniteSet(S) /\ Cardinality(S) \in Nat
         /\ Due \subseteq Rows /\ Passed \subseteq Due
         /\ \A r : Above(r) \subseteq Rows
         /\ \A r \in rows : r \in Int /\ createdAt[r] \in Int
<1>1. IsFiniteSet(Rows) /\ \A S \in SUBSET Rows : IsFiniteSet(S) /\ Cardinality(S) \in Nat
  BY OffsetConstants, FS_Subset, FS_CardinalityType DEF OffsetConstants
<1>2. \A r \in rows : r \in Int /\ createdAt[r] \in Int
  BY OffsetConstants DEF OffsetConstants, OffsetTypeOK
<1>3. QED
  BY <1>1, <1>2 DEF OffsetTypeOK, Due, Passed, Above

\* Of two rows that the order tells apart one has fewer above it.
LEMMA RankGrows ==
  ASSUME OffsetTypeOK, NEW r \in rows, NEW s \in rows, Precedes(r, s)
  PROVE  Cardinality(Above(r)) < Cardinality(Above(s))
<1>1. r \in Above(s) /\ r \notin Above(r)
  BY OffsetFinite DEF Above, Precedes
<1>2. Above(r) \subseteq Above(s)
  <2>1. SUFFICES ASSUME NEW t \in rows, Precedes(t, r) PROVE Precedes(t, s)
    BY DEF Above
  <2>2. QED
    BY <2>1, OffsetFinite DEF Precedes
<1>3. Above(r) # Above(s)
  BY <1>1
<1>4. QED
  BY <1>2, <1>3, OffsetFinite, FS_Subset

LEMMA RankedFacts ==
  ASSUME OffsetTypeOK, NEW r \in rows, Ranked(r), NEW s \in rows, r # s
  PROVE  Precedes(r, s) \/ Precedes(s, r)
BY OffsetFinite DEF Ranked, Precedes

\* A row that keeps what is above it is not passed by the client.
LEMMA StaysAhead ==
  ASSUME OffsetTypeOK, OffsetTypeOK', UNCHANGED offset, NEW r,
         Above(r) \subseteq Above(r)', Cardinality(Above(r)') < offset'
  PROVE  Cardinality(Above(r)) < offset
<1>1. IsFiniteSet(Above(r)') /\ Above(r) \in SUBSET Above(r)'
  BY OffsetFinite, OffsetConstants, FS_Subset DEF OffsetTypeOK, Above, OffsetConstants
<1>2. Cardinality(Above(r)) <= Cardinality(Above(r)')
  BY <1>1, FS_Subset
<1>3. Cardinality(Above(r)) \in Nat /\ Cardinality(Above(r)') \in Nat /\ offset \in Nat
  BY <1>1, FS_Subset, FS_CardinalityType DEF OffsetTypeOK
<1>4. QED
  BY <1>2, <1>3

\* When one row goes from above the others, one of them at most is passed.
LEMMA OneSlips ==
  ASSUME OffsetTypeOK, OffsetTypeOK', UNCHANGED offset, list # "audit", NEW x,
         Due' \subseteq Due, \A r \in Due' : Above(r) \ {x} \subseteq Above(r)'
  PROVE  Cardinality(Passed') <= Cardinality(Passed) + 1
<1> DEFINE D == {r \in Due : Cardinality(Above(r)) = offset}
<1>1. ASSUME NEW r \in D, NEW s \in D, r # s PROVE FALSE
  <2>1. r \in rows /\ s \in rows /\ Ranked(r)
    BY <1>1 DEF Due
  <2>2. Precedes(r, s) \/ Precedes(s, r)
    BY <1>1, <2>1, RankedFacts
  <2>3. Cardinality(Above(r)) # Cardinality(Above(s))
    BY <2>1, <2>2, RankGrows, OffsetFinite
  <2>4. QED
    BY <1>1, <2>3
<1>2. Passed' \subseteq Passed \cup D
  <2>1. SUFFICES ASSUME NEW r \in Due', Cardinality(Above(r)') < offset
                 PROVE  Cardinality(Above(r)) <= offset
    BY OffsetFinite DEF Passed, OffsetTypeOK
  <2>2. IsFiniteSet(Above(r)') /\ Cardinality(Above(r)') \in Nat
    BY OffsetConstants, FS_Subset, FS_CardinalityType DEF OffsetTypeOK, Above, OffsetConstants
  <2>3. IsFiniteSet(Above(r)) /\ Cardinality(Above(r)) \in Nat
    BY OffsetFinite
  <2>4. Above(r) \subseteq Above(r)' \cup {x}
    BY <2>1
  <2>5. Cardinality(Above(r)) <= Cardinality(Above(r)') + 1
    BY <2>2, <2>4, AtMostOneMore, \A y, z \in {x} : y = z
  <2>6. QED
    BY <2>1, <2>2, <2>3, <2>5 DEF OffsetTypeOK
<1>3. IsFiniteSet(Passed)
  BY OffsetFinite
<1> HIDE DEF D
<1>4. QED
  BY <1>1, <1>2, <1>3, AtMostOneMore

LEMMA OffsetInitInv == OffsetInit => OffsetIInv
<1> SUFFICES ASSUME OffsetInit PROVE OffsetIInv
  OBVIOUS
<1>1. OffsetTypeOK
  BY OffsetConstants DEF OffsetInit, OffsetTypeOK, OffsetConstants, ClampLimit
<1>2. Passed = {}
  BY <1>1, OffsetFinite DEF OffsetInit, Passed
<1>3. QED
  BY <1>1, <1>2, FS_EmptySet DEF OffsetInit, OffsetIInv

LEMMA InsertKeeps ==
  ASSUME OffsetIInv, NEW r \in Rows, Insert(r)
  PROVE  OffsetIInv'
<1>1. OffsetTypeOK
  BY DEF OffsetIInv
<1>2. OffsetTypeOK'
  BY <1>1 DEF Insert, client, moves, OffsetTypeOK
<1>3. /\ rows' = rows \cup {r} /\ r \notin rows /\ r \notin there
      /\ UNCHANGED <<list, createdAt, gone, offset, limit, total, reading, seen, there, risen, sunk>>
      /\ slips' = IF reading = "list" THEN slips + 1 ELSE slips
  BY <1>1 DEF Insert, client, moves, OffsetTypeOK
<1>4. Due' \subseteq Due
  BY <1>3 DEF Due, Ranked
<1>5. \A s : Above(s) \subseteq Above(s)'
  BY <1>3 DEF Above, Precedes
<1>6. Passed' \subseteq Passed
  <2>1. SUFFICES ASSUME NEW s \in Due, Cardinality(Above(s)') < offset' PROVE Cardinality(Above(s)) < offset
    BY <1>4 DEF Passed
  <2>2. QED
    BY <2>1, <1>1, <1>2, <1>3, <1>5, StaysAhead
<1>7. /\ Cardinality(Due') <= Cardinality(Due) /\ Cardinality(Passed') <= Cardinality(Passed)
      /\ Cardinality(Due') \in Nat /\ Cardinality(Passed') \in Nat
      /\ Cardinality(Due) \in Nat /\ Cardinality(Passed) \in Nat /\ Cardinality(gone) \in Nat
  BY <1>1, <1>4, <1>6, OffsetFinite, FS_Subset, FS_CardinalityType DEF OffsetTypeOK
<1>8. reading = "list" => Cardinality(rows') <= Cardinality(rows) + 1 /\ Cardinality(rows) \in Nat /\ Cardinality(rows') \in Nat
  BY <1>1, <1>3, OffsetFinite, FS_AddElement DEF OffsetTypeOK
<1>9. QED
  BY <1>1, <1>2, <1>3, <1>7, <1>8 DEF OffsetIInv, OffsetTypeOK

LEMMA CascadeKeeps ==
  ASSUME OffsetIInv, NEW r \in Rows, Cascade(r)
  PROVE  OffsetIInv'
<1>1. OffsetTypeOK
  BY DEF OffsetIInv
<1>2. OffsetTypeOK'
  BY <1>1 DEF Cascade, client, moves, OffsetTypeOK
<1>3. /\ rows' = rows \ {r} /\ r \in rows /\ gone' = gone \cup {r} /\ list # "audit"
      /\ UNCHANGED <<list, createdAt, slips, offset, limit, total, reading, seen, there, risen, sunk>>
  BY DEF Cascade, client, moves
<1>4. Due' \subseteq Due /\ \A s \in Due' : Above(s) \ {r} \subseteq Above(s)'
  BY <1>3 DEF Due, Ranked, Above, Precedes
<1>5. Cardinality(Passed') <= Cardinality(Passed) + 1
  BY <1>1, <1>2, <1>3, <1>4, OneSlips
<1>6. r \notin gone /\ IsFiniteSet(gone) /\ IsFiniteSet(rows)
  BY <1>1, <1>3, OffsetFinite DEF OffsetTypeOK
<1>7. /\ Cardinality(gone') = Cardinality(gone) + 1
      /\ Cardinality(rows') <= Cardinality(rows)
      /\ Cardinality(gone) \in Nat /\ Cardinality(rows) \in Nat /\ Cardinality(rows') \in Nat
  <2>1. Cardinality(gone') = Cardinality(gone) + 1
    BY <1>3, <1>6, FS_AddElement
  <2>2. Cardinality(rows') = Cardinality(rows) - 1 /\ IsFiniteSet(rows')
    BY <1>3, <1>6, FS_RemoveElement
  <2>3. Cardinality(gone) \in Nat /\ Cardinality(rows) \in Nat /\ Cardinality(rows') \in Nat
    BY <1>6, <2>2, FS_CardinalityType
  <2>4. QED
    BY <2>1, <2>2, <2>3
<1>8. /\ Cardinality(Due') <= Cardinality(Due) /\ Cardinality(Due') \in Nat /\ Cardinality(Due) \in Nat
      /\ Cardinality(Passed) \in Nat /\ Cardinality(Passed') \in Nat
  <2>1. IsFiniteSet(Due) /\ IsFiniteSet(Passed) /\ Passed' \subseteq Due
    BY <1>1, <1>4, OffsetFinite DEF Passed
  <2>2. QED
    BY <2>1, <1>4, FS_Subset, FS_CardinalityType
<1>9. QED
  BY <1>1, <1>2, <1>3, <1>5, <1>7, <1>8 DEF OffsetIInv, OffsetTypeOK

LEMMA UpsertKeeps ==
  ASSUME OffsetIInv, NEW r \in Rows, NEW at \in CreatedAts, UpsertChat(r, at)
  PROVE  OffsetIInv'
<1>1. OffsetTypeOK
  BY DEF OffsetIInv
<1>2. OffsetTypeOK'
  BY <1>1 DEF UpsertChat, client, OffsetTypeOK
<1>3. /\ list # "audit" /\ r \in rows /\ createdAt' = [createdAt EXCEPT ![r] = at]
      /\ risen' = (IF at > createdAt[r] THEN risen \cup {r} ELSE risen)
      /\ sunk' = (IF at < createdAt[r] THEN sunk + 1 ELSE sunk)
      /\ UNCHANGED <<list, rows, gone, slips, offset, limit, total, reading, seen, there>>
  BY DEF UpsertChat, client
<1>4. createdAt[r] \in Int /\ at \in Int /\ createdAt'[r] = at /\ \A s \in Rows \ {r} : createdAt'[s] = createdAt[s]
  BY <1>1, <1>3, OffsetConstants DEF OffsetTypeOK, OffsetConstants
<1>5. Due' \subseteq Due
  BY <1>3 DEF Due, Ranked
<1>6. /\ Cardinality(Due') <= Cardinality(Due) /\ Cardinality(Due') \in Nat /\ Cardinality(Due) \in Nat
      /\ Cardinality(Passed) \in Nat /\ Cardinality(Passed') \in Nat /\ Cardinality(gone) \in Nat
  <2>1. IsFiniteSet(Due) /\ IsFiniteSet(Passed) /\ Passed' \subseteq Due /\ IsFiniteSet(gone)
    BY <1>1, <1>5, OffsetFinite DEF Passed, OffsetTypeOK
  <2>2. QED
    BY <2>1, <1>5, FS_Subset, FS_CardinalityType
<1>7. ASSUME at < createdAt[r]
      PROVE  Cardinality(Passed') <= Cardinality(Passed) + 1
  <2>1. ASSUME NEW s \in Due', NEW t \in rows \ {r}, Precedes(t, s) PROVE Precedes(t, s)'
    <3>0. s \in Rows /\ t \in Rows /\ createdAt[s] \in Int
      BY <1>1, <1>5, OffsetFinite, OffsetConstants DEF OffsetTypeOK, OffsetConstants
    <3>1. createdAt'[t] = createdAt[t] /\ createdAt'[s] <= createdAt[s]
      BY <3>0, <1>4, <1>7
    <3>2. createdAt'[t] \in Int /\ createdAt'[s] \in Int /\ createdAt[s] \in Int /\ createdAt[t] \in Int
      BY <1>1, <1>2, <3>0, OffsetConstants DEF OffsetTypeOK, OffsetConstants
    <3>3. QED
      BY <1>3, <2>1, <3>1, <3>2 DEF Precedes
  <2>2. \A s \in Due' : Above(s) \ {r} \subseteq Above(s)'
    BY <1>3, <2>1 DEF Above
  <2>3. QED
    BY <1>1, <1>2, <1>3, <1>5, <2>2, OneSlips
<1>8. ASSUME ~(at < createdAt[r])
      PROVE  Cardinality(Passed') <= Cardinality(Passed)
  <2>1. ASSUME NEW s \in Due', NEW t \in rows, Precedes(t, s) PROVE Precedes(t, s)'
    <3>0. s \in Rows /\ t \in Rows /\ createdAt[s] \in Int /\ createdAt[t] \in Int /\ s \notin risen'
      BY <1>1, <1>5, OffsetFinite, OffsetConstants DEF OffsetTypeOK, OffsetConstants, Due
    <3>1. createdAt'[t] >= createdAt[t] /\ createdAt'[s] = createdAt[s]
      BY <3>0, <1>3, <1>4, <1>8
    <3>2. createdAt'[t] \in Int /\ createdAt'[s] \in Int
      BY <1>2, <3>0, OffsetConstants DEF OffsetTypeOK, OffsetConstants
    <3>3. QED
      BY <1>3, <2>1, <3>0, <3>1, <3>2 DEF Precedes
  <2>2. \A s \in Due' : Above(s) \subseteq Above(s)'
    BY <1>3, <2>1 DEF Above
  <2>3. Passed' \subseteq Passed
    BY <1>1, <1>2, <1>3, <1>5, <2>2, StaysAhead DEF Passed
  <2>4. QED
    BY <1>1, <2>3, OffsetFinite, FS_Subset
<1>9. QED
  BY <1>1, <1>2, <1>3, <1>4, <1>6, <1>7, <1>8 DEF OffsetIInv, OffsetTypeOK

LEMMA CountKeeps ==
  ASSUME OffsetIInv, CountRows
  PROVE  OffsetIInv'
<1>1. OffsetTypeOK /\ OffsetTypeOK'
  BY OffsetFinite DEF OffsetIInv, CountRows, offsetTable, moves, OffsetTypeOK
<1>2. UNCHANGED <<Due, Passed, gone, sunk>>
  BY DEF CountRows, offsetTable, moves, Due, Passed, Ranked, Above, Precedes
<1>3. QED
  BY <1>1, <1>2, OffsetFinite DEF OffsetIInv, OffsetTypeOK, CountRows, offsetTable, moves

\* What a page is, of the rows that the order places.
LEMMA PageFacts ==
  ASSUME OffsetTypeOK, NEW P \in PagesAt
  PROVE  \E H \in SUBSET rows :
            /\ P \subseteq rows
            /\ \A r \in H : Cardinality(Above(r)) < offset
            /\ \A r \in rows : Ranked(r) /\ Cardinality(Above(r)) < NextOffset => r \in H \cup P
            /\ Cardinality(rows \ (H \cup P)) <= IF NextOffset < Cardinality(rows) THEN Cardinality(rows) - NextOffset ELSE 0
<1>1. PICK H \in Heads(offset) : H \cap P = {} /\ H \cup P \in Heads(NextOffset)
  BY DEF PagesAt, NextOffset
<1> DEFINE G == H \cup P
<1>2. /\ H \subseteq rows /\ G \subseteq rows
      /\ Cardinality(H) <= offset
      /\ Cardinality(G) = IF NextOffset < Cardinality(rows) THEN NextOffset ELSE Cardinality(rows)
      /\ \A r \in H, s \in rows : Precedes(s, r) => s \in H
      /\ \A r \in G, s \in rows : Precedes(s, r) => s \in G
  BY <1>1, OffsetFinite DEF Heads, OffsetTypeOK
<1>3. /\ IsFiniteSet(rows) /\ IsFiniteSet(H) /\ IsFiniteSet(G)
      /\ Cardinality(rows) \in Nat /\ Cardinality(H) \in Nat /\ Cardinality(G) \in Nat
      /\ offset \in Nat /\ NextOffset \in Nat
  BY <1>2, OffsetFinite, FS_Subset, FS_CardinalityType DEF OffsetTypeOK, NextOffset
<1> HIDE DEF G
<1>4. ASSUME NEW r \in H PROVE Cardinality(Above(r)) < offset
  <2>1. Above(r) \subseteq H \ {r}
    BY <1>2, OffsetFinite DEF Above, Precedes
  <2>2. IsFiniteSet(H \ {r}) /\ Cardinality(H \ {r}) = Cardinality(H) - 1
    BY <1>3, FS_RemoveElement
  <2>3. Cardinality(Above(r)) <= Cardinality(H \ {r}) /\ Cardinality(Above(r)) \in Nat
    BY <2>1, <2>2, FS_Subset, OffsetFinite
  <2>4. QED
    BY <1>2, <1>3, <2>2, <2>3
<1>5. ASSUME NEW r \in rows, Ranked(r), Cardinality(Above(r)) < NextOffset, r \notin G PROVE FALSE
  <2>1. ASSUME NEW s \in G PROVE s \in Above(r)
    BY <1>2, <1>5, <2>1, RankedFacts DEF Above
  <2>2. Cardinality(G) <= Cardinality(Above(r)) /\ Cardinality(Above(r)) \in Nat
    BY <2>1, OffsetFinite, FS_Subset
  <2>3. Cardinality(G) = Cardinality(rows)
    BY <1>2, <1>3, <1>5, <2>2
  <2>4. G = rows
    BY <1>2, <1>3, <2>3, FS_Subset
  <2>5. QED
    BY <1>5, <2>4
<1>6. Cardinality(rows \ G) = Cardinality(rows) - Cardinality(G)
  <2>1. rows \cap G = G
    BY <1>2
  <2>2. QED
    BY <2>1, <1>3, FS_Difference
<1>7. QED
  <2>1. Cardinality(rows \ G) <= IF NextOffset < Cardinality(rows) THEN Cardinality(rows) - NextOffset ELSE 0
    BY <1>2, <1>3, <1>6
  <2>2. H \in SUBSET rows /\ P \subseteq rows
    BY <1>2 DEF G
  <2>3. \A r \in rows : Ranked(r) /\ Cardinality(Above(r)) < NextOffset => r \in G
    BY <1>5
  <2>4. QED
    BY <2>1, <2>2, <2>3, <1>4 DEF G

LEMMA ListKeeps ==
  ASSUME OffsetIInv, ListRows
  PROVE  OffsetIInv'
<1>1. /\ OffsetTypeOK /\ reading = "list"
      /\ Cardinality(Passed) <= Cardinality(gone) + sunk /\ Cardinality(rows) <= total + slips
      /\ UNCHANGED <<list, createdAt, rows, gone, limit, total, there, slips, risen, sunk>>
  BY DEF OffsetIInv, ListRows, offsetTable, moves
<1>2. PICK P \in PagesAt : seen' = seen \cup P
  BY DEF ListRows
<1>3. PICK H \in SUBSET rows :
            /\ P \subseteq rows
            /\ \A r \in H : Cardinality(Above(r)) < offset
            /\ \A r \in rows : Ranked(r) /\ Cardinality(Above(r)) < NextOffset => r \in H \cup P
            /\ Cardinality(rows \ (H \cup P)) <= IF NextOffset < Cardinality(rows) THEN Cardinality(rows) - NextOffset ELSE 0
  BY <1>1, <1>2, PageFacts
<1>4. OffsetTypeOK'
  BY <1>1 DEF ListRows, OffsetTypeOK, NextOffset
<1>5. Due' = Due \ P /\ \A r : UNCHANGED Above(r)
  BY <1>1, <1>2 DEF Due, Ranked, Above, Precedes
<1>6. /\ Cardinality(Passed) \in Nat /\ Cardinality(gone) \in Nat /\ Cardinality(rows) \in Nat
      /\ IsFiniteSet(Passed) /\ IsFiniteSet(rows)
      /\ sunk \in Nat /\ slips \in Nat /\ total \in Nat /\ NextOffset \in Nat
  BY <1>1, OffsetFinite DEF OffsetTypeOK, NextOffset
<1>7. CASE NextOffset < total
  <2>1. offset' = NextOffset /\ reading' = "count"
    BY <1>7 DEF ListRows
  <2>2. Passed' \subseteq Passed
    <3>1. SUFFICES ASSUME NEW r \in Due', Cardinality(Above(r)') < offset'
                   PROVE  r \in Due /\ Cardinality(Above(r)) < offset
      BY DEF Passed
    <3>2. r \in H
      BY <3>1, <2>1, <1>3, <1>5 DEF Due
    <3>3. QED
      BY <3>2, <1>3, <1>5
  <2>3. Cardinality(Passed') <= Cardinality(Passed)
    BY <2>2, <1>6, FS_Subset
  <2>4. Cardinality(Passed') \in Nat
    BY <2>2, <1>6, FS_Subset, FS_CardinalityType
  <2>5. QED
    BY <1>1, <1>4, <1>6, <2>1, <2>3, <2>4 DEF OffsetIInv
<1>8. CASE ~(NextOffset < total)
  <2> DEFINE R == rows \ (H \cup P)
  <2>1. reading' = "done"
    BY <1>8 DEF ListRows
  <2>2. Due' \subseteq Passed \cup R
    <3>1. SUFFICES ASSUME NEW r \in Due', r \in H PROVE r \in Passed
      BY <1>5 DEF Due
    <3>2. QED
      BY <3>1, <1>3, <1>5 DEF Passed
  <2>3. IsFiniteSet(R) /\ Cardinality(R) \in Nat /\ Cardinality(R) <= slips
    BY <1>1, <1>3, <1>6, <1>8, FS_Subset, FS_CardinalityType
  <2> HIDE DEF R
  <2>4. /\ IsFiniteSet(Passed \cup R)
        /\ Cardinality(Passed \cup R) <= Cardinality(Passed) + Cardinality(R)
        /\ Cardinality(Passed \cup R) \in Nat
    <3>1. IsFiniteSet(Passed \cap R) /\ Cardinality(Passed \cap R) \in Nat
      BY <1>6, FS_Intersection, FS_CardinalityType
    <3>2. /\ IsFiniteSet(Passed \cup R)
          /\ Cardinality(Passed \cup R) = Cardinality(Passed) + Cardinality(R) - Cardinality(Passed \cap R)
      BY <1>6, <2>3, FS_Union
    <3>3. QED
      BY <1>6, <2>3, <3>1, <3>2, FS_CardinalityType
  <2>5. Cardinality(Due') <= Cardinality(Passed \cup R) /\ Cardinality(Due') \in Nat
    BY <2>2, <2>4, FS_Subset, FS_CardinalityType
  <2>6. QED
    BY <1>1, <1>4, <1>6, <2>1, <2>3, <2>4, <2>5 DEF OffsetIInv
<1>9. QED
  BY <1>7, <1>8

LEMMA OffsetStep == OffsetIInv /\ [OffsetNext]_offsetVars => OffsetIInv'
<1> SUFFICES ASSUME OffsetIInv, [OffsetNext]_offsetVars PROVE OffsetIInv'
  OBVIOUS
<1>1. CASE CountRows
  BY <1>1, CountKeeps
<1>2. CASE ListRows
  BY <1>2, ListKeeps
<1>3. ASSUME NEW r \in Rows, Insert(r) \/ Cascade(r) \/ \E at \in CreatedAts : UpsertChat(r, at)
      PROVE  OffsetIInv'
  BY <1>3, InsertKeeps, CascadeKeeps, UpsertKeeps
<1>4. CASE UNCHANGED offsetVars
  BY <1>4 DEF offsetVars, offsetTable, client, moves, OffsetIInv, OffsetTypeOK, Due, Passed, Ranked, Above, Precedes
<1>5. QED
  BY <1>1, <1>2, <1>3, <1>4 DEF OffsetNext

(* Whoever reads a list to its end misses no more than was deleted         *)
(* meanwhile, or slipped in between the count and the page, or sank: for   *)
(* lists and pages of any length (ListRuns, List, ListChats).              *)
THEOREM SkipsAreCounted == OffsetSpec => []SkipsAreSlips
<1>1. OffsetIInv => SkipsAreSlips
  <2>1. SUFFICES ASSUME OffsetIInv, reading = "done" PROVE SkipsAreSlips
    BY DEF SkipsAreSlips
  <2> DEFINE missed == (there \cap rows) \ seen
             tied == {r \in missed : \E s \in rows \ {r} : createdAt[s] = createdAt[r]}
  <2>2. (IF list = "audit" THEN missed \ tied ELSE missed \ risen) = Due
    BY <2>1 DEF OffsetIInv, Due, Ranked
  <2>3. QED
    BY <2>1, <2>2 DEF SkipsAreSlips, OffsetIInv
<1>2. QED
  BY <1>1, OffsetInitInv, OffsetStep, PTL DEF OffsetSpec
=============================================================================
