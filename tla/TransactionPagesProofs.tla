----------------------- MODULE TransactionPagesProofs -----------------------
(***************************************************************************)
(* Proofs about TransactionPages for every page size, every max_pages and  *)
(* every number of transactions, and that the loop implements              *)
(* TransactionRead.                                                        *)
(***************************************************************************)
EXTENDS TransactionPages, FiniteSetTheorems, TLAPS

\* The positions that the pages before the current one cover.
ReadBefore(p) == (p - 1) * PerPage

\* More pages hold more transactions.
LEMMA PagesGrow ==
  ASSUME NEW a \in Nat, NEW b \in Nat, a <= b PROVE a * PerPage <= b * PerPage
<1>1. PICK d \in Nat : b = a + d
  <2>1. b - a \in Nat /\ b = a + (b - a)
    OBVIOUS
  <2> QED BY <2>1
<1>2. PerPage \in Nat
  BY PagesAssumption
<1>3. b * PerPage = a * PerPage + d * PerPage
  BY <1>1, <1>2
<1>4. d * PerPage \in Nat /\ a * PerPage \in Nat
  BY <1>2
<1> QED BY <1>3, <1>4

\* A page is as long as its size.
LEMMA NextRead == ASSUME NEW p \in Nat \ {0} PROVE
  /\ ReadBefore(p) \in Nat /\ p * PerPage = ReadBefore(p) + PerPage /\ ReadBefore(p + 1) = p * PerPage
<1>1. PerPage \in Nat
  BY PagesAssumption
<1>2. PICK q \in Nat : p = q + 1
  <2>1. p - 1 \in Nat /\ p = (p - 1) + 1
    OBVIOUS
  <2> QED BY <2>1
<1>3. p - 1 = q /\ (p + 1) - 1 = p
  BY <1>2
<1>4. q * PerPage \in Nat /\ (q + 1) * PerPage = q * PerPage + PerPage
  BY <1>1
<1> QED BY <1>2, <1>3, <1>4 DEF ReadBefore


\* What matched at the beginning, lies behind page p and was not read.
Skipped(p) == {t \in held \ transactions : \E i \in Positions : i <= ReadBefore(p) /\ list[i] = t}

\* What matched at the beginning, still matches, and was not read.
Missed == (held \cap Held) \ transactions

\* finAPI lists nothing twice, and nothing that it took away.
Listed ==
  /\ \A i, j \in Positions : list[i] = list[j] => i = j
  /\ gone \cap Held = {} /\ held \subseteq Held \cup gone
  /\ IsFiniteSet(Held) /\ IsFiniteSet(held) /\ IsFiniteSet(gone)
  /\ pc = "idle" => gone = {} /\ held = {}

\* Whatever a read has skipped makes up for something that was taken away.
Progress == pc = "reading" => Cardinality(Skipped(page)) <= Cardinality(gone)

PagesInv == TypeOK /\ Listed /\ Progress /\ MissesAtMostRemoved

\* Nothing is listed, read or held before the first read.
LEMMA InvInit == Init => PagesInv
<1> SUFFICES ASSUME Init PROVE PagesInv
  OBVIOUS
<1>1. Positions = {} /\ Held = {}
  BY DEF Init, Positions, Held
<1>2. TypeOK
  <2>1. list \in [Positions -> Tx]
    BY DEF Init, Positions
  <2>2. garbled \in BOOLEAN
    BY Zenon DEF Init
  <2>3. 1 \in 1 .. MaxPages /\ 0 \in Nat
    BY PagesAssumption
  <2> QED BY <2>1, <2>2, <2>3 DEF Init, TypeOK
<1>3. Listed
  BY <1>1, FS_EmptySet DEF Init, Listed
<1> QED BY <1>2, <1>3 DEF Init, PagesInv, Progress, MissesAtMostRemoved

\* A part of a finite set with at most one more member has at most one more.
LEMMA OneMore ==
  ASSUME NEW S, NEW R, NEW x, IsFiniteSet(S), R \subseteq S \cup {x}
  PROVE  IsFiniteSet(R) /\ Cardinality(R) \in Nat /\ Cardinality(R) <= Cardinality(S) + 1
<1>1. /\ IsFiniteSet(S \cup {x}) /\ Cardinality(S) \in Nat
      /\ Cardinality(S \cup {x}) = Cardinality(S) \/ Cardinality(S \cup {x}) = Cardinality(S) + 1
  BY FS_AddElement, FS_CardinalityType
<1>2. IsFiniteSet(R) /\ Cardinality(R) <= Cardinality(S \cup {x})
  BY <1>1, FS_Subset
<1>3. Cardinality(R) \in Nat
  BY <1>2, FS_CardinalityType
<1> QED BY <1>1, <1>2, <1>3

\* A part of a finite set has no more members.
LEMMA NoMore ==
  ASSUME NEW S, NEW R, IsFiniteSet(S), R \subseteq S
  PROVE  /\ IsFiniteSet(R) /\ Cardinality(R) \in Nat /\ Cardinality(S) \in Nat
         /\ Cardinality(R) <= Cardinality(S)
<1>1. IsFiniteSet(R) /\ Cardinality(R) <= Cardinality(S)
  BY FS_Subset
<1> QED BY <1>1, FS_CardinalityType

\* A transaction that comes in moves others to later positions only.
LEMMA InsertKeeps ==
  ASSUME PagesInv, NEW t \in Tx, NEW k \in 1 .. size + 1, Insert(t, k)
  PROVE  PagesInv' /\ Held' = Held \cup {t} /\ t \notin Held \cup gone
<1> USE DEF PagesInv, TypeOK, Positions
<1>1. size \in Nat /\ size' = size + 1
  BY DEF Insert
<1>2. \A i \in 1 .. size + 1 :
        list'[i] = IF i < k THEN list[i] ELSE IF i = k THEN t ELSE list[i - 1]
  BY DEF Insert
<1>3. list' \in [1 .. size + 1 -> Tx]
  <2>1. \A i \in 1 .. size + 1 : list'[i] \in Tx
    BY <1>1, <1>2
  <2> QED BY <2>1 DEF Insert
<1>4. UNCHANGED <<pc, page, transactions, held, gone, garbled>>
  BY DEF Insert
<1>5. Held \subseteq Held'
  <2> SUFFICES ASSUME NEW i \in 1 .. size PROVE list[i] \in Held'
    BY DEF Held
  <2>1. CASE i < k
    BY <1>1, <1>2, <2>1 DEF Held
  <2>2. CASE ~(i < k)
    <3>1. list'[i + 1] = list[i] /\ i + 1 \in 1 .. size'
      BY <1>1, <1>2, <2>2
    <3> QED BY <3>1 DEF Held
  <2> QED BY <2>1, <2>2
<1>6. ASSUME NEW i \in 1 .. size + 1
      PROVE  \/ i = k /\ list'[i] = t
             \/ \E j \in 1 .. size : /\ list'[i] = list[j] /\ j <= i
                                     /\ i = IF j < k THEN j ELSE j + 1
  <2>1. CASE i < k
    <3>1. i \in 1 .. size /\ list'[i] = list[i] /\ i <= i
      BY <1>1, <1>2, <2>1
    <3> QED BY <2>1, <3>1
  <2>2. CASE i = k
    BY <1>2, <2>2
  <2>3. CASE k < i
    <3>1. i - 1 \in 1 .. size /\ list'[i] = list[i - 1] /\ i - 1 <= i /\ ~(i - 1 < k)
      BY <1>1, <1>2, <2>3
    <3>2. (i - 1) + 1 = i
      OBVIOUS
    <3> QED BY <3>1, <3>2
  <2> QED BY <2>1, <2>2, <2>3
<1>7. Held' \subseteq Held \cup {t} /\ t \notin Held \cup gone /\ t \notin held
  BY <1>1, <1>6 DEF Held, Listed, Insert
<1>8. Listed'
  <2>1. ASSUME NEW i \in 1 .. size + 1, NEW j \in 1 .. size + 1, list'[i] = list'[j]
        PROVE  i = j
    BY <1>1, <1>6, <1>7, <2>1 DEF Held, Listed
  <2>2. IsFiniteSet(Held')
    BY <1>7, OneMore DEF Listed
  <2>3. pc' = "idle" => gone' = {} /\ held' = {}
    BY <1>4 DEF Listed
  <2>4. gone' \cap Held' = {} /\ held' \subseteq Held' \cup gone'
    BY <1>4, <1>5, <1>7 DEF Listed
  <2> QED BY <1>1, <1>4, <2>1, <2>2, <2>3, <2>4 DEF Listed
<1>9. Progress'
  <2> SUFFICES ASSUME pc = "reading"
               PROVE  Cardinality(Skipped(page)') <= Cardinality(gone)
    BY <1>4 DEF Progress, Skipped, ReadBefore
  <2>1. page \in Nat \ {0} /\ ReadBefore(page) \in Nat /\ ReadBefore(page)' = ReadBefore(page)
    BY <1>4, PagesAssumption, NextRead DEF ReadBefore
  <2>2. Skipped(page)' \subseteq Skipped(page)
    <3> SUFFICES ASSUME NEW s \in held \ transactions, NEW i \in 1 .. size + 1,
                        i <= ReadBefore(page), list'[i] = s
                 PROVE  s \in Skipped(page)
      BY <1>1, <1>4, <2>1 DEF Skipped
    <3>1. PICK j \in 1 .. size : list'[i] = list[j] /\ j <= i
      BY <1>6, <1>7
    <3> QED BY <1>1, <2>1, <3>1 DEF Skipped
  <2>3. IsFiniteSet(Skipped(page))
    BY NoMore DEF Skipped, Listed
  <2> QED BY <2>2, <2>3, NoMore, FS_CardinalityType DEF Progress, Listed
<1>10. MissesAtMostRemoved'
  <2> SUFFICES ASSUME pc = "done", size' + Cardinality(gone) <= MaxPages * PerPage, ~garbled
               PROVE  Cardinality(Missed') <= Cardinality(gone)
    BY <1>4 DEF MissesAtMostRemoved, Missed
  <2>1. MaxPages * PerPage \in Nat /\ Cardinality(gone) \in Nat
    BY PagesAssumption, FS_CardinalityType DEF Listed
  <2>2. size + Cardinality(gone) <= MaxPages * PerPage
    BY <1>1, <2>1
  <2>3. Missed' \subseteq Missed /\ IsFiniteSet(Missed)
    BY <1>4, <1>7, NoMore DEF Missed, Listed
  <2> QED BY <2>1, <2>2, <2>3, NoMore DEF MissesAtMostRemoved, Missed
<1>11. list'[k] = t /\ k \in 1 .. size'
  BY <1>1, <1>2
<1>12. Held' = Held \cup {t}
  BY <1>5, <1>7, <1>11 DEF Held
<1> QED BY <1>1, <1>3, <1>4, <1>7, <1>8, <1>9, <1>10, <1>12

\* One that is taken away moves the page that comes next up by one place.
LEMMA RemoveKeeps ==
  ASSUME PagesInv, NEW k \in Positions, Remove(k)
  PROVE  PagesInv' /\ list[k] \in Held /\ Held' = Held \ {list[k]}
<1> USE DEF PagesInv, TypeOK, Positions
<1> DEFINE taken == list[k]
<1>1. size \in Nat \ {0} /\ size' = size - 1 /\ size' \in Nat
  BY DEF Remove
<1>2. \A i \in 1 .. size - 1 : list'[i] = IF i < k THEN list[i] ELSE list[i + 1]
  BY DEF Remove
<1>3. list' \in [1 .. size - 1 -> Tx]
  <2>1. \A i \in 1 .. size - 1 : list'[i] \in Tx
    BY <1>1, <1>2
  <2> QED BY <2>1 DEF Remove
<1>4. /\ UNCHANGED <<pc, page, transactions, held, garbled>>
      /\ gone' = IF pc = "idle" THEN gone ELSE gone \cup {taken}
  BY DEF Remove
<1>5. ASSUME NEW i \in 1 .. size - 1
      PROVE  \E j \in 1 .. size : /\ list'[i] = list[j] /\ j # k
                                  /\ j = IF i < k THEN i ELSE i + 1
  <2>1. CASE i < k
    BY <1>1, <1>2, <2>1
  <2>2. CASE ~(i < k)
    <3>1. i + 1 \in 1 .. size /\ list'[i] = list[i + 1] /\ i + 1 # k
      BY <1>1, <1>2, <2>2
    <3> QED BY <2>2, <3>1
  <2> QED BY <2>1, <2>2
<1>6. Held' \subseteq Held /\ taken \notin Held' /\ taken \in Held
  BY <1>1, <1>5 DEF Held, Listed
<1>7. Held \subseteq Held' \cup {taken}
  <2> SUFFICES ASSUME NEW j \in 1 .. size, j # k PROVE list[j] \in Held'
    BY DEF Held
  <2>1. CASE j < k
    BY <1>1, <1>2, <2>1 DEF Held
  <2>2. CASE k < j
    <3>1. j - 1 \in 1 .. size - 1 /\ ~(j - 1 < k) /\ (j - 1) + 1 = j
      BY <1>1, <2>2
    <3> QED BY <1>1, <1>2, <3>1 DEF Held
  <2> QED BY <2>1, <2>2
<1>8. /\ IsFiniteSet(gone \cup {taken}) /\ Cardinality(gone) \in Nat
      /\ Cardinality(gone \cup {taken}) = Cardinality(gone) + 1
  <2>1. taken \notin gone
    BY <1>6 DEF Listed
  <2> QED BY <2>1, FS_AddElement, FS_CardinalityType DEF Listed
<1>9. Listed'
  <2>1. ASSUME NEW i \in 1 .. size - 1, NEW j \in 1 .. size - 1, list'[i] = list'[j]
        PROVE  i = j
    BY <1>1, <1>5, <2>1 DEF Listed
  <2>2. IsFiniteSet(Held') /\ IsFiniteSet(gone')
    BY <1>4, <1>6, <1>8, NoMore DEF Listed
  <2>3. pc' = "idle" => gone' = {} /\ held' = {}
    BY <1>4 DEF Listed
  <2>4. gone' \cap Held' = {}
    BY <1>4, <1>6 DEF Listed
  <2>5. held' \subseteq Held' \cup gone'
    BY <1>4, <1>7 DEF Listed
  <2> QED BY <1>1, <1>4, <2>1, <2>2, <2>3, <2>4, <2>5 DEF Listed
<1>10. Progress'
  <2> SUFFICES ASSUME pc = "reading"
               PROVE  Cardinality(Skipped(page)') <= Cardinality(gone')
    BY <1>4 DEF Progress, Skipped, ReadBefore
  <2>1. page \in Nat \ {0} /\ ReadBefore(page) \in Nat /\ ReadBefore(page)' = ReadBefore(page)
    BY <1>4, PagesAssumption, NextRead DEF ReadBefore
  <2>2. Skipped(page)' \subseteq Skipped(page) \cup {list[ReadBefore(page) + 1]}
    <3> SUFFICES ASSUME NEW s \in held \ transactions, NEW i \in 1 .. size - 1,
                        i <= ReadBefore(page), list'[i] = s
                 PROVE  s \in Skipped(page) \cup {list[ReadBefore(page) + 1]}
      BY <1>1, <1>4, <2>1 DEF Skipped
    <3>1. PICK j \in 1 .. size : list'[i] = list[j] /\ j \in {i, i + 1}
      BY <1>5
    <3>2. CASE j <= ReadBefore(page)
      BY <3>1, <3>2 DEF Skipped
    <3>3. CASE ~(j <= ReadBefore(page))
      <4>1. j = ReadBefore(page) + 1
        BY <2>1, <3>1, <3>3
      <4> QED BY <3>1, <4>1
    <3> QED BY <3>2, <3>3
  <2>3. IsFiniteSet(Skipped(page))
    BY NoMore DEF Skipped, Listed
  <2>4. /\ Cardinality(Skipped(page)') <= Cardinality(Skipped(page)) + 1
        /\ Cardinality(Skipped(page)') \in Nat
    BY <2>2, <2>3, OneMore
  <2>5. Cardinality(Skipped(page)) \in Nat
    BY <2>3, FS_CardinalityType
  <2>6. Cardinality(gone') = Cardinality(gone) + 1
    BY <1>4, <1>8
  <2>7. Cardinality(Skipped(page)) <= Cardinality(gone)
    BY DEF Progress
  <2> QED BY <1>8, <2>4, <2>5, <2>6, <2>7
<1>11. MissesAtMostRemoved'
  <2> SUFFICES ASSUME pc = "done", size' + Cardinality(gone') <= MaxPages * PerPage, ~garbled
               PROVE  Cardinality(Missed') <= Cardinality(gone')
    BY <1>4 DEF MissesAtMostRemoved, Missed
  <2>1. gone' = gone \cup {taken}
    BY <1>4
  <2>2. size + Cardinality(gone) = size' + Cardinality(gone')
    BY <1>1, <1>8, <2>1
  <2>3. Missed' \subseteq Missed /\ IsFiniteSet(Missed)
    BY <1>4, <1>6, NoMore DEF Missed, Listed
  <2>4. Cardinality(Missed) <= Cardinality(gone)
    BY <2>2 DEF MissesAtMostRemoved, Missed
  <2>5. Cardinality(Missed') <= Cardinality(Missed)
        /\ Cardinality(Missed') \in Nat /\ Cardinality(Missed) \in Nat
    BY <2>3, NoMore
  <2> QED BY <1>8, <2>1, <2>4, <2>5
<1>12. Held' = Held \ {taken}
  BY <1>6, <1>7
<1> QED BY <1>1, <1>3, <1>4, <1>6, <1>9, <1>10, <1>11, <1>12

\* A page covers the positions up to its end; the loop ends when none is left.
LEMMA PageKeeps == ASSUME PagesInv, ReadPage PROVE PagesInv'
<1> DEFINE batch == {list[i] : i \in OnPage(page)}
<1>1. PICK count \in 0 .. size :
        /\ IsPageCount(size, count)
        /\ transactions' = transactions \cup batch
        /\ IF IsLast(batch, IF count = 0 THEN 1 ELSE count)
           THEN pc' = "done" /\ UNCHANGED page
           ELSE page' = page + 1 /\ UNCHANGED pc
  BY DEF ReadPage
<1>2. pc = "reading" /\ UNCHANGED <<size, list, held, gone, garbled>>
  BY DEF ReadPage
<1>3. /\ size \in Nat /\ page \in Nat \ {0} /\ page <= MaxPages /\ MaxPages \in Nat
      /\ PerPage \in Nat \ {0}
  BY PagesAssumption DEF PagesInv, TypeOK
<1>4. /\ ReadBefore(page) \in Nat /\ page * PerPage = ReadBefore(page) + PerPage
      /\ ReadBefore(page + 1) = page * PerPage
  BY <1>3, NextRead
<1>5. ASSUME NEW i \in Positions, i <= page * PerPage, list[i] \in held \ transactions'
      PROVE  list[i] \in Skipped(page)
  <2>1. ~(i \in OnPage(page))
    BY <1>1, <1>5
  <2>2. i <= ReadBefore(page)
    BY <1>3, <1>4, <1>5, <2>1 DEF OnPage, ReadBefore, Positions
  <2> QED BY <1>1, <1>5, <2>2 DEF Skipped
<1>6. IsFiniteSet(Skipped(page)) /\ Cardinality(Skipped(page)) <= Cardinality(gone)
  <2>1. IsFiniteSet(Skipped(page))
    BY NoMore DEF PagesInv, Listed, Skipped
  <2> QED BY <1>2, <2>1 DEF PagesInv, Progress
<1>7. Cardinality(gone) \in Nat
  BY FS_CardinalityType DEF PagesInv, Listed
<1>8. Held' = Held /\ Positions' = Positions
  BY <1>2 DEF Held, Positions
<1>9. TypeOK'
  <2>1. batch \in SUBSET Tx
    BY DEF PagesInv, TypeOK, OnPage
  <2>2. page' \in 1 .. MaxPages
    BY <1>1, <1>3 DEF IsLast
  <2>3. pc' \in {"reading", "done"}
    BY <1>1, <1>2
  <2>4. list' \in [Positions' -> Tx] /\ size' \in Nat
    BY <1>2, <1>8 DEF PagesInv, TypeOK
  <2> QED BY <1>1, <1>2, <2>1, <2>2, <2>3, <2>4 DEF PagesInv, TypeOK
<1>10. Listed'
  <2>1. pc' # "idle"
    BY <1>1, <1>2
  <2> QED BY <1>2, <1>8, <2>1 DEF PagesInv, Listed
<1>11. Progress'
  <2> SUFFICES ASSUME pc' = "reading" PROVE Cardinality(Skipped(page)') <= Cardinality(gone)
    BY <1>2 DEF Progress
  <2>1. page' = page + 1
    BY <1>1, <1>2
  <2>2. ReadBefore(page)' = page * PerPage
    BY <1>4, <2>1 DEF ReadBefore
  <2>3. Skipped(page)' \subseteq Skipped(page)
    BY <1>2, <1>5, <1>8, <2>2 DEF Skipped
  <2>4. /\ Cardinality(Skipped(page)') <= Cardinality(Skipped(page))
        /\ Cardinality(Skipped(page)') \in Nat /\ Cardinality(Skipped(page)) \in Nat
    BY <1>6, <2>3, NoMore
  <2> QED BY <1>6, <1>7, <2>4
<1>12. MissesAtMostRemoved'
  <2> SUFFICES ASSUME pc' = "done", size + Cardinality(gone) <= MaxPages * PerPage
               PROVE  Cardinality(Missed') <= Cardinality(gone)
    BY <1>2 DEF MissesAtMostRemoved, Missed
  <2>1. IsLast(batch, IF count = 0 THEN 1 ELSE count)
    BY <1>1, <1>2
  <2>2. \A i \in Positions : i <= page * PerPage
    <3>1. CASE page = MaxPages
      <4>1. page * PerPage \in Nat
        BY <1>3, <1>4
      <4> QED BY <1>3, <1>7, <3>1, <4>1 DEF Positions
    <3>2. CASE batch = {}
      <4> SUFFICES ASSUME NEW i \in Positions, ReadBefore(page) < i PROVE FALSE
        BY <1>3, <1>4 DEF Positions
      <4>1. \A j \in Positions : ~(ReadBefore(page) < j /\ j <= page * PerPage)
        BY <3>2 DEF OnPage, ReadBefore
      <4>2. ReadBefore(page) + 1 \in Positions
        BY <1>3, <1>4 DEF Positions
      <4> QED BY <1>3, <1>4, <4>1, <4>2
    <3>3. CASE page >= IF count = 0 THEN 1 ELSE count
      <4>1. count \in Nat /\ count <= page
        BY <1>3, <3>3
      <4>2. count * PerPage <= page * PerPage
        BY <1>3, <4>1, PagesGrow
      <4>3. size <= count * PerPage
        BY <1>1 DEF IsPageCount
      <4>4. count * PerPage \in Nat
        BY <1>3, <4>1
      <4> QED BY <1>3, <1>4, <4>2, <4>3, <4>4 DEF Positions
    <3> QED BY <2>1, <3>1, <3>2, <3>3 DEF IsLast
  <2>3. Missed' \subseteq Skipped(page)
    BY <1>2, <1>5, <1>8, <2>2 DEF Missed, Held
  <2>4. /\ Cardinality(Missed') <= Cardinality(Skipped(page))
        /\ Cardinality(Missed') \in Nat /\ Cardinality(Skipped(page)) \in Nat
    BY <1>6, <2>3, NoMore
  <2> QED BY <1>6, <1>7, <2>4
<1> QED BY <1>9, <1>10, <1>11, <1>12 DEF PagesInv

\* Every step keeps the invariant.
LEMMA InvStep == PagesInv /\ [Next]_vars => PagesInv'
<1> SUFFICES ASSUME PagesInv, [Next]_vars PROVE PagesInv'
  OBVIOUS
<1>1. CASE Begin
  <2>1. ReadBefore(1) = 0
    BY PagesAssumption DEF ReadBefore
  <2>2. Held' = Held /\ Positions' = Positions /\ Held \in SUBSET Tx
    BY <1>1 DEF Begin, PagesInv, TypeOK, Held, Positions
  <2>3. Skipped(page)' = {}
    <3>1. ReadBefore(page)' = 0
      BY <1>1, <2>1 DEF Begin, ReadBefore
    <3>2. \A i \in Positions : ~(i <= 0)
      BY DEF Positions, PagesInv, TypeOK
    <3> QED BY <2>2, <3>1, <3>2 DEF Skipped
  <2>4. TypeOK'
    <3>1. 1 \in 1 .. MaxPages
      BY PagesAssumption
    <3> QED BY <1>1, <2>2, <3>1 DEF Begin, PagesInv, TypeOK
  <2>5. Listed'
    BY <1>1, <2>2 DEF Begin, PagesInv, Listed
  <2>6. Cardinality({}) <= Cardinality(gone')
    <3>1. Cardinality(gone') \in Nat
      BY <2>5, FS_CardinalityType DEF Listed
    <3> QED BY <3>1, FS_EmptySet
  <2>7. Progress'
    BY <2>3, <2>6 DEF Progress
  <2> QED BY <1>1, <2>4, <2>5, <2>7 DEF Begin, PagesInv, MissesAtMostRemoved
<1>2. CASE GarbledPage
  <2>1. Held' = Held /\ Positions' = Positions
    BY <1>2 DEF GarbledPage, Held, Positions
  <2> QED BY <1>2, <2>1
          DEF GarbledPage, PagesInv, TypeOK, Listed, Progress, MissesAtMostRemoved
<1>3. CASE CallFails \/ Return
  <2>1. /\ Held' = Held /\ Positions' = Positions /\ UNCHANGED <<size, list>> /\ pc' = "idle"
        /\ transactions' = {} /\ page' = 1 /\ held' = {} /\ gone' = {} /\ garbled' = FALSE
    BY <1>3 DEF CallFails, Return, Forgotten, Held, Positions
  <2>2. 1 \in 1 .. MaxPages
    BY PagesAssumption
  <2> QED BY <2>1, <2>2, FS_EmptySet
          DEF PagesInv, TypeOK, Listed, Progress, MissesAtMostRemoved
<1>4. CASE UNCHANGED vars
  <2>1. Held' = Held /\ Positions' = Positions /\ Skipped(page)' = Skipped(page)
    BY <1>4 DEF vars, Held, Positions, Skipped, ReadBefore
  <2> QED BY <1>4, <2>1
          DEF vars, PagesInv, TypeOK, Listed, Progress, MissesAtMostRemoved
<1> QED BY <1>1, <1>2, <1>3, <1>4, InsertKeeps, RemoveKeeps, PageKeeps DEF Next

\* Every variable keeps its type.
THEOREM TypeCorrect == Spec => []TypeOK
<1>1. PagesInv => TypeOK
  BY DEF PagesInv
<1> QED BY <1>1, InvInit, InvStep, PTL DEF Spec

\* Up to max_pages pages, a read misses at most one transaction for each that finAPI
\* takes away while it runs.
THEOREM FewMissed == Spec => []MissesAtMostRemoved
<1>1. PagesInv => MissesAtMostRemoved
  BY DEF PagesInv
<1> QED BY <1>1, InvInit, InvStep, PTL DEF Spec

\* A read during which finAPI takes nothing away misses nothing that was there when it
\* began.
THEOREM NothingMissed == Spec => []ReadIsComplete
<1>1. PagesInv => ReadIsComplete
  <2> SUFFICES ASSUME PagesInv, pc = "done", size <= MaxPages * PerPage, gone = {}, ~garbled
               PROVE  held \subseteq transactions
    BY DEF ReadIsComplete
  <2>1. Cardinality(gone) = 0 /\ size + 0 = size
    BY FS_EmptySet DEF PagesInv, TypeOK
  <2>2. Cardinality(Missed) <= 0
    BY <2>1 DEF PagesInv, MissesAtMostRemoved, Missed
  <2>3. IsFiniteSet(Missed)
    BY NoMore DEF PagesInv, Listed, Missed
  <2>4. Missed = {}
    BY <2>2, <2>3, FS_CardinalityType, FS_EmptySet
  <2> QED BY <2>4 DEF Missed, PagesInv, Listed
<1> QED BY <1>1, InvInit, InvStep, PTL DEF Spec

----------------------------------------------------------------------------
(* The loop as one answer to one question.                                  *)

\* What was read was at finAPI during the read.
NothingMadeUp == transactions \subseteq Held \cup gone /\ (pc = "idle" => transactions = {})

ReadInv == PagesInv /\ NothingMadeUp

\* TransactionRead counts as this module does.
LEMMA SameCount == \A S : Read!Cardinality(S) = Cardinality(S)
  BY DEF Read!Cardinality, Cardinality

\* There are as many transactions as finAPI counts.
LEMMA SizeCounts == ASSUME PagesInv PROVE Cardinality(Held) = size
<1> USE DEF PagesInv, TypeOK, Positions
<1>1. list \in Bijection(1 .. size, Held)
  <2>1. \A i \in 1 .. size : list[i] \in Held
    BY DEF Held
  <2>2. list \in [1 .. size -> Held]
    BY <2>1
  <2>3. \A t \in Held : \E i \in 1 .. size : list[i] = t
    BY DEF Held
  <2> QED BY <2>2, <2>3 DEF Bijection, Injection, Surjection, IsInjective, Listed
<1> QED BY <1>1, FS_CountingElements DEF ExistsBijection

\* Nothing is read in the beginning.
LEMMA ReadInit == Init => ReadInv /\ Read!Init
<1> SUFFICES ASSUME Init PROVE ReadInv /\ Read!Init
  OBVIOUS
<1>1. Held = {}
  BY DEF Init, Positions, Held
<1> QED BY <1>1, InvInit DEF Init, ReadInv, NothingMadeUp, Read!Init

\* Every step of the loop and of finAPI is one that the read as a whole may take, or none.
LEMMA ReadStep == ReadInv /\ [Next]_vars => ReadInv' /\ [Read!Next]_(Read!vars)
<1> SUFFICES ASSUME ReadInv, [Next]_vars PROVE ReadInv' /\ [Read!Next]_(Read!vars)
  OBVIOUS
<1>1. PagesInv'
  BY InvStep DEF ReadInv
<1> USE DEF ReadInv, NothingMadeUp
<1>2. ASSUME NEW t \in Tx, NEW k \in 1 .. size + 1, Insert(t, k)
      PROVE  NothingMadeUp' /\ Read!Arrive(t)
  BY <1>2, InsertKeeps DEF Insert, Read!Arrive
<1>3. ASSUME NEW k \in Positions, Remove(k)
      PROVE  NothingMadeUp' /\ \E t \in Tx : Read!TakeAway(t)
  <2>1. list[k] \in Tx
    BY DEF PagesInv, TypeOK
  <2>2. NothingMadeUp' /\ Read!TakeAway(list[k])
    BY <1>3, RemoveKeeps DEF Remove, Read!TakeAway
  <2> QED BY <2>1, <2>2
<1>4. ASSUME UNCHANGED <<size, list>> PROVE Held' = Held
  BY <1>4 DEF Held, Positions
<1>5. ASSUME Begin PROVE NothingMadeUp' /\ Read!Call
  BY <1>4, <1>5 DEF Begin, Read!Call
<1>6. ASSUME ReadPage PROVE NothingMadeUp' /\ [Read!Answer]_(Read!vars)
  <2>1. /\ pc = "reading" /\ UNCHANGED <<size, list, held, gone, garbled>> /\ Held' = Held
        /\ transactions' \in {transactions \cup {list[i] : i \in OnPage(page)}}
        /\ pc' \in {"reading", "done"}
    BY <1>4, <1>6 DEF ReadPage
  <2>2. NothingMadeUp'
    BY <2>1 DEF OnPage, Held
  <2>3. CASE pc' = "reading"
    BY <2>1, <2>2, <2>3 DEF Read!vars
  <2>4. CASE pc' = "done"
    <3>1. /\ Cardinality(Held) = size /\ garbled' \in BOOLEAN /\ size' = size
          /\ ~garbled' /\ size + Cardinality(gone) <= MaxPages * PerPage
             => Cardinality((held \cap Held) \ transactions') <= Cardinality(gone)
      BY <1>1, <2>1, <2>4, SizeCounts DEF PagesInv, TypeOK, MissesAtMostRemoved
    <3>2. transactions' \subseteq Held \cup gone
      BY <2>1, <2>2
    <3>3. Read!Answer
      <4>1. /\ (IF pc' = "done" THEN transactions' ELSE {}) = transactions'
            /\ Cardinality(Held) + Cardinality(gone) = size + Cardinality(gone)
        BY <2>4, <3>1
      <4> QED BY <2>1, <2>4, <3>1, <3>2, <4>1, SameCount DEF Read!Answer
    <3> QED BY <2>2, <3>3
  <2> QED BY <2>1, <2>2, <2>3, <2>4
<1>7. ASSUME GarbledPage PROVE NothingMadeUp' /\ Read!Answer
  BY <1>4, <1>7 DEF GarbledPage, Read!Answer
<1>8. ASSUME CallFails \/ Return PROVE NothingMadeUp' /\ Read!End
  BY <1>4, <1>8 DEF CallFails, Return, Forgotten, Read!End
<1>9. ASSUME UNCHANGED vars PROVE NothingMadeUp' /\ UNCHANGED Read!vars
  BY <1>4, <1>9 DEF vars, Read!vars
<1> QED BY <1>1, <1>2, <1>3, <1>5, <1>6, <1>7, <1>8, <1>9 DEF Next, Read!Next

\* The loop over pages that move under it implements the read as one answer.
THEOREM ReadIsOneAnswer == Spec => ReadSpec
<1> QED BY ReadInit, ReadStep, PTL DEF Spec, ReadSpec, Read!Spec

=============================================================================
