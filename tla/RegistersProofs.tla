--------------------------- MODULE RegistersProofs ---------------------------
(***************************************************************************)
(* What is proved of Registers and of Reports.                             *)
(*                                                                         *)
(* Of Registers: that a list read to its end is exact, that a product is   *)
(* never shown older than the page said it was saved, and that a form      *)
(* saves the record it was opened for.  The records only go on: an id is   *)
(* handed out once, and the version of a record that is there never falls  *)
(* (Onward).  So what was told of a record stays true of it (Current), and *)
(* a list that covers the records there were covers those of them that     *)
(* still are.  The rest of the invariant says which answers the page may   *)
(* still take in: a load is told from another by its number, or two of     *)
(* them at once are a disturbance; a further page goes on exactly where    *)
(* the list that is shown ends; and the rows are in the order of their     *)
(* ids, so that none comes twice.                                          *)
(*                                                                         *)
(* Of Reports: that what the dashboard and the report page show is true.   *)
(* A report that is read is the beginning of the ledger as long as no line *)
(* was written before where the reading is (Partly); a shifted one has     *)
(* still all that was there when it was asked for.  What is shown together *)
(* was asked for together (Complete, ShowsAll).  A ledger that was read to *)
(* its end is then that of the documents of its last page, and each sum    *)
(* over it, line by line, is one over the documents: those an account      *)
(* counts on its left less those on its right (Weighs, LedgerSum).  The    *)
(* months of the trend are days apart, and each day falls into one.        *)
(***************************************************************************)
EXTENDS Reports, FiniteSetTheorems, WellFoundedInduction, TLAPS

-----------------------------------------------------------------------------
(* The types *)

Kinds == {"parties", "products", "warehouses", "balances", "movements"}
Row == [id : Nat \ {0}, content : Content, rev : Nat]
Answer == [data : Seq(Row), next : Nat \cup {None}]
PageFields == {"rows", "cursor", "state", "sequence", "search", "shown", "editor",
               "selected", "detail", "typed", "saving"}

\* The ids that were handed out to records that are in the table, or were.
Handed(id) == id \in 1 .. last /\ \A r \in inserting : r.id # id

ServerOK ==
  /\ last \in Nat
  /\ \A i \in DOMAIN table : /\ Handed(i)
                             /\ table[i].content \in Content
                             /\ table[i].rev \in Nat
  /\ \A r \in inserting : r.id \in 1 .. last /\ r.content \in Content
  /\ \A r, s \in inserting : r.id = s.id => r = s

PageOK ==
  /\ DOMAIN page = PageFields
  /\ page.rows \in Seq(Row)
  /\ page.cursor \in Nat \cup {None}
  /\ page.sequence \in Nat
  /\ kind # "products" => page.shown = None

ListOK(c) ==
  /\ c.reset \in BOOLEAN
  /\ c.sequence \in Nat
  /\ c.cursor \in Nat \cup {None}
  /\ IF c.reset THEN c.cursor = None ELSE c.cursor # None /\ kind # "products"
  /\ c.held \in Row \cup {None}
  /\ kind # "products" => c.held = None /\ c.search = None
  /\ c.stage = "served" => c.answer \in Answer
SaveOK(c) == c.content \in Content /\ (c.stage = "served" => c.answer \in Row)
CallOK(c) ==
  /\ {"stage", "answer"} \subseteq DOMAIN c
  /\ c.what \in {"list", "get", "save"}
  /\ c.what = "list" => ListOK(c)
  /\ c.what = "save" => SaveOK(c)

TypeOK ==
  /\ kind \in Kinds /\ left.contents \subseteq Content /\ disturbed \in BOOLEAN
  /\ ServerOK /\ PageOK
  /\ \A c \in calls : CallOK(c)

-----------------------------------------------------------------------------
(* The inductive invariant *)

\* A record that was told: it is there as it was told, or newer, or gone.
Current(id, rev) == Handed(id) /\ (id \in DOMAIN table => rev <= table[id].rev)
NotBefore(rows, id, rev) == \A m \in DOMAIN rows : rows[m].id = id => rev <= rows[m].rev

\* What a list has, and what it covers.
Has(rows, i) == \E m \in DOMAIN rows : rows[m].id = i
Sorted(rows) == \A m, n \in DOMAIN rows : m < n => Before(rows[m].id, rows[n].id)
UpTo(cursor, i) == cursor = None \/ ~Before(cursor, i)
Bounded(rows, cursor) == \A m \in DOMAIN rows : UpTo(cursor, rows[m].id)
Beyond(cursor, i) == cursor = None \/ Before(cursor, i)
Covers(c, ids) ==
  \A i \in ids \cap DOMAIN table :
    Beyond(c.cursor, i) /\ UpTo(c.answer.next, i) => Has(c.answer.data, i)

\* The rows of an answer: in order, a page of what it was asked for and of what
\* there was, and none older than what the page was told.
AnswerInv(c) ==
  /\ Sorted(c.answer.data)
  /\ \A m \in DOMAIN c.answer.data : Beyond(c.cursor, c.answer.data[m].id)
  /\ c.answer.next # None => Has(c.answer.data, c.answer.next)
  /\ Bounded(c.answer.data, c.answer.next)
  /\ c.held # None => NotBefore(c.answer.data, c.held.id, c.held.rev)
  /\ Latest(c) => \A id \in DOMAIN known : NotBefore(c.answer.data, id, known[id])
  /\ c.reset /\ c.search = None => Covers(c, c.there)
  /\ ~c.reset /\ Latest(c) /\ ~disturbed => Covers(c, asked)

\* The rows of a party's list are gone while it is read anew.
Emptied == kind = "parties" /\ page.rows = <<>> /\ page.state # "ready"

\* A list that is read.  The next page goes on where the list shown ends.
ListInv(c) ==
  /\ c.sequence <= page.sequence
  /\ c.held # None => Current(c.held.id, c.held.rev)
  /\ \A i \in c.there : Handed(i)
  /\ ~c.reset /\ Latest(c) /\ ~disturbed => c.cursor = page.cursor /\ ~Emptied
  /\ c.stage = "served" => AnswerInv(c)
\* A form that is sent saves what it was opened for.
SaveInv(c) ==
  /\ ~c.late => c.of = c.opened
  /\ c.stage = "served" => Current(c.answer.id, c.answer.rev)
CallInv(c) == /\ c.what = "list" => ListInv(c)
              /\ c.what = "save" => SaveInv(c)

\* Lists are told apart by the numbers of their loads; and where they are not,
\* two at once are a disturbance.
SequenceInv ==
  /\ \A c, d \in Listing : c.sequence = d.sequence => c = d
  /\ ~Counted /\ ~disturbed => \A c, d \in Listing : c = d

\* A form that is open saves the record it was opened for.
FormInv ==
  page.editor # None =>
    /\ DOMAIN page.editor = {"opened", "late"}
    /\ kind # "warehouses" => page.editor.late = FALSE
    /\ ~page.editor.late => page.selected = page.editor.opened

KnownInv ==
  /\ kind # "products" => DOMAIN known = {}
  /\ \A id \in DOMAIN known : /\ known[id] \in Nat
                              /\ Current(id, known[id])
                              /\ NotBefore(page.rows, id, known[id])

\* What is shown is in order; and covers what was there when it was asked for,
\* up to where the next page begins.
CoversAsked ==
  \A i \in asked \cap DOMAIN table : UpTo(page.cursor, i) => Has(page.rows, i)
PageInv ==
  /\ \A i \in asked : Handed(i)
  /\ ~disturbed => /\ Sorted(page.rows) /\ Bounded(page.rows, page.cursor)
                   /\ page.shown = None /\ ~Emptied => CoversAsked

IInv == /\ TypeOK /\ (\A c \in calls : CallInv(c)) /\ SequenceInv
        /\ FormInv /\ KnownInv /\ PageInv

-----------------------------------------------------------------------------
(* Sets in order *)

\* A strict order of the members of a set.
Orders(R, S) ==
  /\ \A x \in S : <<x, x>> \notin R
  /\ \A x, y \in S : x = y \/ <<x, y>> \in R \/ <<y, x>> \in R
  /\ \A x, y, z \in S : <<x, y>> \in R /\ <<y, z>> \in R => <<x, z>> \in R

\* A finite set has each of its members in order once, where as many come
\* before it as are before it.
LEMMA Enumerated ==
  ASSUME NEW S, IsFiniteSet(S), NEW R, Orders(R, S)
  PROVE  /\ Cardinality(S) \in Nat
         /\ DOMAIN Ordered(S, R) = 1 .. Cardinality(S)
         /\ \A n \in 1 .. Cardinality(S) : Ordered(S, R)[n] \in S
         /\ \A m, n \in 1 .. Cardinality(S) :
              m < n => <<Ordered(S, R)[m], Ordered(S, R)[n]>> \in R
         /\ \A x \in S : \E n \in 1 .. Cardinality(S) : Ordered(S, R)[n] = x
         /\ \A n \in 1 .. Cardinality(S) :
              Cardinality({y \in S : <<y, Ordered(S, R)[n]>> \in R}) = n - 1
<1>. DEFINE N == Cardinality(S)
            Less(x) == {y \in S : <<y, x>> \in R}
            rank == [x \in S |-> Cardinality(Less(x)) + 1]
<1>1. N \in Nat
  BY FS_CardinalityType
<1>2. ASSUME NEW x \in S
      PROVE  IsFiniteSet(Less(x)) /\ Cardinality(Less(x)) \in Nat
             /\ rank[x] \in 1 .. N
  <2>1. IsFiniteSet(S \ {x}) /\ Cardinality(S \ {x}) = N - 1
    BY FS_RemoveElement
  <2>2. Less(x) \in SUBSET (S \ {x})
    BY DEF Orders
  <2>3. IsFiniteSet(Less(x)) /\ Cardinality(Less(x)) <= N - 1
    <3>. HIDE DEF Less, N
    <3>. QED BY <2>1, <2>2, FS_Subset
  <2>4. Cardinality(Less(x)) \in Nat
    BY <2>3, FS_CardinalityType
  <2>. QED
    BY <2>3, <2>4, <1>1
<1>3. ASSUME NEW x \in S, NEW y \in S, <<x, y>> \in R PROVE rank[x] < rank[y]
  <2>1. Less(x) \cup {x} \in SUBSET Less(y) /\ x \notin Less(x)
    BY <1>3 DEF Orders
  <2>2. /\ IsFiniteSet(Less(x)) /\ Cardinality(Less(x)) \in Nat
        /\ IsFiniteSet(Less(y)) /\ Cardinality(Less(y)) \in Nat
    BY <1>2
  <2>3. Cardinality(Less(x) \cup {x}) = Cardinality(Less(x)) + 1
    BY <2>1, <2>2, FS_AddElement
  <2>4. Cardinality(Less(x) \cup {x}) <= Cardinality(Less(y))
    BY <2>1, <2>2, FS_Subset
  <2>. QED
    BY <2>2, <2>3, <2>4
<1>4. \A x, y \in S : rank[x] = rank[y] => x = y
  <2>1. \A x \in S : rank[x] \in Int
    BY <1>2, <1>1
  <2>. HIDE DEF rank
  <2>. SUFFICES ASSUME NEW x \in S, NEW y \in S, rank[x] = rank[y] PROVE x = y
    OBVIOUS
  <2>2. ~(<<x, y>> \in R) /\ ~(<<y, x>> \in R)
    <3>. rank[x] \in Int /\ rank[y] \in Int
      BY <2>1
    <3>1. ~(rank[x] < rank[y]) /\ ~(rank[y] < rank[x])
      OBVIOUS
    <3>. QED BY <1>3, <3>1
  <2>. QED
    BY <2>2 DEF Orders
<1>5. rank \in Injection(S, 1 .. N)
  BY <1>2, <1>4 DEF Injection, IsInjective
<1>6. rank \in Surjection(S, 1 .. N)
  BY <1>1, <1>5, FS_Interval, FS_Injection
<1>7. ASSUME NEW n \in 1 .. N
      PROVE  /\ Ordered(S, R)[n] \in S /\ rank[Ordered(S, R)[n]] = n
             /\ Cardinality({y \in S : <<y, Ordered(S, R)[n]>> \in R}) = n - 1
  <2>1. PICK x \in S : rank[x] = n
    BY <1>6 DEF Surjection
  <2>2. Cardinality(Less(x)) = n - 1
    <3>1. rank[x] = Cardinality(Less(x)) + 1 /\ Cardinality(Less(x)) \in Nat
      BY <1>2
    <3>. HIDE DEF rank, Less, N
    <3>. QED BY <3>1, <2>1, <1>1
  <2>3. \E z \in S : Cardinality(Less(z)) = n - 1
    BY <2>2
  <2>4. Ordered(S, R)[n] = CHOOSE z \in S : Cardinality(Less(z)) = n - 1
    BY DEF Ordered
  <2>5. /\ Ordered(S, R)[n] \in S
        /\ Cardinality(Less(Ordered(S, R)[n])) = n - 1
    BY <2>3, <2>4
  <2>. QED
    BY <2>5
<1>8. ASSUME NEW m \in 1 .. N, NEW n \in 1 .. N, m < n
      PROVE  <<Ordered(S, R)[m], Ordered(S, R)[n]>> \in R
  <2>. DEFINE a == Ordered(S, R)[m]
              b == Ordered(S, R)[n]
  <2>1. a \in S /\ b \in S /\ rank[a] = m /\ rank[b] = n
    BY <1>7
  <2>. HIDE DEF a, b, rank
  <2>2. a # b /\ ~(<<b, a>> \in R)
    <3>1. rank[a] < rank[b] /\ ~(rank[b] < rank[a])
      BY <2>1, <1>8
    <3>. QED
      BY <3>1, <2>1, <1>3
  <2>3. <<a, b>> \in R
    BY <2>1, <2>2 DEF Orders
  <2>. QED
    BY <2>3 DEF a, b
<1>9. ASSUME NEW x \in S PROVE \E n \in 1 .. N : Ordered(S, R)[n] = x
  <2>. DEFINE n == rank[x]
  <2>1. n \in 1 .. N
    BY <1>2
  <2>. HIDE DEF n
  <2>2. Ordered(S, R)[n] \in S /\ rank[Ordered(S, R)[n]] = n
    BY <2>1, <1>7
  <2>. HIDE DEF rank
  <2>3. Ordered(S, R)[n] = x
    BY <2>2, <1>4 DEF n
  <2>. QED
    BY <2>1, <2>3
<1>. QED
  BY <1>1, <1>7, <1>8, <1>9 DEF Ordered

\* Before orders numbers.
LEMMA BeforeOrders ==
  ASSUME NEW S \in SUBSET Nat
  PROVE  Orders({p \in S \X S : Before(p[1], p[2])}, S)
BY DEF Orders, Before

\* A list that is in order shows no record twice.
LEMMA SortedDistinct ==
  ASSUME NEW rows \in Seq(Row), Sorted(rows)
  PROVE  Cardinality({rows[i].id : i \in DOMAIN rows}) = Len(rows)
<1>. DEFINE T == {rows[i].id : i \in DOMAIN rows}
            f == [i \in 1 .. Len(rows) |-> rows[i].id]
<1>1. Len(rows) \in Nat /\ DOMAIN rows = 1 .. Len(rows)
  OBVIOUS
<1>2. \A i \in 1 .. Len(rows) : rows[i] \in Row
  BY <1>1
<1>3. \A i, j \in 1 .. Len(rows) : f[i] = f[j] => i = j
  <2>1. SUFFICES ASSUME NEW i \in 1 .. Len(rows), NEW j \in 1 .. Len(rows),
                        i < j, rows[i].id = rows[j].id
                 PROVE  FALSE
    BY <1>1
  <2>2. Before(rows[i].id, rows[j].id) /\ rows[i].id \in Nat
    BY <1>1, <1>2, <2>1 DEF Sorted, Row
  <2>. QED
    BY <2>1, <2>2 DEF Before
<1>4. f \in Injection(1 .. Len(rows), T) /\ f \in Surjection(1 .. Len(rows), T)
  BY <1>1, <1>3 DEF Injection, IsInjective, Surjection
<1>5. IsFiniteSet(1 .. Len(rows)) /\ Cardinality(1 .. Len(rows)) = Len(rows)
  <2>1. PICK n \in Nat : n = Len(rows)
    BY <1>1
  <2>2. IsFiniteSet(1 .. n) /\ Cardinality(1 .. n) = IF 1 > n THEN 0 ELSE n - 1 + 1
    BY FS_Interval
  <2>. QED
    BY <2>1, <2>2
<1>6. IsFiniteSet(T) /\ Cardinality(T) = Cardinality(1 .. Len(rows))
  <2>. HIDE DEF f, T
  <2>. QED BY <1>4, <1>5, FS_Surjection
<1>. QED
  BY <1>5, <1>6

\* What the API reads is in order: each record that it looks for, as it is.
LEMMA RowsInOrder ==
  ASSUME ServerOK, NEW ids \in SUBSET DOMAIN table
  PROVE  /\ InOrder(ids) \in Seq(Row)
         /\ Sorted(InOrder(ids))
         /\ \A m \in DOMAIN InOrder(ids) : LET row == InOrder(ids)[m] IN
              row.id \in ids /\ row.rev = table[row.id].rev
         /\ \A i \in ids : Has(InOrder(ids), i)
<1>. DEFINE R == {p \in ids \X ids : Before(p[1], p[2])}
            sorted == Ordered(ids, R)
            N == Cardinality(ids)
            rows == InOrder(ids)
<1>1. ids \in SUBSET Nat /\ IsFiniteSet(ids)
  <2>1. ids \in SUBSET (1 .. last) /\ last \in Nat
    BY DEF ServerOK, Handed
  <2>2. IsFiniteSet(1 .. last) /\ 1 .. last \subseteq Nat
    BY <2>1, FS_Interval
  <2>. QED
    BY <2>1, <2>2, FS_Subset
<1>2. Orders(R, ids)
  BY <1>1, BeforeOrders
<1>3. /\ N \in Nat /\ DOMAIN sorted = 1 .. N
      /\ \A n \in 1 .. N : sorted[n] \in ids
      /\ \A m, n \in 1 .. N : m < n => <<sorted[m], sorted[n]>> \in R
      /\ \A x \in ids : \E n \in 1 .. N : sorted[n] = x
  <2>. HIDE DEF R
  <2>. QED BY <1>1, <1>2, Enumerated
<1>4. rows = [n \in DOMAIN sorted |-> Record(sorted[n])]
  BY DEF InOrder
<1>5. \A m, n \in 1 .. N : m < n => Before(sorted[m], sorted[n])
  <2>. HIDE DEF sorted
  <2>. QED BY <1>3
<1>. HIDE DEF sorted, R, rows, N
<1>6. \A n \in 1 .. N : /\ rows[n] = Record(sorted[n])
                        /\ rows[n].id = sorted[n]
                        /\ rows[n].rev = table[sorted[n]].rev
                        /\ rows[n] \in Row
  <2>. SUFFICES ASSUME NEW n \in 1 .. N
                PROVE  /\ rows[n] = Record(sorted[n])
                       /\ rows[n].id = sorted[n]
                       /\ rows[n].rev = table[sorted[n]].rev
                       /\ rows[n] \in Row
    OBVIOUS
  <2>1. rows[n] = Record(sorted[n])
    BY <1>3, <1>4
  <2>2. /\ sorted[n] \in DOMAIN table /\ sorted[n] \in Nat \ {0}
        /\ table[sorted[n]].content \in Content /\ table[sorted[n]].rev \in Nat
    BY <1>3 DEF ServerOK, Handed
  <2>. QED
    BY <2>1, <2>2 DEF Record, Row
<1>7. DOMAIN rows = 1 .. N
  BY <1>3, <1>4
<1>8. rows \in Seq(Row)
  <2>1. rows \in [1 .. N -> Row]
    BY <1>4, <1>3, <1>6
  <2>. QED
    BY <1>3, <2>1
<1>9. Sorted(rows)
  BY <1>5, <1>6, <1>7 DEF Sorted
<1>10. \A i \in ids : Has(rows, i)
  BY <1>3, <1>6, <1>7 DEF Has
<1>. QED
  BY <1>3, <1>6, <1>7, <1>8, <1>9, <1>10 DEF rows

\* A page is the first rows, and says where they end if there are more.
LEMMA FirstRows ==
  ASSUME NEW rows \in Seq(Row), Sorted(rows)
  PROVE  LET P == PageOf(rows) IN
         /\ P \in Answer /\ Sorted(P.data)
         /\ \A m \in DOMAIN P.data : m \in DOMAIN rows /\ P.data[m] = rows[m]
         /\ P.next # None => Has(P.data, P.next)
         /\ Bounded(P.data, P.next)
         /\ \A k \in DOMAIN rows : UpTo(P.next, rows[k].id) => Has(P.data, rows[k].id)
<1>0. PICK n : n = IF Len(rows) < Limit THEN Len(rows) ELSE Limit
  OBVIOUS
<1>. DEFINE data == SubSeq(rows, 1, n)
            next == IF Len(rows) > Limit THEN data[Limit].id ELSE None
<1>1. /\ Limit \in Nat \ {0} /\ Len(rows) \in Nat /\ DOMAIN rows = 1 .. Len(rows)
      /\ n \in Nat /\ n <= Len(rows) /\ n <= Limit
      /\ \A m \in 1 .. Len(rows) : rows[m] \in Row
  BY <1>0, RegistersAssumption
<1>2. data \in Seq(Row) /\ DOMAIN data = 1 .. n /\ \A m \in 1 .. n : data[m] = rows[m]
  BY <1>1
<1>3. PageOf(rows).data = data /\ PageOf(rows).next = next
  BY <1>0 DEF PageOf
<1>4. CASE Len(rows) > Limit
  <2>1. next = rows[Limit].id /\ next \in Nat /\ next # None /\ n = Limit
    <3>1. n = Limit /\ Limit \in 1 .. n /\ Limit \in 1 .. Len(rows)
      <4>. Limit \in Nat \ {0} /\ Len(rows) \in Nat
        BY <1>1
      <4>. HIDE DEF data, next
      <4>. QED BY <1>0, <1>4
    <3>2. data[Limit] = rows[Limit] /\ rows[Limit].id \in Nat
      <4>. HIDE DEF data
      <4>. QED BY <1>1, <1>2, <3>1 DEF Row
    <3>. HIDE DEF data
    <3>. QED BY <1>4, <3>1, <3>2, RegistersAssumption
  <2>2. \A k \in 1 .. Len(rows) : rows[k].id \in Nat
    BY <1>1 DEF Row
  <2>3. \A k \in 1 .. Limit : UpTo(next, rows[k].id)
    <3>1. \A k \in 1 .. Limit : k = Limit \/ Before(rows[k].id, rows[Limit].id)
      BY <1>1, <1>4 DEF Sorted
    <3>2. \A k \in 1 .. Limit : k \in 1 .. Len(rows)
      BY <1>1, <1>4
    <3>3. next = rows[Limit].id /\ Limit \in 1 .. Limit
      <4>. HIDE DEF next
      <4>. QED BY <1>1, <2>1
    <3>. HIDE DEF next, data
    <3>. QED
      BY <2>2, <3>1, <3>2, <3>3 DEF UpTo, Before
  <2>4. \A k \in 1 .. Len(rows) : UpTo(next, rows[k].id) => k <= Limit
    <3>1. \A k \in 1 .. Len(rows) : k <= Limit \/ Before(rows[Limit].id, rows[k].id)
      BY <1>1, <1>4 DEF Sorted
    <3>. QED
      BY <2>1, <2>2, <3>1 DEF UpTo
  <2>5. Sorted(data)
    BY <1>1, <1>2 DEF Sorted
  <2>6. PageOf(rows) \in Answer
    BY <1>0, <1>2, <2>1 DEF PageOf, Answer
  <2>7. /\ Bounded(data, next) /\ Has(data, next)
        /\ \A k \in 1 .. Len(rows) : UpTo(next, rows[k].id) => Has(data, rows[k].id)
    <3>1. /\ n = Limit /\ Limit \in 1 .. n /\ DOMAIN data = 1 .. n
          /\ \A m \in 1 .. n : data[m] = rows[m]
          /\ \A k \in 1 .. Len(rows) : k <= Limit => k \in 1 .. n
      <4>. HIDE DEF data, next
      <4>. QED BY <1>1, <1>2, <2>1
    <3>. HIDE DEF data, next
    <3>. QED BY <2>1, <2>3, <2>4, <3>1 DEF Bounded, Has
  <2>. HIDE DEF data, next
  <2>. QED
    BY <1>1, <1>2, <1>3, <2>5, <2>6, <2>7
<1>5. CASE ~(Len(rows) > Limit)
  <2>1. next = None /\ n = Len(rows)
    <3>1. Len(rows) \in Nat /\ Limit \in Nat
      BY <1>1
    <3>2. next = None
      BY <1>5
    <3>. HIDE DEF next, data
    <3>. QED BY <1>0, <1>5, <3>1, <3>2
  <2>2. Sorted(data)
    BY <1>1, <1>2 DEF Sorted
  <2>3. PageOf(rows) \in Answer
    BY <1>0, <1>2, <2>1 DEF PageOf, Answer
  <2>4. /\ Bounded(data, next)
        /\ \A k \in 1 .. Len(rows) : Has(data, rows[k].id)
    <3>. HIDE DEF data, next
    <3>. QED BY <1>1, <1>2, <2>1 DEF Bounded, Has, UpTo
  <2>. HIDE DEF data, next
  <2>. QED
    BY <1>1, <1>2, <1>3, <2>1, <2>2, <2>3, <2>4
<1>. QED
  BY <1>4, <1>5

-----------------------------------------------------------------------------
(* The table *)

\* The records only go on: ids stay handed out, a record that was told is as it
\* was, newer, or gone for good.
Onward ==
  /\ \A id \in 1 .. last : Handed(id) => Handed(id)'
  /\ \A id \in DOMAIN table' : Handed(id) =>
       id \in DOMAIN table /\ table[id].rev <= table'[id].rev

\* While nothing happens in the tables no record is taken back.
LEMMA OnwardStays ==
  ASSUME ServerOK, UNCHANGED server PROVE ServerOK' /\ Onward
<1>. USE DEF ServerOK, Onward, Handed, server
<1>1. ServerOK'
  OBVIOUS
<1>2. \A id \in 1 .. last : Handed(id) => Handed(id)'
  OBVIOUS
<1>3. \A id \in DOMAIN table : table[id].rev <= table[id].rev
  OBVIOUS
<1>. QED
  BY <1>1, <1>2, <1>3

\* A record that is put was there, or its id is told for the first time.
LEMMA PutKeeps ==
  ASSUME ServerOK, NEW id, NEW content \in Content, Put(id, content),
         last' \in Nat, last <= last', inserting' \subseteq inserting,
         id \in 1 .. last', \A r \in inserting' : r.id # id,
         id \notin DOMAIN table => ~Handed(id)
  PROVE  /\ ServerOK' /\ Onward /\ Handed(id)'
         /\ id \in DOMAIN table' /\ table'[id].rev \in Nat
<1>1. last \in Nat /\ 1 .. last \subseteq 1 .. last'
  BY DEF ServerOK
<1>2. /\ DOMAIN table' = DOMAIN table \cup {id}
      /\ \A i \in DOMAIN table : i # id => table'[i] = table[i]
      /\ table'[id].content = content
      /\ table'[id].rev = IF id \in DOMAIN table THEN table[id].rev + 1 ELSE 0
  BY DEF Put
<1>3. \A i \in DOMAIN table : table[i].rev \in Nat /\ table[i].content \in Content
  BY DEF ServerOK
<1>4. Handed(id)'
  BY DEF Handed
<1>5. \A i \in 1 .. last : Handed(i) => Handed(i)'
  BY <1>1 DEF Handed
<1>6. /\ table'[id].rev \in Nat
      /\ id \in DOMAIN table => table[id].rev <= table'[id].rev
  BY <1>2, <1>3
<1>7. \A i \in DOMAIN table' : /\ Handed(i)'
                               /\ table'[i].content \in Content
                               /\ table'[i].rev \in Nat
  <2>1. \A i \in DOMAIN table : i \in 1 .. last /\ Handed(i)
    BY DEF ServerOK, Handed
  <2>. QED
    BY <1>2, <1>3, <1>4, <1>5, <1>6, <2>1
<1>8. ServerOK'
  <2>1. /\ \A r \in inserting' : r.id \in 1 .. last' /\ r.content \in Content
        /\ \A r, s \in inserting' : r.id = s.id => r = s
    BY <1>1 DEF ServerOK
  <2>. QED
    BY <1>7, <2>1 DEF ServerOK
<1>9. Onward
  <2>1. \A i \in DOMAIN table' : Handed(i) =>
          i \in DOMAIN table /\ table[i].rev <= table'[i].rev
    <3>1. \A i \in DOMAIN table : i # id => table[i].rev <= table'[i].rev
      BY <1>2, <1>3
    <3>. QED
      BY <1>2, <1>6, <3>1
  <2>. QED
    BY <1>5, <2>1 DEF Onward
<1>. QED
  BY <1>2, <1>4, <1>6, <1>8, <1>9

\* Others only go on with the records.
LEMMA ElsewhereOnward ==
  ASSUME ServerOK, left.contents \subseteq Content, Elsewhere
  PROVE  ServerOK' /\ Onward /\ left'.contents = left.contents
<1>. USE DEF Spend
<1>1. CASE \E content \in left.contents : BeginInsert(content)
  <2>1. PICK content \in left.contents : BeginInsert(content)
    BY <1>1
  <2>. DEFINE new == [id |-> last + 1, content |-> content]
  <2>2. /\ last' = last + 1 /\ inserting' = inserting \cup {new}
        /\ table' = table /\ left'.contents = left.contents
        /\ new.id = last + 1 /\ new.content \in Content
    BY <2>1 DEF BeginInsert
  <2>. HIDE DEF new
  <2>3. last \in Nat
    BY DEF ServerOK
  <2>4. \A i \in 1 .. last : i \in 1 .. last' /\ (Handed(i) => Handed(i)')
    BY <2>2, <2>3 DEF Handed
  <2>5. \A i \in DOMAIN table : Handed(i)' /\ table[i].rev <= table'[i].rev
    BY <2>2, <2>4 DEF ServerOK, Handed
  <2>6. /\ \A r \in inserting' : r.id \in 1 .. last' /\ r.content \in Content
        /\ \A r, s \in inserting' : r.id = s.id => r = s
    <3>1. \A r \in inserting : r.id \in 1 .. last /\ r.id # last + 1
      BY <2>3 DEF ServerOK
    <3>. QED
      BY <2>2, <2>3, <2>4, <3>1 DEF ServerOK
  <2>. QED
    BY <2>2, <2>3, <2>4, <2>5, <2>6 DEF ServerOK, Onward
<1>2. CASE \E r \in inserting : Commit(r)
  <2>1. PICK r \in inserting : Commit(r)
    BY <1>2
  <2>2. /\ last' = last /\ inserting' = inserting \ {r} /\ left' = left
        /\ Put(r.id, r.content) \/ table' = table
    BY <2>1 DEF Commit
  <2>3. CASE Put(r.id, r.content)
    <3>1. /\ last' \in Nat /\ last <= last' /\ r.id \in 1 .. last' /\ r.content \in Content
          /\ inserting' \subseteq inserting /\ \A s \in inserting' : s.id # r.id
          /\ ~Handed(r.id)
      BY <2>2 DEF ServerOK, Handed
    <3>. QED
      BY <2>2, <2>3, <3>1, PutKeeps
  <2>4. CASE table' = table
    <3>1. \A i \in 1 .. last : Handed(i) => Handed(i)'
      BY <2>2 DEF Handed
    <3>2. \A i \in DOMAIN table : i \in 1 .. last /\ table[i].rev <= table'[i].rev
      BY <2>4 DEF ServerOK, Handed
    <3>3. ServerOK'
      BY <2>2, <2>4, <3>1, <3>2 DEF ServerOK
    <3>. QED
      BY <2>2, <2>4, <3>1, <3>2, <3>3 DEF Onward
  <2>. QED
    BY <2>2, <2>3, <2>4
<1>3. CASE \E id \in DOMAIN table, content \in left.contents : Change(id, content)
  <2>1. PICK id \in DOMAIN table, content \in left.contents : Change(id, content)
    BY <1>3
  <2>2. /\ last' = last /\ inserting' = inserting /\ Put(id, content)
        /\ left'.contents = left.contents
    BY <2>1 DEF Change
  <2>3. /\ last' \in Nat /\ last <= last' /\ id \in 1 .. last'
        /\ \A r \in inserting' : r.id # id
    BY <2>2 DEF ServerOK, Handed
  <2>. QED
    BY <2>2, <2>3, PutKeeps
<1>4. CASE \E id \in DOMAIN table : Delete(id)
  <2>1. PICK id \in DOMAIN table : Delete(id)
    BY <1>4
  <2>2. /\ last' = last /\ inserting' = inserting /\ left'.contents = left.contents
        /\ table' = [i \in DOMAIN table \ {id} |-> table[i]]
    BY <2>1 DEF Delete
  <2>3. DOMAIN table' = DOMAIN table \ {id} /\ \A i \in DOMAIN table' : table'[i] = table[i]
    BY <2>2
  <2>4. \A i \in 1 .. last : Handed(i) => Handed(i)'
    BY <2>2 DEF Handed
  <2>5. \A i \in DOMAIN table' : /\ i \in 1 .. last /\ Handed(i) /\ Handed(i)'
                                 /\ table[i].rev <= table'[i].rev
    BY <2>3, <2>4 DEF ServerOK, Handed
  <2>6. ServerOK'
    BY <2>2, <2>3, <2>5 DEF ServerOK
  <2>. QED
    BY <2>2, <2>3, <2>4, <2>5, <2>6 DEF Onward
<1>. QED
  BY <1>1, <1>2, <1>3, <1>4 DEF Elsewhere

-----------------------------------------------------------------------------
(* While the records go on *)

\* What was told of a record stays true.
LEMMA CurrentStays ==
  ASSUME ServerOK, ServerOK', Onward, NEW id, NEW rev \in Nat, Current(id, rev)
  PROVE  Current(id, rev)'
<1>1. Handed(id) /\ id \in 1 .. last
  BY DEF Current, Handed
<1>2. Handed(id)'
  BY <1>1 DEF Onward
<1>3. ASSUME id \in DOMAIN table' PROVE rev <= table'[id].rev
  <2>1. id \in DOMAIN table /\ table[id].rev <= table'[id].rev
    BY <1>1, <1>3 DEF Onward
  <2>2. rev <= table[id].rev /\ table[id].rev \in Nat
    BY <2>1 DEF Current, ServerOK
  <2>. QED
    BY <1>3, <2>1, <2>2, <1>2 DEF Current, ServerOK
<1>. QED
  BY <1>2, <1>3 DEF Current

\* Records that were there and are there are the same: none comes back.
Holds(c) == CallOK(c) /\ CallInv(c)

\* What holds of a call does while the records go on.
LEMMA CallOnward ==
  ASSUME IInv, ServerOK', Onward, UNCHANGED <<kind, page, asked, known, disturbed>>,
         NEW c, Holds(c)
  PROVE  Holds(c)'
<1>1. CallOK(c) /\ CallInv(c) /\ ServerOK
  BY DEF IInv, TypeOK, Holds
<1>2. CallOK(c)'
  BY <1>1 DEF CallOK, ListOK, SaveOK
<1>3. ASSUME c.what = "save" PROVE SaveInv(c)'
  <2>1. SaveInv(c) /\ SaveOK(c)
    BY <1>1, <1>3 DEF CallInv, CallOK
  <2>2. ASSUME c.stage = "served" PROVE Current(c.answer.id, c.answer.rev)'
    <3>1. c.answer.rev \in Nat /\ Current(c.answer.id, c.answer.rev)
      BY <2>1, <2>2 DEF SaveInv, SaveOK, Row
    <3>. QED
      BY <1>1, <3>1, CurrentStays
  <2>. QED
    BY <2>1, <2>2 DEF SaveInv
<1>4. ASSUME c.what = "list" PROVE ListInv(c)'
  <2>1. ListInv(c) /\ ListOK(c)
    BY <1>1, <1>4 DEF CallInv, CallOK
  <2>2. ASSUME c.held # None PROVE Current(c.held.id, c.held.rev)'
    <3>1. c.held.rev \in Nat /\ Current(c.held.id, c.held.rev)
      BY <2>1, <2>2 DEF ListInv, ListOK, Row
    <3>. QED
      BY <1>1, <3>1, CurrentStays
  <2>3. \A i \in c.there : Handed(i)'
    BY <2>1 DEF ListInv, Onward, Handed
  <2>4. ASSUME NEW ids, \A i \in ids : Handed(i), Covers(c, ids) PROVE Covers(c, ids)'
    <3>1. \A i \in ids : i \in DOMAIN table' => i \in DOMAIN table
      BY <2>4 DEF Onward
    <3>. QED
      BY <2>4, <3>1 DEF Covers, Beyond, UpTo, Has, Before, Descending
  <2>5. ASSUME c.stage = "served" PROVE AnswerInv(c)'
    <3>1. AnswerInv(c)
      BY <2>1, <2>5 DEF ListInv
    <3>2. c.reset /\ c.search = None => Covers(c, c.there)'
      BY <2>1, <2>4, <3>1 DEF ListInv, AnswerInv
    <3>3. ~c.reset /\ Latest(c) /\ ~disturbed => Covers(c, asked)'
      <4>1. \A i \in asked : Handed(i)
        BY DEF IInv, PageInv
      <4>. QED
        BY <2>4, <3>1, <4>1 DEF AnswerInv, Covers
    <3>4. Latest(c)' <=> Latest(c)
      BY DEF Latest, Counted
    <3>5. /\ Sorted(c.answer.data)'
          /\ \A m \in DOMAIN c.answer.data : Beyond(c.cursor, c.answer.data[m].id)'
          /\ c.answer.next # None => Has(c.answer.data, c.answer.next)'
          /\ Bounded(c.answer.data, c.answer.next)'
          /\ c.held # None => NotBefore(c.answer.data, c.held.id, c.held.rev)'
          /\ Latest(c) => \A id \in DOMAIN known : NotBefore(c.answer.data, id, known[id])'
      BY <3>1 DEF AnswerInv, Sorted, Beyond, Has, Bounded, NotBefore, UpTo, Before,
                  Descending
    <3>. QED
      BY <3>2, <3>3, <3>4, <3>5 DEF AnswerInv
  <2>6. ~c.reset /\ Latest(c)' /\ ~disturbed' => c.cursor = page'.cursor /\ ~Emptied'
    BY <2>1 DEF ListInv, Latest, Counted, Emptied
  <2>. QED
    BY <2>1, <2>2, <2>3, <2>5, <2>6 DEF ListInv
<1>. QED
  BY <1>2, <1>3, <1>4 DEF Holds, CallInv

\* A call that goes on: its list keeps its number.
GoesOn(c, e) == e.what = c.what /\ (c.what = "list" => e.sequence = c.sequence)

\* The page does not move while the records and one of its calls do.
LEMMA ServerStep ==
  ASSUME IInv, ServerOK', Onward, left'.contents = left.contents,
         UNCHANGED <<kind, page, asked, known, disturbed>>,
         \/ calls' = calls
         \/ \E c \in calls, e \in calls' :
              GoesOn(c, e) /\ Holds(e)' /\ calls' = (calls \ {c}) \cup {e}
  PROVE  IInv'
<1>. USE DEF IInv, TypeOK
<1>1. \A d \in calls' : d \in calls \/ Holds(d)'
  OBVIOUS
<1>2. \A d \in calls' : Holds(d)'
  <2>1. \A d \in calls : Holds(d)
    BY DEF Holds
  <2>. QED
    BY <1>1, <2>1, CallOnward
<1>3. SequenceInv'
  <2>1. CASE calls' = calls
    BY <2>1 DEF SequenceInv, Listing, Counted
  <2>2. ASSUME NEW c \in calls, NEW e \in calls', GoesOn(c, e),
               calls' = (calls \ {c}) \cup {e}
        PROVE  SequenceInv'
    <3>. DEFINE was(d) == IF d = e THEN c ELSE d
    <3>1. \A d \in Listing' : /\ was(d) \in Listing /\ was(d).sequence = d.sequence
                              /\ d # e => d # c
      BY <2>2 DEF Listing, GoesOn
    <3>2. \A d, f \in Listing' : was(d) = was(f) => d = f
      BY <3>1
    <3>. HIDE DEF was
    <3>. QED
      BY <3>1, <3>2 DEF SequenceInv, Counted
  <2>. QED
    BY <2>1, <2>2
<1>4. PageOK' /\ FormInv'
  BY DEF PageOK, FormInv
<1>5. KnownInv'
  <2>1. ASSUME NEW id \in DOMAIN known PROVE Current(id, known[id])'
    <3>1. Current(id, known[id]) /\ known[id] \in Nat
      BY DEF KnownInv
    <3>2. Current(id, known[id])'
      BY <3>1, CurrentStays
    <3>. QED
      BY <3>2
  <2>. QED
    BY <2>1 DEF KnownInv, NotBefore
<1>6. PageInv'
  <2>1. \A i \in asked : Handed(i) /\ Handed(i)'
    BY DEF PageInv, Onward, Handed
  <2>2. \A i \in asked : i \in DOMAIN table' => i \in DOMAIN table
    BY <2>1 DEF Onward
  <2>3. CoversAsked => CoversAsked'
    BY <2>2 DEF CoversAsked, UpTo, Has, Before, Descending
  <2>4. /\ Sorted(page.rows) => Sorted(page.rows)'
        /\ Bounded(page.rows, page.cursor) => Bounded(page.rows, page.cursor)'
        /\ Emptied' <=> Emptied
    BY DEF Sorted, Bounded, UpTo, Before, Descending, Emptied
  <2>. QED
    BY <2>1, <2>3, <2>4 DEF PageInv
<1>. QED
  BY <1>2, <1>3, <1>4, <1>5, <1>6 DEF Holds

\* A call that fails told nothing.
LEMMA FailKeeps ==
  ASSUME IInv, NEW c \in calls, Fail(c),
         UNCHANGED <<kind, server, page, asked, known, disturbed, left>>
  PROVE  IInv'
<1>. DEFINE e == [c EXCEPT !.stage = "failed"]
<1>1. CallOK(c) /\ CallInv(c) /\ ServerOK
  BY DEF IInv, TypeOK
<1>2. ServerOK' /\ Onward
  BY <1>1, OnwardStays
<1>3. calls' = (calls \ {c}) \cup {e}
  BY DEF Fail
<1>4. /\ e.stage = "failed" /\ e.what = c.what /\ {"stage", "answer"} \subseteq DOMAIN e
      /\ e.reset = c.reset /\ e.sequence = c.sequence /\ e.cursor = c.cursor
      /\ e.held = c.held /\ e.search = c.search /\ e.there = c.there
      /\ e.content = c.content /\ e.late = c.late /\ e.of = c.of /\ e.opened = c.opened
  BY <1>1 DEF CallOK
<1>. HIDE DEF e
<1>5. Holds(c)'
  BY <1>1, <1>2, CallOnward DEF server, Holds
<1>6. CallOK(e)'
  BY <1>4, <1>5 DEF Holds, CallOK, ListOK, SaveOK
<1>7. CallInv(e)'
  BY <1>4, <1>5 DEF Holds, CallInv, ListInv, SaveInv, Latest
<1>8. GoesOn(c, e) /\ Holds(e)'
  BY <1>4, <1>6, <1>7 DEF GoesOn, Holds
<1>. QED
  BY <1>2, <1>3, <1>8, ServerStep

\* A list is answered with a page of what there is.
LEMMA ServeListKeeps ==
  ASSUME IInv, NEW c \in calls, c.stage = "sent", ServeList(c),
         UNCHANGED <<kind, page, asked, known, disturbed, left>>
  PROVE  IInv'
<1>. DEFINE ids == {i \in Matching(c.search) : c.cursor = None \/ Before(c.cursor, i)}
            rows == InOrder(ids)
            P == PageOf(rows)
<1>0. PICK e : e = [c EXCEPT !.stage = "served", !.answer = P]
  OBVIOUS
<1>1. CallOK(c) /\ ListOK(c) /\ ListInv(c) /\ ServerOK /\ c.what = "list"
  BY DEF IInv, TypeOK, CallOK, CallInv, ServeList
<1>2. ServerOK' /\ Onward
  BY <1>1, OnwardStays DEF ServeList
<1>3. calls' = (calls \ {c}) \cup {e}
  BY <1>0 DEF ServeList, Reply
<1>4. ids \in SUBSET DOMAIN table
  BY DEF Matching
<1>5. /\ rows \in Seq(Row) /\ Sorted(rows)
      /\ \A m \in DOMAIN rows : rows[m].id \in ids /\ rows[m].rev = table[rows[m].id].rev
      /\ \A i \in ids : Has(rows, i)
  <2>. HIDE DEF ids
  <2>. QED BY <1>1, <1>4, RowsInOrder
<1>6. /\ P \in Answer /\ Sorted(P.data)
      /\ \A m \in DOMAIN P.data : m \in DOMAIN rows /\ P.data[m] = rows[m]
      /\ P.next # None => Has(P.data, P.next)
      /\ Bounded(P.data, P.next)
      /\ \A k \in DOMAIN rows : UpTo(P.next, rows[k].id) => Has(P.data, rows[k].id)
  <2>. HIDE DEF rows
  <2>. QED BY <1>5, FirstRows
<1>7. /\ e.stage = "served" /\ e.answer = P /\ e.what = "list"
      /\ {"stage", "answer"} \subseteq DOMAIN e
      /\ e.reset = c.reset /\ e.sequence = c.sequence /\ e.cursor = c.cursor
      /\ e.held = c.held /\ e.search = c.search /\ e.there = c.there
  BY <1>0, <1>1 DEF CallOK
<1>. HIDE DEF P, rows
<1>8. \A i \in ids : UpTo(P.next, i) => Has(P.data, i)
  <2>. HIDE DEF ids
  <2>. QED BY <1>5, <1>6 DEF Has
<1>9. \A m \in DOMAIN P.data : /\ P.data[m].id \in ids
                               /\ P.data[m].id \in DOMAIN table
                               /\ P.data[m].rev = table[P.data[m].id].rev
  <2>. HIDE DEF ids
  <2>. QED BY <1>4, <1>5, <1>6
<1>10. \A m \in DOMAIN P.data : Beyond(e.cursor, P.data[m].id)
  BY <1>7, <1>9 DEF Beyond
<1>11. \A id, rev : Current(id, rev) => NotBefore(P.data, id, rev)
  BY <1>9 DEF Current, NotBefore
<1>12. e.search = None => \A there : Covers(e, there)
  <2>1. e.search = None => \A i \in DOMAIN table : Beyond(e.cursor, i) => i \in ids
    BY <1>7 DEF Matching, Beyond
  <2>. HIDE DEF ids
  <2>. QED
    BY <1>7, <1>8, <2>1 DEF Covers
<1>13. AnswerInv(e)
  <2>1. e.held # None => NotBefore(P.data, e.held.id, e.held.rev)
    BY <1>1, <1>7, <1>11 DEF ListInv
  <2>2. \A id \in DOMAIN known : NotBefore(P.data, id, known[id])
    BY <1>11 DEF IInv, KnownInv
  <2>3. ~e.reset => e.search = None
    BY <1>1, <1>7 DEF ListOK
  <2>. QED
    BY <1>6, <1>7, <1>10, <1>12, <2>1, <2>2, <2>3 DEF AnswerInv
<1>14. CallOK(e)
  BY <1>1, <1>6, <1>7 DEF CallOK, ListOK
<1>15. CallInv(e)
  BY <1>1, <1>7, <1>13 DEF CallInv, ListInv, Latest
<1>16. Holds(e)'
  BY <1>2, <1>14, <1>15, CallOnward DEF Holds
<1>17. GoesOn(c, e)
  BY <1>1, <1>7 DEF GoesOn
<1>. QED
  BY <1>2, <1>3, <1>16, <1>17, ServerStep

\* A detail is looked up, or its record is gone.
LEMMA ServeGetKeeps ==
  ASSUME IInv, NEW c \in calls, ServeGet(c),
         UNCHANGED <<kind, page, asked, known, disturbed, left>>
  PROVE  IInv'
<1>1. CASE Fail(c)
  BY <1>1, FailKeeps DEF ServeGet
<1>2. CASE Reply(c, Record(c.of))
  <2>0. PICK e : e = [c EXCEPT !.stage = "served", !.answer = Record(c.of)]
    OBVIOUS
  <2>1. ServerOK' /\ Onward
    BY OnwardStays DEF ServeGet, IInv, TypeOK
  <2>2. calls' = (calls \ {c}) \cup {e}
    BY <1>2, <2>0 DEF Reply
  <2>3. CallOK(c) /\ c.what = "get"
    BY DEF IInv, TypeOK, ServeGet
  <2>4. e.what = "get" /\ {"stage", "answer"} \subseteq DOMAIN e
    BY <2>0, <2>3 DEF CallOK
  <2>5. Holds(e)' /\ GoesOn(c, e)
    BY <2>3, <2>4 DEF Holds, CallOK, CallInv, GoesOn
  <2>. QED
    BY <2>1, <2>2, <2>5, ServerStep
<1>. QED
  BY <1>1, <1>2 DEF ServeGet

\* A record is saved and told as it is, or the save is refused.
LEMMA ServeSaveKeeps ==
  ASSUME IInv, NEW c \in calls, ServeSave(c),
         UNCHANGED <<kind, page, asked, known, disturbed, left>>
  PROVE  IInv'
<1>. DEFINE id0 == IF c.of = New THEN last + 1 ELSE c.of
<1>0. PICK id : id = id0
  OBVIOUS
<1>1. /\ CallOK(c) /\ CallInv(c) /\ SaveInv(c) /\ SaveOK(c)
      /\ c.what = "save" /\ ServerOK
  BY DEF IInv, TypeOK, CallOK, CallInv, ServeSave
<1>2. CASE Fail(c) /\ UNCHANGED <<table, last>>
  BY <1>2, FailKeeps DEF ServeSave, server
<1>3. CASE /\ c.of = New \/ c.of \in DOMAIN table
           /\ Put(id, c.content)
           /\ last' = IF c.of = New THEN id ELSE last
           /\ Reply(c, [id |-> id, content |-> c.content, rev |-> table'[id].rev])
  <2>0. PICK e : e = [c EXCEPT !.stage = "served",
                       !.answer = [id |-> id, content |-> c.content,
                                   rev |-> table'[id].rev]]
    OBVIOUS
  <2>1. /\ last \in Nat /\ inserting' = inserting
        /\ \A r \in inserting : r.id \in 1 .. last
        /\ \A i \in DOMAIN table : Handed(i) /\ i \in 1 .. last
    BY <1>1 DEF ServerOK, ServeSave, Handed
  <2>2. /\ last' \in Nat /\ last <= last' /\ id \in 1 .. last'
        /\ \A r \in inserting' : r.id # id
        /\ id \notin DOMAIN table => ~Handed(id)
    <3>1. CASE c.of = New
      BY <1>0, <1>3, <2>1, <3>1 DEF Handed
    <3>2. CASE c.of # New
      BY <1>0, <1>3, <2>1, <3>2 DEF Handed
    <3>. QED
      BY <3>1, <3>2
  <2>3. /\ ServerOK' /\ Onward /\ Handed(id)'
        /\ id \in DOMAIN table' /\ table'[id].rev \in Nat
    BY <1>1, <1>3, <2>1, <2>2, PutKeeps DEF SaveOK
  <2>4. calls' = (calls \ {c}) \cup {e}
    BY <1>3, <2>0 DEF Reply
  <2>5. /\ e.what = "save" /\ {"stage", "answer"} \subseteq DOMAIN e
        /\ e.content = c.content /\ e.late = c.late /\ e.of = c.of /\ e.opened = c.opened
        /\ e.answer = [id |-> id, content |-> c.content, rev |-> table'[id].rev]
    BY <1>1, <2>0 DEF CallOK
  <2>6. e.answer \in Row /\ e.answer.id = id /\ e.answer.rev = table'[id].rev
    <3>1. id \in Nat \ {0}
      BY <2>2
    <3>. QED
      BY <1>1, <2>3, <2>5, <3>1 DEF Row, SaveOK
  <2>7. Current(e.answer.id, e.answer.rev)'
    BY <2>3, <2>6 DEF Current
  <2>8. Holds(e)' /\ GoesOn(c, e)
    BY <1>1, <2>5, <2>6, <2>7 DEF Holds, CallOK, SaveOK, CallInv, SaveInv, GoesOn
  <2>. QED
    BY <2>3, <2>4, <2>8, ServerStep
<1>. QED
  BY <1>0, <1>2, <1>3 DEF ServeSave

\* Whatever the API and others do, and whatever is lost.
LEMMA ServerKeeps ==
  ASSUME IInv, Elsewhere \/ \E c \in calls : Serve(c) \/ Lose(c)
  PROVE  IInv'
<1>1. CASE Elsewhere
  <2>1. ServerOK' /\ Onward /\ left'.contents = left.contents
    BY <1>1, ElsewhereOnward DEF IInv, TypeOK
  <2>. QED
    BY <1>1, <2>1, ServerStep DEF Elsewhere
<1>2. ASSUME NEW c \in calls, Serve(c) PROVE IInv'
  BY <1>2, ServeListKeeps, ServeGetKeeps, ServeSaveKeeps DEF Serve
<1>3. ASSUME NEW c \in calls, Lose(c) PROVE IInv'
  BY <1>3, FailKeeps DEF Lose
<1>. QED
  BY <1>1, <1>2, <1>3

-----------------------------------------------------------------------------
(* The page moves *)

\* What a call that is still awaited may rely on.
Awaits(d) ==
  d.what = "list" /\ Latest(d)' =>
    /\ Latest(d) /\ known' = known
    /\ ~d.reset /\ ~disturbed' => /\ ~disturbed /\ asked' = asked /\ ~Emptied'
                                  /\ page'.cursor = page.cursor

\* What holds of a call does while the page moves, if it is not awaited.
LEMMA CallAwaits ==
  ASSUME IInv, UNCHANGED <<kind, server>>,
         page'.sequence \in Nat, page.sequence <= page'.sequence,
         NEW d, Holds(d), Awaits(d)
  PROVE  Holds(d)'
<1>1. CallOK(d) /\ CallInv(d)
  BY DEF Holds
<1>2. CallOK(d)'
  BY <1>1 DEF CallOK, ListOK, SaveOK
<1>3. \A id, rev : Current(id, rev)' <=> Current(id, rev)
  BY DEF Current, Handed, server
<1>4. ASSUME d.what = "save" PROVE SaveInv(d)'
  BY <1>1, <1>3, <1>4 DEF CallInv, SaveInv
<1>5. ASSUME d.what = "list" PROVE ListInv(d)'
  <2>1. ListInv(d) /\ ListOK(d)
    BY <1>1, <1>5 DEF CallInv, CallOK
  <2>2. d.sequence <= page'.sequence
    <3>. page.sequence \in Nat /\ d.sequence \in Nat /\ d.sequence <= page.sequence
      BY <2>1 DEF ListInv, ListOK, IInv, TypeOK, PageOK
    <3>. QED
      OBVIOUS
  <2>3. \A i \in d.there : Handed(i)'
    BY <2>1 DEF ListInv, Handed, server
  <2>4. ~d.reset /\ Latest(d)' /\ ~disturbed' => d.cursor = page'.cursor /\ ~Emptied'
    BY <1>5, <2>1 DEF ListInv, Awaits
  <2>5. ASSUME d.stage = "served" PROVE AnswerInv(d)'
    <3>1. AnswerInv(d)
      BY <2>1, <2>5 DEF ListInv
    <3>2. /\ Sorted(d.answer.data)'
          /\ \A m \in DOMAIN d.answer.data : Beyond(d.cursor, d.answer.data[m].id)'
          /\ d.answer.next # None => Has(d.answer.data, d.answer.next)'
          /\ Bounded(d.answer.data, d.answer.next)'
          /\ d.held # None => NotBefore(d.answer.data, d.held.id, d.held.rev)'
      BY <3>1 DEF AnswerInv, Sorted, Beyond, Has, Bounded, NotBefore, UpTo, Before,
                  Descending
    <3>3. \A ids : Covers(d, ids) => Covers(d, ids)'
      BY DEF Covers, Beyond, UpTo, Has, Before, Descending, server
    <3>4. Latest(d)' =>
            \A id \in DOMAIN known' : NotBefore(d.answer.data, id, known'[id])
      BY <1>5, <3>1 DEF Awaits, AnswerInv, NotBefore
    <3>5. ~d.reset /\ Latest(d)' /\ ~disturbed' => Covers(d, asked)'
      <4>1. ~d.reset /\ Latest(d)' /\ ~disturbed' => Covers(d, asked) /\ asked' = asked
        BY <1>5, <3>1 DEF Awaits, AnswerInv
      <4>. QED
        BY <4>1, <3>3 DEF Covers
    <3>6. d.reset /\ d.search = None => Covers(d, d.there)'
      BY <3>1, <3>3 DEF AnswerInv
    <3>. QED
      BY <3>2, <3>4, <3>5, <3>6 DEF AnswerInv, NotBefore
  <2>. QED
    BY <1>3, <2>1, <2>2, <2>3, <2>4, <2>5 DEF ListInv
<1>. QED
  BY <1>2, <1>4, <1>5 DEF Holds, CallInv

\* Dialogs open and close, forms and details are asked for: the list stays.
LEMMA AsideKeeps ==
  ASSUME IInv, UNCHANGED <<kind, server, asked, known, disturbed>>,
         left'.contents = left.contents,
         DOMAIN page' = PageFields, page'.rows = page.rows, page'.cursor = page.cursor,
         page'.sequence = page.sequence, page'.shown = page.shown,
         page'.state = page.state, FormInv',
         \A d \in calls' : d \in calls \/ (d.what # "list" /\ Holds(d))
  PROVE  IInv'
<1>. USE DEF IInv, TypeOK
<1>1. page'.sequence \in Nat /\ page.sequence <= page'.sequence
  BY DEF PageOK
<1>2. \A d \in calls' : Awaits(d) /\ Holds(d)
  BY DEF Awaits, Holds, CallInv, ListInv, Latest, Counted, Emptied
<1>3. \A d \in calls' : Holds(d)'
  BY <1>1, <1>2, CallAwaits
<1>4. ServerOK' /\ PageOK'
  BY DEF ServerOK, Handed, PageOK, server
<1>5. SequenceInv'
  <2>1. Listing' \subseteq Listing
    BY DEF Listing
  <2>. QED
    BY <2>1 DEF SequenceInv, Counted
<1>6. KnownInv'
  BY DEF KnownInv, Current, Handed, NotBefore, server
<1>7. PageInv'
  BY DEF PageInv, Handed, Sorted, Bounded, UpTo, Has, CoversAsked, Emptied, Before,
         Descending, server
<1>. QED
  BY <1>3, <1>4, <1>5, <1>6, <1>7 DEF Holds

\* A form that is opened has selected the record it was opened for.
LEMMA EditKeeps == ASSUME IInv, Edit PROVE IInv'
<1>1. DOMAIN page = PageFields
  BY DEF IInv, TypeOK, PageOK
<1>2. PICK record : OpenEditor(record)
  BY Zenon DEF Edit
<1>3. /\ page'.rows = page.rows /\ page'.cursor = page.cursor /\ DOMAIN page' = PageFields
      /\ page'.sequence = page.sequence /\ page'.shown = page.shown
      /\ page'.state = page.state /\ page'.selected = record
      /\ page'.editor = [opened |-> record, late |-> FALSE]
  BY <1>1, <1>2 DEF OpenEditor, PageFields
<1>4. FormInv'
  BY <1>3 DEF FormInv
<1>. QED
  BY <1>3, <1>4, AsideKeeps DEF Edit

\* Asking for the detail of a row changes neither the list nor a form.
LEMMA InspectKeeps == ASSUME IInv, Inspect PROVE IInv'
<1>1. DOMAIN page = PageFields
  BY DEF IInv, TypeOK, PageOK
<1>2. /\ page'.rows = page.rows /\ page'.cursor = page.cursor /\ DOMAIN page' = PageFields
      /\ page'.sequence = page.sequence /\ page'.shown = page.shown
      /\ page'.state = page.state /\ page'.selected = page.selected
      /\ page'.editor = page.editor
  BY <1>1 DEF Inspect, PageFields
<1>3. PICK r \in Rows : Call([id |-> left.requests, stage |-> "sent", answer |-> None,
                              what |-> "get", of |-> r])
  BY DEF Inspect
<1>. DEFINE sent == [id |-> left.requests, stage |-> "sent", answer |-> None,
                     what |-> "get", of |-> r]
<1>3a. PICK e : e = sent
  OBVIOUS
<1>4. /\ e.what = "get" /\ {"stage", "answer"} \subseteq DOMAIN e
      /\ calls' = calls \cup {e} /\ left'.contents = left.contents
  BY <1>3, <1>3a DEF Call, Spend
<1>5. Holds(e)
  BY <1>4 DEF Holds, CallOK, CallInv
<1>6. FormInv'
  BY <1>2 DEF FormInv, IInv, Inspect
<1>. QED
  BY <1>2, <1>4, <1>5, <1>6, AsideKeeps DEF Inspect

\* Closing a dialog leaves the list and the requests as they are.
LEMMA CloseKeeps == ASSUME IInv, Close PROVE IInv'
<1>1. DOMAIN page = PageFields
  BY DEF IInv, TypeOK, PageOK
<1>2. /\ page'.rows = page.rows /\ page'.cursor = page.cursor /\ DOMAIN page' = PageFields
      /\ page'.sequence = page.sequence /\ page'.shown = page.shown
      /\ page'.state = page.state /\ page'.editor = None
  BY <1>1 DEF Close, PageFields
<1>. QED
  BY <1>2, AsideKeeps DEF Close, FormInv

\* A form that is sent says which record it was opened for.
LEMMA SaveKeeps == ASSUME IInv, Save PROVE IInv'
<1>1. DOMAIN page = PageFields
  BY DEF IInv, TypeOK, PageOK
<1>2. /\ page'.rows = page.rows /\ page'.cursor = page.cursor /\ DOMAIN page' = PageFields
      /\ page'.sequence = page.sequence /\ page'.shown = page.shown
      /\ page'.state = page.state /\ page'.selected = page.selected
      /\ page'.editor = page.editor
  BY <1>1 DEF Save, PageFields
<1>3. PICK content \in left.contents :
        Call([id |-> left.requests, stage |-> "sent", answer |-> None,
              what |-> "save", of |-> page.selected, content |-> content,
              opened |-> page.editor.opened, late |-> page.editor.late])
  BY DEF Save
<1>. DEFINE sent == [id |-> left.requests, stage |-> "sent", answer |-> None,
                     what |-> "save", of |-> page.selected, content |-> content,
                     opened |-> page.editor.opened, late |-> page.editor.late]
<1>3a. PICK e : e = sent
  OBVIOUS
<1>4. /\ e.what = "save" /\ {"stage", "answer"} \subseteq DOMAIN e
      /\ e.content = content /\ e.stage = "sent" /\ e.of = page.selected
      /\ e.opened = page.editor.opened /\ e.late = page.editor.late
      /\ calls' = calls \cup {e} /\ left'.contents = left.contents
  BY <1>3, <1>3a DEF Call, Spend
<1>5. Holds(e)
  BY <1>4 DEF Holds, CallOK, CallInv, SaveOK, SaveInv, IInv, TypeOK, FormInv, Save
<1>6. FormInv'
  BY <1>2 DEF FormInv, IInv, Save
<1>. QED
  BY <1>2, <1>4, <1>5, <1>6, AsideKeeps DEF Save

-----------------------------------------------------------------------------
(* A list is asked for *)

\* A list that is asked for has a number of its own, and what it asks for is
\* what the list shown does not have.
LEMMA ListCallHolds ==
  ASSUME IInv, page'.sequence = page.sequence + 1, page'.cursor = page.cursor,
         UNCHANGED <<kind, server>>,
         NEW e, {"stage", "answer"} \subseteq DOMAIN e, e.stage = "sent", e.what = "list",
         e.sequence = page.sequence + 1, e.there = DOMAIN table,
         \/ e.reset = TRUE /\ e.cursor = None
         \/ /\ e.reset = FALSE /\ e.cursor = page.cursor
            /\ page.cursor # None /\ kind # "products" /\ ~Emptied',
         e.held \in Row \cup {None}, kind # "products" => e.held = None /\ e.search = None,
         e.held # None => Current(e.held.id, e.held.rev)
  PROVE  Holds(e)'
<1>2. page.sequence \in Nat /\ page.cursor \in Nat \cup {None}
  BY DEF IInv, TypeOK, PageOK
<1>3. CallOK(e)'
  <2>1. /\ kind' = kind /\ e.sequence \in Nat /\ e.reset \in BOOLEAN
        /\ e.cursor \in Nat \cup {None}
    <3>1. e.sequence \in Nat
      BY <1>2
    <3>2. e.reset \in BOOLEAN
      OBVIOUS
    <3>3. e.cursor \in Nat \cup {None}
      BY <1>2
    <3>4. kind' = kind
      OBVIOUS
    <3>. QED
      BY <3>1, <3>2, <3>3, <3>4
  <2>2. IF e.reset THEN e.cursor = None ELSE e.cursor # None /\ kind' # "products"
    BY <2>1
  <2>3. ListOK(e)'
    BY <2>1, <2>2 DEF ListOK
  <2>. QED
    BY <2>3 DEF CallOK
<1>4. \A i \in e.there : Handed(i)'
  BY DEF IInv, TypeOK, ServerOK, Handed, server
<1>5. e.held # None => Current(e.held.id, e.held.rev)'
  BY DEF Current, Handed, server
<1>6. CallInv(e)'
  BY <1>2, <1>4, <1>5 DEF CallInv, ListInv
<1>. QED
  BY <1>3, <1>6 DEF Holds

\* Whenever a list is asked for the others are told from it, or disturb.
LEMMA AskKeeps ==
  ASSUME IInv, UNCHANGED <<kind, server, asked, known>>, Overlaps,
         left'.contents = left.contents,
         DOMAIN page' = PageFields, page'.cursor = page.cursor,
         page'.sequence = page.sequence + 1, page'.shown = page.shown, FormInv',
         \/ page'.rows = page.rows /\ Emptied' = Emptied
         \/ page'.rows = <<>> /\ Emptied',
         NEW e, e.what = "list", e.sequence = page.sequence + 1, Holds(e)',
         \/ calls' = calls \cup {e}
         \/ \E c \in calls : c.what # "list" /\ calls' = (calls \ {c}) \cup {e}
  PROVE  IInv'
<1>. USE DEF IInv, TypeOK
<1>1. /\ page.sequence \in Nat /\ page'.sequence \in Nat
      /\ page.sequence <= page'.sequence
  BY DEF PageOK
<1>2. \A d \in Listing : d.sequence <= page.sequence /\ d.sequence \in Nat
  BY DEF Listing, CallInv, ListInv, CallOK, ListOK
<1>3. Listing' = Listing \cup {e}
  BY DEF Listing
<1>4. ~Counted /\ ~disturbed' => Listing = {} /\ ~disturbed
  BY DEF Overlaps
<1>5. ASSUME NEW d \in calls PROVE Awaits(d) /\ Holds(d)
  <2>1. CASE d.what # "list"
    BY <2>1 DEF Awaits, Holds
  <2>2. CASE d.what = "list"
    <3>1. d \in Listing
      BY <2>2 DEF Listing
    <3>2. Counted => ~(d.sequence = page'.sequence)
      BY <1>1, <1>2, <3>1
    <3>3. Latest(d)' => Latest(d) /\ ~Counted
      BY <3>2 DEF Latest, Counted
    <3>. QED
      BY <1>4, <3>1, <3>3 DEF Awaits, Holds
  <2>. QED
    BY <2>1, <2>2
<1>6. \A d \in calls' : Holds(d)'
  BY <1>1, <1>5, CallAwaits
<1>7. ServerOK'
  BY DEF ServerOK, Handed, server
<1>8. PageOK'
  <2>1. page'.rows \in Seq(Row)
    <3>1. page.rows \in Seq(Row) /\ <<>> \in Seq(Row)
      BY DEF PageOK
    <3>. QED
      BY <3>1
  <2>. QED
    BY <1>1, <2>1 DEF PageOK
<1>9. SequenceInv'
  <2>1. \A d \in Listing : d.sequence # e.sequence
    BY <1>1, <1>2
  <2>2. \A d, f \in Listing' : d.sequence = f.sequence => d = f
    BY <1>3, <2>1 DEF SequenceInv
  <2>3. ~Counted' /\ ~disturbed' => \A d, f \in Listing' : d = f
    BY <1>3, <1>4 DEF Counted
  <2>. QED
    BY <2>2, <2>3 DEF SequenceInv
<1>10. KnownInv'
  <2>1. \A id \in DOMAIN known : Current(id, known[id])'
    BY DEF KnownInv, Current, Handed, server
  <2>2. \A id \in DOMAIN known : NotBefore(page'.rows, id, known[id])
    BY DEF KnownInv, NotBefore
  <2>. QED
    BY <2>1, <2>2 DEF KnownInv, NotBefore
<1>11. PageInv'
  <2>1. \A i \in asked : Handed(i)'
    BY DEF PageInv, Handed, server
  <2>2. ~disturbed' => ~disturbed
    BY DEF Overlaps
  <2>3. CASE page'.rows = page.rows /\ Emptied' = Emptied
    BY <2>1, <2>2, <2>3 DEF PageInv, Sorted, Bounded, UpTo, Has, CoversAsked, Before,
       Descending, server
  <2>4. CASE page'.rows = <<>> /\ Emptied'
    BY <2>1, <2>4 DEF PageInv, Sorted, Bounded
  <2>. QED
    BY <2>3, <2>4
<1>12. disturbed' \in BOOLEAN
  BY DEF Overlaps
<1>. QED
  BY <1>6, <1>7, <1>8, <1>9, <1>10, <1>11, <1>12 DEF Holds

\* What asking for a list does to the page.
LEMMA LoadingPage ==
  ASSUME IInv, NEW reset \in BOOLEAN, NEW search, kind' = kind,
         NEW next, next = Loading(reset, search)
  PROVE  /\ DOMAIN next = PageFields /\ next.cursor = page.cursor
         /\ next.sequence = page.sequence + 1 /\ next.shown = page.shown
         /\ next.editor = page.editor /\ next.selected = page.selected
         /\ next.state = "loading"
         /\ next.rows = IF reset /\ kind = "parties" THEN <<>> ELSE page.rows
<1>1. DOMAIN page = PageFields
  BY DEF IInv, TypeOK, PageOK
<1>. QED
  BY <1>1 DEF Loading, PageFields

\* A list that is asked for anew is told from those under way, or disturbs them.
LEMMA LoadKeeps == ASSUME IInv, NEW search, Load(search) PROVE IInv'
<1>1. /\ page' = Loading(TRUE, search) /\ Overlaps
      /\ UNCHANGED <<kind, server, asked, known>>
      /\ kind # "products" => search = None
      /\ Call(ListCall(left.requests, TRUE, search, None))
  BY Zenon DEF Load
<1>2. PICK e : e = ListCall(left.requests, TRUE, search, None)
  OBVIOUS
<1>3. calls' = calls \cup {e} /\ left'.contents = left.contents
  BY <1>1, <1>2 DEF Call, Spend
<1>4. PICK next : next = Loading(TRUE, search)
  OBVIOUS
<1>5. /\ DOMAIN page' = PageFields /\ page'.cursor = page.cursor
      /\ page'.sequence = page.sequence + 1 /\ page'.shown = page.shown
      /\ page'.editor = page.editor /\ page'.selected = page.selected
      /\ page'.state = "loading"
      /\ page'.rows = IF kind = "parties" THEN <<>> ELSE page.rows
  BY <1>1, <1>4, LoadingPage
<1>6. Holds(e)' /\ e.what = "list" /\ e.sequence = page.sequence + 1
  <2>1. /\ {"stage", "answer"} \subseteq DOMAIN e /\ e.stage = "sent" /\ e.what = "list"
        /\ e.sequence = page.sequence + 1 /\ e.there = DOMAIN table
        /\ e.reset = TRUE /\ e.cursor = None /\ e.held = None /\ e.search = search
    BY <1>2 DEF ListCall
  <2>. QED
    BY <1>1, <1>5, <2>1, ListCallHolds
<1>7. FormInv'
  BY <1>1, <1>5 DEF FormInv, IInv
<1>8. \/ page'.rows = page.rows /\ Emptied' = Emptied
      \/ page'.rows = <<>> /\ Emptied'
  BY <1>1, <1>5 DEF Emptied
<1>. QED
  BY <1>1, <1>3, <1>5, <1>6, <1>7, <1>8, AskKeeps

\* The next page of a list is asked for where the list shown ends.
LEMMA MoreKeeps == ASSUME IInv, More PROVE IInv'
<1>1. /\ page' = Loading(FALSE, None) /\ Overlaps
      /\ UNCHANGED <<kind, server, asked, known>>
      /\ kind # "products" /\ page.cursor # None
      /\ kind = "parties" => page.rows # <<>>
      /\ Call(ListCall(left.requests, FALSE, None, None))
  BY Zenon DEF More
<1>2. PICK e : e = ListCall(left.requests, FALSE, None, None)
  OBVIOUS
<1>3. calls' = calls \cup {e} /\ left'.contents = left.contents
  BY <1>1, <1>2 DEF Call, Spend
<1>4. PICK next : next = Loading(FALSE, None)
  OBVIOUS
<1>5. /\ DOMAIN page' = PageFields /\ page'.cursor = page.cursor
      /\ page'.sequence = page.sequence + 1 /\ page'.shown = page.shown
      /\ page'.editor = page.editor /\ page'.selected = page.selected
      /\ page'.rows = page.rows
  BY <1>1, <1>4, LoadingPage
<1>6. Emptied' = Emptied /\ ~Emptied'
  BY <1>1, <1>5 DEF Emptied
<1>7. Holds(e)' /\ e.what = "list" /\ e.sequence = page.sequence + 1
  <2>1. /\ {"stage", "answer"} \subseteq DOMAIN e /\ e.stage = "sent" /\ e.what = "list"
        /\ e.sequence = page.sequence + 1 /\ e.there = DOMAIN table
        /\ e.reset = FALSE /\ e.cursor = page.cursor /\ e.held = None /\ e.search = None
    BY <1>2 DEF ListCall
  <2>. QED
    BY <1>1, <1>5, <1>6, <2>1, ListCallHolds
<1>8. FormInv'
  BY <1>1, <1>5 DEF FormInv, IInv
<1>. QED
  BY <1>1, <1>3, <1>5, <1>6, <1>7, <1>8, AskKeeps

\* A product or warehouse that was saved is shown by the list read then.
LEMMA ReloadKeeps ==
  ASSUME IInv, NEW c \in calls, c.stage # "sent", GetSaved(c), kind # "parties",
         UNCHANGED <<kind, server>>
  PROVE  IInv'
<1>0. /\ c.what = "save" /\ c.stage = "served" /\ CallOK(c) /\ CallInv(c)
      /\ UNCHANGED <<asked, known, left>> /\ Overlaps
  BY DEF GetSaved, IInv, TypeOK
<1>1. PICK search, held, request :
        /\ search = IF kind = "products" THEN c.answer.content ELSE None
        /\ held = IF kind = "products" THEN c.answer ELSE None
        /\ request = ListCall(c.id, TRUE, search, held)
  OBVIOUS
<1>2. calls' = (calls \ {c}) \cup {request}
  BY <1>1 DEF GetSaved
<1>3. PICK next : next = Loading(TRUE, search)
  OBVIOUS
<1>4. page' = IF kind = "products" THEN next
              ELSE [next EXCEPT !.editor = None, !.selected = New]
  BY <1>1, <1>3 DEF GetSaved
<1>5. /\ DOMAIN next = PageFields /\ next.cursor = page.cursor
      /\ next.sequence = page.sequence + 1 /\ next.shown = page.shown
      /\ next.editor = page.editor /\ next.selected = page.selected
      /\ next.state = "loading" /\ next.rows = page.rows
  BY <1>3, LoadingPage
<1>6. /\ DOMAIN page' = PageFields /\ page'.cursor = page.cursor
      /\ page'.sequence = page.sequence + 1 /\ page'.shown = page.shown
      /\ page'.rows = page.rows
      /\ kind = "products" => page'.editor = page.editor /\ page'.selected = page.selected
      /\ kind # "products" => page'.editor = None
  BY <1>4, <1>5 DEF PageFields
<1>7. held \in Row \cup {None} /\ (held # None => Current(held.id, held.rev))
  BY <1>0, <1>1 DEF CallOK, SaveOK, CallInv, SaveInv
<1>8. Holds(request)' /\ request.what = "list" /\ request.sequence = page.sequence + 1
  <2>1. /\ {"stage", "answer"} \subseteq DOMAIN request
        /\ request.stage = "sent" /\ request.what = "list"
        /\ request.sequence = page.sequence + 1 /\ request.there = DOMAIN table
        /\ request.reset = TRUE /\ request.cursor = None
        /\ request.held = held /\ request.search = search
    BY <1>1 DEF ListCall
  <2>. QED
    BY <1>1, <1>6, <1>7, <2>1, ListCallHolds
<1>9. FormInv'
  BY <1>6 DEF FormInv, IInv
<1>10. Emptied' = Emptied
  BY DEF Emptied
<1>. QED
  BY <1>0, <1>2, <1>6, <1>8, <1>9, <1>10, AskKeeps

-----------------------------------------------------------------------------
(* Answers *)

\* An answer that is not shown.
LEMMA DropListKeeps ==
  ASSUME IInv, NEW c \in calls, DropList(c), UNCHANGED <<kind, server>>
  PROVE  IInv'
<1>1. DOMAIN page = PageFields
  BY DEF IInv, TypeOK, PageOK
<1>2. /\ page'.rows = page.rows /\ page'.cursor = page.cursor /\ DOMAIN page' = PageFields
      /\ page'.sequence = page.sequence /\ page'.shown = page.shown
      /\ page'.state = page.state /\ page'.selected = page.selected
      /\ page'.editor = page.editor
  BY <1>1 DEF DropList, PageFields
<1>3. FormInv'
  BY <1>2 DEF FormInv, IInv, DropList
<1>. QED
  BY <1>2, <1>3, AsideKeeps DEF DropList

\* A save that failed changes no record the page knows of.
LEMMA MissSavedKeeps ==
  ASSUME IInv, NEW c \in calls, MissSaved(c), UNCHANGED <<kind, server>>
  PROVE  IInv'
<1>1. DOMAIN page = PageFields
  BY DEF IInv, TypeOK, PageOK
<1>2. /\ page'.rows = page.rows /\ page'.cursor = page.cursor /\ DOMAIN page' = PageFields
      /\ page'.sequence = page.sequence /\ page'.shown = page.shown
      /\ page'.state = page.state /\ page'.selected = page.selected
      /\ page'.editor = page.editor
  BY <1>1 DEF MissSaved, PageFields
<1>3. FormInv'
  BY <1>2 DEF FormInv, IInv, MissSaved
<1>. QED
  BY <1>2, <1>3, AsideKeeps DEF MissSaved

\* A warehouse's detail that arrives while a form is open makes it late.
LEMMA GetDetailKeeps ==
  ASSUME IInv, NEW c \in calls, GetDetail(c), UNCHANGED <<kind, server>>
  PROVE  IInv'
<1>1. DOMAIN page = PageFields
  BY DEF IInv, TypeOK, PageOK
<1>2. CASE c.stage = "failed"
  <2>1. page' = [page EXCEPT !.detail = IF @ = None THEN None ELSE <<>>]
    BY <1>2 DEF GetDetail
  <2>2. /\ page'.rows = page.rows /\ page'.cursor = page.cursor
        /\ DOMAIN page' = PageFields
        /\ page'.sequence = page.sequence /\ page'.shown = page.shown
        /\ page'.state = page.state /\ page'.selected = page.selected
        /\ page'.editor = page.editor
    BY <1>1, <2>1 DEF PageFields
  <2>3. FormInv'
    BY <2>2 DEF FormInv, IInv, GetDetail
  <2>. QED
    BY <2>2, <2>3, AsideKeeps DEF GetDetail
<1>3. CASE c.stage # "failed"
  <2>1. page' = [page EXCEPT
               !.detail = IF @ = None THEN None ELSE <<c.answer.id>>,
               !.selected = IF kind = "warehouses" THEN c.answer.id ELSE @,
               !.editor = IF @ = None THEN None
                          ELSE [@ EXCEPT !.late = kind = "warehouses"]]
    BY <1>3 DEF GetDetail
  <2>2. /\ page'.rows = page.rows /\ page'.cursor = page.cursor
        /\ DOMAIN page' = PageFields
        /\ page'.sequence = page.sequence /\ page'.shown = page.shown
        /\ page'.state = page.state
        /\ page'.selected = IF kind = "warehouses" THEN c.answer.id ELSE page.selected
        /\ page'.editor = IF page.editor = None THEN None
                          ELSE [page.editor EXCEPT !.late = kind = "warehouses"]
    BY <1>1, <2>1 DEF PageFields
  <2>3. ASSUME page.editor # None
        PROVE  /\ DOMAIN page'.editor = {"opened", "late"}
               /\ page'.editor.late = (kind = "warehouses")
               /\ page'.editor.opened = page.editor.opened
    <3>1. DOMAIN page.editor = {"opened", "late"}
      BY <2>3 DEF FormInv, IInv
    <3>. QED
      BY <2>2, <2>3, <3>1
  <2>4. FormInv'
    <3>1. CASE page.editor = None
      BY <2>2, <3>1 DEF FormInv
    <3>2. CASE page.editor # None /\ kind = "warehouses"
      BY <2>2, <2>3, <3>2 DEF FormInv
    <3>3. CASE page.editor # None /\ kind # "warehouses"
      <4>1. page'.editor.late = FALSE
        BY <2>3, <3>3
      <4>2. page.selected = page.editor.opened
        BY <3>3 DEF FormInv, IInv
      <4>. QED
        BY <2>2, <2>3, <3>3, <4>1, <4>2 DEF FormInv
    <3>. QED
      BY <3>1, <3>2, <3>3
  <2>. QED
    BY <2>2, <2>4, AsideKeeps DEF GetDetail
<1>. QED
  BY <1>2, <1>3

\* A list that could not be read.
LEMMA MissListKeeps ==
  ASSUME IInv, NEW c \in calls, MissList(c), UNCHANGED <<kind, server>>
  PROVE  IInv'
<1>. USE DEF IInv, TypeOK
<1>1. DOMAIN page = PageFields
  BY DEF PageOK
<1>2. /\ page'.rows = page.rows /\ page'.cursor = page.cursor /\ DOMAIN page' = PageFields
      /\ page'.sequence = page.sequence /\ page'.shown = page.shown
      /\ page'.state = "error" /\ page'.selected = page.selected
      /\ page'.editor = page.editor
  BY <1>1 DEF MissList, PageFields
<1>3. UNCHANGED <<asked, known, disturbed, left>> /\ calls' = calls \ {c}
      /\ c \in Listing /\ Latest(c)
  BY DEF MissList, Listing
<1>4. ASSUME NEW d \in calls' PROVE Holds(d)'
  <2>1. d \in calls /\ Holds(d) /\ d # c
    BY <1>3 DEF Holds
  <2>2. d.what = "list" /\ Counted => d.sequence # c.sequence
    BY <1>3, <2>1 DEF SequenceInv, Listing
  <2>3. Awaits(d)
    BY <1>2, <1>3, <2>2 DEF Awaits, Latest, Counted, Emptied
  <2>4. page'.sequence \in Nat /\ page.sequence <= page'.sequence
    BY <1>2 DEF PageOK
  <2>. QED
    BY <2>1, <2>3, <2>4, CallAwaits
<1>5. ServerOK' /\ PageOK'
  BY <1>2 DEF ServerOK, Handed, PageOK, server
<1>6. SequenceInv'
  <2>1. Listing' \subseteq Listing
    BY <1>3 DEF Listing
  <2>. QED
    BY <1>3, <2>1 DEF SequenceInv, Counted
<1>7. KnownInv'
  BY <1>2, <1>3 DEF KnownInv, Current, Handed, NotBefore, server
<1>8. PageInv'
  BY <1>2, <1>3 DEF PageInv, Handed, Sorted, Bounded, UpTo, Has, CoversAsked, Emptied,
     Before, Descending, server
<1>9. FormInv'
  BY <1>2 DEF FormInv
<1>. QED
  BY <1>3, <1>4, <1>5, <1>6, <1>7, <1>8, <1>9 DEF Holds

\* A page joined to the rows before it.
LEMMA JoinedRows ==
  ASSUME NEW rows \in Seq(Row), NEW data \in Seq(Row), NEW cursor \in Nat,
         NEW next \in Nat \cup {None}, Sorted(rows), Bounded(rows, cursor),
         Sorted(data), \A m \in DOMAIN data : Beyond(cursor, data[m].id),
         next # None => Has(data, next), Bounded(data, next)
  PROVE  /\ rows \o data \in Seq(Row) /\ Sorted(rows \o data)
         /\ Bounded(rows \o data, next)
         /\ \A i : Has(rows \o data, i) <=> Has(rows, i) \/ Has(data, i)
<1>1. PICK k, l, both : k = Len(rows) /\ l = Len(data) /\ both = rows \o data
  OBVIOUS
<1>2. /\ k \in Nat /\ DOMAIN rows = 1 .. k /\ \A m \in 1 .. k : rows[m] \in Row
      /\ l \in Nat /\ DOMAIN data = 1 .. l /\ \A m \in 1 .. l : data[m] \in Row
      /\ both \in Seq(Row) /\ DOMAIN both = 1 .. k + l
      /\ \A m \in 1 .. k + l : both[m] = IF m <= k THEN rows[m] ELSE data[m - k]
  BY <1>1
<1>3. /\ \A m \in 1 .. k : rows[m].id \in Nat
      /\ \A m \in 1 .. l : data[m].id \in Nat
      /\ None \notin Nat
  BY <1>2, RegistersAssumption DEF Row
<1>4. /\ \A m \in 1 .. k : m \in 1 .. k + l /\ both[m] = rows[m]
      /\ \A m \in 1 .. l : k + m \in 1 .. k + l /\ both[k + m] = data[m]
      /\ \A m \in 1 .. k + l : m \in 1 .. k \/ (m - k \in 1 .. l /\ both[m] = data[m - k])
  BY <1>2
<1>5. \A i : Has(both, i) <=> Has(rows, i) \/ Has(data, i)
  <2>1. ASSUME NEW i, Has(both, i) PROVE Has(rows, i) \/ Has(data, i)
    <3>1. PICK m \in 1 .. k + l : both[m].id = i
      BY <1>2, <2>1 DEF Has
    <3>. QED
      BY <1>2, <1>4, <3>1 DEF Has
  <2>2. ASSUME NEW i, Has(rows, i) PROVE Has(both, i)
    BY <1>2, <1>4, <2>2 DEF Has
  <2>3. ASSUME NEW i, Has(data, i) PROVE Has(both, i)
    <3>1. PICK m \in 1 .. l : data[m].id = i
      BY <1>2, <2>3 DEF Has
    <3>. QED
      BY <1>2, <1>4, <3>1 DEF Has
  <2>. QED
    BY <2>1, <2>2, <2>3
<1>6. \A m \in 1 .. k : ~Before(cursor, rows[m].id)
  BY <1>2, <1>3 DEF Bounded, UpTo
<1>7. \A m \in 1 .. l : Before(cursor, data[m].id)
  BY <1>2, <1>3 DEF Beyond
<1>8. Sorted(both)
  <2>1. SUFFICES ASSUME NEW m \in 1 .. k + l, NEW n \in 1 .. k + l, m < n
                 PROVE  Before(both[m].id, both[n].id)
    BY <1>2 DEF Sorted
  <2>2. CASE n <= k
    <3>1. m \in 1 .. k /\ n \in 1 .. k
      BY <1>2, <2>1, <2>2
    <3>. QED
      BY <1>2, <1>4, <2>1, <3>1 DEF Sorted
  <2>3. CASE m <= k /\ ~(n <= k)
    <3>1. m \in 1 .. k /\ n - k \in 1 .. l /\ both[m] = rows[m] /\ both[n] = data[n - k]
      BY <1>2, <2>1, <2>3
    <3>. QED
      BY <1>3, <1>6, <1>7, <3>1 DEF Before
  <2>4. CASE ~(m <= k) /\ ~(n <= k)
    <3>1. /\ m - k \in 1 .. l /\ n - k \in 1 .. l /\ m - k < n - k
          /\ both[m] = data[m - k] /\ both[n] = data[n - k]
      BY <1>2, <2>1, <2>4
    <3>. QED
      BY <1>2, <3>1 DEF Sorted
  <2>. QED
    BY <2>1, <2>2, <2>3, <2>4, <1>2
<1>9. Bounded(both, next)
  <2>1. SUFFICES ASSUME NEW m \in 1 .. k + l, next # None
                 PROVE  ~Before(next, both[m].id)
    BY <1>2 DEF Bounded, UpTo
  <2>2. next \in Nat /\ Before(cursor, next)
    <3>1. PICK n \in 1 .. l : data[n].id = next
      BY <1>2, <2>1 DEF Has
    <3>. QED
      BY <1>3, <1>7, <3>1
  <2>3. CASE m \in 1 .. k
    <3>1. both[m] = rows[m] /\ rows[m].id \in Nat /\ ~Before(cursor, rows[m].id)
      BY <1>3, <1>4, <1>6, <2>3
    <3>. QED
      BY <2>2, <3>1 DEF Before
  <2>4. CASE m - k \in 1 .. l /\ both[m] = data[m - k]
    BY <1>2, <2>1, <2>4 DEF Bounded, UpTo
  <2>. QED
    BY <1>4, <2>3, <2>4
<1>. QED
  BY <1>1, <1>2, <1>5, <1>8, <1>9

\* A list that is shown covers what there was, and a record it confirms is known.
LEMMA GetListKeeps ==
  ASSUME IInv, NEW c \in calls, GetList(c), UNCHANGED <<kind, server>>
  PROVE  IInv'
<1>. USE DEF IInv, TypeOK
<1>1. /\ c.what = "list" /\ c.stage = "served" /\ Latest(c) /\ c \in Listing
      /\ CallOK(c) /\ ListOK(c) /\ CallInv(c) /\ ListInv(c) /\ AnswerInv(c)
  BY DEF GetList, Listing, CallOK, CallInv, ListInv
<1>2. PICK data, next, held : /\ data = c.answer.data /\ next = c.answer.next
                              /\ held = c.held
  OBVIOUS
<1>3. data \in Seq(Row) /\ next \in Nat \cup {None}
  BY <1>1, <1>2 DEF ListOK, Answer
<1>. DEFINE confirmed0 == \E i \in DOMAIN data : held # None /\ data[i].id = held.id
<1>4. PICK confirmed \in BOOLEAN : confirmed = confirmed0
  OBVIOUS
<1>5. /\ page' = [Listed(c) EXCEPT
               !.editor = IF confirmed THEN None ELSE @, !.saving = @ /\ held = None]
      /\ known' = IF confirmed
                  THEN [id \in DOMAIN known \cup {held.id} |->
                          IF id = held.id THEN held.rev ELSE known[id]]
                  ELSE known
      /\ asked' = IF c.reset THEN c.there ELSE asked
      /\ disturbed' = IF c.reset THEN ~Counted /\ Listing # {c} ELSE disturbed
      /\ calls' = calls \ {c} /\ left' = left
  BY <1>2, <1>4 DEF GetList
<1>6. confirmed => held # None
  BY <1>4
<1>. HIDE DEF confirmed0
<1>7. /\ page'.rows = IF c.reset THEN data ELSE page.rows \o data
      /\ page'.cursor = next /\ page'.shown = c.search /\ page'.state = "ready"
      /\ page'.sequence = page.sequence /\ page'.selected = page.selected
      /\ page'.editor = IF confirmed THEN None ELSE page.editor
      /\ DOMAIN page' = PageFields
  <2>1. DOMAIN page = PageFields
    BY DEF PageOK
  <2>. QED
    BY <1>2, <1>5, <2>1 DEF Listed, PageFields
<1>8. page'.sequence \in Nat /\ page.sequence <= page'.sequence
  BY <1>7 DEF PageOK
<1>9. ASSUME NEW d \in calls' PROVE Holds(d)'
  <2>1. d \in calls /\ Holds(d) /\ d # c
    BY <1>5 DEF Holds
  <2>2. d.what = "list" /\ Counted => d.sequence # c.sequence
    BY <1>1, <2>1 DEF SequenceInv, Listing
  <2>3. d.what = "list" /\ Latest(d)' => ~Counted /\ Latest(d)
    BY <1>1, <1>7, <2>2 DEF Latest, Counted
  <2>4. ~Counted => known' = known
    BY <1>1, <1>2, <1>5, <1>6 DEF ListOK, Counted
  <2>5. d.what = "list" /\ ~Counted => disturbed'
    <3>1. CASE c.reset
      BY <1>5, <2>1, <3>1 DEF Listing
    <3>2. CASE ~c.reset
      BY <1>1, <1>5, <2>1, <3>2 DEF SequenceInv, Listing
    <3>. QED
      BY <3>1, <3>2
  <2>6. Awaits(d)
    BY <2>3, <2>4, <2>5 DEF Awaits
  <2>. QED
    BY <1>8, <2>1, <2>6, CallAwaits
<1>10. ServerOK'
  BY DEF ServerOK, Handed, server
<1>11. SequenceInv'
  <2>1. Listing' \subseteq Listing
    BY <1>5 DEF Listing
  <2>2. ~disturbed' /\ ~Counted => \A d, e \in Listing' : d = e
    <3>1. CASE c.reset
      BY <1>5, <2>1, <3>1 DEF Listing
    <3>2. CASE ~c.reset
      BY <1>5, <2>1, <3>2 DEF SequenceInv
    <3>. QED
      BY <3>1, <3>2
  <2>. QED
    BY <2>1, <2>2 DEF SequenceInv, Counted
<1>12. FormInv'
  BY <1>7 DEF FormInv
<1>13. KnownInv'
  <2>1. CASE kind # "products"
    <3>1. known' = known
      BY <1>1, <1>2, <1>5, <1>6, <2>1 DEF ListOK
    <3>. QED
      BY <2>1, <3>1 DEF KnownInv
  <2>2. CASE kind = "products"
    <3>1. page'.rows = data
      BY <1>1, <1>7, <2>2 DEF ListOK
    <3>2. ASSUME NEW id \in DOMAIN known
          PROVE  known[id] \in Nat /\ Current(id, known[id]) /\ NotBefore(data, id, known[id])
      BY <1>1, <1>2 DEF KnownInv, AnswerInv
    <3>3. ASSUME confirmed
          PROVE  /\ held.rev \in Nat /\ Current(held.id, held.rev)
                 /\ NotBefore(data, held.id, held.rev)
      BY <1>1, <1>2, <1>6, <3>3 DEF ListOK, ListInv, AnswerInv, Row
    <3>4. ASSUME NEW id \in DOMAIN known'
          PROVE  /\ known'[id] \in Nat /\ Current(id, known'[id])
                 /\ NotBefore(data, id, known'[id])
      <4>1. CASE confirmed /\ id = held.id
        BY <1>5, <3>3, <4>1
      <4>2. CASE ~(confirmed /\ id = held.id)
        <5>1. id \in DOMAIN known /\ known'[id] = known[id]
          BY <1>5, <4>2
        <5>. QED
          BY <3>2, <5>1
      <4>. QED
        BY <4>1, <4>2
    <3>5. \A id \in DOMAIN known' : Handed(id)' <=> Handed(id)
      BY DEF Handed, server
    <3>. QED
      BY <2>2, <3>1, <3>4, <3>5 DEF KnownInv, Current, NotBefore, server
  <2>. QED
    BY <2>1, <2>2
<1>14. /\ page'.rows \in Seq(Row)
       /\ ~disturbed' => /\ Sorted(page'.rows) /\ Bounded(page'.rows, next)
                         /\ c.search = None =>
                              \A i \in asked' \cap DOMAIN table :
                                UpTo(next, i) => Has(page'.rows, i)
  <2>1. CASE c.reset
    <3>1. page'.rows = data /\ asked' = c.there /\ c.cursor = None
      BY <1>1, <1>5, <1>7, <2>1 DEF ListOK
    <3>2. c.search = None => \A i \in c.there \cap DOMAIN table :
            UpTo(next, i) => Has(data, i)
      BY <1>1, <1>2, <2>1, <3>1 DEF AnswerInv, Covers, Beyond
    <3>. QED
      BY <1>1, <1>2, <1>3, <3>1, <3>2 DEF AnswerInv
  <2>2. CASE ~c.reset /\ disturbed'
    <3>1. page'.rows = page.rows \o data /\ page.rows \in Seq(Row)
      BY <1>7, <2>2 DEF PageOK
    <3>. QED
      BY <1>3, <2>2, <3>1
  <2>3. CASE ~c.reset /\ ~disturbed'
    <3>1. /\ ~disturbed /\ page'.rows = page.rows \o data /\ page.rows \in Seq(Row)
          /\ asked' = asked
      BY <1>5, <1>7, <2>3 DEF PageOK
    <3>2. /\ c.cursor = page.cursor /\ c.cursor \in Nat /\ c.cursor # None /\ ~Emptied
          /\ page.shown = None
      BY <1>1, <2>3, <3>1 DEF ListInv, ListOK, PageOK
    <3>3. /\ Sorted(page.rows) /\ Bounded(page.rows, c.cursor)
          /\ \A i \in asked \cap DOMAIN table : UpTo(c.cursor, i) => Has(page.rows, i)
      BY <3>1, <3>2 DEF PageInv, CoversAsked
    <3>4. /\ Sorted(data) /\ \A m \in DOMAIN data : Beyond(c.cursor, data[m].id)
          /\ next # None => Has(data, next)
          /\ Bounded(data, next)
          /\ \A i \in asked \cap DOMAIN table :
               Beyond(c.cursor, i) /\ UpTo(next, i) => Has(data, i)
      BY <1>1, <1>2, <2>3, <3>1 DEF AnswerInv, Covers
    <3>5. PICK both : both = page.rows \o data
      OBVIOUS
    <3>6. /\ both \in Seq(Row) /\ Sorted(both) /\ Bounded(both, next)
          /\ \A i : Has(both, i) <=> Has(page.rows, i) \/ Has(data, i)
      BY <1>3, <3>1, <3>2, <3>3, <3>4, <3>5, JoinedRows
    <3>7. \A i : UpTo(c.cursor, i) \/ Beyond(c.cursor, i)
      BY DEF UpTo, Beyond
    <3>. QED
      BY <3>1, <3>3, <3>4, <3>5, <3>6, <3>7
  <2>. QED
    BY <2>1, <2>2, <2>3
<1>15. PageOK'
  <2>1. kind # "products" => c.search = None
    BY <1>1 DEF ListOK
  <2>. QED
    BY <1>3, <1>7, <1>14, <2>1 DEF PageOK
<1>16. PageInv'
  <2>1. \A i \in asked' : Handed(i)'
    <3>1. \A i \in asked' : Handed(i)
      BY <1>1, <1>5 DEF ListInv, PageInv
    <3>. QED
      BY <3>1 DEF Handed, server
  <2>. QED
    BY <1>7, <1>14, <2>1 DEF PageInv, CoversAsked, Sorted, Bounded, UpTo, Has, Before,
       Descending, server
<1>17. disturbed' \in BOOLEAN
  BY <1>5
<1>. QED
  BY <1>5, <1>9, <1>10, <1>11, <1>12, <1>13, <1>15, <1>16, <1>17 DEF Holds

\* A party that was saved is in the list, which has what it had, in order.
LEMMA PlacedRows ==
  ASSUME NEW saved \in Row, page.rows \in Seq(Row), kind = "parties",
         NEW next, next = Place(saved)
  PROVE  /\ next \in Seq(Row) /\ next # <<>>
         /\ \A i : Has(next, i) <=> Has(page.rows, i) \/ i = saved.id
         /\ Sorted(page.rows) => Sorted(next)
<1>1. PICK k : k = Len(page.rows)
  OBVIOUS
<1>2. /\ k \in Nat /\ DOMAIN page.rows = 1 .. k
      /\ \A m \in 1 .. k : page.rows[m] \in Row
  BY <1>1
<1>3. CASE saved.id \in Rows
  <2>1. /\ DOMAIN next = 1 .. k
        /\ next = [m \in 1 .. k |-> next[m]]
        /\ \A m \in 1 .. k : \/ next[m] = page.rows[m]
                             \/ next[m] = saved /\ page.rows[m].id = saved.id
    BY <1>2, <1>3 DEF Place
  <2>2. \A m \in 1 .. k : next[m] \in Row /\ next[m].id = page.rows[m].id
    BY <1>2, <2>1
  <2>3. next \in Seq(Row)
    <3>1. next \in [1 .. k -> Row]
      BY <2>1, <2>2
    <3>. QED
      BY <1>2, <3>1
  <2>4. \E m \in 1 .. k : page.rows[m].id = saved.id
    BY <1>2, <1>3 DEF Rows
  <2>5. next # <<>>
    BY <2>1, <2>4
  <2>. QED
    BY <1>2, <2>1, <2>2, <2>3, <2>4, <2>5 DEF Has, Sorted
<1>4. CASE saved.id \notin Rows
  <2>1. PICK all : all = Append(page.rows, saved)
    OBVIOUS
  <2>2. /\ DOMAIN all = 1 .. k + 1 /\ all[k + 1] = saved
        /\ \A m \in 1 .. k : m \in 1 .. k + 1 /\ all[m] = page.rows[m]
        /\ \A m \in 1 .. k + 1 : m \in 1 .. k \/ m = k + 1
    BY <1>1, <1>2, <2>1
  <2>3. \A m \in 1 .. k + 1 : all[m] \in Row /\ all[m].id \in Nat
    BY <1>2, <2>2 DEF Row
  <2>. DEFINE Sooner(i, j) == \/ all[i].id < all[j].id
                              \/ all[i].id = all[j].id /\ i < j
              S == DOMAIN all
              R == {p \in S \X S : Sooner(p[1], p[2])}
              sorted == Ordered(S, R)
  <2>4. S = 1 .. k + 1 /\ IsFiniteSet(S) /\ Cardinality(S) = k + 1
    BY <1>2, <2>2, FS_Interval
  <2>5. Orders(R, S)
    <3>1. \A i, j \in S : <<i, j>> \in R <=> Sooner(i, j)
      OBVIOUS
    <3>2. \A i \in S : i \in Int /\ all[i].id \in Nat
      BY <1>2, <2>3, <2>4
    <3>. HIDE DEF R, S
    <3>. QED
      BY <3>1, <3>2 DEF Orders
  <2>6. /\ DOMAIN sorted = 1 .. k + 1
        /\ \A n \in 1 .. k + 1 : sorted[n] \in 1 .. k + 1
        /\ \A m, n \in 1 .. k + 1 : m < n => <<sorted[m], sorted[n]>> \in R
        /\ \A x \in 1 .. k + 1 : \E n \in 1 .. k + 1 : sorted[n] = x
    <3>. HIDE DEF R, S
    <3>. QED
      BY <2>4, <2>5, Enumerated
  <2>7. \A m, n \in 1 .. k + 1 : m < n => Sooner(sorted[m], sorted[n])
    <3>. HIDE DEF sorted, S
    <3>. QED
      BY <2>6
  <2>8. next = [n \in 1 .. k + 1 |-> all[sorted[n]]]
    <3>1. next = [n \in DOMAIN all |-> all[sorted[n]]]
      BY <1>4, <2>1 DEF Place
    <3>. HIDE DEF sorted
    <3>. QED
      BY <2>2, <3>1
  <2>. HIDE DEF sorted, R, S
  <2>9. /\ DOMAIN next = 1 .. k + 1
        /\ \A n \in 1 .. k + 1 : next[n] = all[sorted[n]] /\ next[n] \in Row
    BY <2>3, <2>6, <2>8
  <2>10. next \in Seq(Row) /\ next # <<>>
    <3>1. next \in [1 .. k + 1 -> Row]
      BY <2>8, <2>9
    <3>2. 1 \in DOMAIN next
      BY <1>2, <2>9
    <3>. QED
      BY <1>2, <3>1, <3>2
  <2>11. \A i : Has(next, i) <=> Has(page.rows, i) \/ i = saved.id
    <3>1. ASSUME NEW i, Has(next, i) PROVE Has(page.rows, i) \/ i = saved.id
      <4>1. PICK n \in 1 .. k + 1 : all[sorted[n]].id = i
        BY <2>9, <3>1 DEF Has
      <4>. QED
        BY <1>2, <2>2, <2>6, <4>1 DEF Has
    <3>2. ASSUME NEW i, NEW m \in 1 .. k + 1, all[m].id = i PROVE Has(next, i)
      <4>1. PICK n \in 1 .. k + 1 : sorted[n] = m
        BY <2>6
      <4>. QED
        BY <2>9, <3>2, <4>1 DEF Has
    <3>3. k + 1 \in 1 .. k + 1
      BY <1>2
    <3>. QED
      BY <1>2, <2>2, <3>1, <3>2, <3>3 DEF Has
  <2>12. ASSUME Sorted(page.rows) PROVE Sorted(next)
    <3>1. \A m, n \in 1 .. k + 1 : all[m].id = all[n].id => m = n
      <4>1. \A m, n \in 1 .. k : m < n => page.rows[m].id < page.rows[n].id
        BY <1>2, <2>12 DEF Sorted, Before, Descending
      <4>2. \A m \in 1 .. k : page.rows[m].id # saved.id /\ page.rows[m].id \in Nat
        BY <1>2, <1>4 DEF Rows, Row
      <4>3. \A m, n \in 1 .. k : page.rows[m].id = page.rows[n].id => m = n
        BY <1>2, <4>1, <4>2
      <4>. QED
        BY <2>2, <4>2, <4>3
    <3>2. \A m, n \in 1 .. k + 1 : m < n => all[sorted[m]].id < all[sorted[n]].id
      <4>1. ASSUME NEW m \in 1 .. k + 1, NEW n \in 1 .. k + 1, m < n
            PROVE  all[sorted[m]].id < all[sorted[n]].id
        <5>1. /\ sorted[m] \in 1 .. k + 1 /\ sorted[n] \in 1 .. k + 1
              /\ Sooner(sorted[m], sorted[n])
          BY <2>6, <2>7, <4>1
        <5>2. sorted[m] = sorted[n] => ~(sorted[m] < sorted[n])
          BY <1>2, <5>1
        <5>. QED
          BY <3>1, <5>1, <5>2
      <4>. QED
        BY <4>1
    <3>. QED
      BY <2>9, <3>2 DEF Sorted, Before, Descending
  <2>. QED
    BY <2>10, <2>11, <2>12
<1>. QED
  BY <1>3, <1>4

\* A party that was saved takes its place in the list, or the list is disturbed.
LEMMA PlaceKeeps ==
  ASSUME IInv, NEW c \in calls, GetSaved(c), kind = "parties", UNCHANGED <<kind, server>>
  PROVE  IInv'
<1>. USE DEF IInv, TypeOK
<1>1. /\ c.what = "save" /\ c.stage = "served" /\ CallOK(c) /\ c.answer \in Row
      /\ UNCHANGED <<asked, known, left>> /\ calls' = calls \ {c}
      /\ disturbed' = (disturbed \/ (c.answer.id \notin Rows
                           /\ (page.cursor # None \/ page.state # "ready")))
      /\ page' = [page EXCEPT !.rows = Place(c.answer), !.state = "ready",
                              !.editor = None, !.saving = FALSE]
  BY DEF GetSaved, CallOK, SaveOK
<1>2. PICK next : next = Place(c.answer)
  OBVIOUS
<1>3. /\ page.rows \in Seq(Row) /\ DOMAIN page = PageFields
  BY DEF PageOK
<1>4. /\ next \in Seq(Row) /\ next # <<>>
      /\ \A i : Has(next, i) <=> Has(page.rows, i) \/ i = c.answer.id
      /\ Sorted(page.rows) => Sorted(next)
  BY <1>1, <1>2, <1>3, PlacedRows
<1>5. /\ page'.rows = next /\ page'.cursor = page.cursor /\ DOMAIN page' = PageFields
      /\ page'.sequence = page.sequence /\ page'.shown = page.shown
      /\ page'.state = "ready" /\ page'.editor = None
  BY <1>1, <1>2, <1>3 DEF PageFields
<1>6. ~disturbed' => ~disturbed /\ (c.answer.id \in Rows \/
                                      (page.cursor = None /\ page.state = "ready"))
  BY <1>1
<1>7. ASSUME NEW d \in calls' PROVE Holds(d)'
  <2>1. d \in calls /\ Holds(d)
    BY <1>1 DEF Holds
  <2>2. Awaits(d)
    BY <1>1, <1>5, <1>6 DEF Awaits, Latest, Counted, Emptied
  <2>3. page'.sequence \in Nat /\ page.sequence <= page'.sequence
    BY <1>5 DEF PageOK
  <2>. QED
    BY <2>1, <2>2, <2>3, CallAwaits
<1>8. ServerOK' /\ PageOK'
  BY <1>4, <1>5 DEF ServerOK, Handed, PageOK, server
<1>9. SequenceInv'
  <2>1. Listing' \subseteq Listing
    BY <1>1 DEF Listing
  <2>. QED
    BY <1>6, <2>1 DEF SequenceInv, Counted
<1>10. KnownInv'
  BY <1>1, <1>5 DEF KnownInv
<1>11. FormInv'
  BY <1>5 DEF FormInv
<1>12. PageInv'
  <2>1. \A i \in asked' : Handed(i)'
    BY <1>1 DEF PageInv, Handed, server
  <2>2. ASSUME ~disturbed'
        PROVE  /\ Sorted(next) /\ Bounded(next, page.cursor)
               /\ page.shown = None => \A i \in asked \cap DOMAIN table :
                    UpTo(page.cursor, i) => Has(next, i)
    <3>1. /\ ~disturbed /\ Sorted(page.rows) /\ Bounded(page.rows, page.cursor)
          /\ page.shown = None /\ ~Emptied => CoversAsked
      BY <1>6, <2>2 DEF PageInv
    <3>2. ~Emptied
      BY <1>1, <1>6, <2>2 DEF Emptied, Rows
    <3>3. \A m \in DOMAIN next : Has(next, next[m].id)
      BY DEF Has
    <3>4. Bounded(next, page.cursor)
      <4>1. CASE page.cursor = None
        BY <4>1 DEF Bounded, UpTo
      <4>2. CASE page.cursor # None
        <5>1. Has(page.rows, c.answer.id)
          BY <1>6, <2>2, <4>2 DEF Rows, Has
        <5>2. \A m \in DOMAIN next : Has(page.rows, next[m].id)
          BY <1>4, <3>3, <5>1
        <5>3. \A i : Has(page.rows, i) => UpTo(page.cursor, i)
          BY <3>1 DEF Bounded, Has
        <5>. QED
          BY <5>2, <5>3 DEF Bounded
      <4>. QED
        BY <4>1, <4>2
    <3>. QED
      BY <1>4, <3>1, <3>2, <3>4 DEF CoversAsked
  <2>. QED
    BY <1>1, <1>5, <2>1, <2>2 DEF PageInv, CoversAsked, Sorted, Bounded, UpTo, Has,
       Before, Descending, server
<1>13. disturbed' \in BOOLEAN
  BY <1>1
<1>. QED
  BY <1>1, <1>7, <1>8, <1>9, <1>10, <1>11, <1>12, <1>13 DEF Holds

\* The page that is mounted has asked for its list, and shows nothing.
LEMMA InitHolds == Init => IInv
<1>. SUFFICES ASSUME Init PROVE IInv
  OBVIOUS
<1>0. PICK b \in Budgets : left = [b EXCEPT !.requests = @ - 1]
  BY DEF Init
<1>1. /\ b \in [kind : Kinds, contents : SUBSET Content, requests : Nat,
                others : Nat, records : Nat]
      /\ None \notin Content \cup Nat
  BY RegistersAssumption DEF Kinds
<1>2. /\ left.contents \subseteq Content /\ kind \in Kinds /\ last \in Nat
      /\ DOMAIN table = 1 .. last
      /\ \A i \in 1 .. last : table[i].content \in Content /\ table[i].rev \in Nat
      /\ inserting = {}
  <2>1. /\ left.contents = b.contents /\ left.kind = b.kind
        /\ left.records = b.records
    BY <1>0, <1>1
  <2>2. /\ kind = left.kind /\ last = left.records /\ inserting = {}
        /\ table \in [1 .. last -> [content : left.contents, rev : {0}]]
    BY DEF Init
  <2>3. b.contents \subseteq Content /\ b.kind \in Kinds /\ b.records \in Nat
    BY <1>1
  <2>4. \A i \in 1 .. last : table[i] \in [content : left.contents, rev : {0}]
    BY <2>2
  <2>. QED
    BY <2>1, <2>2, <2>3, <2>4
<1>3. ServerOK
  <2>1. \A i \in 1 .. last : Handed(i)
    BY <1>2 DEF Handed
  <2>. QED
    BY <1>2, <2>1 DEF ServerOK
<1>4. /\ page.rows = <<>> /\ page.cursor = None /\ page.sequence = 1
      /\ page.shown = None /\ page.editor = None /\ page.state = "loading"
      /\ DOMAIN page = PageFields
  BY DEF Init, PageFields
<1>5. PageOK
  <2>1. page.rows \in Seq(Row)
    BY <1>4
  <2>. QED
    BY <1>4, <2>1 DEF PageOK
<1>6. asked = {} /\ disturbed = FALSE /\ DOMAIN known = {} /\ known = <<>>
  BY DEF Init
<1>. DEFINE first == [id |-> 0, stage |-> "sent", answer |-> None, what |-> "list",
                      reset |-> TRUE, sequence |-> 1, held |-> None, search |-> None,
                      cursor |-> None, there |-> DOMAIN table]
<1>7a. PICK e : e = first
  OBVIOUS
<1>7. /\ calls = {e} /\ {"stage", "answer"} \subseteq DOMAIN e
      /\ e.stage = "sent" /\ e.what = "list" /\ e.reset = TRUE
      /\ e.sequence = 1 /\ e.held = None /\ e.search = None
      /\ e.cursor = None /\ e.there = DOMAIN table
  <2>1. calls = {e}
    BY <1>7a DEF Init
  <2>. QED
    BY <1>7a, <2>1
<1>. HIDE DEF first
<1>8. CallOK(e)
  <2>1. ListOK(e)
    <3>1. e.sequence \in Nat
      <4>1. e.sequence = 1
        BY <1>7
      <4>. QED
        BY <4>1
    <3>2. e.stage # "served" /\ e.cursor = None /\ e.held = None /\ e.search = None
      BY <1>7
    <3>3. e.reset = TRUE
      BY <1>7
    <3>. QED
      BY <3>1, <3>2, <3>3, Zenon DEF ListOK
  <2>. QED
    BY <1>7, <2>1 DEF CallOK
<1>9. CallInv(e)
  <2>1. ListInv(e)
    BY <1>2, <1>3, <1>4, <1>7 DEF ListInv, ServerOK
  <2>. QED
    BY <1>7, <2>1 DEF CallInv
<1>10. TypeOK
  BY <1>2, <1>3, <1>5, <1>6, <1>7, <1>8 DEF TypeOK
<1>11. SequenceInv
  BY <1>7 DEF SequenceInv, Listing
<1>12. KnownInv
  BY <1>6 DEF KnownInv
<1>13. PageInv
  <2>1. Sorted(page.rows) /\ Bounded(page.rows, page.cursor) /\ CoversAsked
    BY <1>4, <1>6 DEF Sorted, Bounded, CoversAsked
  <2>. QED
    BY <1>6, <2>1 DEF PageInv
<1>14. FormInv
  BY <1>4 DEF FormInv
<1>. QED
  BY <1>7, <1>9, <1>10, <1>11, <1>12, <1>13, <1>14 DEF IInv

\* Every answer that reaches the page leaves the invariant as it is.
LEMMA DeliverKeeps ==
  ASSUME IInv, NEW c \in calls, Deliver(c)
  PROVE  IInv'
<1>1. UNCHANGED <<kind, server>> /\ c.stage # "sent"
  BY DEF Deliver
<1>2. CASE GetList(c)
  BY <1>1, <1>2, GetListKeeps
<1>3. CASE DropList(c)
  BY <1>1, <1>3, DropListKeeps
<1>4. CASE MissList(c)
  BY <1>1, <1>4, MissListKeeps
<1>5. CASE GetDetail(c)
  BY <1>1, <1>5, GetDetailKeeps
<1>6. CASE GetSaved(c) /\ kind = "parties"
  BY <1>1, <1>6, PlaceKeeps
<1>7. CASE GetSaved(c) /\ kind # "parties"
  BY <1>1, <1>7, ReloadKeeps
<1>8. CASE MissSaved(c)
  BY <1>1, <1>8, MissSavedKeeps
<1>. QED
  BY <1>2, <1>3, <1>4, <1>5, <1>6, <1>7, <1>8 DEF Deliver

\* No step of the page, of the API or of others breaks the invariant.
LEMMA StepKeeps == IInv /\ [Next]_vars => IInv'
<1>. SUFFICES ASSUME IInv, [Next]_vars PROVE IInv'
  OBVIOUS
<1>1. CASE Use
  <2>1. CASE \E search \in left.contents \cup {None} : Load(search)
    BY <2>1, LoadKeeps
  <2>. QED
    BY <1>1, <2>1, MoreKeeps, EditKeeps, InspectKeeps, CloseKeeps, SaveKeeps DEF Use
<1>2. CASE Elsewhere \/ \E c \in calls : Serve(c) \/ Lose(c)
  BY <1>2, ServerKeeps
<1>3. CASE \E c \in calls : Deliver(c)
  BY <1>3, DeliverKeeps
<1>4. CASE UNCHANGED vars
  <2>1. /\ ServerOK' /\ Onward
    BY <1>4, OnwardStays DEF vars, IInv, TypeOK, server
  <2>. QED
    BY <1>4, <2>1, ServerStep DEF vars
<1>. QED
  BY <1>1, <1>2, <1>3, <1>4 DEF Next

\* A list that is in order and covers what was asked for is exact.
LEMMA Exact == IInv => ListIsExact
<1>. SUFFICES ASSUME IInv, ~disturbed, page.state = "ready", page.cursor = None,
                     page.shown = None
              PROVE  /\ Cardinality(Rows) = Len(page.rows)
                     /\ (asked \cap DOMAIN table) \subseteq Rows
  BY DEF ListIsExact
<1>1. page.rows \in Seq(Row) /\ Sorted(page.rows)
  BY DEF IInv, TypeOK, PageOK, PageInv
<1>2. CoversAsked
  BY DEF IInv, PageInv, Emptied
<1>3. Cardinality(Rows) = Len(page.rows)
  BY <1>1, SortedDistinct DEF Rows
<1>4. (asked \cap DOMAIN table) \subseteq Rows
  BY <1>2 DEF CoversAsked, UpTo, Has, Rows
<1>. QED
  BY <1>3, <1>4

\* No row is older than what the page said was saved.
LEMMA NoneOlder == IInv => ReadsOwnWrites
<1>. SUFFICES ASSUME IInv, NEW i \in DOMAIN page.rows,
                     page.rows[i].id \in DOMAIN known
              PROVE  page.rows[i].rev >= known[page.rows[i].id]
  BY DEF ReadsOwnWrites
<1>1. PICK id, rev : id = page.rows[i].id /\ rev = page.rows[i].rev
  OBVIOUS
<1>2. known[id] \in Nat /\ known[id] <= rev
  BY <1>1 DEF IInv, KnownInv, NotBefore
<1>3. rev \in Nat
  <2>1. page.rows \in Seq(Row)
    BY DEF IInv, TypeOK, PageOK
  <2>2. page.rows[i] \in Row
    BY <2>1
  <2>. QED
    BY <1>1, <2>2 DEF Row
<1>. QED
  BY <1>1, <1>2, <1>3

\* What a form sent says which record it is for.
LEMMA Opened == IInv => SavedAsOpened
BY DEF IInv, CallInv, SaveInv, SavedAsOpened

\* The invariant holds of every reachable state.
THEOREM InvariantHolds == Spec => []IInv
BY InitHolds, StepKeeps, PTL DEF Spec

\* A list that was read to its end shows each record that was there when it was
\* asked for and still is, and none twice, however its pages, the changes of
\* others and the answers to forms are interleaved.
THEOREM ListsAreExact == Spec => []ListIsExact
BY InvariantHolds, Exact, PTL

\* A product that the page said was saved is never again shown as it was before,
\* however many searches are under way and in whatever order they are answered.
THEOREM WritesAreRead == Spec => []ReadsOwnWrites
BY InvariantHolds, NoneOlder, PTL

\* A form saves the record it was opened for, whatever arrives while it is open,
\* the detail of a warehouse excepted.
THEOREM FormsSaveWhatTheyOpened == Spec => []SavedAsOpened
BY InvariantHolds, Opened, PTL

\* The pages of the reports, which the same run checks, leave the registers as
\* they are: what is proved here holds beside them.
THEOREM ReportsAreAside == ReportsSpec => Spec
<1>1. BothInit => Init
  BY DEF BothInit
<1>2. [BothNext]_<<vars, reportVars>> => [Next]_vars
  BY DEF BothNext
<1>. QED
  BY <1>1, <1>2, PTL DEF ReportsSpec, Spec

-----------------------------------------------------------------------------
(* Sums *)

\* As many things as natural numbers say, each of its own.
Things(f, S) == {p \in S \X Nat : p[2] \in 1 .. f[p[1]]}

\* One more of them has its own.
LEMMA ThingsAdd ==
  ASSUME NEW S, IsFiniteSet(S), NEW f, \A x \in S : f[x] \in Nat, NEW x \in S,
         IsFiniteSet(Things(f, S \ {x}))
  PROVE  /\ IsFiniteSet(Things(f, S))
         /\ Cardinality(Things(f, S)) = f[x] + Cardinality(Things(f, S \ {x}))
<1>. DEFINE own == {x} \X (1 .. f[x])
<1>1. f[x] \in Nat
  OBVIOUS
<1>2. IsFiniteSet(1 .. f[x]) /\ Cardinality(1 .. f[x]) = f[x]
  <2>1. PICK n \in Nat : n = f[x]
    BY <1>1
  <2>2. IsFiniteSet(1 .. n) /\ Cardinality(1 .. n) = n
    BY FS_Interval
  <2>. QED
    BY <2>1, <2>2
<1>3. IsFiniteSet(own) /\ Cardinality(own) = f[x]
  <2>1. IsFiniteSet({x}) /\ Cardinality({x}) = 1
    BY FS_Singleton
  <2>2. IsFiniteSet(own) /\ Cardinality(own) = 1 * Cardinality(1 .. f[x])
    BY <1>2, <2>1, FS_Product
  <2>. QED
    BY <1>1, <1>2, <2>2
<1>4. Things(f, S) = Things(f, S \ {x}) \cup own
  BY <1>1 DEF Things
<1>5. Things(f, S \ {x}) \cap own = {}
  BY DEF Things
<1>. HIDE DEF own
<1>6. /\ IsFiniteSet(Things(f, S \ {x}) \cup own)
      /\ Cardinality(Things(f, S \ {x}) \cup own) =
           Cardinality(Things(f, S \ {x})) + Cardinality(own)
             - Cardinality(Things(f, S \ {x}) \cap own)
  BY <1>3, FS_Union
<1>7. Cardinality(Things(f, S \ {x})) \in Nat /\ Cardinality({}) = 0
  BY FS_CardinalityType, FS_EmptySet
<1>8. Cardinality(Things(f, S)) = f[x] + Cardinality(Things(f, S \ {x}))
  <2>1. PICK n \in Nat : n = f[x]
    BY <1>1
  <2>2. Cardinality(Things(f, S \ {x}) \cap own) = 0
    BY <1>5, <1>7
  <2>. QED
    BY <1>3, <1>4, <1>6, <1>7, <2>1, <2>2
<1>9. IsFiniteSet(Things(f, S))
  BY <1>4, <1>6
<1>. QED
  BY <1>8, <1>9

\* What holds of the empty set, and of a set and one more if of the set, holds
\* of all finite sets: with the set of the sets it holds of for a predicate.
LEMMA SetInduction ==
  ASSUME NEW S, IsFiniteSet(S), NEW Good, {} \in Good,
         \A T \in SUBSET S : \A x \in S \ T : T \in Good => T \cup {x} \in Good
  PROVE  S \in Good
<1>. DEFINE Bad == {T \in SUBSET S : T \notin Good}
<1>1. SUFFICES ASSUME Bad # {} PROVE FALSE
  OBVIOUS
<1>2. Bad \subseteq FiniteSubsetsOf(S)
  BY FS_FiniteSubsetsOfFinite
<1>3. PICK T \in Bad : \A U \in Bad : <<U, T>> \notin StrictSubsetOrdering(S)
  BY <1>1, <1>2, FS_StrictSubsetOrderingWellFounded, WFMin
<1>4. PICK x : x \in T
  OBVIOUS
<1>5. T \ {x} \notin Bad
  <2>1. <<T \ {x}, T>> \in StrictSubsetOrdering(S)
    BY <1>4 DEF StrictSubsetOrdering
  <2>. QED
    BY <1>3, <2>1
<1>6. (T \ {x}) \cup {x} = T /\ x \in S \ (T \ {x}) /\ T \ {x} \in SUBSET S
  BY <1>4
<1>. QED
  BY <1>5, <1>6

\* They are finitely many.
LEMMA ThingsFinite ==
  ASSUME NEW S, IsFiniteSet(S), NEW f, \A x \in S : f[x] \in Nat
  PROVE  IsFiniteSet(Things(f, S))
<1>. DEFINE Good == {T \in SUBSET S : IsFiniteSet(Things(f, T))}
<1>1. {} \in Good
  <2>1. Things(f, {}) = {}
    BY DEF Things
  <2>. QED
    BY <2>1, FS_EmptySet
<1>2. ASSUME NEW T \in SUBSET S, NEW x \in S \ T, T \in Good PROVE T \cup {x} \in Good
  <2>1. T = (T \cup {x}) \ {x} /\ T \cup {x} \in SUBSET S /\ x \in T \cup {x}
    OBVIOUS
  <2>2. IsFiniteSet(T \cup {x})
    BY <2>1, FS_Subset
  <2>. QED
    BY <1>2, <2>1, <2>2, ThingsAdd
<1>3. S \in Good
  <2>. HIDE DEF Good
  <2>. QED
    BY <1>1, <1>2, SetInduction
<1>. QED
  BY <1>3

\* What sums of parts of f satisfy.
Sums(f, S, h) ==
  /\ h \in [SUBSET S -> Int] /\ h[{}] = 0
  /\ \A s \in SUBSET S : \A x \in s : h[s] = f[x] + h[s \ {x}]

\* There is such a sum: the things of the positive numbers less those of the
\* negative ones.
LEMMA SumsExist ==
  ASSUME NEW S, IsFiniteSet(S), NEW f, \A x \in S : f[x] \in Int
  PROVE  \E h : Sums(f, S, h)
<1>. DEFINE pos == [x \in S |-> IF f[x] > 0 THEN f[x] ELSE 0]
            neg == [x \in S |-> IF f[x] < 0 THEN 0 - f[x] ELSE 0]
            h == [s \in SUBSET S |->
                    Cardinality(Things(pos, s)) - Cardinality(Things(neg, s))]
<1>1. \A x \in S : pos[x] \in Nat /\ neg[x] \in Nat /\ f[x] = pos[x] - neg[x]
  OBVIOUS
<1>. HIDE DEF pos, neg
<1>2. ASSUME NEW g, \A x \in S : g[x] \in Nat
      PROVE  /\ \A s \in SUBSET S : Cardinality(Things(g, s)) \in Nat
             /\ Cardinality(Things(g, {})) = 0
             /\ \A s \in SUBSET S : \A x \in s :
                  Cardinality(Things(g, s)) = g[x] + Cardinality(Things(g, s \ {x}))
  <2>1. ASSUME NEW s \in SUBSET S PROVE IsFiniteSet(s) /\ IsFiniteSet(Things(g, s))
    <3>1. IsFiniteSet(s)
      BY FS_Subset
    <3>. QED
      BY <1>2, <3>1, ThingsFinite
  <2>2. \A s \in SUBSET S : Cardinality(Things(g, s)) \in Nat
    BY <2>1, FS_CardinalityType
  <2>3. Things(g, {}) = {}
    BY DEF Things
  <2>4. ASSUME NEW s \in SUBSET S, NEW x \in s
        PROVE  Cardinality(Things(g, s)) = g[x] + Cardinality(Things(g, s \ {x}))
    <3>1. IsFiniteSet(Things(g, s \ {x})) /\ IsFiniteSet(s)
      BY <2>1
    <3>2. \A y \in s : g[y] \in Nat
      BY <1>2
    <3>. QED
      BY <3>1, <3>2, ThingsAdd
  <2>. QED
    BY <2>2, <2>3, <2>4, FS_EmptySet
<1>3. h \in [SUBSET S -> Int] /\ h[{}] = 0
  BY <1>1, <1>2
<1>4. ASSUME NEW s \in SUBSET S, NEW x \in s PROVE h[s] = f[x] + h[s \ {x}]
  <2>1. PICK p \in Nat, q \in Nat, a \in Nat, b \in Nat :
          /\ p = pos[x] /\ q = neg[x]
          /\ a = Cardinality(Things(pos, s \ {x})) /\ b = Cardinality(Things(neg, s \ {x}))
    BY <1>1, <1>2
  <2>2. Cardinality(Things(pos, s)) = p + a /\ Cardinality(Things(neg, s)) = q + b
    BY <1>1, <1>2, <2>1
  <2>3. h[s] = (p + a) - (q + b) /\ h[s \ {x}] = a - b /\ f[x] = p - q
    BY <1>1, <2>1, <2>2
  <2>. QED
    BY <2>3
<1>. QED
  BY <1>3, <1>4 DEF Sums

\* The sum that the library's fold works out satisfies them, as nothing else.
LEMMA SumIsFound ==
  ASSUME NEW S, IsFiniteSet(S), NEW f, NEW sum, Sums(f, S, sum)
  PROVE  SumFunctionOnSet(f, S) = sum[S]
<1>. DEFINE Def(h) == h = [s \in SUBSET S |-> IF s = {} THEN 0
              ELSE f[CHOOSE x \in s : TRUE] + h[s \ {CHOOSE x \in s : TRUE}]]
<1>1. SumFunctionOnSet(f, S) = (CHOOSE h : Def(h))[S]
  BY DEF SumFunctionOnSet, FoldFunctionOnSet, MapThenFoldSet
<1>2. sum[{}] = 0 /\ \A s \in SUBSET S : \A x \in s : sum[s] = f[x] + sum[s \ {x}]
  BY DEF Sums
<1>4. Def(sum)
  <2>1. \A s \in SUBSET S : s # {} =>
          sum[s] = f[CHOOSE x \in s : TRUE] + sum[s \ {CHOOSE x \in s : TRUE}]
    BY <1>2
  <2>2. sum = [s \in SUBSET S |-> sum[s]]
    BY DEF Sums
  <2>. QED
    BY <1>2, <2>1, <2>2
<1>5. PICK h : Def(h) /\ h = CHOOSE g : Def(g)
  <2>. HIDE DEF Def
  <2>. QED
    BY <1>4
<1>6. h[S] = sum[S]
  <2>. DEFINE Bad == {T \in SUBSET S : h[T] # sum[T]}
  <2>. SUFFICES ASSUME Bad # {} PROVE FALSE
    OBVIOUS
  <2>1. Bad \subseteq FiniteSubsetsOf(S)
    BY FS_FiniteSubsetsOfFinite
  <2>2. PICK T \in Bad : \A U \in Bad : <<U, T>> \notin StrictSubsetOrdering(S)
    BY <2>1, FS_StrictSubsetOrderingWellFounded, WFMin
  <2>3. T \in SUBSET S /\ T # {}
    BY <1>2, <1>5
  <2>4. PICK x \in T : h[T] = f[x] + h[T \ {x}]
    <3>1. PICK x : x = CHOOSE y \in T : TRUE
      OBVIOUS
    <3>2. x \in T /\ h[T] = f[x] + h[T \ {x}]
      BY <1>5, <2>3, <3>1
    <3>. QED
      BY <3>2
  <2>5. <<T \ {x}, T>> \in StrictSubsetOrdering(S) /\ T \ {x} \in SUBSET S
    BY <2>3 DEF StrictSubsetOrdering
  <2>6. h[T \ {x}] = sum[T \ {x}]
    BY <2>2, <2>5
  <2>7. sum[T] = f[x] + sum[T \ {x}]
    BY <1>2, <2>3
  <2>. QED
    BY <2>4, <2>6, <2>7
<1>. QED
  BY <1>1, <1>5, <1>6

\* A sum of integers is one, of nothing 0, and of a part and the others that of
\* both.
LEMMA SumSplit ==
  ASSUME NEW S, IsFiniteSet(S), NEW F \in [S -> Int]
  PROVE  /\ SumFunction(F) \in Int
         /\ S = {} => SumFunction(F) = 0
         /\ \A x \in S : /\ SumFunction([y \in S \ {x} |-> F[y]]) \in Int
                         /\ SumFunction(F) = F[x] + SumFunction([y \in S \ {x} |-> F[y]])
<1>1. DOMAIN F = S /\ \A x \in S : F[x] \in Int
  OBVIOUS
<1>2. PICK h : Sums(F, S, h)
  BY <1>1, SumsExist
<1>3. SumFunction(F) = h[S]
  BY <1>1, <1>2, SumIsFound DEF SumFunction
<1>4. h[S] \in Int /\ (S = {} => h[S] = 0)
  BY <1>2 DEF Sums
<1>5. ASSUME NEW x \in S
      PROVE  /\ SumFunction([y \in S \ {x} |-> F[y]]) \in Int
             /\ h[S] = F[x] + SumFunction([y \in S \ {x} |-> F[y]])
  <2>. DEFINE R == S \ {x}
              G == [y \in R |-> F[y]]
              g == [s \in SUBSET R |-> h[s]]
  <2>1. IsFiniteSet(R)
    BY FS_Subset
  <2>2. Sums(G, R, g)
    <3>1. g \in [SUBSET R -> Int] /\ g[{}] = 0
      BY <1>2 DEF Sums
    <3>2. \A s \in SUBSET R : \A y \in s : g[s] = G[y] + g[s \ {y}]
      BY <1>2 DEF Sums
    <3>. QED
      BY <3>1, <3>2 DEF Sums
  <2>3. SumFunction(G) = g[R]
    <3>1. DOMAIN G = R
      OBVIOUS
    <3>. HIDE DEF G, R, g
    <3>. QED
      BY <2>1, <2>2, <3>1, SumIsFound DEF SumFunction
  <2>4. g[R] = h[S \ {x}] /\ h[S \ {x}] \in Int
    BY <1>2 DEF Sums
  <2>5. h[S] = F[x] + h[S \ {x}]
    BY <1>2 DEF Sums
  <2>. QED
    BY <2>3, <2>4, <2>5
<1>. QED
  BY <1>3, <1>4, <1>5

\* F on a part of its domain.
On(F, T) == [x \in T |-> F[x]]

\* A sum goes on with one more thing.
LEMMA SumOn ==
  ASSUME NEW S, IsFiniteSet(S), NEW F \in [S -> Int]
  PROVE  /\ On(F, S) = F /\ SumFunction(On(F, {})) = 0
         /\ \A T \in SUBSET S : SumFunction(On(F, T)) \in Int
         /\ \A T \in SUBSET S : \A x \in S \ T :
              SumFunction(On(F, T \cup {x})) = SumFunction(On(F, T)) + F[x]
<1>1. ASSUME NEW T \in SUBSET S
      PROVE  IsFiniteSet(T) /\ On(F, T) \in [T -> Int]
  <2>1. IsFiniteSet(T)
    BY FS_Subset
  <2>. QED
    BY <2>1 DEF On
<1>2. \A T \in SUBSET S : SumFunction(On(F, T)) \in Int
  BY <1>1, SumSplit
<1>3. SumFunction(On(F, {})) = 0
  BY <1>1, SumSplit
<1>4. ASSUME NEW T \in SUBSET S, NEW x \in S \ T
      PROVE  SumFunction(On(F, T \cup {x})) = SumFunction(On(F, T)) + F[x]
  <2>. DEFINE U == T \cup {x}
              G == On(F, U)
  <2>1. /\ U \in SUBSET S /\ x \in U
        /\ [y \in U \ {x} |-> G[y]] = On(F, T)
        /\ G[x] = F[x]
    BY DEF On
  <2>2. IsFiniteSet(U) /\ G \in [U -> Int]
    BY <1>1, <2>1
  <2>3. PICK m \in Int, n \in Int : m = F[x] /\ n = SumFunction(On(F, T))
    BY <1>2
  <2>. HIDE DEF G, U
  <2>4. SumFunction(G) = G[x] + SumFunction([y \in U \ {x} |-> G[y]])
    BY <2>1, <2>2, SumSplit
  <2>5. SumFunction(G) = n + m
    BY <2>1, <2>3, <2>4
  <2>. QED
    BY <2>3, <2>5 DEF G, U
<1>5. On(F, S) = F
  BY DEF On
<1>. QED
  BY <1>2, <1>3, <1>4, <1>5

\* A sum of nothing but 0 is 0.
LEMMA SumZero ==
  ASSUME NEW S, IsFiniteSet(S), NEW F \in [S -> Int], \A x \in S : F[x] = 0
  PROVE  SumFunction(F) = 0
<1>. DEFINE Good == {T \in SUBSET S : SumFunction(On(F, T)) = 0}
<1>1. {} \in Good
  BY SumOn
<1>2. ASSUME NEW T \in SUBSET S, NEW x \in S \ T, T \in Good PROVE T \cup {x} \in Good
  <2>1. SumFunction(On(F, T \cup {x})) = SumFunction(On(F, T)) + F[x]
    BY SumOn
  <2>2. SumFunction(On(F, T)) = 0 /\ F[x] = 0
    BY <1>2
  <2>. QED
    BY <2>1, <2>2
<1>3. S \in Good
  <2>. HIDE DEF Good
  <2>. QED
    BY <1>1, <1>2, SetInduction
<1>. QED
  BY <1>3, SumOn

\* The sum of sums, and of differences.
LEMMA SumPlus ==
  ASSUME NEW S, IsFiniteSet(S), NEW F \in [S -> Int], NEW G \in [S -> Int],
         NEW H \in [S -> Int], \A x \in S : H[x] = F[x] + G[x]
  PROVE  SumFunction(H) = SumFunction(F) + SumFunction(G)
<1>. DEFINE Good == {T \in SUBSET S : SumFunction(On(H, T)) =
                       SumFunction(On(F, T)) + SumFunction(On(G, T))}
<1>1. {} \in Good
  BY SumOn
<1>2. ASSUME NEW T \in SUBSET S, NEW x \in S \ T, T \in Good PROVE T \cup {x} \in Good
  <2>1. PICK f0 \in Int, g0 \in Int, fx \in Int, gx \in Int :
          /\ f0 = SumFunction(On(F, T)) /\ g0 = SumFunction(On(G, T))
          /\ fx = F[x] /\ gx = G[x]
    BY SumOn
  <2>2. /\ SumFunction(On(F, T \cup {x})) = f0 + fx
        /\ SumFunction(On(G, T \cup {x})) = g0 + gx
    BY <2>1, SumOn
  <2>3. SumFunction(On(H, T \cup {x})) = SumFunction(On(H, T)) + H[x]
    BY SumOn
  <2>4. SumFunction(On(H, T)) = f0 + g0 /\ H[x] = fx + gx
    BY <1>2, <2>1
  <2>5. SumFunction(On(H, T \cup {x})) =
          SumFunction(On(F, T \cup {x})) + SumFunction(On(G, T \cup {x}))
    BY <2>2, <2>3, <2>4
  <2>. QED
    BY <2>5
<1>3. S \in Good
  <2>. HIDE DEF Good
  <2>. QED
    BY <1>1, <1>2, SetInduction
<1>. QED
  BY <1>3, SumOn

\* A difference of what is summed is one of the sums.
LEMMA SumMinus ==
  ASSUME NEW S, IsFiniteSet(S), NEW F \in [S -> Int], NEW G \in [S -> Int],
         NEW H \in [S -> Int], \A x \in S : H[x] = F[x] - G[x]
  PROVE  SumFunction(H) = SumFunction(F) - SumFunction(G)
<1>1. \A x \in S : F[x] \in Int /\ G[x] \in Int /\ H[x] \in Int
  OBVIOUS
<1>2. \A x \in S : F[x] = H[x] + G[x]
  BY <1>1
<1>3. SumFunction(F) = SumFunction(H) + SumFunction(G)
  BY <1>2, SumPlus
<1>4. SumFunction(F) \in Int /\ SumFunction(G) \in Int /\ SumFunction(H) \in Int
  BY SumSplit
<1>. QED
  BY <1>3, <1>4

\* A sum in which one thing changes, changes by as much.
LEMMA SumChange ==
  ASSUME NEW S, IsFiniteSet(S), NEW F \in [S -> Int], NEW G \in [S -> Int],
         NEW x \in S, \A y \in S \ {x} : G[y] = F[y]
  PROVE  SumFunction(G) = SumFunction(F) + (G[x] - F[x])
<1>1. [y \in S \ {x} |-> F[y]] = [y \in S \ {x} |-> G[y]]
  OBVIOUS
<1>2. PICK rest \in Int : rest = SumFunction([y \in S \ {x} |-> F[y]])
  BY SumSplit
<1>3. SumFunction(F) = F[x] + rest /\ SumFunction(G) = G[x] + rest
  BY <1>1, <1>2, SumSplit
<1>4. PICK m \in Int, n \in Int : m = F[x] /\ n = G[x]
  OBVIOUS
<1>. QED
  BY <1>2, <1>3, <1>4

\* The sum of each kind of things by itself.
ByKind(F, g, A, T) == [t \in T |-> SumFunction(On(F, {x \in A : g[x] = t}))]

\* A sum is that of the sums of each kind of things.
LEMMA SumByKind ==
  ASSUME NEW S, IsFiniteSet(S), NEW T, IsFiniteSet(T),
         NEW F \in [S -> Int], NEW g \in [S -> T]
  PROVE  /\ ByKind(F, g, S, T) \in [T -> Int]
         /\ SumFunction(F) = SumFunction(ByKind(F, g, S, T))
<1>. DEFINE Good == {A \in SUBSET S :
              SumFunction(On(F, A)) = SumFunction(ByKind(F, g, A, T))}
<1>0. ASSUME NEW A \in SUBSET S PROVE ByKind(F, g, A, T) \in [T -> Int]
  <2>1. \A t \in T : {x \in A : g[x] = t} \in SUBSET S
    OBVIOUS
  <2>2. \A t \in T : SumFunction(On(F, {x \in A : g[x] = t})) \in Int
    BY <2>1, SumOn
  <2>. QED
    BY <2>2 DEF ByKind
<1>1. {} \in Good
  <2>1. \A t \in T : {x \in {} : g[x] = t} = {}
    OBVIOUS
  <2>2. \A t \in T : ByKind(F, g, {}, T)[t] = 0
    BY <2>1, SumOn DEF ByKind
  <2>3. SumFunction(ByKind(F, g, {}, T)) = 0
    BY <1>0, <2>2, SumZero
  <2>. QED
    BY <2>3, SumOn
<1>2. ASSUME NEW A \in SUBSET S, NEW x \in S \ A, A \in Good PROVE A \cup {x} \in Good
  <2>. DEFINE B == A \cup {x}
              K == ByKind(F, g, A, T)
              L == ByKind(F, g, B, T)
              t == g[x]
              old == {y \in A : g[y] = t}
  <2>1. t \in T /\ B \in SUBSET S /\ old \in SUBSET S /\ x \in S \ old
    OBVIOUS
  <2>2. \A u \in T \ {t} : L[u] = K[u]
    <3>1. \A u \in T \ {t} : {y \in B : g[y] = u} = {y \in A : g[y] = u}
      OBVIOUS
    <3>. QED
      BY <3>1 DEF ByKind
  <2>3. L[t] = K[t] + F[x]
    <3>1. {y \in B : g[y] = t} = old \cup {x}
      OBVIOUS
    <3>2. SumFunction(On(F, old \cup {x})) = SumFunction(On(F, old)) + F[x]
      <4>. HIDE DEF old, t
      <4>. QED
        BY <2>1, SumOn
    <3>3. L[t] = SumFunction(On(F, {y \in B : g[y] = t}))
          /\ K[t] = SumFunction(On(F, old))
      BY <2>1 DEF ByKind
    <3>. QED
      BY <3>1, <3>2, <3>3
  <2>4. K \in [T -> Int] /\ L \in [T -> Int]
    BY <1>0, <2>1
  <2>. HIDE DEF K, L, t
  <2>5. SumFunction(L) = SumFunction(K) + (L[t] - K[t])
    BY <2>1, <2>2, <2>4, SumChange
  <2>6. SumFunction(On(F, B)) = SumFunction(On(F, A)) + F[x]
    BY SumOn
  <2>7. SumFunction(On(F, A)) = SumFunction(K)
    BY <1>2 DEF K
  <2>8. PICK k \in Int, fx \in Int, sum \in Int : k = K[t] /\ fx = F[x] /\ sum = SumFunction(K)
    BY <2>1, <2>4, SumSplit
  <2>9. SumFunction(On(F, B)) = SumFunction(L)
    BY <2>3, <2>5, <2>6, <2>7, <2>8
  <2>. QED
    BY <2>1, <2>9 DEF L
<1>3. S \in Good
  <2>. HIDE DEF Good
  <2>. QED
    BY <1>1, <1>2, SetInduction
<1>. QED
  BY <1>0, <1>3, SumOn

\* The things of I are those of S that count, under other names.
Renames(I, F, S, W, g) ==
  /\ IsFiniteSet(I) /\ IsFiniteSet(S)
  /\ F \in [I -> Int] /\ W \in [S -> Int] /\ g \in [I -> S]
  /\ \A i \in I : F[i] = W[g[i]]
  /\ \A i, j \in I : g[i] = g[j] => i = j
  /\ \A x \in S : W[x] = 0 \/ \E i \in I : g[i] = x

\* Other names make no other sum.
LEMMA SumRenamed ==
  ASSUME NEW I, NEW F, NEW S, NEW W, NEW g, Renames(I, F, S, W, g)
  PROVE  SumFunction(F) = SumFunction(W)
<1>0. /\ IsFiniteSet(I) /\ IsFiniteSet(S)
      /\ F \in [I -> Int] /\ W \in [S -> Int] /\ g \in [I -> S]
      /\ \A i \in I : F[i] = W[g[i]]
      /\ \A i, j \in I : g[i] = g[j] => i = j
      /\ \A x \in S : W[x] = 0 \/ \E i \in I : g[i] = x
  BY DEF Renames
<1>1. ASSUME NEW x \in S PROVE ByKind(F, g, I, S)[x] = W[x]
  <2>. DEFINE those == {i \in I : g[i] = x}
  <2>1. ByKind(F, g, I, S)[x] = SumFunction(On(F, those))
    BY DEF ByKind
  <2>2. CASE those = {}
    <3>1. W[x] = 0
      BY <1>0, <2>2
    <3>2. SumFunction(On(F, {})) = 0
      BY <1>0, SumOn
    <3>. QED
      BY <2>1, <2>2, <3>1, <3>2
  <2>3. CASE those # {}
    <3>1. PICK i \in I : g[i] = x
      BY <2>3
    <3>2. those = {} \cup {i} /\ F[i] = W[x]
      BY <1>0, <3>1
    <3>3. SumFunction(On(F, {} \cup {i})) = SumFunction(On(F, {})) + F[i]
      <4>1. {} \in SUBSET I /\ i \in I \ {}
        OBVIOUS
      <4>2. \A T \in SUBSET I : \A j \in I \ T :
              SumFunction(On(F, T \cup {j})) = SumFunction(On(F, T)) + F[j]
        <5>1. IsFiniteSet(I) /\ F \in [I -> Int]
          BY <1>0
        <5>. QED
          BY <5>1, SumOn
      <4>. QED
        BY <4>1, <4>2
    <3>4. SumFunction(On(F, {})) = 0
      BY <1>0, SumOn
    <3>5. PICK n \in Int : n = F[i]
      BY <1>0
    <3>6. SumFunction(On(F, {} \cup {i})) = n
      BY <3>3, <3>4, <3>5
    <3>7. On(F, those) = On(F, {} \cup {i})
      BY <3>2
    <3>. QED
      BY <2>1, <3>2, <3>5, <3>6, <3>7
  <2>. QED
    BY <2>2, <2>3
<1>2. ByKind(F, g, I, S) = W
  BY <1>0, <1>1 DEF ByKind
<1>. QED
  BY <1>0, <1>2, SumByKind

\* The sum of two things.
LEMMA SumTwo ==
  ASSUME NEW S, NEW a, NEW b, S = {a, b}, a # b, NEW F \in [S -> Int]
  PROVE  SumFunction(F) = F[a] + F[b]
<1>1. IsFiniteSet(S)
  <2>1. IsFiniteSet({a}) /\ S = {a} \cup {b}
    BY FS_Singleton
  <2>. QED
    BY <2>1, FS_AddElement
<1>2. /\ {} \in SUBSET S /\ a \in S \ {} /\ {} \cup {a} = {a} /\ {a} \in SUBSET S
      /\ b \in S \ {a} /\ {a} \cup {b} = S
  OBVIOUS
<1>3. /\ SumFunction(On(F, {})) = 0 /\ On(F, S) = F
      /\ \A T \in SUBSET S : \A x \in S \ T :
           SumFunction(On(F, T \cup {x})) = SumFunction(On(F, T)) + F[x]
  BY <1>1, SumOn
<1>4. SumFunction(On(F, {a})) = SumFunction(On(F, {})) + F[a]
  <2>1. SumFunction(On(F, {} \cup {a})) = SumFunction(On(F, {})) + F[a]
    BY <1>2, <1>3
  <2>. QED
    BY <1>2, <2>1
<1>5. SumFunction(F) = SumFunction(On(F, {a})) + F[b]
  <2>1. SumFunction(On(F, {a} \cup {b})) = SumFunction(On(F, {a})) + F[b]
    BY <1>2, <1>3
  <2>. QED
    BY <1>2, <1>3, <2>1
<1>6. PICK m \in Int, n \in Int : m = F[a] /\ n = F[b]
  OBVIOUS
<1>7. SumFunction(On(F, {a})) = m
  BY <1>3, <1>4, <1>6
<1>. QED
  BY <1>5, <1>6, <1>7

-----------------------------------------------------------------------------
(* The ledger *)

\* A set and one it is part of, with the orders of both.
Grows(S, R0, T, R) ==
  S \subseteq T /\ IsFiniteSet(T) /\ Orders(R, T) /\ R0 = R \cap (S \X S)

\* What is in order moves back when the set grows, and not at all where nothing
\* comes before it.
LEMMA OrderedGrows ==
  ASSUME NEW S, NEW R0, NEW T, NEW R, Grows(S, R0, T, R)
  PROVE  /\ \A m \in DOMAIN Ordered(S, R0) : \A n \in DOMAIN Ordered(T, R) :
              Ordered(S, R0)[m] = Ordered(T, R)[n] => m <= n
         /\ \A k \in DOMAIN Ordered(S, R0) :
              (\A y \in T \ S : <<y, Ordered(S, R0)[k]>> \notin R) =>
                \A i \in 1 .. k : /\ i \in DOMAIN Ordered(T, R)
                                  /\ Ordered(T, R)[i] = Ordered(S, R0)[i]
<1>. DEFINE O == Ordered(S, R0)
            P == Ordered(T, R)
            LessS(x) == {y \in S : <<y, x>> \in R0}
            LessT(x) == {y \in T : <<y, x>> \in R}
<1>0. S \subseteq T /\ IsFiniteSet(T) /\ Orders(R, T) /\ R0 = R \cap (S \X S)
  BY DEF Grows
<1>1. IsFiniteSet(S) /\ Orders(R0, S)
  <2>1. IsFiniteSet(S)
    BY <1>0, FS_Subset
  <2>2. \A x, y \in S : <<x, y>> \in R0 <=> <<x, y>> \in R
    BY <1>0
  <2>. QED
    BY <1>0, <2>1, <2>2 DEF Orders
<1>2. PICK M \in Nat : /\ M = Cardinality(S) /\ DOMAIN O = 1 .. M
                       /\ \A n \in 1 .. M : O[n] \in S
                       /\ \A m, n \in 1 .. M : m < n => <<O[m], O[n]>> \in R0
                       /\ \A n \in 1 .. M : Cardinality(LessS(O[n])) = n - 1
  <2>1. /\ Cardinality(S) \in Nat
        /\ DOMAIN Ordered(S, R0) = 1 .. Cardinality(S)
        /\ \A n \in 1 .. Cardinality(S) : Ordered(S, R0)[n] \in S
        /\ \A m, n \in 1 .. Cardinality(S) :
             m < n => <<Ordered(S, R0)[m], Ordered(S, R0)[n]>> \in R0
        /\ \A x \in S : \E n \in 1 .. Cardinality(S) : Ordered(S, R0)[n] = x
        /\ \A n \in 1 .. Cardinality(S) :
             Cardinality({y \in S : <<y, Ordered(S, R0)[n]>> \in R0}) = n - 1
    BY ONLY <1>1, Enumerated
  <2>. QED
    BY <2>1
<1>3. PICK N \in Nat : /\ N = Cardinality(T) /\ DOMAIN P = 1 .. N
                       /\ \A n \in 1 .. N : Cardinality(LessT(P[n])) = n - 1
                       /\ \A x \in T : \E n \in 1 .. N : P[n] = x
  <2>1. /\ Cardinality(T) \in Nat
        /\ DOMAIN Ordered(T, R) = 1 .. Cardinality(T)
        /\ \A n \in 1 .. Cardinality(T) : Ordered(T, R)[n] \in T
        /\ \A m, n \in 1 .. Cardinality(T) :
             m < n => <<Ordered(T, R)[m], Ordered(T, R)[n]>> \in R
        /\ \A x \in T : \E n \in 1 .. Cardinality(T) : Ordered(T, R)[n] = x
        /\ \A n \in 1 .. Cardinality(T) :
             Cardinality({y \in T : <<y, Ordered(T, R)[n]>> \in R}) = n - 1
    BY <1>0, Enumerated
  <2>. QED
    BY <2>1
<1>4. ASSUME NEW x \in S
      PROVE  /\ LessS(x) \subseteq LessT(x) /\ IsFiniteSet(LessT(x))
             /\ Cardinality(LessS(x)) <= Cardinality(LessT(x))
             /\ Cardinality(LessS(x)) \in Nat /\ Cardinality(LessT(x)) \in Nat
  <2>1. LessS(x) \subseteq LessT(x) /\ LessT(x) \subseteq T
    BY <1>0
  <2>2. IsFiniteSet(LessT(x))
    <3>. HIDE DEF LessT
    <3>. QED BY <1>0, <2>1, FS_Subset
  <2>. HIDE DEF LessS, LessT
  <2>. QED
    BY <2>1, <2>2, FS_Subset, FS_CardinalityType
<1>. HIDE DEF O, P, LessS, LessT
<1>5. ASSUME NEW m \in DOMAIN O, NEW n \in DOMAIN P, O[m] = P[n] PROVE m <= n
  <2>1. O[m] \in S /\ Cardinality(LessS(O[m])) = m - 1 /\ Cardinality(LessT(O[m])) = n - 1
        /\ m \in Nat /\ n \in Nat
    BY <1>2, <1>3, <1>5
  <2>2. Cardinality(LessS(O[m])) <= Cardinality(LessT(O[m]))
    BY <1>4, <2>1
  <2>. QED
    BY <2>1, <2>2
<1>6. ASSUME NEW k \in DOMAIN O, \A y \in T \ S : <<y, O[k]>> \notin R, NEW i \in 1 .. k
      PROVE  i \in DOMAIN P /\ P[i] = O[i]
  <2>1. i \in 1 .. M /\ k \in 1 .. M /\ O[i] \in S /\ O[k] \in S
    BY <1>2
  <2>2. \A y \in T \ S : <<y, O[i]>> \notin R
    <3>1. i = k \/ <<O[i], O[k]>> \in R
      <4>1. i = k \/ i < k
        BY <2>1
      <4>2. i < k => <<O[i], O[k]>> \in R0
        BY <1>2, <2>1
      <4>. QED
        BY <1>0, <4>1, <4>2
    <3>2. SUFFICES ASSUME NEW y \in T \ S, <<y, O[i]>> \in R PROVE FALSE
      OBVIOUS
    <3>3. <<y, O[k]>> \in R
      BY <1>0, <2>1, <3>1, <3>2 DEF Orders
    <3>. QED
      BY <1>6, <3>3
  <2>3. LessT(O[i]) = LessS(O[i])
    BY <1>0, <2>1, <2>2 DEF LessT, LessS
  <2>4. PICK n \in 1 .. N : P[n] = O[i]
    BY <1>0, <1>3, <2>1
  <2>5. n - 1 = i - 1
    BY <1>2, <1>3, <2>1, <2>3, <2>4
  <2>. QED
    BY <1>3, <2>1, <2>4, <2>5
<1>. QED
  BY <1>5, <1>6 DEF O, P

\* Documents that may be in the ledger.
Docs(D) == D \in SUBSET Document /\ IsFiniteSet(D)
Until(D, to) == {d \in D : d.day <= to}
LinesIn(D) == UNION {LinesOf(d) : d \in D}
EarlierIn(L) == {p \in L \X L : Earlier(p[1], p[2])}
LedgerLine == [day : Nat, key : Nat, code : Nat, source : Source,
               debit : Nat, credit : Nat]

\* The two lines of an amount.
Pair(d, in, out, n) == {Line(d, in, n, 0), Line(d, out, 0, n)}
HasGoods(d) == d.source \in {"INVOICE", "CREDIT_NOTE"} /\ d.cost # 0
\* The accounts of a document: what its amount goes to and comes from, and its goods.
In(source) ==
  CASE source = "INVOICE" -> 1100 [] source = "CREDIT_NOTE" -> 4000
    [] source = "PURCHASE" -> 1200 [] source = "CUSTOMER_PAYMENT" -> 1000
    [] source = "VENDOR_PAYMENT" -> 2000
Out(source) ==
  CASE source = "INVOICE" -> 4000 [] source = "CREDIT_NOTE" -> 1100
    [] source = "PURCHASE" -> 2000 [] source = "CUSTOMER_PAYMENT" -> 1100
    [] source = "VENDOR_PAYMENT" -> 1000
GoodsIn(source) == IF source = "INVOICE" THEN 5000 ELSE 1200
GoodsOut(source) == IF source = "INVOICE" THEN 1200 ELSE 5000

\* The lines of a document.
LEMMA DocumentLines ==
  ASSUME NEW d \in Document
  PROVE  /\ d.day \in Nat /\ d.key \in Nat /\ d.source \in Source
         /\ d.amount \in Nat \ {0} /\ d.cost \in Nat
         /\ LinesOf(d) =
              Pair(d, In(d.source), Out(d.source), d.amount)
                \cup IF HasGoods(d)
                     THEN Pair(d, GoodsIn(d.source), GoodsOut(d.source), d.cost)
                     ELSE {}
<1>1. /\ d.day \in Nat /\ d.key \in Nat /\ d.source \in Source
      /\ d.amount \in Nat \ {0} /\ d.cost \in Nat
  <2>1. Today \in Int
    <3>. DaysInMonth \in Nat /\ Months \in Nat
      BY ReportsAssumption
    <3>. QED
      BY DEF Today
  <2>. QED
    BY <2>1, ReportsAssumption
<1>2. ASSUME NEW in, NEW out, NEW e, NEW f, d.source \in {"INVOICE", "CREDIT_NOTE"},
             LinesOf(d) = {Line(d, in, d.amount, 0), Line(d, out, 0, d.amount)} \cup
               IF d.cost = 0 THEN {} ELSE {Line(d, e, d.cost, 0), Line(d, f, 0, d.cost)},
             in = In(d.source), out = Out(d.source),
             e = GoodsIn(d.source), f = GoodsOut(d.source)
      PROVE  LinesOf(d) =
              Pair(d, In(d.source), Out(d.source), d.amount)
                \cup IF HasGoods(d)
                     THEN Pair(d, GoodsIn(d.source), GoodsOut(d.source), d.cost)
                     ELSE {}
  BY <1>2 DEF Pair, HasGoods
<1>3. CASE d.source = "INVOICE"
  <2>1. LinesOf(d) = {Line(d, 1100, d.amount, 0), Line(d, 4000, 0, d.amount)} \cup
          IF d.cost = 0 THEN {} ELSE {Line(d, 5000, d.cost, 0), Line(d, 1200, 0, d.cost)}
    BY <1>3 DEF LinesOf
  <2>2. /\ In(d.source) = 1100 /\ Out(d.source) = 4000
        /\ GoodsIn(d.source) = 5000 /\ GoodsOut(d.source) = 1200
    BY <1>3 DEF In, Out, GoodsIn, GoodsOut
  <2>. QED
    BY <1>1, <1>2, <1>3, <2>1, <2>2
<1>4. CASE d.source = "CREDIT_NOTE"
  <2>1. LinesOf(d) = {Line(d, 4000, d.amount, 0), Line(d, 1100, 0, d.amount)} \cup
          IF d.cost = 0 THEN {} ELSE {Line(d, 1200, d.cost, 0), Line(d, 5000, 0, d.cost)}
    BY <1>4 DEF LinesOf
  <2>2. /\ In(d.source) = 4000 /\ Out(d.source) = 1100
        /\ GoodsIn(d.source) = 1200 /\ GoodsOut(d.source) = 5000
    BY <1>4 DEF In, Out, GoodsIn, GoodsOut
  <2>. QED
    BY <1>1, <1>2, <1>4, <2>1, <2>2
<1>5. CASE d.source = "PURCHASE"
  BY <1>1, <1>5 DEF LinesOf, In, Out, HasGoods, Pair
<1>6. CASE d.source = "CUSTOMER_PAYMENT"
  BY <1>1, <1>6 DEF LinesOf, In, Out, HasGoods, Pair
<1>7. CASE d.source = "VENDOR_PAYMENT"
  BY <1>1, <1>7 DEF LinesOf, In, Out, HasGoods, Pair
<1>. QED
  BY <1>1, <1>3, <1>4, <1>5, <1>6, <1>7 DEF Source

\* The codes of a document's lines are different.
LEMMA DifferentCodes ==
  ASSUME NEW s \in Source
  PROVE  /\ In(s) # Out(s) /\ In(s) \in Nat /\ Out(s) \in Nat
         /\ GoodsIn(s) # GoodsOut(s) /\ GoodsIn(s) \in Nat /\ GoodsOut(s) \in Nat
         /\ s \in {"INVOICE", "CREDIT_NOTE"} =>
              {In(s), Out(s)} \cap {GoodsIn(s), GoodsOut(s)} = {}
BY DEF Source, In, Out, GoodsIn, GoodsOut

\* A line is told by its document and its code.
LEMMA LinesTyped ==
  ASSUME NEW d \in Document
  PROVE  /\ IsFiniteSet(LinesOf(d))
         /\ \A x \in LinesOf(d) : /\ x \in LedgerLine
                                  /\ x.day = d.day /\ x.key = d.key /\ x.source = d.source
         /\ \A x, y \in LinesOf(d) : x.code = y.code => x = y
<1>. DEFINE s == d.source
<1>1. /\ d.day \in Nat /\ d.key \in Nat /\ s \in Source
      /\ d.amount \in Nat /\ d.cost \in Nat
      /\ LinesOf(d) = Pair(d, In(s), Out(s), d.amount)
           \cup IF HasGoods(d) THEN Pair(d, GoodsIn(s), GoodsOut(s), d.cost) ELSE {}
  BY DocumentLines
<1>2. /\ In(s) # Out(s) /\ In(s) \in Nat /\ Out(s) \in Nat
      /\ GoodsIn(s) # GoodsOut(s) /\ GoodsIn(s) \in Nat /\ GoodsOut(s) \in Nat
      /\ s \in {"INVOICE", "CREDIT_NOTE"} =>
           {In(s), Out(s)} \cap {GoodsIn(s), GoodsOut(s)} = {}
  BY <1>1, DifferentCodes
<1>3. ASSUME NEW a \in Nat, NEW b \in Nat, NEW n \in Nat
      PROVE  /\ IsFiniteSet(Pair(d, a, b, n))
             /\ \A x \in Pair(d, a, b, n) : /\ x \in LedgerLine /\ x.code \in {a, b}
                                            /\ x.day = d.day /\ x.key = d.key
                                            /\ x.source = s
             /\ a # b => \A x, y \in Pair(d, a, b, n) : x.code = y.code => x = y
  <2>1. Pair(d, a, b, n) = {Line(d, a, n, 0)} \cup {Line(d, b, 0, n)}
    BY DEF Pair
  <2>2. IsFiniteSet(Pair(d, a, b, n))
    <3>1. IsFiniteSet({Line(d, a, n, 0)})
      BY FS_Singleton
    <3>. QED
      BY <2>1, <3>1, FS_AddElement
  <2>3. \A x \in Pair(d, a, b, n) :
          /\ x \in LedgerLine /\ x.code \in {a, b}
          /\ x.day = d.day /\ x.key = d.key /\ x.source = s
    BY <1>1, <2>1 DEF Line, LedgerLine
  <2>4. a # b => \A x, y \in Pair(d, a, b, n) : x.code = y.code => x = y
    BY <2>1 DEF Line
  <2>. QED
    BY <2>2, <2>3, <2>4
<1>4. PICK A, G : /\ A = Pair(d, In(s), Out(s), d.amount)
                  /\ G = IF HasGoods(d) THEN Pair(d, GoodsIn(s), GoodsOut(s), d.cost) ELSE {}
  OBVIOUS
<1>5. /\ IsFiniteSet(A) /\ \A x, y \in A : x.code = y.code => x = y
      /\ \A x \in A : /\ x \in LedgerLine /\ x.code \in {In(s), Out(s)}
                      /\ x.day = d.day /\ x.key = d.key /\ x.source = s
  BY <1>1, <1>2, <1>3, <1>4
<1>6. /\ IsFiniteSet(G) /\ \A x, y \in G : x.code = y.code => x = y
      /\ \A x \in G : /\ x \in LedgerLine /\ x.code \in {GoodsIn(s), GoodsOut(s)}
                      /\ x.day = d.day /\ x.key = d.key /\ x.source = s
                      /\ s \in {"INVOICE", "CREDIT_NOTE"}
  BY <1>1, <1>2, <1>3, <1>4, FS_EmptySet DEF HasGoods
<1>7. LinesOf(d) = A \cup G /\ IsFiniteSet(A \cup G)
  BY <1>1, <1>4, <1>5, <1>6, FS_Union
<1>8. \A x, y \in LinesOf(d) : x.code = y.code => x = y
  BY <1>2, <1>5, <1>6, <1>7
<1>. QED
  BY <1>5, <1>6, <1>7, <1>8

\* Lines of different documents, or of one, are in order.
LEMMA EarlierOrders ==
  ASSUME NEW D \in SUBSET Document
  PROVE  Orders(EarlierIn(LinesIn(D)), LinesIn(D))
<1>. DEFINE L == LinesIn(D)
<1>1. \A x \in L : x \in LedgerLine /\ \E d \in D : x \in LinesOf(d) /\ x.key = d.key
  BY LinesTyped DEF LinesIn
<1>2. \A x, y \in L : /\ x.day \in Nat /\ x.key \in Nat /\ x.code \in Nat
                      /\ y.day \in Nat /\ y.key \in Nat /\ y.code \in Nat
  BY <1>1 DEF LedgerLine
<1>3. ASSUME NEW x \in L, NEW y \in L, x.day = y.day, x.key = y.key, x.code = y.code
      PROVE  x = y
  <2>1. PICK d \in D, e \in D : /\ x \in LinesOf(d) /\ x.key = d.key
                                /\ y \in LinesOf(e) /\ y.key = e.key
    BY <1>1
  <2>2. d = e
    BY <1>3, <2>1, ReportsAssumption
  <2>. QED
    BY <1>3, <2>1, <2>2, LinesTyped
<1>. HIDE DEF L
<1>4. \A x, y \in L : <<x, y>> \in EarlierIn(L) <=> Earlier(x, y)
  BY DEF EarlierIn
<1>5. \A x \in L : ~Earlier(x, x)
  BY <1>2 DEF Earlier
<1>6. \A x, y \in L : x = y \/ Earlier(x, y) \/ Earlier(y, x)
  BY <1>2, <1>3 DEF Earlier
<1>7. \A x, y, z \in L : Earlier(x, y) /\ Earlier(y, z) => Earlier(x, z)
  BY <1>2 DEF Earlier
<1>8. Orders(EarlierIn(L), L)
  BY <1>4, <1>5, <1>6, <1>7 DEF Orders
<1>. QED
  BY <1>8 DEF L

\* The lines of finitely many documents are finitely many.
LEMMA LinesFinite == ASSUME NEW D, Docs(D) PROVE IsFiniteSet(LinesIn(D))
<1>. DEFINE Good == {T \in SUBSET D : IsFiniteSet(LinesIn(T))}
<1>1. {} \in Good
  BY FS_EmptySet DEF LinesIn
<1>2. ASSUME NEW T \in SUBSET D, NEW x \in D \ T, T \in Good PROVE T \cup {x} \in Good
  <2>1. LinesIn(T \cup {x}) = LinesIn(T) \cup LinesOf(x)
    BY DEF LinesIn
  <2>2. IsFiniteSet(LinesIn(T)) /\ IsFiniteSet(LinesOf(x))
    BY <1>2, LinesTyped DEF Docs
  <2>. QED
    BY <2>1, <2>2, FS_Union
<1>3. D \in Good
  <2>. HIDE DEF Good
  <2>. QED
    BY <1>1, <1>2, SetInduction DEF Docs
<1>. QED
  BY <1>3

\* A ledger has each line of its documents once.
LEMMA LedgerOf ==
  ASSUME NEW D, Docs(D), NEW to
  PROVE  LET G == Ledger(D, to)
             L == LinesIn(Until(D, to)) IN
         /\ G = Ordered(L, EarlierIn(L)) /\ Docs(Until(D, to)) /\ IsFiniteSet(L)
         /\ G \in Seq(LedgerLine) /\ Len(G) \in Nat /\ DOMAIN G = 1 .. Len(G)
         /\ Len(G) = Cardinality(L)
         /\ \A n \in DOMAIN G : G[n] \in L
         /\ \A x \in L : \E n \in DOMAIN G : G[n] = x
         /\ \A m, n \in DOMAIN G : G[m] = G[n] => m = n
<1>. DEFINE L == LinesIn(Until(D, to))
            R == EarlierIn(L)
            G == Ledger(D, to)
            N == Cardinality(L)
<1>1. Docs(Until(D, to))
  <2>1. Until(D, to) \in SUBSET D
    BY DEF Until
  <2>. QED
    BY <2>1, FS_Subset DEF Docs
<1>2. G = Ordered(L, R)
  BY DEF Ledger, LinesIn, Until, EarlierIn
<1>3. IsFiniteSet(L) /\ Orders(R, L)
  BY <1>1, LinesFinite, EarlierOrders DEF Docs
<1>. HIDE DEF R, L, G
<1>4. /\ N \in Nat /\ DOMAIN Ordered(L, R) = 1 .. N
      /\ \A n \in 1 .. N : Ordered(L, R)[n] \in L
      /\ \A m, n \in 1 .. N : m < n => <<Ordered(L, R)[m], Ordered(L, R)[n]>> \in R
      /\ \A x \in L : \E n \in 1 .. N : Ordered(L, R)[n] = x
  BY <1>3, Enumerated
<1>5. /\ N \in Nat /\ DOMAIN G = 1 .. N /\ \A n \in 1 .. N : G[n] \in L
      /\ \A m, n \in 1 .. N : m < n => <<G[m], G[n]>> \in R
      /\ \A x \in L : \E n \in 1 .. N : G[n] = x
  BY <1>2, <1>4
<1>6. L \subseteq LedgerLine
  BY <1>1, LinesTyped DEF L, LinesIn, Docs
<1>7. G \in Seq(LedgerLine) /\ Len(G) = N
  <2>1. G = [n \in 1 .. N |-> G[n]]
    BY <1>2, <1>5 DEF Ordered
  <2>2. G \in [1 .. N -> LedgerLine]
    BY <1>5, <1>6, <2>1
  <2>. QED
    BY <1>5, <2>2
<1>8. \A m, n \in 1 .. N : G[m] = G[n] => m = n
  <2>1. \A m, n \in 1 .. N : m < n => G[m] # G[n]
    BY <1>3, <1>5 DEF Orders
  <2>. QED
    BY <1>5, <2>1
<1>. QED
  BY <1>1, <1>2, <1>3, <1>5, <1>7, <1>8 DEF G, L, R

\* What a document that is posted does to a ledger: its lines stay, none comes
\* earlier than it did, and up to where none of the new ones is they are the same.
GrownLedger(D, d, to) ==
  LET G == Ledger(D, to)
      H == Ledger(D \cup {d}, to) IN
  /\ LinesIn(Until(D, to)) \subseteq LinesIn(Until(D \cup {d}, to))
  /\ Len(G) <= Len(H)
  /\ \A m \in DOMAIN G : \A n \in DOMAIN H : G[m] = H[n] => m <= n
  /\ \A k \in DOMAIN G :
       ~(\E x \in LinesOf(d) : Earlier(x, G[k])) =>
         \A i \in 1 .. k : i \in DOMAIN H /\ H[i] = G[i]

\* A document more leaves the ledger before it as it was.
LEMMA LedgerGrows ==
  ASSUME NEW D, Docs(D), NEW d \in Document, NEW to
  PROVE  Docs(D \cup {d}) /\ GrownLedger(D, d, to)
<1>. DEFINE G == Ledger(D, to)
            H == Ledger(D \cup {d}, to)
            L == LinesIn(Until(D, to))
            M == LinesIn(Until(D \cup {d}, to))
<1>1. Docs(D \cup {d})
  BY FS_AddElement DEF Docs
<1>2. L \subseteq M /\ M \ L \subseteq LinesOf(d)
  BY DEF LinesIn, Until
<1>3. /\ G = Ordered(L, EarlierIn(L)) /\ IsFiniteSet(L) /\ Len(G) = Cardinality(L)
      /\ DOMAIN G = 1 .. Len(G) /\ \A n \in DOMAIN G : G[n] \in L
  BY LedgerOf
<1>4. /\ H = Ordered(M, EarlierIn(M)) /\ IsFiniteSet(M) /\ Len(H) = Cardinality(M)
      /\ Docs(Until(D \cup {d}, to))
  BY <1>1, LedgerOf
<1>5. Orders(EarlierIn(M), M)
  BY <1>4, EarlierOrders DEF Docs
<1>. HIDE DEF G, H, L, M
<1>6. Len(G) <= Len(H)
  BY <1>2, <1>3, <1>4, FS_Subset
<1>7. EarlierIn(L) = EarlierIn(M) \cap (L \X L)
  BY <1>2 DEF EarlierIn
<1>8. PICK R0, R1 : R0 = EarlierIn(L) /\ R1 = EarlierIn(M)
  OBVIOUS
<1>9. /\ \A m \in DOMAIN Ordered(L, R0) : \A n \in DOMAIN Ordered(M, R1) :
            Ordered(L, R0)[m] = Ordered(M, R1)[n] => m <= n
      /\ \A k \in DOMAIN Ordered(L, R0) :
            (\A y \in M \ L : <<y, Ordered(L, R0)[k]>> \notin R1) =>
              \A i \in 1 .. k : /\ i \in DOMAIN Ordered(M, R1)
                                /\ Ordered(M, R1)[i] = Ordered(L, R0)[i]
  <2>1. Grows(L, R0, M, R1)
    BY <1>2, <1>4, <1>5, <1>7, <1>8 DEF Grows
  <2>. QED
    BY <2>1, OrderedGrows
<1>10. /\ \A m \in DOMAIN G : \A n \in DOMAIN H : G[m] = H[n] => m <= n
       /\ \A k \in DOMAIN G : (\A y \in M \ L : <<y, G[k]>> \notin EarlierIn(M)) =>
            \A i \in 1 .. k : i \in DOMAIN H /\ H[i] = G[i]
  BY <1>3, <1>4, <1>8, <1>9
<1>11. ASSUME NEW k \in DOMAIN G, ~(\E x \in LinesOf(d) : Earlier(x, G[k]))
       PROVE  \A i \in 1 .. k : i \in DOMAIN H /\ H[i] = G[i]
  <2>1. \A y \in M \ L : <<y, G[k]>> \notin EarlierIn(M)
    BY <1>2, <1>11 DEF EarlierIn
  <2>. QED
    BY <1>10, <2>1
<1>. QED
  BY <1>1, <1>2, <1>6, <1>10, <1>11 DEF G, H, L, M, GrownLedger

-----------------------------------------------------------------------------
(* A ledger that is read *)

ReportFields == {"of", "what", "place", "part", "period", "stage", "lines", "first",
                 "shifted", "truth"}
Read(r) == {r.lines[n] : n \in DOMAIN r.lines}
First(r) == {r.first[n] : n \in DOMAIN r.first}

\* A report that was asked for a period.
Asked(r) ==
  /\ DOMAIN r = ReportFields /\ r.what = "report" /\ r.of \in Nat
  /\ r.period.from \in Nat /\ r.period.to \in Nat
  /\ r.lines \in Seq(LedgerLine)

\* What was read is the beginning of the ledger, unless it was shifted; and what
\* is there now instead was not there when the report was asked for.
Partly(r, D) ==
  LET G == Ledger(D, r.period.to) IN
  /\ First(r) \subseteq LinesIn(Until(D, r.period.to))
  /\ Len(r.lines) <= Len(G)
  /\ \A n \in 1 .. Len(r.lines) : G[n] \in First(r) => G[n] \in Read(r)
  /\ ~r.shifted => \A n \in 1 .. Len(r.lines) : r.lines[n] = G[n]

\* What was read is the ledger of the documents it says.
Fully(r) ==
  /\ First(r) \subseteq Read(r)
  /\ ~r.shifted => Docs(r.truth) /\ r.lines = Ledger(r.truth, r.period.to)

\* The page of a ledger that comes after what was read.
NextPage(G, n) == SubSeq(G, n + 1, IF n + LedgerPage < Len(G) THEN n + LedgerPage
                                   ELSE Len(G))

\* A page that is read goes on with it.
LEMMA PageRead ==
  ASSUME NEW G \in Seq(LedgerLine), NEW lines \in Seq(LedgerLine), Len(lines) <= Len(G)
  PROVE  LET rows == NextPage(G, Len(lines))
             all == lines \o rows IN
         /\ all \in Seq(LedgerLine) /\ Len(lines) <= Len(all) /\ Len(all) <= Len(G)
         /\ \A n \in 1 .. Len(lines) : all[n] = lines[n]
         /\ \A n \in 1 .. Len(all) : n > Len(lines) => all[n] = G[n]
         /\ Len(rows) < LedgerPage => Len(all) = Len(G)
<1>. DEFINE end == IF Len(lines) + LedgerPage < Len(G) THEN Len(lines) + LedgerPage
                   ELSE Len(G)
            rows == SubSeq(G, Len(lines) + 1, end)
            all == lines \o rows
<1>1. Len(lines) \in Nat /\ Len(G) \in Nat /\ LedgerPage \in Nat \ {0}
  BY ReportsAssumption
<1>2. end \in Nat /\ Len(lines) <= end /\ end <= Len(G)
  BY <1>1
<1>3. Len(lines) + LedgerPage < Len(G) => end = Len(lines) + LedgerPage
  OBVIOUS
<1>4. ~(Len(lines) + LedgerPage < Len(G)) => end = Len(G)
  OBVIOUS
<1>. HIDE DEF end
<1>5. /\ rows \in Seq(LedgerLine) /\ Len(rows) = end - Len(lines)
      /\ \A n \in 1 .. Len(rows) : rows[n] = G[Len(lines) + n]
  <2>1. \A n \in (Len(lines) + 1) .. end : n \in 1 .. Len(G) /\ G[n] \in LedgerLine
    BY <1>1, <1>2
  <2>. QED
    BY <1>1, <1>2, <2>1
<1>. HIDE DEF rows
<1>6. /\ all \in Seq(LedgerLine) /\ Len(all) = end
      /\ \A n \in 1 .. Len(lines) : all[n] = lines[n]
      /\ \A n \in 1 .. end : n > Len(lines) => all[n] = rows[n - Len(lines)]
  BY <1>1, <1>2, <1>5
<1>7. \A n \in 1 .. end : n > Len(lines) => all[n] = G[n]
  <2>1. \A n \in 1 .. end : n > Len(lines) =>
          n - Len(lines) \in 1 .. Len(rows) /\ Len(lines) + (n - Len(lines)) = n
    BY <1>1, <1>2, <1>5
  <2>. QED
    BY <1>5, <1>6, <2>1
<1>8. Len(rows) < LedgerPage => end = Len(G)
  BY <1>1, <1>2, <1>3, <1>4, <1>5
<1>. HIDE DEF all
<1>. QED
  BY <1>2, <1>6, <1>7, <1>8 DEF all, rows, end, NextPage

\* A read that gets a page.
Gets(r, D, s) ==
  LET rows == NextPage(Ledger(D, r.period.to), Len(r.lines)) IN
  s = [r EXCEPT !.lines = @ \o rows, !.truth = D,
                !.stage = IF Len(rows) < LedgerPage THEN "answered" ELSE @]

\* A report goes on with a page.
LEMMA PageGot ==
  ASSUME NEW r, Asked(r), NEW D, Docs(D), Partly(r, D), NEW s, Gets(r, D, s)
  PROVE  /\ Asked(s) /\ s.of = r.of /\ s.place = r.place /\ s.part = r.part
         /\ s.period = r.period /\ s.shifted = r.shifted
         /\ s.stage \in {r.stage, "answered"}
         /\ Partly(s, D)
         /\ s.stage = "answered" /\ r.stage # "answered" => Fully(s)
<1>. DEFINE G == Ledger(D, r.period.to)
            L == LinesIn(Until(D, r.period.to))
            rows == NextPage(G, Len(r.lines))
            all == r.lines \o rows
<1>1. /\ G \in Seq(LedgerLine) /\ Len(G) \in Nat /\ DOMAIN G = 1 .. Len(G)
      /\ \A n \in DOMAIN G : G[n] \in L
      /\ \A x \in L : \E n \in DOMAIN G : G[n] = x
  BY LedgerOf
<1>2. /\ DOMAIN s = ReportFields /\ s.what = "report" /\ s.of = r.of
      /\ s.place = r.place /\ s.part = r.part /\ s.period = r.period
      /\ s.shifted = r.shifted /\ s.first = r.first
      /\ s.lines = all /\ s.truth = D
      /\ s.stage = IF Len(rows) < LedgerPage THEN "answered" ELSE r.stage
  BY DEF Gets, Asked, ReportFields
<1>3. /\ First(r) \subseteq L /\ Len(r.lines) <= Len(G)
      /\ \A n \in 1 .. Len(r.lines) : G[n] \in First(r) => G[n] \in Read(r)
      /\ ~r.shifted => \A n \in 1 .. Len(r.lines) : r.lines[n] = G[n]
  BY DEF Partly
<1>4. r.lines \in Seq(LedgerLine) /\ r.of \in Nat
      /\ r.period.from \in Nat /\ r.period.to \in Nat
  BY DEF Asked
<1>. HIDE DEF G, L
<1>5. /\ all \in Seq(LedgerLine) /\ Len(r.lines) <= Len(all) /\ Len(all) <= Len(G)
      /\ \A n \in 1 .. Len(r.lines) : all[n] = r.lines[n]
      /\ \A n \in 1 .. Len(all) : n > Len(r.lines) => all[n] = G[n]
      /\ Len(rows) < LedgerPage => Len(all) = Len(G)
  BY <1>1, <1>3, <1>4, PageRead
<1>. HIDE DEF rows, all
<1>6. /\ Len(all) \in Nat /\ DOMAIN all = 1 .. Len(all)
      /\ Len(r.lines) \in Nat /\ DOMAIN r.lines = 1 .. Len(r.lines)
  BY <1>4, <1>5
<1>7. First(s) = First(r)
  BY <1>2 DEF First
<1>8. Read(s) = {all[n] : n \in 1 .. Len(all)}
  BY <1>2, <1>6 DEF Read
<1>9. Read(r) \subseteq Read(s)
  <2>1. \A n \in 1 .. Len(r.lines) : n \in 1 .. Len(all) /\ r.lines[n] = all[n]
    BY <1>5, <1>6
  <2>. QED
    BY <1>6, <1>8, <2>1 DEF Read
<1>10. \A n \in 1 .. Len(all) : G[n] \in First(s) => G[n] \in Read(s)
  <2>1. SUFFICES ASSUME NEW n \in 1 .. Len(all), G[n] \in First(s) PROVE G[n] \in Read(s)
    OBVIOUS
  <2>2. CASE n > Len(r.lines)
    BY <1>5, <1>8, <2>2
  <2>3. CASE ~(n > Len(r.lines))
    <3>1. n \in 1 .. Len(r.lines)
      BY <1>6, <2>3
    <3>. QED
      BY <1>3, <1>7, <1>9, <2>1, <3>1
  <2>. QED
    BY <2>2, <2>3
<1>11. ~s.shifted => \A n \in 1 .. Len(all) : all[n] = G[n]
  <2>1. SUFFICES ASSUME ~s.shifted, NEW n \in 1 .. Len(all) PROVE all[n] = G[n]
    OBVIOUS
  <2>2. n > Len(r.lines) \/ n \in 1 .. Len(r.lines)
    BY <1>6
  <2>. QED
    BY <1>2, <1>3, <1>5, <2>1, <2>2
<1>12. Partly(s, D)
  BY <1>2, <1>3, <1>5, <1>7, <1>10, <1>11 DEF Partly, G, L
<1>13. ASSUME s.stage = "answered", r.stage # "answered" PROVE Fully(s)
  <2>1. Len(all) = Len(G)
    BY <1>2, <1>5, <1>13
  <2>2. First(s) \subseteq Read(s)
    BY <1>1, <1>3, <1>7, <1>10, <2>1
  <2>3. ~s.shifted => all = G
    <3>1. all = [n \in 1 .. Len(all) |-> all[n]] /\ G = [n \in 1 .. Len(G) |-> G[n]]
      BY <1>1, <1>5
    <3>. QED
      BY <1>11, <2>1, <3>1
  <2>. QED
    BY <1>2, <2>2, <2>3 DEF Fully, G
<1>14. Asked(s)
  BY <1>2, <1>4, <1>5 DEF Asked
<1>. QED
  BY <1>2, <1>12, <1>13, <1>14

\* A document that is posted where a ledger was read shifts it.
Notes(r, d, s) ==
  s = IF r.what = "report" /\ r.lines # <<>>
           /\ \E x \in LinesOf(d) : Earlier(x, Last(r.lines))
      THEN [r EXCEPT !.shifted = TRUE] ELSE r

\* A report goes on with a document that is posted.
LEMMA DocumentNoted ==
  ASSUME NEW r, Asked(r), NEW D, Docs(D), NEW d \in Document, NEW s, Notes(r, d, s)
  PROVE  /\ Asked(s) /\ s.of = r.of /\ s.place = r.place /\ s.part = r.part
         /\ s.period = r.period /\ s.stage = r.stage
         /\ Fully(r) => Fully(s)
         /\ Partly(r, D) => Partly(s, D \cup {d})
<1>1. /\ DOMAIN s = ReportFields /\ s.what = "report" /\ s.of = r.of
      /\ s.place = r.place /\ s.part = r.part /\ s.period = r.period
      /\ s.stage = r.stage /\ s.lines = r.lines /\ s.first = r.first
      /\ s.truth = r.truth /\ (~s.shifted => s = r)
  BY DEF Notes, Asked, ReportFields
<1>2. Asked(s) /\ First(s) = First(r) /\ Read(s) = Read(r)
  BY <1>1 DEF Asked, First, Read
<1>3. Fully(r) => Fully(s)
  BY <1>1, <1>2 DEF Fully
<1>4. ASSUME Partly(r, D) PROVE Partly(s, D \cup {d})
  <2>. DEFINE G == Ledger(D, r.period.to)
              H == Ledger(D \cup {d}, r.period.to)
              L == LinesIn(Until(D, r.period.to))
              M == LinesIn(Until(D \cup {d}, r.period.to))
  <2>1. /\ Docs(D \cup {d}) /\ L \subseteq M /\ Len(G) <= Len(H)
        /\ \A m \in DOMAIN G : \A n \in DOMAIN H : G[m] = H[n] => m <= n
        /\ \A k \in DOMAIN G :
             ~(\E x \in LinesOf(d) : Earlier(x, G[k])) =>
               \A i \in 1 .. k : i \in DOMAIN H /\ H[i] = G[i]
    <3>1. Docs(D \cup {d}) /\ GrownLedger(D, d, r.period.to)
      BY LedgerGrows
    <3>. QED
      BY <3>1 DEF GrownLedger
  <2>2. /\ Len(G) \in Nat /\ DOMAIN G = 1 .. Len(G) /\ \A x \in L : \E n \in DOMAIN G : G[n] = x
    BY LedgerOf
  <2>3. Len(H) \in Nat /\ DOMAIN H = 1 .. Len(H)
    BY <2>1, LedgerOf
  <2>4. /\ First(r) \subseteq L /\ Len(r.lines) <= Len(G)
        /\ \A n \in 1 .. Len(r.lines) : G[n] \in First(r) => G[n] \in Read(r)
        /\ ~r.shifted => \A n \in 1 .. Len(r.lines) : r.lines[n] = G[n]
    BY <1>4 DEF Partly
  <2>5. Len(r.lines) \in Nat /\ DOMAIN r.lines = 1 .. Len(r.lines)
        /\ r.lines \in Seq(LedgerLine)
    BY DEF Asked
  <2>. HIDE DEF G, H, L, M
  <2>6. ASSUME NEW n \in 1 .. Len(r.lines), H[n] \in First(r) PROVE H[n] \in Read(r)
    <3>1. PICK m \in DOMAIN G : G[m] = H[n]
      BY <2>2, <2>4, <2>6
    <3>2. n \in DOMAIN H
      BY <2>1, <2>2, <2>3, <2>4, <2>5
    <3>3. m <= n
      BY <2>1, <3>1, <3>2
    <3>4. m \in 1 .. Len(r.lines)
      BY <2>2, <2>5, <3>1, <3>3
    <3>. QED
      BY <2>4, <2>6, <3>1, <3>4
  <2>7. ASSUME ~s.shifted, NEW n \in 1 .. Len(r.lines) PROVE r.lines[n] = H[n]
    <3>. DEFINE k == Len(r.lines)
    <3>1. k \in DOMAIN G /\ r.lines # <<>> /\ n \in 1 .. k /\ k \in 1 .. k
      BY <2>2, <2>4, <2>5
    <3>2. s = r /\ ~r.shifted
      BY <1>1, <2>7
    <3>3. Last(r.lines) = G[k]
      BY <2>4, <3>1, <3>2 DEF Last
    <3>4. ~(\E x \in LinesOf(d) : Earlier(x, Last(r.lines)))
      <4>1. r.what = "report"
        BY DEF Asked
      <4>2. SUFFICES ASSUME \E x \in LinesOf(d) : Earlier(x, Last(r.lines)) PROVE FALSE
        OBVIOUS
      <4>3. s = [r EXCEPT !.shifted = TRUE]
        BY <3>1, <4>1, <4>2 DEF Notes
      <4>4. s.shifted = TRUE
        BY <4>3 DEF Asked, ReportFields
      <4>. QED
        BY <2>7, <4>4
    <3>5. H[n] = G[n]
      BY <2>1, <3>1, <3>3, <3>4
    <3>. QED
      BY <2>4, <3>2, <3>5
  <2>8. Len(r.lines) <= Len(H)
    BY <2>1, <2>2, <2>3, <2>4, <2>5
  <2>. QED
    BY <1>1, <1>2, <2>1, <2>4, <2>6, <2>7, <2>8 DEF Partly, H, L, M
<1>. QED
  BY <1>1, <1>2, <1>3, <1>4

-----------------------------------------------------------------------------
(* Movements that are read *)

StockFields == {"of", "what", "place", "part", "stage", "got", "cursor", "first", "quiet"}
Got(r) == {r.got[n] : n \in DOMAIN r.got}

\* What was read goes down to the cursor.  What was committed when the first page
\* was read is among it, so far; if nothing was open then, nothing else is.
StockReading(r, M, O) ==
  /\ r.cursor \in Nat /\ \A i \in Got(r) : r.cursor <= i
  /\ r.first \subseteq DOMAIN M \ O
  /\ \A i \in r.first : r.cursor <= i => i \in Got(r)
  /\ r.quiet => /\ Got(r) \subseteq r.first
                /\ \A i \in 1 .. r.cursor : i \in r.first
StockIs(r, M, O) ==
  /\ DOMAIN r = StockFields /\ r.what = "stock" /\ r.of = 0 /\ r.place = "stock"
  /\ r.got \in Seq(Nat) /\ Got(r) \subseteq DOMAIN M
  /\ \A m, n \in DOMAIN r.got : m < n => r.got[m] > r.got[n]
  /\ r.stage = "reading" => IF r.cursor = None THEN r.got = <<>> ELSE StockReading(r, M, O)
  /\ r.stage = "answered" =>
       /\ r.first \subseteq Got(r)
       /\ r.quiet => Got(r) \subseteq r.first

\* Movements that are recorded, or committed, are none that were read.
LEMMA StockKept ==
  ASSUME NEW r, NEW M, NEW O, StockIs(r, M, O), NEW N, NEW P,
         DOMAIN M \subseteq DOMAIN N, P \cap DOMAIN M \subseteq O
  PROVE  StockIs(r, N, P)
BY DEF StockIs, StockReading

\* What GET /stock reads next.
Older(r, M, O) == {i \in DOMAIN M \ O : r.cursor = None \/ i < r.cursor}
Newest(ids) == SubSeq(ids, 1, IF Len(ids) < StockPage THEN Len(ids) ELSE StockPage)
GetsStock(r, M, O, s) ==
  LET older == Older(r, M, O)
      ids == Ordered(older, {p \in older \X older : p[1] > p[2]}) IN
  s = [r EXCEPT
         !.got = @ \o Newest(ids),
         !.first = IF r.cursor = None THEN DOMAIN M \ O ELSE @,
         !.quiet = IF r.cursor = None THEN O = {} ELSE @,
         !.cursor = IF Newest(ids) = <<>> THEN @ ELSE Last(Newest(ids)),
         !.stage = IF Len(ids) > StockPage THEN @ ELSE "answered"]

\* What is in order is a function.
LEMMA OrderedShape ==
  ASSUME NEW S, NEW R
  PROVE  Ordered(S, R) = [n \in DOMAIN Ordered(S, R) |-> Ordered(S, R)[n]]
<1>. DEFINE at(n) == CHOOSE x \in S : Cardinality({y \in S : <<y, x>> \in R}) = n - 1
<1>1. PICK O : O = Ordered(S, R)
  OBVIOUS
<1>2. O = [n \in 1 .. Cardinality(S) |-> at(n)]
  BY <1>1 DEF Ordered
<1>. HIDE DEF at
<1>3. O = [n \in DOMAIN O |-> O[n]]
  BY <1>2
<1>. QED
  BY <1>1, <1>3

\* Movements in order, newest first.
LEMMA NewestFirst ==
  ASSUME NEW S \in SUBSET Nat, IsFiniteSet(S)
  PROVE  LET ids == Ordered(S, {p \in S \X S : p[1] > p[2]}) IN
         /\ ids \in Seq(Nat) /\ Len(ids) \in Nat /\ DOMAIN ids = 1 .. Len(ids)
         /\ \A n \in 1 .. Len(ids) : ids[n] \in S
         /\ \A m, n \in 1 .. Len(ids) : m < n => ids[m] > ids[n]
         /\ \A i \in S : \E n \in 1 .. Len(ids) : ids[n] = i
<1>. DEFINE R == {p \in S \X S : p[1] > p[2]}
            ids == Ordered(S, R)
            N == Cardinality(S)
<1>1. Orders(R, S)
  BY DEF Orders
<1>2. \A x, y \in S : <<x, y>> \in R <=> x > y
  OBVIOUS
<1>. HIDE DEF R
<1>3. /\ N \in Nat /\ DOMAIN ids = 1 .. N
      /\ \A n \in 1 .. N : ids[n] \in S
      /\ \A m, n \in 1 .. N : m < n => <<ids[m], ids[n]>> \in R
      /\ \A x \in S : \E n \in 1 .. N : ids[n] = x
  BY <1>1, Enumerated
<1>4. ids = [n \in 1 .. N |-> ids[n]]
  <2>1. ids = [n \in DOMAIN ids |-> ids[n]]
    BY OrderedShape
  <2>. HIDE DEF ids, N
  <2>. QED
    BY <1>3, <2>1
<1>. HIDE DEF ids, N
<1>5. ids \in Seq(Nat) /\ Len(ids) = N
  <2>1. ids \in [1 .. N -> Nat]
    BY <1>3, <1>4
  <2>. QED
    BY <1>3, <2>1
<1>6. \A m, n \in 1 .. N : m < n => ids[m] > ids[n]
  BY <1>2, <1>3
<1>. QED
  BY <1>3, <1>5, <1>6 DEF ids, R

\* A page of movements goes on with what was read.
LEMMA StockGot ==
  ASSUME NEW M, Len(M) \in Nat, DOMAIN M = 1 .. Len(M), NEW O,
         NEW r, StockIs(r, M, O), r.stage = "reading", NEW s, GetsStock(r, M, O, s)
  PROVE  StockIs(s, M, O)
<1>. DEFINE older == Older(r, M, O)
            ids == Ordered(older, {p \in older \X older : p[1] > p[2]})
            rows == Newest(ids)
            N == Len(ids)
            all == r.got \o rows
            Committing == DOMAIN M \ O
<1>1. older \in SUBSET Nat /\ IsFiniteSet(older)
  <2>1. IsFiniteSet(1 .. Len(M)) /\ older \in SUBSET (1 .. Len(M)) /\ 1 .. Len(M) \subseteq Nat
    BY FS_Interval DEF Older
  <2>. HIDE DEF older
  <2>. QED
    BY <2>1, FS_Subset
<1>2. /\ ids \in Seq(Nat) /\ N \in Nat /\ DOMAIN ids = 1 .. N
      /\ \A n \in 1 .. N : ids[n] \in older
      /\ \A m, n \in 1 .. N : m < n => ids[m] > ids[n]
      /\ \A i \in older : \E n \in 1 .. N : ids[n] = i
  <2>. HIDE DEF older
  <2>. QED
    BY <1>1, NewestFirst
<1>3. /\ DOMAIN s = StockFields /\ s.what = "stock" /\ s.of = 0 /\ s.place = "stock"
      /\ s.got = all /\ s.first = (IF r.cursor = None THEN Committing ELSE r.first)
      /\ s.quiet = (IF r.cursor = None THEN O = {} ELSE r.quiet)
      /\ s.cursor = (IF rows = <<>> THEN r.cursor ELSE Last(rows))
      /\ s.stage = IF N > StockPage THEN "reading" ELSE "answered"
  <2>. HIDE DEF ids
  <2>1. s = [r EXCEPT
         !.got = @ \o rows,
         !.first = IF r.cursor = None THEN DOMAIN M \ O ELSE @,
         !.quiet = IF r.cursor = None THEN O = {} ELSE @,
         !.cursor = IF rows = <<>> THEN @ ELSE Last(rows),
         !.stage = IF N > StockPage THEN @ ELSE "answered"]
    BY DEF GetsStock, ids
  <2>. HIDE DEF rows
  <2>. QED
    BY <2>1 DEF StockIs, StockFields
<1>4. /\ r.got \in Seq(Nat) /\ Got(r) \subseteq DOMAIN M
      /\ \A m, n \in DOMAIN r.got : m < n => r.got[m] > r.got[n]
      /\ IF r.cursor = None THEN r.got = <<>> ELSE StockReading(r, M, O)
  BY DEF StockIs
<1>5. \A i \in older : i \in Committing /\ (r.cursor = None \/ i < r.cursor)
  BY DEF Older
<1>6. \A i \in Committing : (r.cursor = None \/ i < r.cursor) => i \in older
  BY DEF Older
<1>7. StockPage \in Nat \ {0}
  BY ReportsAssumption
<1>8. PICK n \in Nat : n = IF N < StockPage THEN N ELSE StockPage
  BY <1>2, <1>7
<1>9. /\ rows \in Seq(Nat) /\ Len(rows) = n /\ n <= N
      /\ \A m \in 1 .. n : rows[m] = ids[m]
  <2>1. rows = SubSeq(ids, 1, n)
    <3>. HIDE DEF ids
    <3>. QED
      BY <1>8 DEF Newest
  <2>. HIDE DEF ids, rows, N
  <2>2. n <= N /\ n \in Nat
    BY <1>2, <1>7, <1>8
  <2>. HIDE DEF older
  <2>3. Len(ids) = N
    BY DEF N
  <2>4. ids \in Seq(Nat) /\ N \in Nat
    BY <1>2
  <2>5. SubSeq(ids, 1, n) \in Seq(Nat) /\ Len(SubSeq(ids, 1, n)) = n
        /\ \A m \in 1 .. n : SubSeq(ids, 1, n)[m] = ids[m]
    BY <2>2, <2>3, <2>4
  <2>. QED
    BY <2>1, <2>2, <2>5
<1>. HIDE DEF older, ids, rows, N, Committing
<1>10. /\ all \in Seq(Nat) /\ Len(r.got) \in Nat /\ DOMAIN r.got = 1 .. Len(r.got)
       /\ Len(all) = Len(r.got) + n /\ DOMAIN all = 1 .. (Len(r.got) + n)
       /\ \A m \in 1 .. Len(r.got) : all[m] = r.got[m]
       /\ \A m \in 1 .. n : all[Len(r.got) + m] = rows[m]
  <2>1. PICK had \in Seq(Nat) : had = r.got
    BY <1>4
  <2>2. PICK more \in Seq(Nat) : more = rows
    BY <1>9
  <2>3. /\ had \o more \in Seq(Nat) /\ Len(had) \in Nat /\ DOMAIN had = 1 .. Len(had)
        /\ Len(had \o more) = Len(had) + Len(more)
        /\ DOMAIN (had \o more) = 1 .. (Len(had) + Len(more))
        /\ \A m \in 1 .. Len(had) : (had \o more)[m] = had[m]
        /\ \A m \in 1 .. Len(more) : (had \o more)[Len(had) + m] = more[m]
    OBVIOUS
  <2>4. all = had \o more /\ Len(more) = n
    BY <1>9, <2>1, <2>2 DEF all
  <2>. QED
    BY <2>1, <2>2, <2>3, <2>4
<1>. HIDE DEF all
<1>11. \A m \in 1 .. n : m \in 1 .. N /\ rows[m] \in older /\ rows[m] = ids[m]
  BY <1>2, <1>9
<1>12. \A m \in 1 .. (Len(r.got) + n) :
         \/ m \in 1 .. Len(r.got) /\ all[m] = r.got[m]
         \/ m - Len(r.got) \in 1 .. n /\ all[m] = rows[m - Len(r.got)]
  <2>1. \A m \in 1 .. (Len(r.got) + n) :
          \/ m \in 1 .. Len(r.got)
          \/ m - Len(r.got) \in 1 .. n /\ Len(r.got) + (m - Len(r.got)) = m
    BY <1>10
  <2>. QED
    BY <1>10, <2>1
<1>13. Got(s) = Got(r) \cup {rows[m] : m \in 1 .. n}
  <2>1. Got(s) = {all[m] : m \in 1 .. (Len(r.got) + n)}
    BY <1>3, <1>10 DEF Got
  <2>2. Got(s) \subseteq Got(r) \cup {rows[m] : m \in 1 .. n}
    <3>1. \A m \in 1 .. (Len(r.got) + n) :
            all[m] \in Got(r) \/ all[m] \in {rows[k] : k \in 1 .. n}
      BY <1>10, <1>12 DEF Got
    <3>. QED
      BY <2>1, <3>1
  <2>3. Got(r) \subseteq Got(s)
    <3>1. \A m \in 1 .. Len(r.got) : m \in 1 .. (Len(r.got) + n)
      BY <1>10
    <3>. QED
      BY <1>10, <2>1, <3>1 DEF Got
  <2>4. {rows[m] : m \in 1 .. n} \subseteq Got(s)
    <3>1. \A m \in 1 .. n : Len(r.got) + m \in 1 .. (Len(r.got) + n)
      BY <1>10
    <3>. QED
      BY <1>10, <2>1, <3>1
  <2>. QED
    BY <2>2, <2>3, <2>4
<1>14. r.cursor = None => Got(r) = {}
  BY <1>4 DEF Got
<1>15. r.cursor # None =>
         /\ r.cursor \in Nat /\ \A i \in Got(r) : r.cursor <= i
         /\ r.first \subseteq Committing
         /\ \A i \in r.first : r.cursor <= i => i \in Got(r)
         /\ r.quiet => Got(r) \subseteq r.first /\ \A i \in 1 .. r.cursor : i \in r.first
  BY <1>4 DEF StockReading, Committing
<1>16. \A m, k \in DOMAIN all : m < k => all[m] > all[k]
  <2>1. SUFFICES ASSUME NEW m \in DOMAIN all, NEW k \in DOMAIN all, m < k
                 PROVE  all[m] > all[k]
    OBVIOUS
  <2>2. /\ m \in 1 .. (Len(r.got) + n) /\ k \in 1 .. (Len(r.got) + n)
        /\ m \in Int /\ k \in Int /\ Len(r.got) \in Int /\ n \in Int
    BY <1>10
  <2>3. CASE k \in 1 .. Len(r.got)
    <3>1. m \in 1 .. Len(r.got)
      BY <2>1, <2>2, <2>3
    <3>. QED
      BY <1>4, <1>10, <2>1, <2>3, <3>1
  <2>4. CASE k - Len(r.got) \in 1 .. n /\ all[k] = rows[k - Len(r.got)]
    <3>1. CASE m \in 1 .. Len(r.got)
      <4>0. m \in DOMAIN r.got /\ all[m] = r.got[m]
        BY <1>10, <3>1
      <4>1. all[m] \in Got(r) /\ all[m] \in Nat
        BY <1>4, <4>0 DEF Got
      <4>2. all[k] \in older /\ all[k] \in Nat
        BY <1>1, <1>11, <2>4
      <4>3. r.cursor # None
        BY <1>14, <4>1
      <4>. QED
        BY <1>5, <1>15, <4>1, <4>2, <4>3
    <3>2. CASE m - Len(r.got) \in 1 .. n /\ all[m] = rows[m - Len(r.got)]
      <4>1. m - Len(r.got) < k - Len(r.got)
        BY <2>1, <2>2
      <4>. QED
        BY <1>2, <1>11, <2>4, <3>2, <4>1
    <3>. QED
      BY <1>12, <2>2, <3>1, <3>2
  <2>. QED
    BY <1>12, <2>2, <2>3, <2>4
<1>17. Got(s) \subseteq DOMAIN M
  BY <1>4, <1>5, <1>11, <1>13 DEF Committing
<1>18. \A i \in older : \/ i \in Got(s)
                        \/ n < N /\ n \in 1 .. n /\ rows[n] > i
  <2>1. SUFFICES ASSUME NEW i \in older, i \notin Got(s)
                 PROVE  n < N /\ n \in 1 .. n /\ rows[n] > i
    OBVIOUS
  <2>2. PICK m \in 1 .. N : ids[m] = i
    BY <1>2
  <2>3. ~(m \in 1 .. n)
    BY <1>11, <1>13, <2>1, <2>2
  <2>4. n < m /\ n < N /\ n \in 1 .. n
    BY <1>2, <1>7, <1>8, <2>3
  <2>. QED
    BY <1>2, <1>11, <2>2, <2>4
<1>19. ASSUME s.quiet PROVE Got(s) \subseteq s.first
  <2>1. CASE r.cursor = None
    BY <1>3, <1>5, <1>11, <1>13, <1>14, <1>19, <2>1
  <2>2. CASE r.cursor # None
    <3>1. \A i \in older : i \in 1 .. r.cursor
      BY <1>1, <1>5, <1>15, <2>2 DEF Committing
    <3>. QED
      BY <1>3, <1>11, <1>13, <1>15, <1>19, <2>2, <3>1
  <2>. QED
    BY <2>1, <2>2
<1>20. \A i \in s.first : i \in Got(s) \/ i \in older
  <2>1. CASE r.cursor = None
    BY <1>3, <1>6, <2>1
  <2>2. CASE r.cursor # None
    <3>1. s.first = r.first /\ r.first \subseteq Committing /\ r.cursor \in Nat
      BY <1>3, <1>15, <2>2
    <3>2. \A i \in r.first : i \in Nat
      BY <3>1 DEF Committing
    <3>3. \A i \in r.first : r.cursor <= i \/ i < r.cursor
      BY <3>1, <3>2
    <3>. QED
      BY <1>6, <1>13, <1>15, <2>2, <3>1, <3>3
  <2>. QED
    BY <2>1, <2>2
<1>21. ASSUME s.stage = "answered" PROVE s.first \subseteq Got(s)
  <2>1. n = N
    BY <1>2, <1>3, <1>7, <1>8, <1>21
  <2>2. ~(n < N)
    BY <2>1, <1>2
  <2>. QED
    BY <1>18, <1>20, <2>2
<1>22. ASSUME s.stage = "reading" PROVE s.cursor # None /\ StockReading(s, M, O)
  <2>1. n = StockPage /\ n \in 1 .. n /\ n < N
    BY <1>2, <1>3, <1>7, <1>8, <1>22
  <2>2. rows # <<>> /\ Last(rows) = rows[n]
    BY <1>9, <2>1 DEF Last
  <2>3. s.cursor = rows[n] /\ rows[n] \in older /\ rows[n] \in Nat
    BY <1>1, <1>3, <1>11, <2>1, <2>2
  <2>4. s.cursor \in Nat /\ s.cursor # None
    BY <2>3, RegistersAssumption
  <2>5. \A i \in Got(s) : s.cursor <= i
    <3>1. \A m \in 1 .. n : rows[n] <= rows[m]
      <4>1. \A m \in 1 .. n : m = n \/ m < n
        BY <2>1
      <4>. QED
        BY <1>1, <1>2, <1>11, <2>1, <4>1
    <3>2. \A i \in Got(r) : rows[n] <= i
      <4>1. SUFFICES ASSUME NEW i \in Got(r) PROVE rows[n] <= i
        OBVIOUS
      <4>2. r.cursor # None /\ i \in Nat
        BY <1>4, <1>14, <4>1 DEF Got
      <4>. QED
        BY <1>5, <1>15, <2>3, <4>1, <4>2
    <3>. QED
      BY <1>13, <2>3, <3>1, <3>2
  <2>6. s.first \subseteq Committing
    BY <1>3, <1>15
  <2>7. \A i \in s.first : s.cursor <= i => i \in Got(s)
    <3>1. SUFFICES ASSUME NEW i \in s.first, s.cursor <= i, i \notin Got(s) PROVE FALSE
      OBVIOUS
    <3>2. rows[n] > i /\ i \in Nat
      BY <1>1, <1>18, <1>20, <3>1
    <3>. QED
      BY <2>3, <3>1, <3>2
  <2>8. s.quiet => \A i \in 1 .. s.cursor : i \in s.first
    <3>1. SUFFICES ASSUME s.quiet, NEW i \in 1 .. s.cursor PROVE i \in s.first
      OBVIOUS
    <3>2. CASE r.cursor = None
      <4>1. O = {} /\ s.first = DOMAIN M /\ s.cursor \in DOMAIN M
        BY <1>3, <1>5, <2>3, <3>1, <3>2 DEF Committing
      <4>. QED
        BY <4>1
    <3>3. CASE r.cursor # None
      <4>1. s.cursor < r.cursor /\ r.cursor \in Nat
        BY <1>5, <1>15, <2>3, <3>3
      <4>2. i \in 1 .. r.cursor
        BY <2>4, <4>1
      <4>. QED
        BY <1>3, <1>15, <3>1, <3>3, <4>2
    <3>. QED
      BY <3>2, <3>3
  <2>. QED
    BY <1>19, <2>4, <2>5, <2>6, <2>7, <2>8 DEF StockReading, Committing
<1>23. s.got \in Seq(Nat) /\ \A m, k \in DOMAIN s.got : m < k => s.got[m] > s.got[k]
  BY <1>3, <1>10, <1>16
<1>. QED
  BY <1>3, <1>17, <1>19, <1>21, <1>22, <1>23 DEF StockIs

-----------------------------------------------------------------------------
(* Reads and what is shown of them *)

\* What is read for a figure whose parts must fit, and that all of it is there.
Key(r) == <<r.part, r.period>>
Wanted(place) ==
  IF place = "net" THEN {"profit", "loss"} \X {Monthly}
  ELSE {"sales"} \X {TrendPeriods[i] : i \in 1 .. Months}
Complete(place, R) ==
  place \in {"net", "trend"} =>
    /\ \A q \in R : Key(q) \in Wanted(place)
    /\ \A w \in Wanted(place) : \E q \in R : Key(q) = w
    /\ \A q, r \in R : Key(q) = Key(r) => q = r

\* A read, where the documents D are posted and the movements M recorded, O of
\* them open; the numbers from 1 to n are not used yet.
ReportIs(r, D, n) ==
  /\ Asked(r) /\ r.place \in Shown \ {"stock"} /\ r.of > n
  /\ r.stage = "reading" => Partly(r, D)
  /\ r.stage = "answered" => Fully(r)
ReadIs(r, D, M, O, n) ==
  IF r.what = "report" THEN ReportIs(r, D, n) ELSE StockIs(r, M, O)
GroupIn(R, r) == {q \in R : q.of = r.of /\ q.place = r.place}
ReadsAre(R, D, M, O, n) ==
  \A r \in R : /\ ReadIs(r, D, M, O, n)
               /\ r.what = "report" => Complete(r.place, GroupIn(R, r))

\* What is shown was read to the end, and is all there.
ShowsAll(place, R) ==
  /\ \A q \in R : Asked(q) /\ q.stage = "answered" /\ Fully(q)
  /\ \A q, r \in R : q.of = r.of
  /\ Complete(place, R)
ScreenIs(S) ==
  /\ DOMAIN S = Shown
  /\ \A s \in Shown \ {"stock"} : S[s] # None => ShowsAll(s, S[s])

BudgetIs(b) ==
  /\ {"loads", "periods"} \subseteq DOMAIN b
  /\ b.loads \in Nat /\ b.periods \subseteq [from : Nat, to : Nat]

RInv ==
  /\ Docs(posted)
  /\ moves \in Seq(Movement) /\ open \subseteq DOMAIN moves
  /\ BudgetIs(budget)
  /\ ReadsAre(reads, posted, moves, open, budget.loads)
  /\ ScreenIs(screen)

\* Each read goes on as it is, or with something changed.
Follows(r, q, D, M, O, n) ==
  /\ ReadIs(q, D, M, O, n) /\ q.what = r.what
  /\ r.what = "report" => /\ q.of = r.of /\ q.place = r.place
                          /\ q.part = r.part /\ q.period = r.period
AllFollow(R, N, S, D, M, O, n) ==
  S = {N[r] : r \in R} /\ \A r \in R : Follows(r, N[r], D, M, O, n)

\* A report is never for the place of the stock.
LEMMA PlacesApart ==
  ASSUME NEW r, NEW D, NEW M, NEW O, NEW n, ReadIs(r, D, M, O, n)
  PROVE  r.what = "report" <=> r.place # "stock"
BY DEF ReadIs, ReportIs, StockIs

\* Reads that go on stay together.
LEMMA ReadsFollow ==
  ASSUME NEW R, NEW D, NEW M, NEW O, NEW n, ReadsAre(R, D, M, O, n),
         NEW N, NEW S, NEW D1, NEW M1, NEW O1, NEW n1,
         AllFollow(R, N, S, D1, M1, O1, n1)
  PROVE  ReadsAre(S, D1, M1, O1, n1)
<1>1. S = {N[r] : r \in R} /\ \A r \in R : Follows(r, N[r], D1, M1, O1, n1)
  BY DEF AllFollow
<1>2. \A s \in S : \E r \in R : s = N[r]
  BY <1>1
<1>3. \A r \in R : /\ N[r] \in S /\ ReadIs(N[r], D1, M1, O1, n1) /\ N[r].what = r.what
                   /\ r.what = "report" => /\ N[r].of = r.of /\ N[r].place = r.place
                                           /\ Key(N[r]) = Key(r)
  BY <1>1 DEF Follows, Key
<1>4. \A r \in R : /\ ReadIs(r, D, M, O, n)
                   /\ r.what = "report" => Complete(r.place, GroupIn(R, r))
  BY DEF ReadsAre
<1>5. \A r \in R : /\ r.what = "report" <=> r.place # "stock"
                   /\ N[r].what = "report" <=> N[r].place # "stock"
  BY <1>3, <1>4, PlacesApart
<1>6. ASSUME NEW r \in R, r.what = "report"
      PROVE  Complete(N[r].place, GroupIn(S, N[r]))
  <2>1. \A q \in GroupIn(R, r) : q \in R /\ q.what = "report" /\ N[q] \in GroupIn(S, N[r])
    <3>1. SUFFICES ASSUME NEW q \in GroupIn(R, r)
                   PROVE  q \in R /\ q.what = "report" /\ N[q] \in GroupIn(S, N[r])
      OBVIOUS
    <3>2. q \in R /\ q.of = r.of /\ q.place = r.place
      BY <3>1 DEF GroupIn
    <3>3. q.what = "report"
      BY <1>5, <1>6, <3>2
    <3>. QED
      BY <1>3, <1>6, <3>2, <3>3 DEF GroupIn
  <2>2. \A s \in GroupIn(S, N[r]) : \E q \in GroupIn(R, r) : s = N[q]
    <3>1. SUFFICES ASSUME NEW s \in GroupIn(S, N[r]) PROVE \E q \in GroupIn(R, r) : s = N[q]
      OBVIOUS
    <3>2. s \in S /\ s.of = N[r].of /\ s.place = N[r].place
      BY <3>1 DEF GroupIn
    <3>3. PICK q \in R : s = N[q]
      BY <1>2, <3>2
    <3>4. q.what = "report"
      BY <1>3, <1>5, <1>6, <3>2, <3>3
    <3>5. q \in GroupIn(R, r)
      BY <1>3, <1>6, <3>2, <3>3, <3>4 DEF GroupIn
    <3>. QED
      BY <3>3, <3>5
  <2>3. Complete(r.place, GroupIn(R, r)) /\ N[r].place = r.place
    BY <1>3, <1>4, <1>6
  <2>4. \A q \in GroupIn(R, r) : Key(N[q]) = Key(q)
    BY <1>3, <2>1
  <2>5. PICK A, B : A = GroupIn(R, r) /\ B = GroupIn(S, N[r])
    OBVIOUS
  <2>6. Complete(r.place, A) /\ (\A q \in A : N[q] \in B /\ Key(N[q]) = Key(q))
        /\ \A s \in B : \E q \in A : s = N[q]
    BY <2>1, <2>2, <2>3, <2>4, <2>5
  <2>7. Complete(r.place, B)
    BY <2>6 DEF Complete
  <2>. QED
    BY <2>3, <2>5, <2>7
<1>. QED
  BY <1>2, <1>3, <1>6 DEF ReadsAre

\* Reads that go do not tear others apart.
LEMMA ReadsGo ==
  ASSUME NEW R, NEW D, NEW M, NEW O, NEW n, ReadsAre(R, D, M, O, n), NEW r
  PROVE  ReadsAre(R \ GroupIn(R, r), D, M, O, n)
<1>1. \A q \in R \ GroupIn(R, r) : GroupIn(R \ GroupIn(R, r), q) = GroupIn(R, q)
  BY DEF GroupIn
<1>. QED
  BY <1>1 DEF ReadsAre

\* Reads that are added are none of the others'.
Adds(R, A, place, n) ==
  \A q \in A : q.what = "report" /\ q.place = place /\ q.of = n

\* Reads that are added together stay complete, and so do those that were there.
LEMMA ReadsCome ==
  ASSUME NEW R, NEW D, NEW M, NEW O, NEW n \in Nat, n > 0, ReadsAre(R, D, M, O, n),
         NEW A, NEW place, Adds(R, A, place, n), Complete(place, A),
         \A q \in A : ReportIs(q, D, n - 1)
  PROVE  ReadsAre(R \cup A, D, M, O, n - 1)
<1>1. \A r \in R : /\ ReadIs(r, D, M, O, n)
                   /\ r.what = "report" => Complete(r.place, GroupIn(R, r))
  BY DEF ReadsAre
<1>2. \A r \in R : r.what = "report" => r.of \in Nat /\ r.of > n
  BY <1>1 DEF ReadIs, ReportIs, Asked
<1>3. \A r \in R : ReadIs(r, D, M, O, n - 1)
  BY <1>1, <1>2 DEF ReadIs, ReportIs
<1>4. \A q \in A : ReadIs(q, D, M, O, n - 1) /\ q.what = "report" /\ q.of = n /\ q.place = place
  BY DEF ReadIs, Adds
<1>5. ASSUME NEW r \in R, r.what = "report" PROVE GroupIn(R \cup A, r) = GroupIn(R, r)
  <2>1. \A q \in A : q.of # r.of
    BY <1>2, <1>4, <1>5
  <2>. QED
    BY <2>1 DEF GroupIn
<1>6. ASSUME NEW r \in A PROVE GroupIn(R \cup A, r) = A
  <2>1. \A q \in R : q.place = r.place => q.what = "report"
    <3>1. \A q \in R : q.what = "report" <=> q.place # "stock"
      BY <1>1, PlacesApart
    <3>2. r.place # "stock"
      BY <1>4, PlacesApart
    <3>. QED
      BY <3>1, <3>2
  <2>2. \A q \in R : ~(q.place = r.place /\ q.of = r.of)
    BY <1>2, <1>4, <2>1
  <2>. QED
    BY <1>4, <2>2 DEF GroupIn
<1>. QED
  BY <1>1, <1>3, <1>4, <1>5, <1>6 DEF ReadsAre

\* Nor is a read of the stock.
LEMMA StockComes ==
  ASSUME NEW R, NEW D, NEW M, NEW O, NEW n, ReadsAre(R, D, M, O, n),
         NEW s, StockIs(s, M, O)
  PROVE  ReadsAre(R \cup {s}, D, M, O, n)
<1>1. s.what = "stock" /\ s.place = "stock" /\ ReadIs(s, D, M, O, n)
  BY DEF StockIs, ReadIs
<1>2. \A r \in R : ReadIs(r, D, M, O, n) /\ (r.what = "report" => r.place # "stock")
  BY PlacesApart DEF ReadsAre
<1>3. \A r \in R : r.what = "report" => GroupIn(R \cup {s}, r) = GroupIn(R, r)
  BY <1>1, <1>2 DEF GroupIn
<1>. QED
  BY <1>1, <1>2, <1>3 DEF ReadsAre

\* A budget that is drawn on.
LEMMA PayKeeps ==
  ASSUME BudgetIs(budget), NEW what \in {"loads", "stocks", "posts", "moves", "failures"},
         Pay(what)
  PROVE  /\ BudgetIs(budget') /\ budget'.periods = budget.periods
         /\ what # "loads" => budget'.loads = budget.loads
         /\ what = "loads" => budget.loads > 0 /\ budget'.loads = budget.loads - 1
<1>1. /\ {"loads", "periods"} \subseteq DOMAIN budget
      /\ budget.loads \in Nat /\ budget.periods \subseteq [from : Nat, to : Nat]
  BY DEF BudgetIs
<1>2. /\ budget[what] > 0 /\ budget' = [budget EXCEPT ![what] = @ - 1]
  BY DEF Pay
<1>3. /\ DOMAIN budget' = DOMAIN budget /\ budget'.periods = budget.periods
      /\ what # "loads" => budget'.loads = budget.loads
  BY <1>1, <1>2
<1>4. what = "loads" => budget.loads > 0 /\ budget'.loads = budget.loads - 1
  BY <1>1, <1>2
<1>. QED
  BY <1>1, <1>3, <1>4 DEF BudgetIs

\* A report that is asked for.
LEMMA ReportAsked ==
  ASSUME RInv, NEW place \in Shown \ {"stock"}, NEW part,
         NEW period \in [from : Nat, to : Nat], budget.loads > 0
  PROVE  LET r == ReportRead(place, part, period) IN
         /\ ReportIs(r, posted, budget.loads - 1)
         /\ r.what = "report" /\ r.place = place /\ r.of = budget.loads
         /\ Key(r) = <<part, period>>
<1>. DEFINE r == ReportRead(place, part, period)
<1>1. Docs(posted) /\ budget.loads \in Nat
  BY DEF RInv, BudgetIs
<1>2. /\ DOMAIN r = ReportFields /\ r.what = "report" /\ r.place = place
      /\ r.of = budget.loads /\ r.part = part /\ r.period = period
      /\ r.stage = "reading" /\ r.lines = <<>>
      /\ r.first = Ledger(posted, period.to)
  BY DEF ReportRead, ReportFields
<1>. HIDE DEF r
<1>3. Asked(r)
  BY <1>1, <1>2 DEF Asked
<1>4. Partly(r, posted)
  <2>. DEFINE G == Ledger(posted, period.to)
  <2>1. Len(G) \in Nat /\ \A n \in DOMAIN G : G[n] \in LinesIn(Until(posted, period.to))
    BY <1>1, LedgerOf
  <2>2. First(r) \subseteq LinesIn(Until(posted, r.period.to))
    BY <1>2, <2>1 DEF First
  <2>3. Len(r.lines) = 0
    BY <1>2
  <2>. HIDE DEF G
  <2>4. Len(r.lines) <= Len(G) /\ 1 .. Len(r.lines) = {}
    BY <2>1, <2>3
  <2>. QED
    BY <1>2, <2>2, <2>4 DEF Partly, G
<1>. QED
  BY <1>1, <1>2, <1>3, <1>4 DEF ReportIs, Key, r

\* A request keeps the invariant.
LEMMA AskReportKeeps ==
  ASSUME RInv, NEW place \in Shown \ {"stock"}, NEW parts,
         NEW periods \in SUBSET [from : Nat, to : Nat],
         place \in {"net", "trend"} => parts \X periods = Wanted(place),
         Ask(place, parts, periods)
  PROVE  RInv'
<1>. DEFINE A == {ReportRead(place, part, period) : part \in parts, period \in periods}
<1>1. /\ Docs(posted) /\ moves \in Seq(Movement) /\ open \subseteq DOMAIN moves
      /\ BudgetIs(budget) /\ ScreenIs(screen) /\ budget.loads \in Nat
      /\ ReadsAre(reads, posted, moves, open, budget.loads)
  BY DEF RInv, BudgetIs
<1>2. /\ Pay("loads") /\ reads' = reads \cup A
      /\ screen' = (IF place = "report" THEN screen ELSE [screen EXCEPT ![place] = None])
      /\ posted' = posted /\ moves' = moves /\ open' = open
  BY DEF Ask
<1>3. BudgetIs(budget') /\ budget.loads > 0 /\ budget'.loads = budget.loads - 1
  BY <1>1, <1>2, PayKeeps
<1>4. \A part \in parts : \A period \in periods :
        LET r == ReportRead(place, part, period) IN
         /\ ReportIs(r, posted, budget.loads - 1)
         /\ r.what = "report" /\ r.place = place /\ r.of = budget.loads
         /\ Key(r) = <<part, period>>
  BY <1>3, ReportAsked
<1>5. Adds(reads, A, place, budget.loads) /\ \A q \in A : ReportIs(q, posted, budget.loads - 1)
  BY <1>4 DEF Adds
<1>6. Complete(place, A)
  <2>1. SUFFICES ASSUME place \in {"net", "trend"}
                 PROVE  /\ \A q \in A : Key(q) \in Wanted(place)
                        /\ \A w \in Wanted(place) : \E q \in A : Key(q) = w
                        /\ \A q, r \in A : Key(q) = Key(r) => q = r
    BY DEF Complete
  <2>2. Wanted(place) = parts \X periods
    BY <2>1
  <2>3. \A q \in A : Key(q) \in Wanted(place)
    BY <1>4, <2>2
  <2>4. \A w \in Wanted(place) : \E q \in A : Key(q) = w
    BY <1>4, <2>2
  <2>5. ASSUME NEW q \in A, NEW r \in A, Key(q) = Key(r) PROVE q = r
    <3>1. PICK a \in parts, b \in periods : q = ReportRead(place, a, b)
      OBVIOUS
    <3>2. PICK c \in parts, d \in periods : r = ReportRead(place, c, d)
      OBVIOUS
    <3>3. <<a, b>> = <<c, d>>
      BY <1>4, <2>5, <3>1, <3>2
    <3>4. a = c /\ b = d
      BY <3>3
    <3>. QED
      BY <3>1, <3>2, <3>4
  <2>. QED
    BY <2>3, <2>4, <2>5
<1>. HIDE DEF A
<1>7. ReadsAre(reads', posted', moves', open', budget'.loads)
  <2>1. ReadsAre(reads \cup A, posted, moves, open, budget.loads - 1)
    BY <1>1, <1>3, <1>5, <1>6, ReadsCome
  <2>. QED
    BY <1>2, <1>3, <2>1
<1>8. ScreenIs(screen')
  BY <1>1, <1>2 DEF ScreenIs
<1>. QED
  BY <1>1, <1>2, <1>3, <1>7, <1>8 DEF RInv

\* So does each kind of request.
LEMMA AskReportsKeep ==
  ASSUME RInv, AskReports PROVE RInv'
<1>1. /\ DaysInMonth \in Nat \ {0} /\ Months \in Nat \ {0}
  BY ReportsAssumption
<1>2. DaysInMonth * Months \in Nat /\ DaysInMonth * (Months - 1) \in Nat
  BY <1>1
<1>3. Daily \in [from : Nat, to : Nat] /\ Monthly \in [from : Nat, to : Nat]
  BY <1>2 DEF Daily, Monthly, Today
<1>4. ASSUME NEW i \in 1 .. Months PROVE TrendPeriods[i] \in [from : Nat, to : Nat]
  <2>1. i \in Nat /\ i - 1 \in Nat
    BY <1>1
  <2>2. DaysInMonth * i \in Nat /\ DaysInMonth * (i - 1) \in Nat
    BY <1>1, <2>1
  <2>. QED
    BY <2>2 DEF TrendPeriods
<1>5. budget.periods \subseteq [from : Nat, to : Nat]
  BY DEF RInv, BudgetIs
<1>6. CASE LoadProfit
  <2>1. PICK range \in {Daily, Monthly} : Ask("profit", {"profit"}, {range})
    BY <1>6 DEF LoadProfit
  <2>2. {range} \in SUBSET [from : Nat, to : Nat] /\ "profit" \in Shown \ {"stock"}
    BY <1>3 DEF Shown
  <2>. QED
    BY <2>1, <2>2, AskReportKeeps
<1>7. CASE LoadMetric
  <2>1. {Monthly} \in SUBSET [from : Nat, to : Nat] /\ {Daily} \in SUBSET [from : Nat, to : Nat]
        /\ "sales" \in Shown \ {"stock"} /\ "receivables" \in Shown \ {"stock"}
    BY <1>3 DEF Shown
  <2>2. CASE Ask("sales", {"sales"}, {Monthly})
    BY <2>1, <2>2, AskReportKeeps
  <2>3. CASE Ask("receivables", {"receivables"}, {Daily})
    BY <2>1, <2>3, AskReportKeeps
  <2>. QED
    BY <1>7, <2>2, <2>3 DEF LoadMetric
<1>8. CASE LoadNet
  <2>1. {Monthly} \in SUBSET [from : Nat, to : Nat] /\ "net" \in Shown \ {"stock"}
    BY <1>3 DEF Shown
  <2>2. {"profit", "loss"} \X {Monthly} = Wanted("net")
    BY DEF Wanted
  <2>3. Ask("net", {"profit", "loss"}, {Monthly})
    BY <1>8 DEF LoadNet
  <2>. QED
    BY <2>1, <2>2, <2>3, AskReportKeeps
<1>9. CASE LoadTrend
  <2>. DEFINE P == {TrendPeriods[i] : i \in 1 .. Months}
  <2>1. P \in SUBSET [from : Nat, to : Nat] /\ "trend" \in Shown \ {"stock"}
    BY <1>4 DEF Shown
  <2>2. {"sales"} \X P = Wanted("trend")
    BY DEF Wanted
  <2>3. Ask("trend", {"sales"}, P)
    BY <1>9 DEF LoadTrend
  <2>. HIDE DEF P
  <2>. QED
    BY <2>1, <2>2, <2>3, AskReportKeeps
<1>10. CASE LoadStock
  <2>1. /\ Docs(posted) /\ moves \in Seq(Movement) /\ open \subseteq DOMAIN moves
        /\ BudgetIs(budget) /\ ScreenIs(screen)
        /\ ReadsAre(reads, posted, moves, open, budget.loads)
    BY DEF RInv
  <2>2. PICK s : /\ s = [of |-> 0, what |-> "stock", place |-> "stock", part |-> "stock",
                         stage |-> "reading", got |-> <<>>, cursor |-> None,
                         first |-> None, quiet |-> TRUE]
                 /\ Pay("stocks") /\ reads' = reads \cup {s}
    BY <1>10 DEF LoadStock
  <2>3. StockIs(s, moves, open)
    <3>1. Got(s) = {} /\ s.got \in Seq(Nat) /\ DOMAIN s.got = {}
      BY <2>2 DEF Got
    <3>. QED
      BY <2>2, <3>1 DEF StockIs, StockFields
  <2>4. BudgetIs(budget') /\ budget'.loads = budget.loads
    BY <2>1, <2>2, PayKeeps
  <2>5. posted' = posted /\ moves' = moves /\ open' = open /\ screen' = screen
    BY <1>10 DEF LoadStock
  <2>6. ReadsAre(reads \cup {s}, posted, moves, open, budget.loads)
    BY <2>1, <2>3, StockComes
  <2>7. ReadsAre(reads', posted', moves', open', budget'.loads)
    BY <2>2, <2>4, <2>5, <2>6
  <2>. QED
    BY <2>1, <2>4, <2>5, <2>7 DEF RInv
<1>11. ASSUME NEW period \in budget.periods, SubmitReport(period) PROVE RInv'
  <2>1. {period} \in SUBSET [from : Nat, to : Nat]
        /\ "report" \in Shown \ {"stock"} /\ "head" \in Shown \ {"stock"}
    BY <1>5 DEF Shown
  <2>2. CASE Ask("report", {"summary", "trial"}, {period})
    BY <2>1, <2>2, AskReportKeeps
  <2>3. CASE Ask("head", {"head"}, {period})
    BY <2>1, <2>3, AskReportKeeps
  <2>. QED
    BY <1>11, <2>2, <2>3 DEF SubmitReport
<1>. QED
  BY <1>6, <1>7, <1>8, <1>9, <1>10, <1>11 DEF AskReports

\* One of the reads goes on.
LEMMA OneFollows ==
  ASSUME NEW R, NEW D, NEW M, NEW O, NEW n, ReadsAre(R, D, M, O, n),
         NEW r \in R, NEW s, Follows(r, s, D, M, O, n)
  PROVE  ReadsAre((R \ {r}) \cup {s}, D, M, O, n)
<1>. DEFINE N == [q \in R |-> IF q = r THEN s ELSE q]
            S == (R \ {r}) \cup {s}
<1>1. S = {N[q] : q \in R}
  OBVIOUS
<1>2. ASSUME NEW q \in R PROVE Follows(q, N[q], D, M, O, n)
  <2>1. CASE q = r
    BY <2>1
  <2>2. CASE q # r
    <3>1. ReadIs(q, D, M, O, n) /\ N[q] = q
      BY <2>2 DEF ReadsAre
    <3>. HIDE DEF N
    <3>. QED
      BY <3>1 DEF Follows
  <2>. QED
    BY <2>1, <2>2
<1>. HIDE DEF N, S
<1>3. AllFollow(R, N, S, D, M, O, n)
  BY <1>1, <1>2 DEF AllFollow
<1>4. ReadsAre(S, D, M, O, n)
  BY <1>3, ReadsFollow
<1>. QED
  BY <1>4 DEF S

\* When only the reads change, they are all there is to show.
LEMMA OnlyReads ==
  ASSUME RInv, posted' = posted, moves' = moves, open' = open, screen' = screen,
         BudgetIs(budget'), budget'.loads = budget.loads,
         ReadsAre(reads', posted, moves, open, budget.loads)
  PROVE  RInv'
BY DEF RInv

\* The invariant, of other values.
LEMMA RInvParts ==
  ASSUME RInv
  PROVE  /\ Docs(posted) /\ moves \in Seq(Movement) /\ open \subseteq DOMAIN moves
         /\ BudgetIs(budget) /\ ScreenIs(screen) /\ budget.loads \in Nat
         /\ ReadsAre(reads, posted, moves, open, budget.loads)
         /\ \A r \in reads : ReadIs(r, posted, moves, open, budget.loads)
BY DEF RInv, BudgetIs, ReadsAre

\* Each page of a ledger keeps the invariant.
LEMMA ReadLedgerKeeps ==
  ASSUME RInv, NEW r \in reads, ReadLedger(r)
  PROVE  RInv'
<1>1. /\ Docs(posted) /\ BudgetIs(budget)
      /\ ReadsAre(reads, posted, moves, open, budget.loads)
      /\ ReadIs(r, posted, moves, open, budget.loads)
  BY RInvParts
<1>2. r.what = "report" /\ r.stage = "reading"
      /\ posted' = posted /\ moves' = moves /\ open' = open /\ screen' = screen
      /\ budget' = budget
  BY DEF ReadLedger
<1>3. PICK s : Gets(r, posted, s) /\ reads' = (reads \ {r}) \cup {s}
  <2>. DEFINE rows == NextPage(Ledger(posted, r.period.to), Len(r.lines))
              t == [r EXCEPT !.lines = @ \o rows, !.truth = posted,
                             !.stage = IF Len(rows) < LedgerPage THEN "answered" ELSE @]
  <2>1. reads' = (reads \ {r}) \cup {t}
    BY Zenon DEF ReadLedger, NextPage, Offset
  <2>2. Gets(r, posted, t)
    BY Zenon DEF Gets
  <2>. HIDE DEF t
  <2>. QED
    BY <2>1, <2>2
<1>4. Asked(r) /\ Partly(r, posted) /\ r.place \in Shown \ {"stock"} /\ r.of > budget.loads
  BY <1>1, <1>2 DEF ReadIs, ReportIs
<1>5. /\ Asked(s) /\ s.of = r.of /\ s.place = r.place /\ s.part = r.part
      /\ s.period = r.period /\ s.shifted = r.shifted
      /\ s.stage \in {r.stage, "answered"}
      /\ Partly(s, posted)
      /\ s.stage = "answered" /\ r.stage # "answered" => Fully(s)
  BY <1>1, <1>3, <1>4, PageGot
<1>6. s.what = "report"
  BY <1>5 DEF Asked
<1>7. Follows(r, s, posted, moves, open, budget.loads)
  BY <1>2, <1>4, <1>5, <1>6 DEF Follows, ReadIs, ReportIs
<1>8. ReadsAre((reads \ {r}) \cup {s}, posted, moves, open, budget.loads)
  BY <1>1, <1>7, OneFollows
<1>. QED
  BY <1>1, <1>2, <1>3, <1>8, OnlyReads

\* So does each page of movements.
LEMMA ReadStockKeeps ==
  ASSUME RInv, NEW r \in reads, ReadStock(r)
  PROVE  RInv'
<1>1. /\ moves \in Seq(Movement) /\ BudgetIs(budget)
      /\ ReadsAre(reads, posted, moves, open, budget.loads)
      /\ ReadIs(r, posted, moves, open, budget.loads)
  BY RInvParts
<1>2. r.what = "stock" /\ r.stage = "reading"
      /\ posted' = posted /\ moves' = moves /\ open' = open /\ screen' = screen
      /\ budget' = budget
  BY DEF ReadStock
<1>3. PICK s : GetsStock(r, moves, open, s) /\ reads' = (reads \ {r}) \cup {s}
  <2>. DEFINE older == Older(r, moves, open)
              ids == Ordered(older, {p \in older \X older : p[1] > p[2]})
              t == [r EXCEPT
                     !.got = @ \o Newest(ids),
                     !.first = IF r.cursor = None THEN DOMAIN moves \ open ELSE @,
                     !.quiet = IF r.cursor = None THEN open = {} ELSE @,
                     !.cursor = IF Newest(ids) = <<>> THEN @ ELSE Last(Newest(ids)),
                     !.stage = IF Len(ids) > StockPage THEN @ ELSE "answered"]
  <2>1. reads' = (reads \ {r}) \cup {t}
    BY Zenon DEF ReadStock, Newest, Older, Committed
  <2>2. GetsStock(r, moves, open, t)
    BY Zenon DEF GetsStock
  <2>. HIDE DEF t
  <2>. QED
    BY <2>1, <2>2
<1>4. StockIs(r, moves, open) /\ Len(moves) \in Nat /\ DOMAIN moves = 1 .. Len(moves)
  BY <1>1, <1>2 DEF ReadIs
<1>5. StockIs(s, moves, open)
  BY <1>2, <1>3, <1>4, StockGot
<1>6. Follows(r, s, posted, moves, open, budget.loads)
  BY <1>2, <1>5 DEF Follows, ReadIs, StockIs
<1>7. ReadsAre((reads \ {r}) \cup {s}, posted, moves, open, budget.loads)
  BY <1>1, <1>6, OneFollows
<1>. QED
  BY <1>1, <1>2, <1>3, <1>7, OnlyReads

\* So does a read that fails.
LEMMA FailReadKeeps ==
  ASSUME RInv, NEW r \in reads, FailRead(r)
  PROVE  RInv'
<1>1. /\ BudgetIs(budget)
      /\ ReadsAre(reads, posted, moves, open, budget.loads)
      /\ ReadIs(r, posted, moves, open, budget.loads)
  BY RInvParts
<1>2. Pay("failures") /\ r.stage = "reading"
      /\ posted' = posted /\ moves' = moves /\ open' = open /\ screen' = screen
  BY DEF FailRead
<1>3. PICK s : s = [r EXCEPT !.stage = "failed"] /\ reads' = (reads \ {r}) \cup {s}
  BY DEF FailRead
<1>4. BudgetIs(budget') /\ budget'.loads = budget.loads
  BY <1>1, <1>2, PayKeeps
<1>5. ASSUME r.what = "report"
      PROVE  /\ ReadIs(s, posted, moves, open, budget.loads)
             /\ s.what = r.what /\ s.of = r.of /\ s.place = r.place
             /\ s.part = r.part /\ s.period = r.period
  <2>1. Asked(r) /\ r.place \in Shown \ {"stock"} /\ r.of > budget.loads
    BY <1>1, <1>5 DEF ReadIs, ReportIs
  <2>2. /\ DOMAIN s = ReportFields /\ s.what = "report" /\ s.of = r.of
        /\ s.place = r.place /\ s.part = r.part /\ s.period = r.period
        /\ s.lines = r.lines /\ s.stage = "failed"
    BY <1>3, <1>5, <2>1 DEF Asked, ReportFields
  <2>3. Asked(s)
    BY <2>1, <2>2 DEF Asked
  <2>. QED
    <3>1. s.place \in Shown \ {"stock"} /\ s.of > budget.loads
      BY <2>1, <2>2
    <3>2. s.stage # "reading" /\ s.stage # "answered"
      BY <2>2
    <3>3. ReportIs(s, posted, budget.loads)
      BY <2>3, <3>1, <3>2 DEF ReportIs
    <3>4. s.what = "report" /\ r.what = "report"
      BY <1>5, <2>2
    <3>. QED
      BY <2>2, <3>3, <3>4 DEF ReadIs
<1>6. ASSUME r.what # "report"
      PROVE  ReadIs(s, posted, moves, open, budget.loads) /\ s.what = r.what
  <2>1. StockIs(r, moves, open)
    BY <1>1, <1>6 DEF ReadIs
  <2>2. /\ DOMAIN s = StockFields /\ s.what = r.what /\ s.of = r.of
        /\ s.place = r.place /\ s.got = r.got /\ s.stage = "failed"
    BY <1>3, <2>1 DEF StockIs, StockFields
  <2>3. Got(s) = Got(r)
    BY <2>2 DEF Got
  <2>4. StockIs(s, moves, open)
    BY <2>1, <2>2, <2>3 DEF StockIs
  <2>. QED
    BY <1>6, <2>2, <2>4 DEF ReadIs
<1>7. Follows(r, s, posted, moves, open, budget.loads)
  BY <1>5, <1>6 DEF Follows
<1>8. ReadsAre((reads \ {r}) \cup {s}, posted, moves, open, budget.loads)
  BY <1>1, <1>7, OneFollows
<1>. QED
  BY <1>2, <1>3, <1>4, <1>8, OnlyReads

\* What is shown was read to the end.
LEMMA ShowKeeps ==
  ASSUME RInv, NEW r \in reads, Show(r)
  PROVE  RInv'
<1>1. /\ Docs(posted) /\ moves \in Seq(Movement) /\ open \subseteq DOMAIN moves
      /\ BudgetIs(budget) /\ ScreenIs(screen)
      /\ ReadsAre(reads, posted, moves, open, budget.loads)
      /\ \A q \in reads : ReadIs(q, posted, moves, open, budget.loads)
  BY RInvParts
<1>2. posted' = posted /\ moves' = moves /\ open' = open /\ budget' = budget
      /\ reads' = reads \ Group(r)
  BY DEF Show
<1>3. Group(r) = GroupIn(reads, r)
  BY DEF Group, GroupIn
<1>4. ReadsAre(reads', posted, moves, open, budget.loads)
  BY <1>1, <1>2, <1>3, ReadsGo
<1>5. ScreenIs(screen')
  <2>1. CASE /\ \A q \in Group(r) : q.stage = "answered"
             /\ screen' = [screen EXCEPT ![r.place] = Group(r)]
    <3>1. r.place \in Shown \ {"stock"} => ShowsAll(r.place, Group(r))
      <4>1. SUFFICES ASSUME r.place # "stock" PROVE ShowsAll(r.place, Group(r))
        OBVIOUS
      <4>2. \A q \in Group(r) : q \in reads /\ q.of = r.of /\ q.place = r.place
        BY DEF Group
      <4>3. \A q \in Group(r) : q.what = "report"
        BY <1>1, <4>1, <4>2, PlacesApart
      <4>4. r.what = "report"
        BY <1>1, <4>1, PlacesApart
      <4>5. \A q \in Group(r) : Asked(q) /\ Fully(q) /\ q.stage = "answered"
        BY <1>1, <2>1, <4>2, <4>3 DEF ReadIs, ReportIs
      <4>6. Complete(r.place, Group(r))
        BY <1>1, <1>3, <4>4 DEF ReadsAre
      <4>. QED
        BY <4>2, <4>5, <4>6 DEF ShowsAll
    <3>2. PICK p, R : p = r.place /\ R = Group(r)
      OBVIOUS
    <3>. QED
      BY <1>1, <2>1, <3>1, <3>2 DEF ScreenIs
  <2>2. CASE screen' = IF r.place = "report" THEN screen
                       ELSE [screen EXCEPT ![r.place] = None]
    BY <1>1, <2>2 DEF ScreenIs
  <2>. QED
    BY <2>1, <2>2 DEF Show
<1>. QED
  BY <1>1, <1>2, <1>4, <1>5 DEF RInv

\* A document may be posted while reports are read.
LEMMA PostDocumentKeeps ==
  ASSUME RInv, NEW d \in Document, PostDocument(d)
  PROVE  RInv'
<1>1. /\ Docs(posted) /\ moves \in Seq(Movement) /\ open \subseteq DOMAIN moves
      /\ BudgetIs(budget) /\ ScreenIs(screen)
      /\ ReadsAre(reads, posted, moves, open, budget.loads)
      /\ \A q \in reads : ReadIs(q, posted, moves, open, budget.loads)
  BY RInvParts
<1>. DEFINE N == [r \in reads |->
                    IF r.what = "report" /\ r.lines # <<>>
                         /\ \E x \in LinesOf(d) : Earlier(x, Last(r.lines))
                    THEN [r EXCEPT !.shifted = TRUE] ELSE r]
            D == posted \cup {d}
<1>2. /\ Pay("posts") /\ posted' = D /\ moves' = moves /\ open' = open
      /\ screen' = screen /\ reads' = {N[r] : r \in reads}
  BY DEF PostDocument
<1>3. BudgetIs(budget') /\ budget'.loads = budget.loads
  BY <1>1, <1>2, PayKeeps
<1>4. Docs(D)
  BY <1>1, LedgerGrows
<1>5. \A r \in reads : Notes(r, d, N[r])
  BY DEF Notes
<1>. HIDE DEF N, D
<1>6. ASSUME NEW r \in reads PROVE Follows(r, N[r], D, moves, open, budget.loads)
  <2>1. ReadIs(r, posted, moves, open, budget.loads) /\ Notes(r, d, N[r])
    BY <1>1, <1>5
  <2>2. CASE r.what = "report"
    <3>1. /\ Asked(r) /\ r.place \in Shown \ {"stock"} /\ r.of > budget.loads
          /\ r.stage = "reading" => Partly(r, posted)
          /\ r.stage = "answered" => Fully(r)
      BY <2>1, <2>2 DEF ReadIs, ReportIs
    <3>2. PICK s : s = N[r]
      OBVIOUS
    <3>3. /\ Asked(s) /\ s.of = r.of /\ s.place = r.place /\ s.part = r.part
          /\ s.period = r.period /\ s.stage = r.stage
          /\ Fully(r) => Fully(s)
          /\ Partly(r, posted) => Partly(s, posted \cup {d})
      <4>1. Asked(r) /\ Docs(posted) /\ Notes(r, d, s)
        BY <1>1, <2>1, <3>1, <3>2
      <4>. QED
        BY <4>1, DocumentNoted
    <3>4. s.what = "report"
      BY <3>3 DEF Asked
    <3>5. Follows(r, s, D, moves, open, budget.loads)
      BY <2>2, <3>1, <3>3, <3>4 DEF Follows, ReadIs, ReportIs, D
    <3>. QED
      BY <3>2, <3>5
  <2>3. CASE r.what # "report"
    <3>1. N[r] = r
      BY <2>1, <2>3 DEF Notes
    <3>. QED
      BY <2>1, <2>3, <3>1 DEF Follows, ReadIs
  <2>. QED
    BY <2>2, <2>3
<1>7. ReadsAre(reads', D, moves, open, budget.loads)
  <2>1. AllFollow(reads, N, reads', D, moves, open, budget.loads)
    BY <1>2, <1>6 DEF AllFollow
  <2>. QED
    BY <1>1, <2>1, ReadsFollow
<1>. QED
  BY <1>1, <1>2, <1>3, <1>4, <1>7 DEF RInv

\* Movements may be recorded and committed while they are read.
LEMMA MovesKept ==
  ASSUME RInv, NEW M, NEW O, DOMAIN moves \subseteq DOMAIN M, O \cap DOMAIN moves \subseteq open
  PROVE  ReadsAre(reads, posted, M, O, budget.loads)
<1>1. \A r \in reads : StockIs(r, moves, open) => StockIs(r, M, O)
  BY StockKept
<1>. QED
  BY <1>1, RInvParts DEF ReadsAre, ReadIs

\* A movement is recorded, open at first.
LEMMA MoveKeeps ==
  ASSUME RInv, NEW m \in Movement, Move(m)
  PROVE  RInv'
<1>1. /\ Docs(posted) /\ moves \in Seq(Movement) /\ open \subseteq DOMAIN moves
      /\ BudgetIs(budget) /\ ScreenIs(screen)
  BY RInvParts
<1>2. /\ Pay("moves") /\ moves' = Append(moves, m) /\ open' = open \cup {Len(moves) + 1}
      /\ posted' = posted /\ reads' = reads /\ screen' = screen
  BY DEF Move
<1>3. BudgetIs(budget') /\ budget'.loads = budget.loads
  BY <1>1, <1>2, PayKeeps
<1>4. /\ moves' \in Seq(Movement) /\ DOMAIN moves' = 1 .. (Len(moves) + 1)
      /\ DOMAIN moves = 1 .. Len(moves) /\ Len(moves) \in Nat
  BY <1>1, <1>2
<1>5. DOMAIN moves \subseteq DOMAIN moves' /\ open' \cap DOMAIN moves \subseteq open
      /\ open' \subseteq DOMAIN moves'
  BY <1>1, <1>2, <1>4
<1>6. ReadsAre(reads, posted, moves', open', budget.loads)
  BY <1>5, MovesKept
<1>. QED
  BY <1>1, <1>2, <1>3, <1>4, <1>5, <1>6 DEF RInv

\* The transaction of a movement is committed.
LEMMA CommitMoveKeeps ==
  ASSUME RInv, NEW i \in open, CommitMove(i)
  PROVE  RInv'
<1>1. /\ Docs(posted) /\ moves \in Seq(Movement) /\ open \subseteq DOMAIN moves
      /\ BudgetIs(budget) /\ ScreenIs(screen)
  BY RInvParts
<1>2. /\ moves' = moves /\ open' = open \ {i}
      /\ posted' = posted /\ reads' = reads /\ screen' = screen /\ budget' = budget
  BY DEF CommitMove
<1>3. ReadsAre(reads, posted, moves, open', budget.loads)
  BY <1>2, MovesKept
<1>. QED
  BY <1>1, <1>2, <1>3 DEF RInv

\* At first nothing is read or shown.
LEMMA ReportsInitHolds == ReportsInit => RInv
<1>1. SUFFICES ASSUME ReportsInit PROVE RInv
  OBVIOUS
<1>2. /\ budget \in Reading /\ posted = budget.posted /\ moves = budget.moved
      /\ open = {} /\ reads = {} /\ screen = [s \in Shown |-> None]
  BY <1>1 DEF ReportsInit
<1>3. /\ budget \in [page : {"registers", "reports"}, posted : SUBSET Document,
                     moved : Seq(Movement), loads : Nat, stocks : Nat, posts : Nat,
                     moves : Nat, failures : Nat,
                     periods : SUBSET [from : Nat, to : Nat]]
      /\ IsFiniteSet(budget.posted)
  BY <1>2, ReportsAssumption
<1>4. Docs(posted) /\ moves \in Seq(Movement) /\ BudgetIs(budget)
  BY <1>2, <1>3 DEF Docs, BudgetIs
<1>5. ScreenIs(screen)
  BY <1>2 DEF ScreenIs
<1>. QED
  BY <1>2, <1>4, <1>5 DEF RInv, ReadsAre

\* Each step keeps the invariant.
LEMMA ReportsStepKeeps == RInv /\ [BothNext]_<<vars, reportVars>> => RInv'
<1>1. SUFFICES ASSUME RInv, [BothNext]_<<vars, reportVars>> PROVE RInv'
  OBVIOUS
<1>2. CASE UNCHANGED reportVars
  BY <1>1, <1>2 DEF reportVars, RInv
<1>3. CASE ReportsNext
  <2>1. CASE AskReports
    BY <1>1, <2>1, AskReportsKeep
  <2>2. ASSUME NEW r \in reads, ReadLedger(r) \/ ReadStock(r) \/ FailRead(r) \/ Show(r)
        PROVE  RInv'
    BY <1>1, <2>2, ReadLedgerKeeps, ReadStockKeeps, FailReadKeeps, ShowKeeps
  <2>3. ASSUME NEW d \in Document, PostDocument(d) PROVE RInv'
    BY <1>1, <2>3, PostDocumentKeeps
  <2>4. ASSUME NEW m \in Movement, Move(m) PROVE RInv'
    BY <1>1, <2>4, MoveKeeps
  <2>5. ASSUME NEW i \in open, CommitMove(i) PROVE RInv'
    BY <1>1, <2>5, CommitMoveKeeps
  <2>. QED
    BY <1>3, <2>1, <2>2, <2>3, <2>4, <2>5 DEF ReportsNext
<1>. QED
  BY <1>1, <1>2, <1>3 DEF BothNext

-----------------------------------------------------------------------------
(* Figures *)

\* The lines of a ledger that count, and what each counts.
Counts(D, to, I, F, W) ==
  LET G == Ledger(D, to) IN
  /\ Docs(D) /\ I \subseteq DOMAIN G /\ F \in [I -> Int]
  /\ W \in [LinesIn(Until(D, to)) -> Int]
  /\ \A i \in I : F[i] = W[G[i]]
  /\ \A i \in DOMAIN G : i \in I \/ W[G[i]] = 0

\* A sum over the ledger is one over the lines of the documents.
LEMMA CountedLines ==
  ASSUME NEW D, NEW to, NEW I, NEW F, NEW W, Counts(D, to, I, F, W)
  PROVE  SumFunction(F) = SumFunction(W)
<1>. DEFINE G == Ledger(D, to)
            L == LinesIn(Until(D, to))
            g == [i \in I |-> G[i]]
<1>1. /\ Docs(D) /\ I \subseteq DOMAIN G /\ F \in [I -> Int] /\ W \in [L -> Int]
      /\ \A i \in I : F[i] = W[G[i]]
      /\ \A i \in DOMAIN G : i \in I \/ W[G[i]] = 0
  BY DEF Counts
<1>2. /\ IsFiniteSet(L) /\ Len(G) \in Nat /\ DOMAIN G = 1 .. Len(G)
      /\ \A n \in DOMAIN G : G[n] \in L
      /\ \A x \in L : \E n \in DOMAIN G : G[n] = x
      /\ \A m, n \in DOMAIN G : G[m] = G[n] => m = n
  BY <1>1, LedgerOf
<1>. HIDE DEF G, L
<1>3. IsFiniteSet(I)
  <2>1. IsFiniteSet(1 .. Len(G))
    <3>1. PICK n \in Nat : n = Len(G)
      BY <1>2
    <3>2. IsFiniteSet(1 .. n)
      BY FS_Interval
    <3>. QED
      BY <3>1, <3>2
  <2>. QED
    BY <1>1, <1>2, <2>1, FS_Subset
<1>4. g \in [I -> L] /\ \A i \in I : g[i] = G[i]
  BY <1>1, <1>2
<1>. HIDE DEF g
<1>5. \A x \in L : W[x] = 0 \/ \E i \in I : g[i] = x
  BY <1>1, <1>2, <1>4
<1>6. Renames(I, F, L, W, g)
  BY <1>1, <1>2, <1>3, <1>4, <1>5 DEF Renames
<1>. QED
  BY <1>6, SumRenamed

\* What the lines of a document count together.
AmountLines(W, d) ==
  W[Line(d, In(d.source), d.amount, 0)] + W[Line(d, Out(d.source), 0, d.amount)]
GoodsLines(W, d) ==
  W[Line(d, GoodsIn(d.source), d.cost, 0)] + W[Line(d, GoodsOut(d.source), 0, d.cost)]
DocSum(W, d) == AmountLines(W, d) + IF HasGoods(d) THEN GoodsLines(W, d) ELSE 0

\* Two more things in a sum.
LEMMA SumPair ==
  ASSUME NEW L, IsFiniteSet(L), NEW W \in [L -> Int], NEW T \in SUBSET L,
         NEW a \in L \ T, NEW b \in L \ T, a # b
  PROVE  SumFunction(On(W, T \cup {a, b})) = SumFunction(On(W, T)) + (W[a] + W[b])
<1>1. PICK U : U = T \cup {a}
  OBVIOUS
<1>2. U \in SUBSET L /\ b \in L \ U /\ U \cup {b} = T \cup {a, b}
  BY <1>1
<1>3. \A R \in SUBSET L : \A x \in L \ R :
        SumFunction(On(W, R \cup {x})) = SumFunction(On(W, R)) + W[x]
  BY SumOn
<1>4. SumFunction(On(W, U)) = SumFunction(On(W, T)) + W[a]
  BY <1>1, <1>3
<1>5. SumFunction(On(W, U \cup {b})) = SumFunction(On(W, U)) + W[b]
  BY <1>2, <1>3
<1>6. PICK m \in Int, n \in Int : m = W[a] /\ n = W[b]
  OBVIOUS
<1>7. PICK t \in Int : t = SumFunction(On(W, T))
  BY SumOn
<1>8. SumFunction(On(W, U \cup {b})) = t + (m + n)
  BY <1>4, <1>5, <1>6, <1>7
<1>. QED
  BY <1>2, <1>6, <1>7, <1>8

\* The lines that documents wrote come to what each wrote.
LEMMA LinesSummed ==
  ASSUME NEW d \in Document, NEW L, IsFiniteSet(L), LinesOf(d) \subseteq L,
         NEW W \in [L -> Int]
  PROVE  SumFunction(On(W, LinesOf(d))) = DocSum(W, d)
<1>. DEFINE s == d.source
            a == Line(d, In(s), d.amount, 0)
            b == Line(d, Out(s), 0, d.amount)
            e == Line(d, GoodsIn(s), d.cost, 0)
            f == Line(d, GoodsOut(s), 0, d.cost)
<1>1. s \in Source /\ LinesOf(d) = {a, b} \cup IF HasGoods(d) THEN {e, f} ELSE {}
  BY DocumentLines DEF Pair
<1>2. a # b /\ e # f
  <2>1. In(s) # Out(s) /\ GoodsIn(s) # GoodsOut(s)
    BY <1>1, DifferentCodes
  <2>. QED
    BY <2>1 DEF Line
<1>3. HasGoods(d) => {a, b} \cap {e, f} = {}
  <2>1. HasGoods(d) => {In(s), Out(s)} \cap {GoodsIn(s), GoodsOut(s)} = {}
    BY <1>1, DifferentCodes DEF HasGoods
  <2>. QED
    BY <2>1 DEF Line
<1>4. DocSum(W, d) = W[a] + W[b] + IF HasGoods(d) THEN W[e] + W[f] ELSE 0
  BY DEF DocSum, AmountLines, GoodsLines
<1>. HIDE DEF a, b, e, f, s
<1>5. a \in L /\ b \in L
  BY <1>1
<1>6. W[a] \in Int /\ W[b] \in Int
  BY <1>5
<1>7. SumFunction(On(W, {a, b})) = W[a] + W[b]
  <2>1. {} \in SUBSET L /\ a \in L \ {} /\ b \in L \ {} /\ {} \cup {a, b} = {a, b}
    BY <1>5
  <2>2. SumFunction(On(W, {} \cup {a, b})) = SumFunction(On(W, {})) + (W[a] + W[b])
    BY <1>2, <2>1, SumPair
  <2>3. SumFunction(On(W, {})) = 0
    BY SumOn
  <2>. QED
    BY <1>6, <2>1, <2>2, <2>3
<1>8. CASE HasGoods(d)
  <2>1. {a, b} \in SUBSET L /\ e \in L \ {a, b} /\ f \in L \ {a, b}
    BY <1>1, <1>3, <1>8
  <2>2. PICK T : T = {a, b}
    OBVIOUS
  <2>3. T \in SUBSET L /\ e \in L \ T /\ f \in L \ T /\ e # f
    BY <1>2, <2>1, <2>2
  <2>4. SumFunction(On(W, T \cup {e, f})) = SumFunction(On(W, T)) + (W[e] + W[f])
    BY <2>3, SumPair
  <2>. QED
    BY <1>1, <1>4, <1>7, <1>8, <2>2, <2>4
<1>9. CASE ~HasGoods(d)
  BY <1>1, <1>4, <1>6, <1>7, <1>9
<1>. QED
  BY <1>8, <1>9

\* A sum over the lines of documents is one over the documents.
LEMMA SumByDocument ==
  ASSUME NEW U, Docs(U), NEW W \in [LinesIn(U) -> Int], NEW V \in [U -> Int],
         \A d \in U : V[d] = DocSum(W, d)
  PROVE  SumFunction(W) = SumFunction(V)
<1>. DEFINE L == LinesIn(U)
            doc == [x \in L |-> CHOOSE d \in U : x \in LinesOf(d)]
<1>1. IsFiniteSet(U) /\ IsFiniteSet(L) /\ U \subseteq Document
  BY LinesFinite DEF Docs
<1>2. \A x \in L : doc[x] \in U /\ x \in LinesOf(doc[x])
  BY DEF LinesIn
<1>3. doc \in [L -> U]
  BY <1>2
<1>. HIDE DEF doc
<1>4. ASSUME NEW d \in U PROVE {x \in L : doc[x] = d} = LinesOf(d) /\ LinesOf(d) \subseteq L
  <2>1. LinesOf(d) \subseteq L
    BY DEF LinesIn
  <2>2. ASSUME NEW x \in LinesOf(d) PROVE doc[x] = d
    <3>1. x \in L /\ doc[x] \in U /\ x \in LinesOf(doc[x])
      BY <1>2, <2>1
    <3>2. x.key = d.key /\ x.key = doc[x].key
      BY <1>1, <3>1, LinesTyped
    <3>. QED
      BY <1>1, <3>1, <3>2, ReportsAssumption
  <2>3. ASSUME NEW x \in L, doc[x] = d PROVE x \in LinesOf(d)
    BY <1>2, <2>3
  <2>. QED
    BY <2>1, <2>2, <2>3
<1>5. ByKind(W, doc, L, U) = V
  <2>1. ASSUME NEW d \in U PROVE ByKind(W, doc, L, U)[d] = V[d]
    <3>1. ByKind(W, doc, L, U)[d] = SumFunction(On(W, LinesOf(d)))
      BY <1>4 DEF ByKind
    <3>2. d \in Document /\ LinesOf(d) \subseteq L /\ W \in [L -> Int]
      BY <1>1, <1>4
    <3>. HIDE DEF L
    <3>3. SumFunction(On(W, LinesOf(d))) = DocSum(W, d)
      BY <1>1, <3>2, LinesSummed
    <3>. QED
      BY <3>1, <3>3
  <2>. QED
    BY <2>1 DEF ByKind
<1>6. W \in [L -> Int]
  OBVIOUS
<1>. HIDE DEF L
<1>7. SumFunction(W) = SumFunction(ByKind(W, doc, L, U))
  BY <1>1, <1>3, <1>6, SumByKind
<1>. QED
  BY <1>5, <1>7

\* Of each document, what is in some columns and what is against it in others.
Balanced(U, W, P, Q, R, S) ==
  /\ P \in [U -> Int] /\ Q \in [U -> Int] /\ R \in [U -> Int] /\ S \in [U -> Int]
  /\ \A d \in U : DocSum(W, d) = P[d] + Q[d] - R[d] - S[d]

\* A sum over lines that is column by column what the documents say.
LEMMA BalancedSum ==
  ASSUME NEW U, Docs(U), NEW W \in [LinesIn(U) -> Int], NEW P, NEW Q, NEW R, NEW S,
         Balanced(U, W, P, Q, R, S)
  PROVE  /\ SumFunction(P) \in Int /\ SumFunction(Q) \in Int
         /\ SumFunction(R) \in Int /\ SumFunction(S) \in Int
         /\ SumFunction(W) = SumFunction(P) + SumFunction(Q) - SumFunction(R) - SumFunction(S)
<1>. DEFINE A == [d \in U |-> P[d] + Q[d]]
            B == [d \in U |-> A[d] - R[d]]
            V == [d \in U |-> B[d] - S[d]]
<1>1. /\ P \in [U -> Int] /\ Q \in [U -> Int] /\ R \in [U -> Int] /\ S \in [U -> Int]
      /\ IsFiniteSet(U)
      /\ \A d \in U : DocSum(W, d) = P[d] + Q[d] - R[d] - S[d]
  BY DEF Balanced, Docs
<1>2. A \in [U -> Int] /\ \A d \in U : A[d] = P[d] + Q[d]
  BY <1>1
<1>. HIDE DEF A
<1>3. B \in [U -> Int] /\ \A d \in U : B[d] = A[d] - R[d]
  BY <1>1, <1>2
<1>. HIDE DEF B
<1>4. V \in [U -> Int] /\ \A d \in U : V[d] = B[d] - S[d]
  BY <1>1, <1>3
<1>. HIDE DEF V
<1>5. \A d \in U : V[d] = DocSum(W, d)
  BY <1>1, <1>2, <1>3, <1>4
<1>6. SumFunction(W) = SumFunction(V)
  BY <1>4, <1>5, SumByDocument
<1>7. SumFunction(A) = SumFunction(P) + SumFunction(Q)
  BY <1>1, <1>2, SumPlus
<1>8. SumFunction(B) = SumFunction(A) - SumFunction(R)
  <2>1. IsFiniteSet(U) /\ A \in [U -> Int] /\ R \in [U -> Int] /\ B \in [U -> Int]
    BY <1>1, <1>2, <1>3
  <2>2. \A d \in U : B[d] = A[d] - R[d]
    BY <1>3
  <2>. QED
    BY <2>1, <2>2, SumMinus
<1>9. SumFunction(V) = SumFunction(B) - SumFunction(S)
  <2>1. IsFiniteSet(U) /\ B \in [U -> Int] /\ S \in [U -> Int] /\ V \in [U -> Int]
    BY <1>1, <1>3, <1>4
  <2>2. \A d \in U : V[d] = B[d] - S[d]
    BY <1>4
  <2>. QED
    BY <2>1, <2>2, SumMinus
<1>10. /\ SumFunction(P) \in Int /\ SumFunction(Q) \in Int
       /\ SumFunction(R) \in Int /\ SumFunction(S) \in Int
  BY <1>1, SumSplit
<1>. QED
  BY <1>6, <1>7, <1>8, <1>9, <1>10

\* What lines of some accounts and sources count, on some days.
Part(x, part) ==
  IF part = "net" THEN x.debit - x.credit ELSE IF part = "debit" THEN x.debit ELSE x.credit
Weight(L, part, codes, sources, days) ==
  [x \in L |-> IF x.code \in codes /\ x.source \in sources /\ Falls(x.day, days)
               THEN Part(x, part) ELSE 0]

\* A sum over the positions of a ledger is one over its lines.
LEMMA WeightCounts ==
  ASSUME NEW D, Docs(D), NEW to, NEW part, NEW codes, NEW sources, NEW days,
         NEW I, NEW F,
         I = {i \in DOMAIN Ledger(D, to) :
                /\ Ledger(D, to)[i].code \in codes /\ Ledger(D, to)[i].source \in sources
                /\ Falls(Ledger(D, to)[i].day, days)},
         F = [i \in I |-> Part(Ledger(D, to)[i], part)]
  PROVE  /\ Weight(LinesIn(Until(D, to)), part, codes, sources, days)
              \in [LinesIn(Until(D, to)) -> Int]
         /\ SumFunction(F) =
              SumFunction(Weight(LinesIn(Until(D, to)), part, codes, sources, days))
<1>. DEFINE G == Ledger(D, to)
            L == LinesIn(Until(D, to))
            W == Weight(L, part, codes, sources, days)
<1>1. /\ G \in Seq(LedgerLine) /\ Len(G) \in Nat /\ DOMAIN G = 1 .. Len(G)
      /\ \A n \in DOMAIN G : G[n] \in L
      /\ \A x \in L : \E n \in DOMAIN G : G[n] = x
  BY LedgerOf
<1>2. I = {i \in DOMAIN G : G[i].code \in codes /\ G[i].source \in sources
                              /\ Falls(G[i].day, days)}
      /\ F = [i \in I |-> Part(G[i], part)]
  OBVIOUS
<1>. HIDE DEF G, L
<1>3. \A i \in DOMAIN G : Part(G[i], part) \in Int
  <2>1. \A x \in LedgerLine : Part(x, part) \in Int
    BY DEF Part, LedgerLine
  <2>2. \A i \in DOMAIN G : G[i] \in LedgerLine
    BY <1>1
  <2>. QED
    BY <2>1, <2>2
<1>4. W \in [L -> Int]
  <2>1. \A x \in L : Part(x, part) \in Int
    BY <1>1, <1>3
  <2>. QED
    BY <2>1 DEF Weight
<1>5. \A i \in DOMAIN G : W[G[i]] = IF i \in I THEN Part(G[i], part) ELSE 0
  BY <1>1, <1>2 DEF Weight
<1>. HIDE DEF W
<1>6. I \subseteq DOMAIN G /\ F \in [I -> Int] /\ (\A i \in I : F[i] = W[G[i]])
      /\ \A i \in DOMAIN G : i \in I \/ W[G[i]] = 0
  BY <1>2, <1>3, <1>5
<1>7. Counts(D, to, I, F, W)
  BY <1>4, <1>6 DEF Counts, G, L
<1>8. SumFunction(F) = SumFunction(W)
  BY <1>7, CountedLines
<1>. QED
  BY <1>4, <1>8 DEF W, L

\* What a document counts of them.
Sided(part, codes, in, out, n) ==
  (IF in \in codes /\ part # "credit" THEN n ELSE 0)
    + (IF out \in codes /\ part # "debit" THEN IF part = "net" THEN 0 - n ELSE n ELSE 0)
DocWeight(d, part, codes, sources, days) ==
  IF d.source \in sources /\ Falls(d.day, days)
  THEN Sided(part, codes, In(d.source), Out(d.source), d.amount)
         + IF d.source \in {"INVOICE", "CREDIT_NOTE"}
           THEN Sided(part, codes, GoodsIn(d.source), GoodsOut(d.source), d.cost)
           ELSE 0
  ELSE 0

\* The lines of a document weigh what the document counts.
LEMMA WeightOf ==
  ASSUME NEW U, Docs(U), NEW part \in {"net", "debit", "credit"}, NEW codes, NEW sources,
         NEW days, NEW d \in U
  PROVE  DocSum(Weight(LinesIn(U), part, codes, sources, days), d) =
           DocWeight(d, part, codes, sources, days)
<1>. DEFINE s == d.source
            a == Line(d, In(s), d.amount, 0)
            b == Line(d, Out(s), 0, d.amount)
            e == Line(d, GoodsIn(s), d.cost, 0)
            f == Line(d, GoodsOut(s), 0, d.cost)
            L == LinesIn(U)
            W == Weight(L, part, codes, sources, days)
            counted == s \in sources /\ Falls(d.day, days)
<1>1. d \in Document /\ s \in Source /\ d.amount \in Nat /\ d.cost \in Nat
      /\ LinesOf(d) = {a, b} \cup IF HasGoods(d) THEN {e, f} ELSE {}
  BY DocumentLines DEF Docs, Pair
<1>2. {a, b} \subseteq L /\ (HasGoods(d) => {e, f} \subseteq L)
  BY <1>1 DEF LinesIn
<1>3. DocSum(W, d) = W[a] + W[b] + IF HasGoods(d) THEN W[e] + W[f] ELSE 0
  BY DEF DocSum, AmountLines, GoodsLines
<1>4. ASSUME NEW in, NEW out, NEW n \in Nat, NEW x, NEW y,
             x = Line(d, in, n, 0), y = Line(d, out, 0, n), x \in L, y \in L
      PROVE  W[x] + W[y] = IF counted THEN Sided(part, codes, in, out, n) ELSE 0
  <2>1. /\ x.code = in /\ x.source = s /\ x.day = d.day /\ x.debit = n /\ x.credit = 0
        /\ y.code = out /\ y.source = s /\ y.day = d.day /\ y.debit = 0 /\ y.credit = n
    BY <1>4 DEF Line
  <2>2. /\ W[x] = IF in \in codes /\ counted THEN Part(x, part) ELSE 0
        /\ W[y] = IF out \in codes /\ counted THEN Part(y, part) ELSE 0
    BY <1>4, <2>1 DEF Weight
  <2>3. /\ Part(x, part) = IF part = "credit" THEN 0 ELSE n
        /\ Part(y, part) = IF part = "net" THEN 0 - n ELSE IF part = "debit" THEN 0 ELSE n
    BY <2>1 DEF Part
  <2>. HIDE DEF counted, W
  <2>. QED
    BY <2>2, <2>3 DEF Sided
<1>5. W[a] + W[b] = IF counted THEN Sided(part, codes, In(s), Out(s), d.amount) ELSE 0
  BY <1>1, <1>2, <1>4
<1>6. HasGoods(d) => W[e] + W[f] =
        IF counted THEN Sided(part, codes, GoodsIn(s), GoodsOut(s), d.cost) ELSE 0
  <2>1. SUFFICES ASSUME HasGoods(d)
                 PROVE  W[e] + W[f] =
                          IF counted THEN Sided(part, codes, GoodsIn(s), GoodsOut(s), d.cost)
                          ELSE 0
    OBVIOUS
  <2>2. e \in L /\ f \in L
    BY <1>2, <2>1
  <2>3. d.cost \in Nat /\ e = Line(d, GoodsIn(s), d.cost, 0)
        /\ f = Line(d, GoodsOut(s), 0, d.cost)
    BY <1>1
  <2>. HIDE DEF counted, W, L, e, f, s
  <2>. QED
    BY <1>4, <2>2, <2>3
<1>7. HasGoods(d) <=> s \in {"INVOICE", "CREDIT_NOTE"} /\ d.cost # 0
  BY DEF HasGoods
<1>8. d.cost = 0 => Sided(part, codes, GoodsIn(s), GoodsOut(s), d.cost) = 0
  BY DEF Sided
<1>9. /\ Sided(part, codes, In(s), Out(s), d.amount) \in Int
      /\ Sided(part, codes, GoodsIn(s), GoodsOut(s), d.cost) \in Int
  BY <1>1 DEF Sided
<1>10. PICK g, h : /\ g = Sided(part, codes, In(s), Out(s), d.amount)
                   /\ h = Sided(part, codes, GoodsIn(s), GoodsOut(s), d.cost)
  OBVIOUS
<1>11. PICK wab, wef : wab = W[a] + W[b] /\ wef = W[e] + W[f]
  OBVIOUS
<1>12. DocSum(W, d) = wab + IF HasGoods(d) THEN wef ELSE 0
  BY <1>3, <1>11
<1>13. DocWeight(d, part, codes, sources, days) =
         IF counted THEN g + IF s \in {"INVOICE", "CREDIT_NOTE"} THEN h ELSE 0 ELSE 0
  BY <1>10 DEF DocWeight
<1>14. /\ g \in Int /\ h \in Int /\ wab = (IF counted THEN g ELSE 0)
       /\ HasGoods(d) => wef = IF counted THEN h ELSE 0
       /\ d.cost = 0 => h = 0
  BY <1>5, <1>6, <1>8, <1>9, <1>10, <1>11
<1>. HIDE DEF W, counted, a, b, e, f, s, L
<1>15. DocSum(W, d) = DocWeight(d, part, codes, sources, days)
  BY <1>7, <1>12, <1>13, <1>14
<1>. QED
  BY <1>15 DEF W, L

\* What documents of some sources come to, on some days.
Column(U, field, sources, days) ==
  [d \in U |-> IF d.source \in sources /\ Falls(d.day, days) THEN d[field] ELSE 0]
TotalOf(D, field, sources, days) ==
  SumFunction([d \in {e \in D : e.source \in sources /\ Falls(e.day, days)} |-> d[field]])

\* Of the documents D those of some days are among U.
Comprises(D, U, days) ==
  Docs(D) /\ U \in SUBSET D /\ \A d \in D : Falls(d.day, days) => d \in U

\* A total is the sum of a column.
LEMMA ColumnTotal ==
  ASSUME NEW D, NEW U, NEW days, Comprises(D, U, days),
         NEW field \in {"amount", "cost"}, NEW sources
  PROVE  /\ Column(U, field, sources, days) \in [U -> Int]
         /\ SumFunction(Column(U, field, sources, days)) = TotalOf(D, field, sources, days)
         /\ TotalOf(D, field, sources, days) \in Int
<1>. DEFINE W == Column(U, field, sources, days)
            I == {e \in D : e.source \in sources /\ Falls(e.day, days)}
            F == [d \in I |-> d[field]]
            g == [d \in I |-> d]
<1>0. Docs(D) /\ U \in SUBSET D /\ \A d \in D : Falls(d.day, days) => d \in U
  BY DEF Comprises
<1>1. \A d \in D : d[field] \in Int
  <2>1. \A d \in D : d.amount \in Int /\ d.cost \in Int
    BY <1>0, DocumentLines DEF Docs
  <2>. QED
    BY <2>1
<1>2. I \subseteq U /\ U \subseteq D /\ \A d \in U : d \in I <=> d.source \in sources /\ Falls(d.day, days)
  BY <1>0
<1>3. IsFiniteSet(I) /\ IsFiniteSet(U)
  <2>1. IsFiniteSet(D) /\ I \subseteq D
    BY <1>0 DEF Docs
  <2>. HIDE DEF I
  <2>. QED
    BY <1>2, <2>1, FS_Subset
<1>4. W \in [U -> Int] /\ \A d \in U : W[d] = IF d \in I THEN d[field] ELSE 0
  BY <1>1, <1>2 DEF Column
<1>5. TotalOf(D, field, sources, days) = SumFunction(F)
  BY DEF TotalOf
<1>6. F \in [I -> Int] /\ g \in [I -> U] /\ \A d \in I : F[d] = d[field] /\ g[d] = d
  BY <1>1, <1>2
<1>. HIDE DEF W, I, F, g
<1>7. Renames(I, F, U, W, g)
  BY <1>2, <1>3, <1>4, <1>6 DEF Renames
<1>8. SumFunction(F) = SumFunction(W)
  BY <1>7, SumRenamed
<1>9. SumFunction(F) \in Int
  BY <1>3, <1>6, SumSplit
<1>. QED
  BY <1>4, <1>5, <1>8, <1>9 DEF W

\* Two columns and two against them, each a field of the documents of some sources.
Of(d, c) == IF d.source \in c[2] THEN d[c[1]] ELSE 0
IsColumn(c) == c[1] \in {"amount", "cost"}
Weighs(part, codes, sources, days, p, q, r, s) ==
  /\ part \in {"net", "debit", "credit"}
  /\ IsColumn(p) /\ IsColumn(q) /\ IsColumn(r) /\ IsColumn(s)
  /\ \A d \in Document : Falls(d.day, days) =>
       DocWeight(d, part, codes, sources, days) = Of(d, p) + Of(d, q) - Of(d, r) - Of(d, s)
Total(D, c, days) == TotalOf(D, c[1], c[2], days)

\* A sum over the ledger is what the documents of the columns come to.
LEMMA LedgerSum ==
  ASSUME NEW D, Docs(D), NEW to, NEW part, NEW codes, NEW sources, NEW days, days.to = to,
         NEW p, NEW q, NEW r, NEW s, Weighs(part, codes, sources, days, p, q, r, s),
         NEW I, NEW F,
         I = {i \in DOMAIN Ledger(D, to) :
                /\ Ledger(D, to)[i].code \in codes /\ Ledger(D, to)[i].source \in sources
                /\ Falls(Ledger(D, to)[i].day, days)},
         F = [i \in I |-> Part(Ledger(D, to)[i], part)]
  PROVE  SumFunction(F) = Total(D, p, days) + Total(D, q, days)
                            - Total(D, r, days) - Total(D, s, days)
<1>. DEFINE U == Until(D, to)
            W == Weight(LinesIn(U), part, codes, sources, days)
            Col(c) == Column(U, c[1], c[2], days)
<1>1. W \in [LinesIn(U) -> Int] /\ SumFunction(F) = SumFunction(W)
  BY WeightCounts
<1>2. Docs(U)
  BY LedgerOf
<1>3. /\ part \in {"net", "debit", "credit"}
      /\ IsColumn(p) /\ IsColumn(q) /\ IsColumn(r) /\ IsColumn(s)
      /\ \A d \in Document : Falls(d.day, days) =>
           DocWeight(d, part, codes, sources, days)
             = Of(d, p) + Of(d, q) - Of(d, r) - Of(d, s)
  BY DEF Weighs
<1>4. ASSUME NEW c, IsColumn(c)
      PROVE  Col(c) \in [U -> Int] /\ SumFunction(Col(c)) = Total(D, c, days)
  <2>1. c[1] \in {"amount", "cost"}
    BY <1>4 DEF IsColumn
  <2>2. PICK f, S : f = c[1] /\ S = c[2]
    OBVIOUS
  <2>3. /\ Column(U, f, S, days) \in [U -> Int]
        /\ SumFunction(Column(U, f, S, days)) = TotalOf(D, f, S, days)
    <3>1. Comprises(D, U, days)
      BY DEF Comprises, Until, Falls
    <3>2. PICK u : u = U
      OBVIOUS
    <3>3. Comprises(D, u, days) /\ f \in {"amount", "cost"}
      BY <2>1, <2>2, <3>1, <3>2
    <3>4. /\ Column(u, f, S, days) \in [u -> Int]
          /\ SumFunction(Column(u, f, S, days)) = TotalOf(D, f, S, days)
      BY <3>3, ColumnTotal
    <3>. QED
      BY <3>2, <3>4
  <2>. QED
    BY <2>2, <2>3 DEF Total
<1>5. ASSUME NEW d \in U
      PROVE  DocSum(W, d) = Col(p)[d] + Col(q)[d] - Col(r)[d] - Col(s)[d]
  <2>1. DocSum(W, d) = DocWeight(d, part, codes, sources, days)
    BY <1>2, <1>3, WeightOf
  <2>2. d \in Document
    BY <1>2 DEF Docs
  <2>3. \A c : Col(c)[d] = IF Falls(d.day, days) THEN Of(d, c) ELSE 0
    BY DEF Column, Of
  <2>4. ~Falls(d.day, days) => DocWeight(d, part, codes, sources, days) = 0
    BY DEF DocWeight
  <2>. HIDE DEF W, Col
  <2>5. CASE Falls(d.day, days)
    BY <1>3, <2>1, <2>2, <2>3, <2>5
  <2>6. CASE ~Falls(d.day, days)
    BY <2>1, <2>3, <2>4, <2>6
  <2>. QED
    BY <2>5, <2>6
<1>6. PICK P, Q : P = Col(p) /\ Q = Col(q)
  OBVIOUS
<1>7. PICK R, S : R = Col(r) /\ S = Col(s)
  OBVIOUS
<1>. HIDE DEF W, Col
<1>8. /\ P \in [U -> Int] /\ Q \in [U -> Int] /\ R \in [U -> Int] /\ S \in [U -> Int]
      /\ SumFunction(P) = Total(D, p, days) /\ SumFunction(Q) = Total(D, q, days)
      /\ SumFunction(R) = Total(D, r, days) /\ SumFunction(S) = Total(D, s, days)
  BY <1>3, <1>4, <1>6, <1>7
<1>9. Balanced(U, W, P, Q, R, S)
  BY <1>5, <1>6, <1>7, <1>8 DEF Balanced
<1>. HIDE DEF U
<1>10. SumFunction(W) = SumFunction(P) + SumFunction(Q) - SumFunction(R) - SumFunction(S)
  BY <1>1, <1>2, <1>9, BalancedSum
<1>. QED
  BY <1>1, <1>8, <1>10

Nought == <<"amount", {}>>
Amounts(source) == <<"amount", {source}>>
Costs(source) == <<"cost", {source}>>
AllAmounts == <<"amount", Source>>
AllCosts == <<"cost", {"INVOICE", "CREDIT_NOTE"}>>

\* What each account says of a document.
LEMMA AccountsWeigh ==
  ASSUME NEW days
  PROVE  /\ Weighs("net", {4000}, Source, days,
                   Amounts("CREDIT_NOTE"), Nought, Amounts("INVOICE"), Nought)
         /\ Weighs("net", {5000}, Source, days,
                   Costs("INVOICE"), Nought, Costs("CREDIT_NOTE"), Nought)
         /\ Weighs("net", {2000}, {"PURCHASE"}, days,
                   Nought, Nought, Amounts("PURCHASE"), Nought)
         /\ Weighs("net", {1100}, Source, days,
                   Amounts("INVOICE"), Nought, Amounts("CREDIT_NOTE"),
                   Amounts("CUSTOMER_PAYMENT"))
         /\ Weighs("net", {2000}, Source, days,
                   Amounts("VENDOR_PAYMENT"), Nought, Amounts("PURCHASE"), Nought)
         /\ Weighs("net", {1000}, Source, days,
                   Amounts("CUSTOMER_PAYMENT"), Nought, Amounts("VENDOR_PAYMENT"), Nought)
         /\ Weighs("debit", Nat, Source, days, AllAmounts, AllCosts, Nought, Nought)
         /\ Weighs("credit", Nat, Source, days, AllAmounts, AllCosts, Nought, Nought)
<1>1. /\ IsColumn(Nought) /\ IsColumn(AllAmounts) /\ IsColumn(AllCosts)
      /\ \A s : IsColumn(Amounts(s)) /\ IsColumn(Costs(s))
  BY DEF IsColumn, Nought, AllAmounts, AllCosts, Amounts, Costs
<1>2. ASSUME NEW d \in Document
      PROVE  /\ d.source \in Source /\ d.amount \in Nat /\ d.cost \in Nat
             /\ Of(d, Nought) = 0 /\ Of(d, AllAmounts) = d.amount
             /\ Of(d, AllCosts) = IF d.source \in {"INVOICE", "CREDIT_NOTE"} THEN d.cost ELSE 0
             /\ \A s : /\ Of(d, Amounts(s)) = IF d.source = s THEN d.amount ELSE 0
                       /\ Of(d, Costs(s)) = IF d.source = s THEN d.cost ELSE 0
  <2>1. d.source \in Source /\ d.amount \in Nat /\ d.cost \in Nat
    BY DocumentLines
  <2>2. Of(d, Nought) = 0
    BY DEF Of, Nought
  <2>3. Of(d, AllAmounts) = d.amount
    BY <2>1 DEF Of, AllAmounts
  <2>4. Of(d, AllCosts) = IF d.source \in {"INVOICE", "CREDIT_NOTE"} THEN d.cost ELSE 0
    BY DEF Of, AllCosts
  <2>5. \A s : /\ Of(d, Amounts(s)) = IF d.source = s THEN d.amount ELSE 0
               /\ Of(d, Costs(s)) = IF d.source = s THEN d.cost ELSE 0
    BY DEF Of, Amounts, Costs
  <2>. QED
    BY <2>1, <2>2, <2>3, <2>4, <2>5
<1>3. ASSUME NEW d \in Document, Falls(d.day, days), NEW part, NEW codes, NEW sources
      PROVE  LET A == Sided(part, codes, In(d.source), Out(d.source), d.amount)
                 G == Sided(part, codes, GoodsIn(d.source), GoodsOut(d.source), d.cost) IN
             DocWeight(d, part, codes, sources, days) =
               IF d.source \in sources
               THEN A + IF d.source \in {"INVOICE", "CREDIT_NOTE"} THEN G ELSE 0 ELSE 0
  BY <1>3 DEF DocWeight
<1>4. ASSUME NEW d \in Document
      PROVE  \/ /\ d.source = "INVOICE" /\ In(d.source) = 1100 /\ Out(d.source) = 4000
                /\ GoodsIn(d.source) = 5000 /\ GoodsOut(d.source) = 1200
             \/ /\ d.source = "CREDIT_NOTE" /\ In(d.source) = 4000 /\ Out(d.source) = 1100
                /\ GoodsIn(d.source) = 1200 /\ GoodsOut(d.source) = 5000
             \/ d.source = "PURCHASE" /\ In(d.source) = 1200 /\ Out(d.source) = 2000
             \/ d.source = "CUSTOMER_PAYMENT" /\ In(d.source) = 1000 /\ Out(d.source) = 1100
             \/ d.source = "VENDOR_PAYMENT" /\ In(d.source) = 2000 /\ Out(d.source) = 1000
  BY <1>2 DEF Source, In, Out, GoodsIn, GoodsOut
<1>5. Weighs("net", {4000}, Source, days,
             Amounts("CREDIT_NOTE"), Nought, Amounts("INVOICE"), Nought)
  <2>1. SUFFICES ASSUME NEW d \in Document, Falls(d.day, days)
                 PROVE  DocWeight(d, "net", {4000}, Source, days) =
                          Of(d, Amounts("CREDIT_NOTE")) + Of(d, Nought)
                            - Of(d, Amounts("INVOICE")) - Of(d, Nought)
    BY <1>1 DEF Weighs
  <2>. QED
    BY <1>2, <1>3, <1>4, <2>1 DEF Sided
<1>6. Weighs("net", {5000}, Source, days,
             Costs("INVOICE"), Nought, Costs("CREDIT_NOTE"), Nought)
  <2>1. SUFFICES ASSUME NEW d \in Document, Falls(d.day, days)
                 PROVE  DocWeight(d, "net", {5000}, Source, days) =
                          Of(d, Costs("INVOICE")) + Of(d, Nought)
                            - Of(d, Costs("CREDIT_NOTE")) - Of(d, Nought)
    BY <1>1 DEF Weighs
  <2>. QED
    BY <1>2, <1>3, <1>4, <2>1 DEF Sided
<1>7. Weighs("net", {2000}, {"PURCHASE"}, days,
             Nought, Nought, Amounts("PURCHASE"), Nought)
  <2>1. SUFFICES ASSUME NEW d \in Document, Falls(d.day, days)
                 PROVE  DocWeight(d, "net", {2000}, {"PURCHASE"}, days) =
                          Of(d, Nought) + Of(d, Nought)
                            - Of(d, Amounts("PURCHASE")) - Of(d, Nought)
    BY <1>1 DEF Weighs
  <2>. QED
    BY <1>2, <1>3, <1>4, <2>1 DEF Sided
<1>8. Weighs("net", {1100}, Source, days,
             Amounts("INVOICE"), Nought, Amounts("CREDIT_NOTE"), Amounts("CUSTOMER_PAYMENT"))
  <2>1. SUFFICES ASSUME NEW d \in Document, Falls(d.day, days)
                 PROVE  DocWeight(d, "net", {1100}, Source, days) =
                          Of(d, Amounts("INVOICE")) + Of(d, Nought)
                            - Of(d, Amounts("CREDIT_NOTE")) - Of(d, Amounts("CUSTOMER_PAYMENT"))
    BY <1>1 DEF Weighs
  <2>. QED
    BY <1>2, <1>3, <1>4, <2>1 DEF Sided
<1>9. Weighs("net", {2000}, Source, days,
             Amounts("VENDOR_PAYMENT"), Nought, Amounts("PURCHASE"), Nought)
  <2>1. SUFFICES ASSUME NEW d \in Document, Falls(d.day, days)
                 PROVE  DocWeight(d, "net", {2000}, Source, days) =
                          Of(d, Amounts("VENDOR_PAYMENT")) + Of(d, Nought)
                            - Of(d, Amounts("PURCHASE")) - Of(d, Nought)
    BY <1>1 DEF Weighs
  <2>. QED
    BY <1>2, <1>3, <1>4, <2>1 DEF Sided
<1>10. Weighs("net", {1000}, Source, days,
              Amounts("CUSTOMER_PAYMENT"), Nought, Amounts("VENDOR_PAYMENT"), Nought)
  <2>1. SUFFICES ASSUME NEW d \in Document, Falls(d.day, days)
                 PROVE  DocWeight(d, "net", {1000}, Source, days) =
                          Of(d, Amounts("CUSTOMER_PAYMENT")) + Of(d, Nought)
                            - Of(d, Amounts("VENDOR_PAYMENT")) - Of(d, Nought)
    BY <1>1 DEF Weighs
  <2>. QED
    BY <1>2, <1>3, <1>4, <2>1 DEF Sided
<1>11. ASSUME NEW part \in {"debit", "credit"}
       PROVE  Weighs(part, Nat, Source, days, AllAmounts, AllCosts, Nought, Nought)
  <2>1. SUFFICES ASSUME NEW d \in Document, Falls(d.day, days)
                 PROVE  DocWeight(d, part, Nat, Source, days) =
                          Of(d, AllAmounts) + Of(d, AllCosts) - Of(d, Nought) - Of(d, Nought)
    BY <1>1 DEF Weighs
  <2>2. /\ In(d.source) \in Nat /\ Out(d.source) \in Nat
        /\ GoodsIn(d.source) \in Nat /\ GoodsOut(d.source) \in Nat
    BY <1>2, DifferentCodes
  <2>3. \A in \in Nat, out \in Nat, n \in Nat : Sided(part, Nat, in, out, n) = n
    BY DEF Sided
  <2>. QED
    BY <1>2, <1>3, <2>1, <2>2, <2>3
<1>. QED
  BY <1>5, <1>6, <1>7, <1>8, <1>9, <1>10, <1>11

\* The lines of a ledger that have some codes and sources, on some days.
Those(G, codes, sources, days) ==
  {i \in DOMAIN G : /\ G[i].code \in codes /\ G[i].source \in sources
                    /\ Falls(G[i].day, days)}
Summed(G, part, I) == SumFunction([i \in I |-> Part(G[i], part)])

\* The record of the figures.
FigureRecord(sales, income, purchases, receivables, payables, cash,
             debits, credits, trialDebits, trialCredits) ==
  [sales |-> sales, purchases |-> purchases, receivables |-> receivables,
   payables |-> payables, cash |-> cash,
   profit |-> IF income > 0 THEN income ELSE 0,
   loss |-> IF income < 0 THEN 0 - income ELSE 0,
   debits |-> debits, credits |-> credits,
   trialDebits |-> trialDebits, trialCredits |-> trialCredits]

\* What the figures are worked out from.
LEMMA FiguresFrom ==
  ASSUME NEW G, NEW period,
         NEW Ever, \A i \in DOMAIN G : /\ G[i].code \in Nat /\ G[i].source \in Source
                                       /\ Falls(G[i].day, Ever)
  PROVE  LET Revenue == 0 - Summed(G, "net", Those(G, {4000}, Source, period))
             Expense == Summed(G, "net", Those(G, {5000}, Source, period)) IN
         Figures(G, period) =
           FigureRecord(Revenue, Revenue - Expense,
             0 - Summed(G, "net", Those(G, {2000}, {"PURCHASE"}, period)),
             Summed(G, "net", Those(G, {1100}, Source, Ever)),
             0 - Summed(G, "net", Those(G, {2000}, Source, Ever)),
             Summed(G, "net", Those(G, {1000}, Source, Ever)),
             Summed(G, "debit", Those(G, Nat, Source, period)),
             Summed(G, "credit", Those(G, Nat, Source, period)),
             Summed(G, "debit", Those(G, Nat, Source, Ever)),
             Summed(G, "credit", Those(G, Nat, Source, Ever)))
<1>. DEFINE
       net(I) == SumFunction([i \in I |-> G[i].debit - G[i].credit])
       debit(I) == SumFunction([i \in I |-> G[i].debit])
       credit(I) == SumFunction([i \in I |-> G[i].credit])
       rev == {i \in DOMAIN G : Falls(G[i].day, period) /\ G[i].code = 4000}
       exp == {i \in DOMAIN G : Falls(G[i].day, period) /\ G[i].code = 5000}
       pur == {i \in DOMAIN G : Falls(G[i].day, period) /\ G[i].source = "PURCHASE"
                                  /\ G[i].code = 2000}
       acc(c) == {i \in DOMAIN G : G[i].code = c}
       now == {i \in DOMAIN G : Falls(G[i].day, period)}
       all == {i \in DOMAIN G : TRUE}
<1>1. /\ Those(G, {4000}, Source, period) = rev
      /\ Those(G, {5000}, Source, period) = exp
      /\ Those(G, {2000}, {"PURCHASE"}, period) = pur
  BY DEF Those
<1>2. /\ Those(G, {1100}, Source, Ever) = acc(1100)
      /\ Those(G, {2000}, Source, Ever) = acc(2000)
      /\ Those(G, {1000}, Source, Ever) = acc(1000)
  BY DEF Those
<1>3. /\ Those(G, Nat, Source, period) = now
      /\ Those(G, Nat, Source, Ever) = all
  BY DEF Those
<1>4. \A I : /\ Summed(G, "net", I) = net(I)
             /\ Summed(G, "debit", I) = debit(I)
             /\ Summed(G, "credit", I) = credit(I)
  BY DEF Summed, Part
<1>5. Figures(G, period) =
        FigureRecord(0 - net(rev), (0 - net(rev)) - net(exp), 0 - net(pur),
                     net(acc(1100)), 0 - net(acc(2000)), net(acc(1000)),
                     debit(now), credit(now), debit(all), credit(all))
  <2>1. PICK x : x = Figures(G, period)
    OBVIOUS
  <2>2. x.sales = 0 - net(rev)
    BY <2>1 DEF Figures
  <2>3. x.purchases = 0 - net(pur)
    BY <2>1 DEF Figures
  <2>4. x.receivables = net(acc(1100)) /\ x.payables = 0 - net(acc(2000))
    BY <2>1 DEF Figures
  <2>5. x.cash = net(acc(1000))
    BY <2>1 DEF Figures
  <2>6. /\ x.profit = IF (0 - net(rev)) - net(exp) > 0 THEN (0 - net(rev)) - net(exp) ELSE 0
        /\ x.loss = IF (0 - net(rev)) - net(exp) < 0 THEN 0 - ((0 - net(rev)) - net(exp))
                    ELSE 0
    BY <2>1 DEF Figures
  <2>7. x.debits = debit(now) /\ x.credits = credit(now)
    BY <2>1 DEF Figures
  <2>8. x.trialDebits = debit(all) /\ x.trialCredits = credit(all)
    BY <2>1 DEF Figures
  <2>9. x = [sales |-> x.sales, purchases |-> x.purchases, receivables |-> x.receivables,
             payables |-> x.payables, cash |-> x.cash, profit |-> x.profit,
             loss |-> x.loss, debits |-> x.debits, credits |-> x.credits,
             trialDebits |-> x.trialDebits, trialCredits |-> x.trialCredits]
    BY <2>1 DEF Figures
  <2>. HIDE DEF net, debit, credit, rev, exp, pur, acc, now, all
  <2>. QED
    BY <2>1, <2>2, <2>3, <2>4, <2>5, <2>6, <2>7, <2>8, <2>9 DEF FigureRecord
<1>. HIDE DEF net, debit, credit, rev, exp, pur, acc, now, all
<1>. QED
  BY <1>1, <1>2, <1>3, <1>4, <1>5

\* What the books say.
LEMMA BookedFrom ==
  ASSUME NEW D, NEW period, NEW Ever, Ever = [from |-> 1, to |-> period.to]
  PROVE  LET sales == Total(D, Amounts("INVOICE"), period)
                        - Total(D, Amounts("CREDIT_NOTE"), period)
             income == sales - Total(D, Costs("INVOICE"), period)
                             + Total(D, Costs("CREDIT_NOTE"), period)
             turnover == Total(D, AllAmounts, period) + Total(D, AllCosts, period)
             ever == Total(D, AllAmounts, Ever) + Total(D, AllCosts, Ever)
             received == Total(D, Amounts("CUSTOMER_PAYMENT"), Ever)
             paid == Total(D, Amounts("VENDOR_PAYMENT"), Ever) IN
         Booked(D, period) =
           FigureRecord(sales, income, Total(D, Amounts("PURCHASE"), period),
             Total(D, Amounts("INVOICE"), Ever)
               - Total(D, Amounts("CREDIT_NOTE"), Ever) - received,
             Total(D, Amounts("PURCHASE"), Ever) - paid,
             received - paid, turnover, turnover, ever, ever)
<1>. DEFINE E == [from |-> 1, to |-> period.to]
            am(src, days) == TotalOf(D, "amount", {src}, days)
            co(src, days) == TotalOf(D, "cost", {src}, days)
            aa(days) == TotalOf(D, "amount", Source, days)
            ac(days) == TotalOf(D, "cost", {"INVOICE", "CREDIT_NOTE"}, days)
            sales == am("INVOICE", period) - am("CREDIT_NOTE", period)
<1>1. \A days : /\ Total(D, AllAmounts, days) = aa(days)
                /\ Total(D, AllCosts, days) = ac(days)
                /\ \A s : /\ Total(D, Amounts(s), days) = am(s, days)
                          /\ Total(D, Costs(s), days) = co(s, days)
  BY DEF Total, AllAmounts, AllCosts, Amounts, Costs
<1>2. Booked(D, period) =
        FigureRecord(sales, sales - co("INVOICE", period) + co("CREDIT_NOTE", period),
          am("PURCHASE", period),
          am("INVOICE", E) - am("CREDIT_NOTE", E) - am("CUSTOMER_PAYMENT", E),
          am("PURCHASE", E) - am("VENDOR_PAYMENT", E),
          am("CUSTOMER_PAYMENT", E) - am("VENDOR_PAYMENT", E),
          aa(period) + ac(period), aa(period) + ac(period), aa(E) + ac(E), aa(E) + ac(E))
  BY Zenon DEF Booked, TotalOf, FigureRecord
<1>3. E = Ever
  OBVIOUS
<1>. HIDE DEF E, am, co, aa, ac
<1>. QED
  BY <1>1, <1>2, <1>3

\* Each sum over a ledger is that of some columns of its documents.
LEMMA ThoseSum ==
  ASSUME NEW D, Docs(D), NEW to, NEW part, NEW codes, NEW sources, NEW days, days.to = to,
         NEW p, NEW q, NEW r, NEW s, Weighs(part, codes, sources, days, p, q, r, s)
  PROVE  Summed(Ledger(D, to), part, Those(Ledger(D, to), codes, sources, days)) =
           Total(D, p, days) + Total(D, q, days) - Total(D, r, days) - Total(D, s, days)
<1>1. PICK I : I = Those(Ledger(D, to), codes, sources, days)
  OBVIOUS
<1>2. PICK F : F = [i \in I |-> Part(Ledger(D, to)[i], part)]
  OBVIOUS
<1>3. I = {i \in DOMAIN Ledger(D, to) :
             /\ Ledger(D, to)[i].code \in codes /\ Ledger(D, to)[i].source \in sources
             /\ Falls(Ledger(D, to)[i].day, days)}
  BY <1>1 DEF Those
<1>4. SumFunction(F) =
        Total(D, p, days) + Total(D, q, days) - Total(D, r, days) - Total(D, s, days)
  BY <1>2, <1>3, LedgerSum
<1>. QED
  BY <1>1, <1>2, <1>4 DEF Summed

\* Totals are integers, of nothing 0.
LEMMA TotalTyped ==
  ASSUME NEW D, Docs(D), NEW days, NEW c, IsColumn(c)
  PROVE  Total(D, c, days) \in Int /\ (c = Nought => Total(D, c, days) = 0)
<1>1. PICK f, S : f = c[1] /\ S = c[2]
  OBVIOUS
<1>2. f \in {"amount", "cost"}
  BY <1>1 DEF IsColumn
<1>. DEFINE I == {e \in D : e.source \in S /\ Falls(e.day, days)}
            F == [d \in I |-> d[f]]
<1>3. IsFiniteSet(I)
  <2>1. IsFiniteSet(D) /\ I \subseteq D
    BY DEF Docs
  <2>. HIDE DEF I
  <2>. QED
    BY <2>1, FS_Subset
<1>4. \A d \in D : d[f] \in Int
  <2>1. \A d \in D : d.amount \in Int /\ d.cost \in Int
    BY DocumentLines DEF Docs
  <2>. QED
    BY <1>2, <2>1
<1>5. F \in [I -> Int]
  BY <1>4
<1>6. Total(D, c, days) = SumFunction(F)
  BY <1>1 DEF Total, TotalOf
<1>7. c = Nought => I = {}
  BY <1>1 DEF Nought
<1>. HIDE DEF I, F
<1>8. SumFunction(F) \in Int /\ (I = {} => SumFunction(F) = 0)
  BY <1>3, <1>5, SumSplit
<1>. QED
  BY <1>6, <1>7, <1>8

\* The figures of a report are those of the documents whose ledger was read.
LEMMA FiguresBooked ==
  ASSUME NEW D, Docs(D), NEW period
  PROVE  Figures(Ledger(D, period.to), period) = Booked(D, period)
<1>. DEFINE G == Ledger(D, period.to)
            Ever == [from |-> 1, to |-> period.to]
<1>1. \A i \in DOMAIN G : G[i].code \in Nat /\ G[i].source \in Source /\ Falls(G[i].day, Ever)
  <2>1. \A i \in DOMAIN G : G[i] \in LinesIn(Until(D, period.to))
    BY LedgerOf
  <2>2. ASSUME NEW x \in LinesIn(Until(D, period.to))
        PROVE  x.code \in Nat /\ x.source \in Source /\ Falls(x.day, Ever)
    <3>1. PICK d \in Document : x \in LinesOf(d) /\ d.day <= period.to
      BY DEF LinesIn, Until, Docs
    <3>2. x \in LedgerLine /\ x.day = d.day
      BY <3>1, LinesTyped
    <3>3. d.day >= 1
      <4>1. Today \in Int
        <5>1. DaysInMonth \in Nat /\ Months \in Nat
          BY ReportsAssumption
        <5>. QED
          BY <5>1 DEF Today
      <4>. QED
        BY <4>1, ReportsAssumption
    <3>. QED
      BY <3>1, <3>2, <3>3 DEF LedgerLine, Falls
  <2>. QED
    BY <2>1, <2>2
<1>2. period.to = period.to /\ Ever.to = period.to
  OBVIOUS
<1>3. PICK e, to : e = Ever /\ to = period.to
  OBVIOUS
<1>4. ASSUME NEW days, days.to = to
      PROVE  /\ Summed(G, "net", Those(G, {4000}, Source, days)) =
                  Total(D, Amounts("CREDIT_NOTE"), days) - Total(D, Amounts("INVOICE"), days)
             /\ Summed(G, "net", Those(G, {5000}, Source, days)) =
                  Total(D, Costs("INVOICE"), days) - Total(D, Costs("CREDIT_NOTE"), days)
             /\ Summed(G, "net", Those(G, {2000}, {"PURCHASE"}, days)) =
                  0 - Total(D, Amounts("PURCHASE"), days)
             /\ Summed(G, "net", Those(G, {1100}, Source, days)) =
                  Total(D, Amounts("INVOICE"), days) - Total(D, Amounts("CREDIT_NOTE"), days)
                    - Total(D, Amounts("CUSTOMER_PAYMENT"), days)
             /\ Summed(G, "net", Those(G, {2000}, Source, days)) =
                  Total(D, Amounts("VENDOR_PAYMENT"), days) - Total(D, Amounts("PURCHASE"), days)
             /\ Summed(G, "net", Those(G, {1000}, Source, days)) =
                  Total(D, Amounts("CUSTOMER_PAYMENT"), days)
                    - Total(D, Amounts("VENDOR_PAYMENT"), days)
             /\ Summed(G, "debit", Those(G, Nat, Source, days)) =
                  Total(D, AllAmounts, days) + Total(D, AllCosts, days)
             /\ Summed(G, "credit", Those(G, Nat, Source, days)) =
                  Total(D, AllAmounts, days) + Total(D, AllCosts, days)
  <2>1. ASSUME NEW part, NEW codes, NEW sources, NEW p, NEW q, NEW r, NEW s,
               Weighs(part, codes, sources, days, p, q, r, s)
        PROVE  /\ Summed(G, part, Those(G, codes, sources, days)) =
                    Total(D, p, days) + Total(D, q, days) - Total(D, r, days) - Total(D, s, days)
               /\ Total(D, p, days) \in Int /\ Total(D, q, days) \in Int
               /\ Total(D, r, days) \in Int /\ Total(D, s, days) \in Int
    <3>1. G = Ledger(D, to)
      BY <1>3
    <3>2. Summed(Ledger(D, to), part, Those(Ledger(D, to), codes, sources, days)) =
            Total(D, p, days) + Total(D, q, days) - Total(D, r, days) - Total(D, s, days)
      BY <1>4, <2>1, ThoseSum
    <3>3. IsColumn(p) /\ IsColumn(q) /\ IsColumn(r) /\ IsColumn(s)
      BY <2>1 DEF Weighs
    <3>. HIDE DEF G
    <3>. QED
      BY <3>1, <3>2, <3>3, TotalTyped
  <2>2. Total(D, Nought, days) = 0
    <3>1. IsColumn(Nought)
      BY DEF IsColumn, Nought
    <3>. QED
      BY <3>1, TotalTyped
  <2>. HIDE DEF G
  <2>3. Summed(G, "net", Those(G, {4000}, Source, days)) =
          Total(D, Amounts("CREDIT_NOTE"), days) - Total(D, Amounts("INVOICE"), days)
    <3>1. Weighs("net", {4000}, Source, days,
                 Amounts("CREDIT_NOTE"), Nought, Amounts("INVOICE"), Nought)
      BY AccountsWeigh
    <3>. QED
      BY <2>1, <2>2, <3>1
  <2>4. Summed(G, "net", Those(G, {5000}, Source, days)) =
          Total(D, Costs("INVOICE"), days) - Total(D, Costs("CREDIT_NOTE"), days)
    <3>1. Weighs("net", {5000}, Source, days,
                 Costs("INVOICE"), Nought, Costs("CREDIT_NOTE"), Nought)
      BY AccountsWeigh
    <3>. QED
      BY <2>1, <2>2, <3>1
  <2>5. Summed(G, "net", Those(G, {2000}, {"PURCHASE"}, days)) =
          0 - Total(D, Amounts("PURCHASE"), days)
    <3>1. Weighs("net", {2000}, {"PURCHASE"}, days,
                 Nought, Nought, Amounts("PURCHASE"), Nought)
      BY AccountsWeigh
    <3>. QED
      BY <2>1, <2>2, <3>1
  <2>6. Summed(G, "net", Those(G, {1100}, Source, days)) =
          Total(D, Amounts("INVOICE"), days) - Total(D, Amounts("CREDIT_NOTE"), days)
            - Total(D, Amounts("CUSTOMER_PAYMENT"), days)
    <3>1. Weighs("net", {1100}, Source, days, Amounts("INVOICE"), Nought,
                 Amounts("CREDIT_NOTE"), Amounts("CUSTOMER_PAYMENT"))
      BY AccountsWeigh
    <3>. QED
      BY <2>1, <2>2, <3>1
  <2>7. Summed(G, "net", Those(G, {2000}, Source, days)) =
          Total(D, Amounts("VENDOR_PAYMENT"), days) - Total(D, Amounts("PURCHASE"), days)
    <3>1. Weighs("net", {2000}, Source, days,
                 Amounts("VENDOR_PAYMENT"), Nought, Amounts("PURCHASE"), Nought)
      BY AccountsWeigh
    <3>. QED
      BY <2>1, <2>2, <3>1
  <2>8. Summed(G, "net", Those(G, {1000}, Source, days)) =
          Total(D, Amounts("CUSTOMER_PAYMENT"), days) - Total(D, Amounts("VENDOR_PAYMENT"), days)
    <3>1. Weighs("net", {1000}, Source, days,
                 Amounts("CUSTOMER_PAYMENT"), Nought, Amounts("VENDOR_PAYMENT"), Nought)
      BY AccountsWeigh
    <3>. QED
      BY <2>1, <2>2, <3>1
  <2>9. ASSUME NEW part \in {"debit", "credit"}
        PROVE  Summed(G, part, Those(G, Nat, Source, days)) =
                 Total(D, AllAmounts, days) + Total(D, AllCosts, days)
    <3>1. Weighs(part, Nat, Source, days, AllAmounts, AllCosts, Nought, Nought)
      BY AccountsWeigh
    <3>. QED
      BY <2>1, <2>2, <3>1
  <2>. QED
    BY <2>3, <2>4, <2>5, <2>6, <2>7, <2>8, <2>9
<1>5. e.to = to /\ period.to = to
  BY <1>3
<1>6. \A s : Total(D, Amounts(s), period) \in Int /\ Total(D, Costs(s), period) \in Int
  BY TotalTyped DEF IsColumn, Amounts, Costs
<1>7. \A s : Total(D, Amounts(s), e) \in Int
  BY TotalTyped DEF IsColumn, Amounts
<1>8. \A days : Total(D, AllAmounts, days) \in Int /\ Total(D, AllCosts, days) \in Int
  BY TotalTyped DEF IsColumn, AllAmounts, AllCosts
<1>. DEFINE sales == Total(D, Amounts("INVOICE"), period)
                       - Total(D, Amounts("CREDIT_NOTE"), period)
            expense == Total(D, Costs("INVOICE"), period)
                         - Total(D, Costs("CREDIT_NOTE"), period)
            turnover == Total(D, AllAmounts, period) + Total(D, AllCosts, period)
            ever == Total(D, AllAmounts, e) + Total(D, AllCosts, e)
            received == Total(D, Amounts("CUSTOMER_PAYMENT"), e)
            paid == Total(D, Amounts("VENDOR_PAYMENT"), e)
            purchases == Total(D, Amounts("PURCHASE"), period)
            owed == Total(D, Amounts("INVOICE"), e) - Total(D, Amounts("CREDIT_NOTE"), e)
                      - received
            due == Total(D, Amounts("PURCHASE"), e) - paid
<1>9. Booked(D, period) =
        FigureRecord(sales, sales - Total(D, Costs("INVOICE"), period)
                              + Total(D, Costs("CREDIT_NOTE"), period),
                     purchases, owed, due, received - paid, turnover, turnover, ever, ever)
  <2>1. e = [from |-> 1, to |-> period.to]
    BY <1>3
  <2>. QED
    BY <2>1, BookedFrom
<1>10. Figures(G, period) =
         FigureRecord(0 - Summed(G, "net", Those(G, {4000}, Source, period)),
           0 - Summed(G, "net", Those(G, {4000}, Source, period))
             - Summed(G, "net", Those(G, {5000}, Source, period)),
           0 - Summed(G, "net", Those(G, {2000}, {"PURCHASE"}, period)),
           Summed(G, "net", Those(G, {1100}, Source, e)),
           0 - Summed(G, "net", Those(G, {2000}, Source, e)),
           Summed(G, "net", Those(G, {1000}, Source, e)),
           Summed(G, "debit", Those(G, Nat, Source, period)),
           Summed(G, "credit", Those(G, Nat, Source, period)),
           Summed(G, "debit", Those(G, Nat, Source, e)),
           Summed(G, "credit", Those(G, Nat, Source, e)))
  <2>1. \A i \in DOMAIN G : G[i].code \in Nat /\ G[i].source \in Source /\ Falls(G[i].day, e)
    BY <1>1, <1>3
  <2>. HIDE DEF G
  <2>. QED
    BY <2>1, FiguresFrom
<1>. HIDE DEF G
<1>11. 0 - Summed(G, "net", Those(G, {4000}, Source, period)) = sales
  BY <1>4, <1>5, <1>6
<1>12. Summed(G, "net", Those(G, {5000}, Source, period)) = expense
  BY <1>4, <1>5
<1>13. 0 - Summed(G, "net", Those(G, {2000}, {"PURCHASE"}, period)) = purchases
  BY <1>4, <1>5, <1>6
<1>14. /\ Summed(G, "net", Those(G, {1100}, Source, e)) = owed
       /\ Summed(G, "net", Those(G, {1000}, Source, e)) = received - paid
  BY <1>4, <1>5
<1>15. 0 - Summed(G, "net", Those(G, {2000}, Source, e)) = due
  BY <1>4, <1>5, <1>7
<1>16. /\ Summed(G, "debit", Those(G, Nat, Source, period)) = turnover
       /\ Summed(G, "credit", Those(G, Nat, Source, period)) = turnover
       /\ Summed(G, "debit", Those(G, Nat, Source, e)) = ever
       /\ Summed(G, "credit", Those(G, Nat, Source, e)) = ever
  BY <1>4, <1>5
<1>17. sales - expense = sales - Total(D, Costs("INVOICE"), period)
                           + Total(D, Costs("CREDIT_NOTE"), period)
  BY <1>6
<1>. HIDE DEF sales, expense, turnover, ever, received, paid, purchases, owed, due
<1>18. Figures(G, period) = Booked(D, period)
  BY <1>9, <1>10, <1>11, <1>12, <1>13, <1>14, <1>15, <1>16, <1>17
<1>. QED
  BY <1>18 DEF G

\* As many different things as there are in a list of different things.
LEMMA DistinctCount ==
  ASSUME NEW s, Len(s) \in Nat, DOMAIN s = 1 .. Len(s),
         \A m, n \in DOMAIN s : s[m] = s[n] => m = n
  PROVE  Cardinality({s[n] : n \in DOMAIN s}) = Len(s)
<1>. DEFINE T == {s[n] : n \in DOMAIN s}
            f == [n \in 1 .. Len(s) |-> s[n]]
<1>1. f \in Injection(1 .. Len(s), T) /\ f \in Surjection(1 .. Len(s), T)
  BY DEF Injection, IsInjective, Surjection
<1>2. IsFiniteSet(1 .. Len(s)) /\ Cardinality(1 .. Len(s)) = Len(s)
  <2>1. PICK n \in Nat : n = Len(s)
    OBVIOUS
  <2>2. IsFiniteSet(1 .. n) /\ Cardinality(1 .. n) = IF 1 > n THEN 0 ELSE n - 1 + 1
    BY FS_Interval
  <2>. QED
    BY <2>1, <2>2
<1>. HIDE DEF f, T
<1>3. Cardinality(T) = Cardinality(1 .. Len(s))
  BY <1>1, <1>2, FS_Surjection
<1>. QED
  BY <1>2, <1>3 DEF T

\* A report that was answered adds up.
LEMMA ReportIsTrue ==
  ASSUME NEW r, Asked(r), r.stage = "answered" => Fully(r)
  PROVE  ReportAddsUp(r)
<1>1. SUFFICES ASSUME Fully(r) PROVE ReportAddsUp(r)
  BY DEF ReportAddsUp
<1>2. /\ First(r) \subseteq Read(r)
      /\ ~r.shifted => Docs(r.truth) /\ r.lines = Ledger(r.truth, r.period.to)
  BY <1>1 DEF Fully
<1>3. ASSUME ~r.shifted
      PROVE  /\ Cardinality(Read(r)) = Len(r.lines)
             /\ Figures(r.lines, r.period) = Booked(r.truth, r.period)
  <2>1. PICK D, G : D = r.truth /\ G = Ledger(D, r.period.to)
    OBVIOUS
  <2>2. Docs(D) /\ r.lines = G
    BY <1>2, <1>3, <2>1
  <2>3. Len(G) \in Nat /\ DOMAIN G = 1 .. Len(G)
        /\ \A m, n \in DOMAIN G : G[m] = G[n] => m = n
    <3>1. /\ Len(Ledger(D, r.period.to)) \in Nat
          /\ DOMAIN Ledger(D, r.period.to) = 1 .. Len(Ledger(D, r.period.to))
          /\ \A m, n \in DOMAIN Ledger(D, r.period.to) :
               Ledger(D, r.period.to)[m] = Ledger(D, r.period.to)[n] => m = n
      BY <2>2, LedgerOf
    <3>. QED
      BY <2>1, <3>1
  <2>4. Cardinality({G[n] : n \in DOMAIN G}) = Len(G)
    BY <2>3, DistinctCount
  <2>5. Figures(Ledger(D, r.period.to), r.period) = Booked(D, r.period)
    BY <2>2, FiguresBooked
  <2>. QED
    BY <2>1, <2>2, <2>4, <2>5 DEF Read
<1>. QED
  BY <1>2, <1>3 DEF ReportAddsUp, First, Read

\* What movements of some types come to of a product.
TypeTotal(M, S, types, p) ==
  SumFunction([i \in {j \in S : M[j].product = p /\ M[j].type \in types} |-> M[i].quantity])
TypeColumn(M, S, types, p) ==
  [i \in S |-> IF M[i].product = p /\ M[i].type \in types THEN M[i].quantity ELSE 0]

\* What some types come to is the sum of a column.
LEMMA TypesTotal ==
  ASSUME NEW M, NEW S, IsFiniteSet(S), \A i \in S : M[i].quantity \in Nat, NEW types, NEW p
  PROVE  /\ TypeColumn(M, S, types, p) \in [S -> Int]
         /\ SumFunction(TypeColumn(M, S, types, p)) = TypeTotal(M, S, types, p)
<1>. DEFINE I == {j \in S : M[j].product = p /\ M[j].type \in types}
            F == [i \in I |-> M[i].quantity]
            W == TypeColumn(M, S, types, p)
            g == [i \in I |-> i]
<1>1. I \subseteq S /\ \A i \in S : i \in I <=> M[i].product = p /\ M[i].type \in types
  OBVIOUS
<1>2. IsFiniteSet(I)
  <2>. HIDE DEF I
  <2>. QED
    BY <1>1, FS_Subset
<1>3. /\ W \in [S -> Int] /\ F \in [I -> Int] /\ g \in [I -> S]
      /\ \A i \in I : F[i] = M[i].quantity /\ g[i] = i
      /\ \A i \in S : W[i] = IF i \in I THEN M[i].quantity ELSE 0
  BY <1>1 DEF TypeColumn
<1>4. TypeTotal(M, S, types, p) = SumFunction(F)
  BY DEF TypeTotal
<1>. HIDE DEF I, F, W, g
<1>5. Renames(I, F, S, W, g)
  BY <1>1, <1>2, <1>3 DEF Renames
<1>6. SumFunction(F) = SumFunction(W)
  BY <1>5, SumRenamed
<1>. QED
  BY <1>3, <1>4, <1>6 DEF W

\* The stock of a product, of movements that were read, is what came in less what
\* went out.
Moves(M, ids, S) ==
  /\ IsFiniteSet(S) /\ Len(ids) \in Nat /\ DOMAIN ids = 1 .. Len(ids)
  /\ \A i \in S : M[i].quantity \in Nat
  /\ \A n \in DOMAIN ids : ids[n] \in S
  /\ \A i \in S : \E n \in DOMAIN ids : ids[n] = i
  /\ \A m, n \in DOMAIN ids : ids[m] = ids[n] => m = n

\* The stock is what came in less what went out.
LEMMA StockOf ==
  ASSUME NEW ids, NEW S, Moves(moves, ids, S), NEW p \in {moves[i].product : i \in S}
  PROVE  Stock(ids)[p] = TypeTotal(moves, S, Incoming, p) - TypeTotal(moves, S, Outgoing, p)
<1>1. /\ IsFiniteSet(S) /\ Len(ids) \in Nat /\ DOMAIN ids = 1 .. Len(ids)
      /\ \A i \in S : moves[i].quantity \in Nat
      /\ \A n \in DOMAIN ids : ids[n] \in S
      /\ \A i \in S : \E n \in DOMAIN ids : ids[n] = i
      /\ \A m, n \in DOMAIN ids : ids[m] = ids[n] => m = n
  BY DEF Moves
<1>. DEFINE I == {n \in DOMAIN ids : moves[ids[n]].product = p}
            F == [n \in I |-> Direction(moves[ids[n]].type) * moves[ids[n]].quantity]
            g == [n \in I |-> ids[n]]
            W == [i \in S |-> IF moves[i].product = p
                             THEN Direction(moves[i].type) * moves[i].quantity ELSE 0]
            A == TypeColumn(moves, S, Incoming, p)
            B == TypeColumn(moves, S, Outgoing, p)
<1>2. Stock(ids)[p] = SumFunction(F)
  <2>1. p \in {moves[ids[n]].product : n \in DOMAIN ids}
    BY <1>1
  <2>. QED
    BY <2>1 DEF Stock
<1>3. \A type : /\ Direction(type) \in {1, 0 - 1, 0}
                /\ Direction(type) = 1 <=> type \in Incoming
                /\ Direction(type) = 0 - 1 <=> type \in Outgoing
  <2>1. Incoming \cap Outgoing = {}
    BY DEF Incoming, Outgoing
  <2>. QED
    BY <2>1 DEF Direction
<1>4. \A i \in S : Direction(moves[i].type) * moves[i].quantity =
        (IF moves[i].type \in Incoming THEN moves[i].quantity ELSE 0)
          - (IF moves[i].type \in Outgoing THEN moves[i].quantity ELSE 0)
  <2>1. SUFFICES ASSUME NEW i \in S
                 PROVE  Direction(moves[i].type) * moves[i].quantity =
                          (IF moves[i].type \in Incoming THEN moves[i].quantity ELSE 0)
                            - (IF moves[i].type \in Outgoing THEN moves[i].quantity ELSE 0)
    OBVIOUS
  <2>2. PICK n \in Nat : n = moves[i].quantity
    BY <1>1
  <2>3. 1 * n = n /\ (0 - 1) * n = 0 - n /\ 0 * n = 0
    OBVIOUS
  <2>. QED
    BY <1>3, <2>2, <2>3
<1>5. \A i \in S : W[i] = A[i] - B[i] /\ W[i] \in Int
  <2>1. \A i \in S : /\ A[i] = IF moves[i].product = p /\ moves[i].type \in Incoming
                               THEN moves[i].quantity ELSE 0
                     /\ B[i] = IF moves[i].product = p /\ moves[i].type \in Outgoing
                               THEN moves[i].quantity ELSE 0
    BY DEF TypeColumn
  <2>2. \A i \in S : W[i] = IF moves[i].product = p
                            THEN Direction(moves[i].type) * moves[i].quantity ELSE 0
    OBVIOUS
  <2>. HIDE DEF A, B, W
  <2>. QED
    BY <1>1, <1>4, <2>1, <2>2
<1>6. IsFiniteSet(I)
  <2>1. PICK n \in Nat : n = Len(ids)
    BY <1>1
  <2>2. IsFiniteSet(1 .. n) /\ I \subseteq 1 .. n
    <3>1. IsFiniteSet(1 .. n)
      BY FS_Interval
    <3>. QED
      BY <1>1, <2>1, <3>1
  <2>. HIDE DEF I
  <2>. QED
    BY <2>2, FS_Subset
<1>7. /\ W \in [S -> Int] /\ g \in [I -> S]
      /\ \A n \in I : n \in DOMAIN ids /\ g[n] = ids[n] /\ F[n] = W[ids[n]] /\ F[n] \in Int
  <2>1. \A n \in I : n \in DOMAIN ids /\ ids[n] \in S /\ moves[ids[n]].product = p
    BY <1>1
  <2>2. \A n \in I : F[n] = W[ids[n]] /\ g[n] = ids[n]
    BY <2>1
  <2>3. W \in [S -> Int]
    <3>1. W = [i \in S |-> W[i]]
      OBVIOUS
    <3>. HIDE DEF W, A, B
    <3>. QED
      BY <1>5, <3>1
  <2>4. g \in [I -> S]
    BY <2>1
  <2>. HIDE DEF W, F, I, g, A, B
  <2>. QED
    BY <1>5, <2>1, <2>2, <2>3, <2>4
<1>8. F \in [I -> Int]
  <2>1. F = [n \in I |-> F[n]]
    OBVIOUS
  <2>. HIDE DEF F, I, W, g
  <2>. QED
    BY <1>7, <2>1
<1>9. \A i \in S : W[i] = 0 \/ \E n \in I : g[n] = i
  <2>1. SUFFICES ASSUME NEW i \in S, W[i] # 0 PROVE \E n \in I : g[n] = i
    OBVIOUS
  <2>2. moves[i].product = p
    BY <2>1
  <2>3. PICK n \in DOMAIN ids : ids[n] = i
    BY <1>1
  <2>4. n \in I
    BY <2>2, <2>3
  <2>. HIDE DEF I, g, W
  <2>. QED
    BY <1>7, <2>3, <2>4
<1>. HIDE DEF I, F, g, W, A, B
<1>10. Renames(I, F, S, W, g)
  BY <1>1, <1>6, <1>7, <1>8, <1>9 DEF Renames
<1>11. SumFunction(F) = SumFunction(W)
  BY <1>10, SumRenamed
<1>12. /\ A \in [S -> Int] /\ SumFunction(A) = TypeTotal(moves, S, Incoming, p)
       /\ B \in [S -> Int] /\ SumFunction(B) = TypeTotal(moves, S, Outgoing, p)
  BY <1>1, TypesTotal DEF A, B
<1>13. SumFunction(W) = SumFunction(A) - SumFunction(B)
  <2>1. IsFiniteSet(S) /\ A \in [S -> Int] /\ B \in [S -> Int] /\ W \in [S -> Int]
    BY <1>1, <1>7, <1>12
  <2>2. \A i \in S : W[i] = A[i] - B[i]
    BY <1>5
  <2>. QED
    BY <2>1, <2>2, SumMinus
<1>. QED
  BY <1>2, <1>11, <1>12, <1>13

\* A stock overview that was answered adds up.
LEMMA StockIsTrue ==
  ASSUME moves \in Seq(Movement), NEW r, StockIs(r, moves, open)
  PROVE  StockAddsUp(r)
<1>1. SUFFICES ASSUME r.stage = "answered" PROVE StockAddsUp(r)
  BY DEF StockAddsUp
<1>. DEFINE s == r.got
            S == r.first
<1>2. /\ s \in Seq(Nat) /\ Got(r) \subseteq DOMAIN moves
      /\ \A m, n \in DOMAIN s : m < n => s[m] > s[n]
      /\ S \subseteq Got(r) /\ (r.quiet => Got(r) \subseteq S)
  BY <1>1 DEF StockIs
<1>3. Got(r) = {s[n] : n \in DOMAIN s}
  BY DEF Got
<1>. HIDE DEF s, S
<1>4. Len(s) \in Nat /\ DOMAIN s = 1 .. Len(s) /\ \A n \in DOMAIN s : s[n] \in Nat
  BY <1>2
<1>5. \A m, n \in DOMAIN s : s[m] = s[n] => m = n
  <2>1. SUFFICES ASSUME NEW m \in DOMAIN s, NEW n \in DOMAIN s, s[m] = s[n], m # n PROVE FALSE
    OBVIOUS
  <2>2. m \in Nat /\ n \in Nat /\ s[m] \in Nat
    BY <1>4
  <2>3. m < n \/ n < m
    BY <2>1, <2>2
  <2>. QED
    BY <1>2, <2>1, <2>2, <2>3
<1>6. Cardinality({s[n] : n \in DOMAIN s}) = Len(s)
  BY <1>4, <1>5, DistinctCount
<1>7. ASSUME r.quiet PROVE Moves(moves, s, S)
  <2>1. S = Got(r)
    BY <1>2, <1>7
  <2>2. PICK n \in Nat : n = Len(moves)
    BY <1>2
  <2>3. S \subseteq 1 .. n
    BY <1>2, <2>1, <2>2
  <2>4. IsFiniteSet(S)
    <3>1. IsFiniteSet(1 .. n)
      BY FS_Interval
    <3>. QED
      BY <2>3, <3>1, FS_Subset
  <2>5. \A i \in S : moves[i].quantity \in Nat
    <3>1. \A i \in S : moves[i] \in Movement
      BY <2>2, <2>3
    <3>. QED
      BY <3>1, ReportsAssumption
  <2>6. (\A m \in DOMAIN s : s[m] \in S) /\ (\A i \in S : \E m \in DOMAIN s : s[m] = i)
    BY <1>3, <2>1
  <2>. QED
    BY <1>4, <1>5, <2>4, <2>5, <2>6 DEF Moves
<1>8. ASSUME r.quiet, NEW p \in {moves[i].product : i \in S}
      PROVE  Stock(s)[p] = TypeTotal(moves, S, Incoming, p) - TypeTotal(moves, S, Outgoing, p)
  BY <1>7, <1>8, StockOf
<1>9. r.quiet => \A p \in {moves[i].product : i \in r.first} :
        Stock(r.got)[p] = TypeTotal(moves, r.first, Incoming, p)
                            - TypeTotal(moves, r.first, Outgoing, p)
  BY <1>8 DEF s, S
<1>10. Cardinality({r.got[n] : n \in DOMAIN r.got}) = Len(r.got)
       /\ r.first \subseteq {r.got[n] : n \in DOMAIN r.got}
  BY <1>2, <1>3, <1>6 DEF s, S
<1>. QED
  BY <1>9, <1>10 DEF StockAddsUp, TypeTotal

\* Sales, profit and loss are integers, and the sales are those of the documents.
SaleColumn(D, days) ==
  [d \in D |-> IF Falls(d.day, days)
               THEN Of(d, Amounts("INVOICE")) - Of(d, Amounts("CREDIT_NOTE")) ELSE 0]

\* What is booked as sales, profit and loss.
LEMMA BookedTyped ==
  ASSUME NEW D, Docs(D), NEW days
  PROVE  /\ Booked(D, days).profit \in Int /\ Booked(D, days).loss \in Int
         /\ Booked(D, days).sales \in Int
         /\ Booked(D, days).sales =
              Total(D, Amounts("INVOICE"), days) - Total(D, Amounts("CREDIT_NOTE"), days)
<1>1. \A s : Total(D, Amounts(s), days) \in Int /\ Total(D, Costs(s), days) \in Int
  BY TotalTyped DEF IsColumn, Amounts, Costs
<1>2. PICK m \in Int, n \in Int :
        m = Total(D, Amounts("INVOICE"), days) /\ n = Total(D, Amounts("CREDIT_NOTE"), days)
  BY <1>1
<1>3. PICK k \in Int, l \in Int :
        k = Total(D, Costs("INVOICE"), days) /\ l = Total(D, Costs("CREDIT_NOTE"), days)
  BY <1>1
<1>4. PICK b : b = Booked(D, days)
  OBVIOUS
<1>5. \E p, r, q, c, t, e :
        b = FigureRecord(m - n, m - n - k + l, p, r, q, c, t, t, e, e)
  <2>1. PICK Ever : Ever = [from |-> 1, to |-> days.to]
    OBVIOUS
  <2>. QED
    BY <1>2, <1>3, <1>4, <2>1, BookedFrom
<1>6. /\ b.sales = m - n
      /\ b.profit = IF m - n - k + l > 0 THEN m - n - k + l ELSE 0
      /\ b.loss = IF m - n - k + l < 0 THEN 0 - (m - n - k + l) ELSE 0
  BY <1>5 DEF FigureRecord
<1>7. b.sales \in Int /\ b.profit \in Int /\ b.loss \in Int
  BY <1>6
<1>. QED
  BY <1>2, <1>4, <1>6, <1>7

\* The sales are the sum of a column.
LEMMA SalesSummed ==
  ASSUME NEW D, Docs(D), NEW days
  PROVE  /\ SaleColumn(D, days) \in [D -> Int]
         /\ SumFunction(SaleColumn(D, days)) = Booked(D, days).sales
<1>. DEFINE A == Column(D, "amount", {"INVOICE"}, days)
            B == Column(D, "amount", {"CREDIT_NOTE"}, days)
            W == SaleColumn(D, days)
<1>1. Comprises(D, D, days) /\ IsFiniteSet(D)
  BY DEF Comprises, Docs
<1>2. PICK f : f = "amount"
  OBVIOUS
<1>3. f \in {"amount", "cost"}
  BY <1>2
<1>4. \A S : /\ Column(D, f, S, days) \in [D -> Int]
             /\ SumFunction(Column(D, f, S, days)) = TotalOf(D, f, S, days)
  BY <1>1, <1>3, ColumnTotal
<1>5. /\ A \in [D -> Int] /\ SumFunction(A) = Total(D, Amounts("INVOICE"), days)
      /\ B \in [D -> Int] /\ SumFunction(B) = Total(D, Amounts("CREDIT_NOTE"), days)
  BY <1>2, <1>4 DEF Total, Amounts
<1>6. \A d \in D : /\ A[d] = IF Falls(d.day, days) THEN Of(d, Amounts("INVOICE")) ELSE 0
                   /\ B[d] = IF Falls(d.day, days) THEN Of(d, Amounts("CREDIT_NOTE")) ELSE 0
  BY DEF Column, Of, Amounts
<1>7. DOMAIN W = D /\ W = [d \in D |-> W[d]]
      /\ \A d \in D : W[d] = IF Falls(d.day, days)
                             THEN Of(d, Amounts("INVOICE")) - Of(d, Amounts("CREDIT_NOTE"))
                             ELSE 0
  BY DEF SaleColumn
<1>. HIDE DEF A, B, W
<1>8. \A d \in D : A[d] \in Int /\ B[d] \in Int
  BY <1>5
<1>9. \A d \in D : W[d] = A[d] - B[d]
  BY <1>6, <1>7, <1>8
<1>10. W \in [D -> Int]
  <2>1. \A d \in D : W[d] \in Int
    BY <1>8, <1>9
  <2>. QED
    BY <1>7, <2>1
<1>11. SumFunction(W) = SumFunction(A) - SumFunction(B)
  BY <1>1, <1>5, <1>9, <1>10, SumMinus
<1>12. Booked(D, days).sales =
         Total(D, Amounts("INVOICE"), days) - Total(D, Amounts("CREDIT_NOTE"), days)
  BY BookedTyped
<1>. QED
  BY <1>5, <1>10, <1>11, <1>12 DEF W

\* Each day up to today falls into one month of the trend.
LEMMA MonthOfDay ==
  ASSUME NEW day \in 1 .. Today
  PROVE  \E i \in 1 .. Months : Falls(day, TrendPeriods[i])
<1>. DEFINE S == {i \in Nat : day <= DaysInMonth * i}
            less == OpToRel(<, Nat)
<1>0. DaysInMonth \in Nat /\ Months \in Nat /\ DaysInMonth > 0
  BY ReportsAssumption
<1>1. IsWellFoundedOn(less, Nat)
  BY NatLessThanWellFounded
<1>2. Today \in Int /\ day \in Int /\ day >= 1 /\ Months \in S
  <2>1. PICK t : t = DaysInMonth * Months
    OBVIOUS
  <2>2. t \in Int /\ t = Today
    BY <1>0, <2>1 DEF Today
  <2>3. day \in Int /\ 1 <= day /\ day <= t
    BY <2>2
  <2>. QED
    BY <1>0, <2>1, <2>2, <2>3
<1>3. S \subseteq Nat /\ S # {}
  BY <1>2
<1>4. PICK i \in S : \A j \in S : ~(<<j, i>> \in less)
  <2>. HIDE DEF S, less
  <2>. QED
    BY <1>1, <1>3, WFMin
<1>5. \A j \in S : ~(j < i)
  BY <1>4 DEF OpToRel
<1>6. i \in Nat /\ day <= DaysInMonth * i
  OBVIOUS
<1>7. i # 0
  <2>1. DaysInMonth * 0 = 0
    BY <1>0
  <2>. QED
    BY <1>2, <1>6, <2>1
<1>8. i <= Months
  BY <1>0, <1>2, <1>5, <1>6
<1>9. i - 1 \in Nat /\ i - 1 < i
  BY <1>6, <1>7
<1>10. ~(day <= DaysInMonth * (i - 1))
  BY <1>5, <1>9
<1>11. DaysInMonth * (i - 1) + 1 <= day
  <2>1. PICK m \in Int : m = DaysInMonth * (i - 1)
    BY <1>0, <1>9
  <2>. QED
    BY <1>2, <1>10, <2>1
<1>12. TrendPeriods[i] = [from |-> DaysInMonth * (i - 1) + 1, to |-> DaysInMonth * i]
       /\ i \in 1 .. Months
  BY <1>0, <1>6, <1>7, <1>8 DEF TrendPeriods
<1>. QED
  BY <1>6, <1>11, <1>12 DEF Falls

\* And into no other.
LEMMA MonthsApart ==
  ASSUME NEW day \in Int, NEW i \in 1 .. Months, NEW j \in 1 .. Months,
         Falls(day, TrendPeriods[i]), Falls(day, TrendPeriods[j])
  PROVE  i = j
<1>0. DaysInMonth \in Nat /\ Months \in Nat
  BY ReportsAssumption
<1>1. ASSUME NEW m \in 1 .. Months, NEW n \in 1 .. Months, m < n,
             Falls(day, TrendPeriods[m]), Falls(day, TrendPeriods[n])
      PROVE  FALSE
  <2>1. m \in Nat /\ n \in Nat /\ n - 1 - m \in Nat
    BY <1>0, <1>1
  <2>2. day <= DaysInMonth * m /\ DaysInMonth * (n - 1) + 1 <= day
    BY <1>1 DEF Falls, TrendPeriods
  <2>3. PICK k \in Nat : n - 1 = m + k
    BY <2>1
  <2>4. DaysInMonth * (m + k) = DaysInMonth * m + DaysInMonth * k
    BY <1>0, <2>1
  <2>5. PICK a \in Nat, b \in Nat : a = DaysInMonth * m /\ b = DaysInMonth * k
    BY <1>0, <2>1
  <2>6. day <= a /\ a + b + 1 <= day
    BY <2>2, <2>3, <2>4, <2>5
  <2>. QED
    BY <2>6
<1>2. i \in Int /\ j \in Int
  BY <1>0
<1>. QED
  BY <1>1, <1>2

\* The parts of a figure that fit, and what each says of the documents.
TrendOf(D, parts, F) ==
  /\ Docs(D) /\ Complete("trend", parts)
  /\ F \in [parts -> Int] /\ \A r \in parts : F[r] = Booked(D, r.period).sales

\* The months of the trend add up to the sales of all of them.
LEMMA TrendAdds ==
  ASSUME NEW D, NEW parts, NEW F, TrendOf(D, parts, F)
  PROVE  SumFunction(F) = Booked(D, [from |-> 1, to |-> Today]).sales
<1>0. /\ Docs(D) /\ IsFiniteSet(D) /\ Complete("trend", parts)
      /\ F \in [parts -> Int] /\ \A r \in parts : F[r] = Booked(D, r.period).sales
  BY DEF TrendOf, Docs
<1>. DEFINE Ever == [from |-> 1, to |-> Today]
            C == SaleColumn(D, Ever)
            M == 1 .. Months
            h == [i \in M |-> CHOOSE r \in parts : r.period = TrendPeriods[i]]
            g == [d \in D |-> CHOOSE r \in parts : Falls(d.day, r.period)]
<1>1. /\ \A r \in parts : \E i \in M : r.part = "sales" /\ r.period = TrendPeriods[i]
      /\ \A i \in M : \E r \in parts : r.period = TrendPeriods[i]
      /\ \A q, r \in parts : q.period = r.period => q = r
  <2>1. /\ \A q \in parts : Key(q) \in Wanted("trend")
        /\ \A w \in Wanted("trend") : \E q \in parts : Key(q) = w
        /\ \A q, r \in parts : Key(q) = Key(r) => q = r
    BY <1>0 DEF Complete
  <2>2. Wanted("trend") = {"sales"} \X {TrendPeriods[i] : i \in M}
    BY DEF Wanted
  <2>3. \A r \in parts : \E i \in M : r.part = "sales" /\ r.period = TrendPeriods[i]
    BY <2>1, <2>2 DEF Key
  <2>4. \A i \in M : \E r \in parts : r.period = TrendPeriods[i]
    <3>1. SUFFICES ASSUME NEW i \in M PROVE \E r \in parts : r.period = TrendPeriods[i]
      OBVIOUS
    <3>2. <<"sales", TrendPeriods[i]>> \in Wanted("trend")
      BY <2>2
    <3>. QED
      BY <2>1, <3>2 DEF Key
  <2>5. \A q, r \in parts : q.period = r.period => Key(q) = Key(r)
    BY <2>3 DEF Key
  <2>. QED
    BY <2>1, <2>3, <2>4, <2>5
<1>2. IsFiniteSet(M)
  <2>1. PICK n \in Nat : n = Months
    BY ReportsAssumption
  <2>2. IsFiniteSet(1 .. n)
    BY FS_Interval
  <2>. QED
    BY <2>1, <2>2
<1>. HIDE DEF M
<1>3. IsFiniteSet(parts)
  <2>1. \A i \in M : h[i] \in parts /\ h[i].period = TrendPeriods[i]
    BY <1>1
  <2>2. DOMAIN h = M /\ h = [i \in M |-> h[i]]
    OBVIOUS
  <2>. HIDE DEF h
  <2>3. \A r \in parts : \E i \in M : h[i] = r
    BY <1>1, <2>1
  <2>4. h \in Surjection(M, parts)
    BY <2>1, <2>2, <2>3 DEF Surjection
  <2>. QED
    BY <1>2, <2>4, FS_Surjection
<1>4. \A d \in D : d.day \in Int /\ d.day \in 1 .. Today
  <2>1. \A d \in Document : d.day \in 1 .. Today
    BY ReportsAssumption
  <2>2. Today \in Int
    <3>1. DaysInMonth \in Nat /\ Months \in Nat
      BY ReportsAssumption
    <3>. QED
      BY <3>1 DEF Today
  <2>. QED
    BY <1>0, <2>1, <2>2 DEF Docs
<1>5. ASSUME NEW d \in D
      PROVE  /\ g[d] \in parts /\ Falls(d.day, g[d].period)
             /\ \A r \in parts : Falls(d.day, r.period) => r = g[d]
  <2>1. PICK i \in M : Falls(d.day, TrendPeriods[i])
    BY <1>4, MonthOfDay DEF M
  <2>2. \E r \in parts : Falls(d.day, r.period)
    BY <1>1, <2>1
  <2>3. g[d] \in parts /\ Falls(d.day, g[d].period)
    BY <2>2
  <2>4. ASSUME NEW q \in parts, NEW r \in parts, Falls(d.day, q.period), Falls(d.day, r.period)
        PROVE  q = r
    <3>1. PICK m \in M, n \in M : q.period = TrendPeriods[m] /\ r.period = TrendPeriods[n]
      BY <1>1
    <3>2. m = n
      BY <1>4, <2>4, <3>1, MonthsApart DEF M
    <3>. QED
      BY <1>1, <3>1, <3>2
  <2>. HIDE DEF g
  <2>. QED
    BY <2>3, <2>4
<1>6. DOMAIN g = D /\ g = [d \in D |-> g[d]]
  OBVIOUS
<1>. HIDE DEF h, g
<1>7. g \in [D -> parts]
  BY <1>5, <1>6
<1>8. PICK E : E = Ever
  OBVIOUS
<1>9. C \in [D -> Int] /\ SumFunction(C) = Booked(D, E).sales
  BY <1>0, <1>8, SalesSummed
<1>10. ASSUME NEW r \in parts PROVE ByKind(C, g, D, parts)[r] = F[r]
  <2>. DEFINE I == {d \in D : g[d] = r}
              W == SaleColumn(D, r.period)
              id == [d \in I |-> d]
  <2>1. ByKind(C, g, D, parts)[r] = SumFunction(On(C, I))
    BY DEF ByKind
  <2>2. W \in [D -> Int] /\ SumFunction(W) = F[r]
    <3>1. PICK p : p = r.period
      OBVIOUS
    <3>2. SaleColumn(D, p) \in [D -> Int] /\ SumFunction(SaleColumn(D, p)) = Booked(D, p).sales
      BY <1>0, SalesSummed
    <3>. QED
      BY <1>0, <3>1, <3>2
  <2>3. \A d \in D : d \in I <=> Falls(d.day, r.period)
    BY <1>5
  <2>4. \A d \in D : Falls(d.day, Ever)
    BY <1>4 DEF Falls
  <2>5. \A d \in D : W[d] = IF d \in I THEN C[d] ELSE 0
    BY <2>3, <2>4 DEF SaleColumn
  <2>6. IsFiniteSet(I) /\ I \subseteq D
    <3>1. I \subseteq D
      OBVIOUS
    <3>. HIDE DEF I
    <3>. QED
      BY <1>0, <3>1, FS_Subset
  <2>7. id \in [I -> D] /\ \A d \in I : id[d] = d
    OBVIOUS
  <2>. HIDE DEF I, W, id, C
  <2>8. On(C, I) \in [I -> Int] /\ \A d \in I : On(C, I)[d] = W[d]
    <3>1. \A d \in I : C[d] \in Int /\ C[d] = W[d]
      BY <1>9, <2>5, <2>6
    <3>. QED
      BY <3>1 DEF On
  <2>9. Renames(I, On(C, I), D, W, id)
    BY <1>0, <2>2, <2>5, <2>6, <2>7, <2>8 DEF Renames
  <2>10. SumFunction(On(C, I)) = SumFunction(W)
    BY <2>9, SumRenamed
  <2>. QED
    BY <2>1, <2>2, <2>10
<1>. HIDE DEF C
<1>11. ByKind(C, g, D, parts) = F
  <2>1. DOMAIN F = parts /\ F = [r \in parts |-> F[r]]
    BY <1>0
  <2>2. \A r \in parts : ByKind(C, g, D, parts)[r] = F[r]
    BY <1>10
  <2>. QED
    BY <2>1, <2>2 DEF ByKind
<1>12. SumFunction(C) = SumFunction(ByKind(C, g, D, parts))
  BY <1>0, <1>3, <1>7, <1>9, SumByKind
<1>. QED
  BY <1>8, <1>9, <1>11, <1>12

\* The profit less the loss, of two reports, is that of the documents.
NetOf(D, parts, F, G) ==
  /\ Docs(D) /\ Complete("net", parts)
  /\ F \in [parts -> Int] /\ G \in [parts -> Int]
  /\ \A r \in parts :
       /\ F[r] = IF r.part = "profit" THEN Booked(D, r.period).profit ELSE 0
       /\ G[r] = IF r.part = "loss" THEN Booked(D, r.period).loss ELSE 0

\* Of two parts with different figures each sum is one figure.
LEMMA NetAdds ==
  ASSUME NEW D, NEW parts, NEW F, NEW G, NetOf(D, parts, F, G)
  PROVE  /\ SumFunction(F) = Booked(D, Monthly).profit
         /\ SumFunction(G) = Booked(D, Monthly).loss
<1>0. /\ Docs(D) /\ Complete("net", parts) /\ F \in [parts -> Int] /\ G \in [parts -> Int]
      /\ \A r \in parts :
           /\ F[r] = IF r.part = "profit" THEN Booked(D, r.period).profit ELSE 0
           /\ G[r] = IF r.part = "loss" THEN Booked(D, r.period).loss ELSE 0
  BY DEF NetOf
<1>1. PICK M : M = Monthly
  OBVIOUS
<1>2. /\ \A q \in parts : Key(q) \in Wanted("net")
      /\ \A w \in Wanted("net") : \E q \in parts : Key(q) = w
      /\ \A q, r \in parts : Key(q) = Key(r) => q = r
  BY <1>0 DEF Complete
<1>3. Wanted("net") = {<<"profit", M>>, <<"loss", M>>}
  BY <1>1 DEF Wanted
<1>4. PICK a \in parts : Key(a) = <<"profit", M>>
  BY <1>2, <1>3
<1>5. PICK b \in parts : Key(b) = <<"loss", M>>
  BY <1>2, <1>3
<1>6. /\ a.part = "profit" /\ a.period = M
      /\ b.part = "loss" /\ b.period = M
  BY <1>4, <1>5 DEF Key
<1>7. parts = {a, b} /\ a # b
  <2>1. \A q \in parts : q \in {a, b}
    BY <1>2, <1>3, <1>4, <1>5
  <2>. QED
    BY <1>6, <2>1
<1>8. SumFunction(F) = F[a] + F[b] /\ SumFunction(G) = G[a] + G[b]
  BY <1>0, <1>7, SumTwo
<1>9. PICK m \in Int, n \in Int : m = Booked(D, M).profit /\ n = Booked(D, M).loss
  BY <1>0, BookedTyped
<1>10. F[a] = m /\ F[b] = 0 /\ G[a] = 0 /\ G[b] = n
  BY <1>0, <1>6, <1>9
<1>. QED
  BY <1>1, <1>8, <1>9, <1>10

\* What is shown together fits.
LEMMA ShownFits ==
  ASSUME NEW s \in Shown \ {"stock"}, ShowsAll(s, screen[s])
  PROVE  PartsFit(s)
<1>. DEFINE parts == screen[s]
            T == UNION {r.truth : r \in parts}
            Sum(figure) == SumFunction([r \in parts |->
              IF r.part = figure THEN Figures(r.lines, r.period)[figure] ELSE 0])
            Same == \A q, r \in parts : q.truth = r.truth /\ ~q.shifted
<1>1. /\ \A q \in parts : Asked(q) /\ q.stage = "answered" /\ Fully(q)
      /\ \A q, r \in parts : q.of = r.of
      /\ Complete(s, parts)
  BY DEF ShowsAll
<1>2. ASSUME Same, NEW r \in parts
      PROVE  Docs(T) /\ Figures(r.lines, r.period) = Booked(T, r.period)
  <2>1. T = r.truth
    BY <1>2
  <2>2. ~r.shifted
    BY <1>2
  <2>3. Docs(r.truth) /\ r.lines = Ledger(r.truth, r.period.to)
    BY <1>1, <1>2, <2>2 DEF Fully
  <2>4. PICK D, p : D = r.truth /\ p = r.period
    OBVIOUS
  <2>5. Docs(D)
    BY <2>3, <2>4
  <2>6. Figures(Ledger(D, p.to), p) = Booked(D, p)
    BY <2>5, FiguresBooked
  <2>. QED
    BY <2>1, <2>3, <2>4, <2>6
<1>. HIDE DEF T
<1>3. ASSUME Same, s = "net"
      PROVE  Sum("profit") - Sum("loss") = Booked(T, Monthly).profit - Booked(T, Monthly).loss
  <2>1. PICK F, G :
          /\ F = [r \in parts |-> IF r.part = "profit"
                                  THEN Figures(r.lines, r.period)["profit"] ELSE 0]
          /\ G = [r \in parts |-> IF r.part = "loss"
                                  THEN Figures(r.lines, r.period)["loss"] ELSE 0]
    OBVIOUS
  <2>2. Complete("net", parts)
    BY <1>1, <1>3
  <2>3. Docs(T)
    <3>1. <<"profit", Monthly>> \in Wanted("net")
      BY DEF Wanted
    <3>2. \E r \in parts : TRUE
      BY <2>2, <3>1 DEF Complete
    <3>. QED
      BY <1>2, <1>3, <3>2
  <2>4. \A r \in parts : /\ Booked(T, r.period).profit \in Int
                         /\ Booked(T, r.period).loss \in Int
    BY <2>3, BookedTyped
  <2>5. \A r \in parts :
          /\ F[r] = IF r.part = "profit" THEN Booked(T, r.period).profit ELSE 0
          /\ G[r] = IF r.part = "loss" THEN Booked(T, r.period).loss ELSE 0
    BY <1>2, <1>3, <2>1
  <2>6. F \in [parts -> Int] /\ G \in [parts -> Int]
    <3>1. \A r \in parts : F[r] \in Int /\ G[r] \in Int
      BY <2>4, <2>5
    <3>2. F = [r \in parts |-> F[r]] /\ G = [r \in parts |-> G[r]]
      BY <2>1
    <3>. QED
      BY <3>1, <3>2
  <2>7. NetOf(T, parts, F, G)
    BY <2>2, <2>3, <2>5, <2>6 DEF NetOf
  <2>8. SumFunction(F) = Booked(T, Monthly).profit /\ SumFunction(G) = Booked(T, Monthly).loss
    BY <2>7, NetAdds
  <2>. QED
    BY <2>1, <2>8
<1>4. ASSUME Same, s = "trend"
      PROVE  Sum("sales") = Booked(T, [from |-> 1, to |-> Today]).sales
  <2>1. PICK F : F = [r \in parts |-> IF r.part = "sales"
                                      THEN Figures(r.lines, r.period)["sales"] ELSE 0]
    OBVIOUS
  <2>2. Complete("trend", parts)
    BY <1>1, <1>4
  <2>3. \A r \in parts : r.part = "sales"
    BY <2>2 DEF Complete, Wanted, Key
  <2>4. Docs(T)
    <3>1. Months \in 1 .. Months
      BY ReportsAssumption
    <3>2. <<"sales", TrendPeriods[Months]>> \in Wanted("trend")
      BY <3>1 DEF Wanted
    <3>3. \E r \in parts : TRUE
      BY <2>2, <3>2 DEF Complete
    <3>. QED
      BY <1>2, <1>4, <3>3
  <2>5. \A r \in parts : F[r] = Booked(T, r.period).sales
    BY <1>2, <1>4, <2>1, <2>3
  <2>6. F \in [parts -> Int]
    <3>1. \A r \in parts : F[r] \in Int
      BY <2>4, <2>5, BookedTyped
    <3>2. F = [r \in parts |-> F[r]]
      BY <2>1
    <3>. QED
      BY <3>1, <3>2
  <2>7. TrendOf(T, parts, F)
    BY <2>2, <2>4, <2>5, <2>6 DEF TrendOf
  <2>8. SumFunction(F) = Booked(T, [from |-> 1, to |-> Today]).sales
    BY <2>7, TrendAdds
  <2>. QED
    BY <2>1, <2>8
<1>. QED
  BY <1>1, <1>3, <1>4 DEF PartsFit, T

\* Reads and a screen such as these have figures that are true.
LEMMA TrueOfThem == RInv => FiguresAreTrue
<1>1. SUFFICES ASSUME RInv PROVE FiguresAreTrue
  OBVIOUS
<1>2. /\ moves \in Seq(Movement) /\ ReadsAre(reads, posted, moves, open, budget.loads)
      /\ ScreenIs(screen)
  BY <1>1 DEF RInv
<1>3. ASSUME NEW r \in reads
      PROVE  IF r.what = "report" THEN ReportAddsUp(r) ELSE StockAddsUp(r)
  <2>1. ReadIs(r, posted, moves, open, budget.loads)
    BY <1>2 DEF ReadsAre
  <2>2. CASE r.what = "report"
    <3>1. Asked(r) /\ (r.stage = "answered" => Fully(r))
      BY <2>1, <2>2 DEF ReadIs, ReportIs
    <3>. QED
      BY <2>2, <3>1, ReportIsTrue
  <2>3. CASE r.what # "report"
    <3>1. StockIs(r, moves, open)
      BY <2>1, <2>3 DEF ReadIs
    <3>. QED
      BY <1>2, <2>3, <3>1, StockIsTrue
  <2>. QED
    BY <2>2, <2>3
<1>4. ASSUME NEW s \in Shown \ {"stock"}, screen[s] # None PROVE PartsFit(s)
  <2>1. ShowsAll(s, screen[s])
    BY <1>2, <1>4 DEF ScreenIs
  <2>. QED
    BY <2>1, ShownFits
<1>. QED
  BY <1>3, <1>4 DEF FiguresAreTrue

-----------------------------------------------------------------------------
\* However documents are posted and movements recorded while a page is read, what
\* the dashboard and the report page show is true: a report has every line that
\* was in the ledger when it was asked for, and the figures of one that was not
\* shifted are those of the documents its last page saw (SupabaseReportingGateway,
\* projectFinancialReport); the stock counts no movement twice and leaves none
\* out; the parts of the net result and of the trend were asked for together and
\* add up (loadMobileProfit, loadTrend).
THEOREM FiguresTrue == ReportsSpec => []FiguresAreTrue
<1>1. BothInit => RInv
  BY ReportsInitHolds DEF BothInit
<1>2. RInv /\ [BothNext]_<<vars, reportVars>> => RInv'
  BY ReportsStepKeeps
<1>3. RInv => FiguresAreTrue
  BY TrueOfThem
<1>. QED
  BY <1>1, <1>2, <1>3, PTL DEF ReportsSpec
=============================================================================
