------------------------------ MODULE Registers ------------------------------
(***************************************************************************)
(* The pages that list records and edit them: customers and vendors        *)
(* (parties), products, warehouses, and the balances and movements of the  *)
(* stock page, with the API that pages through the tables by key.          *)
(*                                                                         *)
(* A list is read one page at a time while others insert, change and       *)
(* delete records, answers arrive in any order, and every kind of page has *)
(* its own way to tell a late one: parties count their loads, products     *)
(* too, the others do not.  A form is saved by whatever the page remembers *)
(* of the record it was opened for.                                        *)
(***************************************************************************)
EXTENDS Naturals, SequencesExt

CONSTANTS
  Content,  \* what a form can hold; of a product, its SKU.  Of the others
            \* it does not matter: their versions are told apart by rev
  Within,   \* pairs: a search for the first finds the second
  New,      \* the form of a new record
  None,
  Limit,    \* rows on a page of a list
  Budgets   \* the pages considered, with bounds on the requests, on others'
            \* changes and on the contents, and the number of records at first

ASSUME RegistersAssumption ==
  /\ Limit \in Nat \ {0}
  /\ None \notin Content \cup Nat /\ New \notin Nat \ {0}
  /\ Within \subseteq Content \X Content
  /\ Budgets \subseteq
       [kind : {"parties", "products", "warehouses", "balances", "movements"},
        contents : SUBSET Content, requests : Nat, others : Nat, records : Nat]

VARIABLES
  kind,       \* the page that is open
  table,      \* the committed records by id; rev stands for updated_at
  last,       \* the sequence of ids
  inserting,  \* records of others that are not committed
  page,       \* what the page holds
  calls,      \* its requests in flight
  asked,      \* the records there were when the list shown was asked for
  known,      \* in products, the rev of each record the page said was saved
  disturbed,  \* see ListIsExact
  left
vars == <<kind, table, last, inserting, page, calls, asked, known, disturbed,
          left>>
server == <<table, last, inserting>>

Counted == kind \in {"parties", "products"}   \* loads are numbered
Edits == kind \in {"parties", "products", "warehouses"}
Descending == kind = "movements"

Spend(what) == /\ left[what] > 0
               /\ left' = [left EXCEPT ![what] = @ - 1]
Call(request) == /\ Spend("requests")
                 /\ calls' = calls \cup {request}
Listing == {c \in calls : c.what = "list"}
Rows == {page.rows[i].id : i \in DOMAIN page.rows}

-----------------------------------------------------------------------------
(* Lists *)

\* load, and what it asks the API for.  held is the record a product was saved
\* as, which the list read after it must show.
ListCall(id, reset, search, held) ==
  [id |-> id, stage |-> "sent", answer |-> None,
   what |-> "list", reset |-> reset, sequence |-> page.sequence + 1,
   held |-> held, search |-> search,
   cursor |-> IF reset THEN None ELSE page.cursor, there |-> DOMAIN table]
Loading(reset, search) ==
  [page EXCEPT !.state = "loading", !.sequence = @ + 1, !.search = search,
               !.typed = FALSE,
               !.rows = IF reset /\ kind = "parties" THEN <<>> ELSE @]
Overlaps == disturbed' = (disturbed \/ (~Counted /\ Listing # {}))

\* Refresh, try again, or the timer of the search box; only that one runs while a
\* dialog is open, with what is in the box by then: a term typed just before the
\* dialog was opened, if no load has read it.  Only the stock page can refresh
\* while it loads.
Load(search) ==
  /\ \/ kind = "products"
          /\ \/ search = page.search \/ page.typed
             \/ page.editor = None /\ page.detail = None
     \/ kind = "parties" /\ page.editor = None
          /\ (page.state # "loading" \/ page.rows # <<>>)
     \/ kind = "warehouses" /\ page.editor = None /\ page.state = "error"
     \/ ~Edits
  /\ kind # "products" => search = None
  /\ Call(ListCall(left.requests, TRUE, search, None))
  /\ page' = Loading(TRUE, search)
  /\ Overlaps
  /\ UNCHANGED <<kind, server, asked, known>>

\* Load more.
More ==
  /\ kind # "products" /\ page.editor = None /\ page.detail = None
  /\ page.cursor # None
  /\ kind = "parties" => page.rows # <<>> /\ page.state # "error"
  /\ Call(ListCall(left.requests, FALSE, None, None))
  /\ page' = Loading(FALSE, None)
  /\ Overlaps
  /\ UNCHANGED <<kind, server, asked, known>>

-----------------------------------------------------------------------------
(* Forms *)

\* Whether a dialog opens over a search box whose term may not be loaded.
JustTyped == page.typed \/ (kind = "products" /\ page.detail = None)

\* Mutant: the form of a new record leaves the last one selected.
OpenEditorKeeping(record) ==
  page' = [page EXCEPT
    !.editor = [opened |-> record, late |-> FALSE], !.typed = JustTyped,
    !.selected = IF record = New THEN @ ELSE record, !.detail = None]
\* The form opens for a record of the list, of the detail, or for none.
\* Products and warehouses remember the record, parties its id in the form.
OpenEditor(record) ==
  page' = [page EXCEPT
    !.editor = [opened |-> record, late |-> FALSE], !.typed = JustTyped,
    !.selected = record, !.detail = None]

Edit ==
  /\ Edits /\ page.editor = None
  /\ kind = "parties" =>
       page.state = "ready" \/ (page.state = "loading" /\ page.rows # <<>>)
  /\ \/ page.detail = None /\ OpenEditor(New)
     \/ kind = "parties" /\ \E r \in Rows : OpenEditor(r)
     \/ page.detail \notin {None, <<>>}
          /\ OpenEditor(IF kind = "products" THEN page.detail[1]
                        ELSE page.selected)
  /\ UNCHANGED <<kind, server, calls, asked, known, disturbed, left>>

\* A row is clicked: its detail is fetched.
Inspect ==
  /\ kind \in {"products", "warehouses"}
  /\ page.editor = None /\ page.detail = None /\ page.state = "ready"
  /\ \E r \in Rows : Call([id |-> left.requests, stage |-> "sent", answer |-> None,
                          what |-> "get", of |-> r])
  /\ page' = [page EXCEPT !.detail = <<>>, !.typed = JustTyped]
  /\ UNCHANGED <<kind, server, asked, known, disturbed>>

Close ==
  /\ page.editor # None \/ page.detail # None
  /\ page' = [page EXCEPT !.editor = None, !.detail = None]
  /\ UNCHANGED <<kind, server, calls, asked, known, disturbed, left>>

\* Only parties and products disable the button while they save.
Save ==
  /\ page.editor # None
  /\ ~page.saving
  /\ \E content \in left.contents :
       Call([id |-> left.requests, stage |-> "sent", answer |-> None,
             what |-> "save", of |-> page.selected, content |-> content,
             opened |-> page.editor.opened, late |-> page.editor.late])
  /\ page' = [page EXCEPT !.saving = Counted]
  /\ UNCHANGED <<kind, server, asked, known, disturbed>>

-----------------------------------------------------------------------------
(* The API *)

Reply(c, answer) ==
  calls' = (calls \ {c}) \cup {[c EXCEPT !.stage = "served", !.answer = answer]}
Fail(c) == calls' = (calls \ {c}) \cup {[c EXCEPT !.stage = "failed"]}

Record(id) ==
  [id |-> id, content |-> table[id].content, rev |-> table[id].rev]
Before(i, j) == IF Descending THEN i > j ELSE i < j
\* The members of a finite set in the order of a relation.
Ordered(S, R) ==
  [n \in 1 .. Cardinality(S) |->
     CHOOSE x \in S : Cardinality({y \in S : <<y, x>> \in R}) = n - 1]
InOrder(ids) ==
  LET sorted == Ordered(ids, {p \in ids \X ids : Before(p[1], p[2])}) IN
  [n \in DOMAIN sorted |-> Record(sorted[n])]

Matching(search) ==
  {i \in DOMAIN table : search = None \/ <<search, table[i].content>> \in Within}

\* pageResult: one row more than asked for tells whether there are others.
\* Mutant: only as many rows are read as are asked for.
PageOfLimit(rows) ==
  [data |-> SubSeq(rows, 1, IF Len(rows) < Limit THEN Len(rows) ELSE Limit),
   next |-> None]
PageOf(rows) ==
  LET data == SubSeq(rows, 1, IF Len(rows) < Limit THEN Len(rows) ELSE Limit) IN
  [data |-> data,
   next |-> IF Len(rows) > Limit THEN data[Limit].id ELSE None]

ServeList(c) ==
  /\ c.what = "list"
  /\ Reply(c, PageOf(InOrder({i \in Matching(c.search) :
                               c.cursor = None \/ Before(c.cursor, i)})))
  /\ UNCHANGED server

ServeGet(c) ==
  /\ c.what = "get"
  /\ IF c.of \in DOMAIN table THEN Reply(c, Record(c.of)) ELSE Fail(c)
  /\ UNCHANGED server

\* SKUs are unique in an organization.
Free(content, id) ==
  kind = "products" => \A i \in DOMAIN table \ {id} : table[i].content # content

Put(id, content) ==
  table' = [i \in DOMAIN table \cup {id} |->
    IF i # id THEN table[i]
    ELSE [content |-> content,
          rev |-> IF id \in DOMAIN table THEN table[id].rev + 1 ELSE 0]]

ServeSave(c) ==
  LET id == IF c.of = New THEN last + 1 ELSE c.of IN
  /\ c.what = "save"
  /\ \/ /\ c.of = New \/ c.of \in DOMAIN table
        /\ Free(c.content, id)
        /\ Put(id, c.content)
        /\ last' = IF c.of = New THEN id ELSE last
        /\ Reply(c, [id |-> id, content |-> c.content, rev |-> table'[id].rev])
     \/ /\ (c.of # New /\ c.of \notin DOMAIN table) \/ ~Free(c.content, id)
        /\ Fail(c)
        /\ UNCHANGED <<table, last>>
  /\ UNCHANGED inserting

Serve(c) == /\ c.stage = "sent"
            /\ ServeList(c) \/ ServeGet(c) \/ ServeSave(c)
            /\ UNCHANGED <<kind, page, asked, known, disturbed, left>>

\* A request or its answer is lost, or refused.
Lose(c) == /\ c.stage # "failed"
           /\ Fail(c)
           /\ UNCHANGED <<kind, server, page, asked, known, disturbed, left>>

\* Other users and machines insert, change and delete records.
BeginInsert(content) ==
  /\ last' = last + 1
  /\ inserting' = inserting \cup {[id |-> last + 1, content |-> content]}
  /\ Spend("others")
  /\ UNCHANGED table
Commit(r) == /\ r \in inserting
             /\ inserting' = inserting \ {r}
             /\ IF Free(r.content, r.id) THEN Put(r.id, r.content)
                ELSE UNCHANGED table
             /\ UNCHANGED <<last, left>>
Change(id, content) == /\ kind # "movements"
                       /\ Free(content, id)
                       /\ Put(id, content)
                       /\ Spend("others")
                       /\ UNCHANGED <<last, inserting>>
Delete(id) == /\ Edits
              /\ table' = [i \in DOMAIN table \ {id} |-> table[i]]
              /\ Spend("others")
              /\ UNCHANGED <<last, inserting>>
Elsewhere ==
  /\ \/ \E content \in left.contents : BeginInsert(content)
     \/ \E r \in inserting : Commit(r)
     \/ \E id \in DOMAIN table, content \in left.contents : Change(id, content)
     \/ \E id \in DOMAIN table : Delete(id)
  /\ UNCHANGED <<kind, page, calls, asked, known, disturbed>>

-----------------------------------------------------------------------------
(* Answers *)

\* Mutant: no load is told from another.
LatestAny(c) == TRUE
\* Whether an answer is for the load that is under way.
Latest(c) == Counted => c.sequence = page.sequence

Listed(c) ==
  [page EXCEPT !.rows = IF c.reset THEN c.answer.data ELSE @ \o c.answer.data,
               !.cursor = c.answer.next, !.shown = c.search,
               !.state = "ready"]

\* The list is shown.  A product that was saved is confirmed by it.
GetList(c) ==
  LET confirmed == \E i \in DOMAIN c.answer.data :
                     c.held # None /\ c.answer.data[i].id = c.held.id IN
  /\ c.what = "list" /\ c.stage = "served" /\ Latest(c)
  /\ page' = [Listed(c) EXCEPT
       !.editor = IF confirmed THEN None ELSE @,
       !.saving = @ /\ c.held = None]
  /\ known' = IF confirmed
              THEN [id \in DOMAIN known \cup {c.held.id} |->
                      IF id = c.held.id THEN c.held.rev ELSE known[id]]
              ELSE known
  /\ asked' = IF c.reset THEN c.there ELSE asked
  /\ disturbed' = IF c.reset THEN ~Counted /\ Listing # {c} ELSE disturbed
  /\ calls' = calls \ {c}
  /\ UNCHANGED left

\* An answer that came late; a save that waits for it ends with an error.
DropList(c) ==
  /\ c.what = "list" /\ ~Latest(c)
  /\ page' = [page EXCEPT !.saving = @ /\ c.held = None]
  /\ calls' = calls \ {c}
  /\ UNCHANGED <<asked, known, disturbed, left>>

MissList(c) ==
  /\ c.what = "list" /\ c.stage = "failed" /\ Latest(c)
  /\ page' = [page EXCEPT !.state = "error", !.saving = @ /\ c.held = None]
  /\ calls' = calls \ {c}
  /\ UNCHANGED <<asked, known, disturbed, left>>

\* A detail is shown in the dialog that is open now, whichever row that was opened
\* for, and so is an error, which leaves nothing to edit; warehouses select a detail.
GetDetail(c) ==
  /\ c.what = "get"
  /\ page' = IF c.stage = "failed"
             THEN [page EXCEPT !.detail = IF @ = None THEN None ELSE <<>>]
             ELSE [page EXCEPT
               !.detail = IF @ = None THEN None ELSE <<c.answer.id>>,
               !.selected = IF kind = "warehouses" THEN c.answer.id ELSE @,
               !.editor = IF @ = None THEN None
                          ELSE [@ EXCEPT !.late = kind = "warehouses"]]
  /\ calls' = calls \ {c}
  /\ UNCHANGED <<asked, known, disturbed, left>>

\* A party replaces its first row in the list, or joins it and all are sorted
\* by id.
Place(saved) ==
  LET Has(i) == page.rows[i].id = saved.id
      all == Append(page.rows, saved)
      Sooner(i, j) == \/ all[i].id < all[j].id
                      \/ all[i].id = all[j].id /\ i < j
      sorted == Ordered(DOMAIN all,
                        {p \in (DOMAIN all) \X (DOMAIN all) : Sooner(p[1], p[2])}) IN
  IF saved.id \in Rows
  THEN [i \in DOMAIN page.rows |->
          IF Has(i) /\ \A j \in DOMAIN page.rows : Has(j) => i <= j
          THEN saved ELSE page.rows[i]]
  ELSE [n \in DOMAIN all |-> all[sorted[n]]]

GetSaved(c) ==
  /\ c.what = "save" /\ c.stage = "served"
  /\ \/ /\ kind = "parties"
        /\ page' = [page EXCEPT !.rows = Place(c.answer), !.state = "ready",
                                !.editor = None, !.saving = FALSE]
        /\ disturbed' = (disturbed \/ (c.answer.id \notin Rows
                           /\ (page.cursor # None \/ page.state # "ready")))
        /\ calls' = calls \ {c}
     \/ /\ kind # "parties"
        /\ LET request == IF kind = "products"
                          THEN ListCall(c.id, TRUE, c.answer.content, c.answer)
                          ELSE ListCall(c.id, TRUE, None, None) IN
           calls' = (calls \ {c}) \cup {request}
        /\ page' = IF kind = "products" THEN Loading(TRUE, c.answer.content)
                   ELSE [Loading(TRUE, None) EXCEPT !.editor = None,
                                                    !.selected = New]
        /\ Overlaps
  /\ UNCHANGED <<asked, known, left>>

MissSaved(c) ==
  /\ c.what = "save" /\ c.stage = "failed"
  /\ page' = [page EXCEPT !.saving = FALSE]
  /\ calls' = calls \ {c}
  /\ UNCHANGED <<asked, known, disturbed, left>>

Deliver(c) ==
  /\ c.stage # "sent"
  /\ \/ GetList(c) \/ DropList(c) \/ MissList(c) \/ GetDetail(c)
     \/ GetSaved(c) \/ MissSaved(c)
  /\ UNCHANGED <<kind, server>>

-----------------------------------------------------------------------------
\* The page is mounted and asks for its list.
Init ==
  /\ left \in {[b EXCEPT !.requests = @ - 1] : b \in Budgets}
  /\ kind = left.kind
  /\ last = left.records
  /\ table \in [1 .. last -> [content : left.contents, rev : {0}]]
  /\ \A i \in DOMAIN table : Free(table[i].content, i)
  /\ inserting = {} /\ known = <<>>
  /\ asked = {} /\ disturbed = FALSE
  /\ page = [rows |-> <<>>, cursor |-> None, state |-> "loading",
             sequence |-> 1, search |-> None, shown |-> None, editor |-> None,
             typed |-> FALSE,
             selected |-> New, detail |-> None, saving |-> FALSE]
  /\ calls = {[id |-> 0, stage |-> "sent", answer |-> None, what |-> "list",
               reset |-> TRUE, sequence |-> 1, held |-> None, search |-> None,
               cursor |-> None, there |-> DOMAIN table]}

Use == \/ \E search \in left.contents \cup {None} : Load(search)
       \/ More \/ Edit \/ Inspect \/ Close \/ Save

Next == \/ Use \/ Elsewhere
        \/ \E c \in calls : Serve(c) \/ Lose(c) \/ Deliver(c)

Spec == Init /\ [][Next]_vars

-----------------------------------------------------------------------------
(* Properties *)

\* A list that was read to its end shows every record there was when it was
\* asked for and that still is, and shows none twice, whatever others inserted,
\* changed and deleted meanwhile and in whatever order the pages' answers came.
\* Exempt is what the code gets wrong, until the next refresh: a page without
\* load numbers that asked twice at once, and a party saved or created while
\* the list is read or before it was read to its end.  A list of products
\* is not paged: it is read to its end when it was not cut off.
ListIsExact ==
  /\ ~disturbed /\ page.state = "ready" /\ page.cursor = None
  /\ page.shown = None
  => /\ Cardinality(Rows) = Len(page.rows)
     /\ (asked \cap DOMAIN table) \subseteq Rows

\* Once the page said that a product was saved it never again shows the product
\* as it was before, whichever of the searches under way answers last.
ReadsOwnWrites ==
  \A i \in DOMAIN page.rows :
    LET row == page.rows[i] IN
    row.id \in DOMAIN known => row.rev >= known[row.id]

\* What a form saves is the record it was opened for, and a form for a new
\* record creates one, whatever details were looked at before and whichever
\* answers arrived meanwhile; except when a warehouse's detail arrives while
\* a form is open.
SavedAsOpened ==
  \A c \in calls : c.what = "save" /\ ~c.late => c.of = c.opened
=============================================================================
