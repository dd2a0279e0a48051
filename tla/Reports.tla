------------------------------- MODULE Reports -------------------------------
(***************************************************************************)
(* What the dashboard and the report page show, and how the API works it   *)
(* out.  A report reads the posted general ledger in pages by offset, the  *)
(* stock of the dashboard reads the movements in pages by key; each page   *)
(* is a statement of its own, and documents are posted in between.  What a *)
(* page shows together is often read apart: profit and loss, the months of *)
(* the trend, a summary and its trial balance.                             *)
(*                                                                         *)
(* The ledger keeps, for each posted document, the lines its posting wrote *)
(* (see Posting); here a document has one amount, and one cost if goods    *)
(* were sold.  The module is checked beside Registers, whose pages of      *)
(* movements it reads.                                                     *)
(***************************************************************************)
EXTENDS Integers, Registers

CONSTANTS
  Document,    \* what can be posted: [key, day, source, amount, cost], where
               \* key stands for the random id of its journal entry
  Movement,    \* what can move: [product, warehouse, type, quantity]
  LedgerPage,  \* 500 in the code
  StockPage,   \* 100 in the code
  DaysInMonth, Months, \* of the trend: the last one is the current month
  Reading      \* bounds considered together: the documents and movements at
               \* first, what else is posted and moved, the loads, and the
               \* periods that are typed into the form of the report page

Today == DaysInMonth * Months
Source == {"INVOICE", "CREDIT_NOTE", "PURCHASE", "CUSTOMER_PAYMENT",
           "VENDOR_PAYMENT"}

ASSUME ReportsAssumption ==
  /\ {LedgerPage, StockPage, DaysInMonth, Months} \subseteq Nat \ {0}
  /\ Document \subseteq [key : Nat, day : 1 .. Today, source : Source,
                         amount : Nat \ {0}, cost : Nat]
  /\ \A d, e \in Document : d.key = e.key => d = e
  /\ \A m \in Movement : m.quantity \in Nat \ {0}
  /\ Reading \subseteq
       [page : {"registers", "reports"}, posted : SUBSET Document,
        moved : Seq(Movement), loads : Nat, stocks : Nat, posts : Nat,
        moves : Nat, failures : Nat, periods : SUBSET [from : Nat, to : Nat]]
  /\ \A b \in Reading : IsFiniteSet(b.posted)

VARIABLES
  posted,   \* the documents in the ledger
  moves,    \* stock_movements, in the order of their ids
  open,     \* the ids of movements whose transaction is not committed
  reads,    \* the requests of the two pages that are being answered
  screen,   \* what each figure of the pages shows
  budget
reportVars == <<posted, moves, open, reads, screen, budget>>

Pay(what) == /\ budget[what] > 0
             /\ budget' = [budget EXCEPT ![what] = @ - 1]

-----------------------------------------------------------------------------
(* Periods *)

\* dateRange, and trendPeriods: the months up to this one, which is not over.
Daily == [from |-> Today, to |-> Today]
Monthly == [from |-> DaysInMonth * (Months - 1) + 1, to |-> Today]
\* Mutant: each month begins on the last day of the one before.
MonthsTouching ==
  [i \in 1 .. Months |-> [from |-> DaysInMonth * (i - 1), to |-> DaysInMonth * i]]
TrendPeriods ==
  [i \in 1 .. Months |->
     [from |-> DaysInMonth * (i - 1) + 1, to |-> DaysInMonth * i]]

Falls(day, period) == period.from <= day /\ day <= period.to

-----------------------------------------------------------------------------
(* The general ledger *)

Line(d, code, debit, credit) ==
  [day |-> d.day, key |-> d.key, code |-> code, source |-> d.source,
   debit |-> debit, credit |-> credit]
LinesOf(d) ==
  LET Goods(in, out) == IF d.cost = 0 THEN {}
                        ELSE {Line(d, in, d.cost, 0), Line(d, out, 0, d.cost)}
      Two(in, out) == {Line(d, in, d.amount, 0), Line(d, out, 0, d.amount)} IN
  CASE d.source = "INVOICE"          -> Two(1100, 4000) \cup Goods(5000, 1200)
    [] d.source = "CREDIT_NOTE"      -> Two(4000, 1100) \cup Goods(1200, 5000)
    [] d.source = "PURCHASE"         -> Two(1200, 2000)
    [] d.source = "CUSTOMER_PAYMENT" -> Two(1000, 1100)
    [] d.source = "VENDOR_PAYMENT"   -> Two(2000, 1000)

Earlier(x, y) ==
  \/ x.day < y.day
  \/ x.day = y.day /\ x.key < y.key
  \/ x.day = y.day /\ x.key = y.key /\ x.code < y.code
Ledger(documents, to) ==
  LET lines == UNION {LinesOf(d) : d \in {e \in documents : e.day <= to}} IN
  Ordered(lines, {p \in lines \X lines : Earlier(p[1], p[2])})

\* projectFinancialReport, of the lines in the order they were read.
Figures(lines, period) ==
  LET Sum(f(_), test(_)) ==
        SumFunction([i \in {j \in DOMAIN lines : test(lines[j])} |-> f(lines[i])])
      Debit(x) == x.debit
      Credit(x) == x.credit
      Net(x) == x.debit - x.credit
      In(x) == Falls(x.day, period)
      Revenue == 0 - Sum(Net, LAMBDA x : In(x) /\ x.code = 4000)
      Expense == Sum(Net, LAMBDA x : In(x) /\ x.code = 5000)
      Income == Revenue - Expense
      Account(code) == Sum(Net, LAMBDA x : x.code = code) IN
  [sales |-> Revenue,
   purchases |-> 0 - Sum(Net, LAMBDA x : In(x) /\ x.source = "PURCHASE"
                                               /\ x.code = 2000),
   receivables |-> Account(1100), payables |-> 0 - Account(2000),
   cash |-> Account(1000),
   profit |-> IF Income > 0 THEN Income ELSE 0,
   loss |-> IF Income < 0 THEN 0 - Income ELSE 0,
   debits |-> Sum(Debit, In), credits |-> Sum(Credit, In),
   trialDebits |-> Sum(Debit, LAMBDA x : TRUE),
   trialCredits |-> Sum(Credit, LAMBDA x : TRUE)]

-----------------------------------------------------------------------------
(* The pages ask *)

\* One figure is asked for with one request or with several at once, all of
\* which must be answered before it is shown; each reads the ledger anew.
ReportRead(place, part, period) ==
  [of |-> budget.loads, what |-> "report", place |-> place, part |-> part,
   period |-> period, stage |-> "reading", lines |-> <<>>,
   first |-> Ledger(posted, period.to), shifted |-> FALSE, truth |-> {}]
Ask(place, parts, periods) ==
  /\ Pay("loads")
  /\ reads' = reads \cup
       {ReportRead(place, part, period) : part \in parts, period \in periods}
  /\ screen' = IF place = "report" THEN screen
               ELSE [screen EXCEPT ![place] = None]
  /\ UNCHANGED <<posted, moves, open>>

\* loadProfit, when the dialog opens or another range is chosen.
LoadProfit == \E range \in {Daily, Monthly} : Ask("profit", {"profit"}, {range})
\* loadMetric: what is due is due as of today, but all its lines count.
LoadMetric == \/ Ask("sales", {"sales"}, {Monthly})
              \/ Ask("receivables", {"receivables"}, {Daily})
\* loadMobileProfit
LoadNet == Ask("net", {"profit", "loss"}, {Monthly})
\* loadTrend
LoadTrend == Ask("trend", {"sales"}, {TrendPeriods[i] : i \in 1 .. Months})
\* The report page: the form asks for both parts, a button for one figure.
SubmitReport(period) ==
  /\ period.from <= period.to
  /\ \/ Ask("report", {"summary", "trial"}, {period})
     \/ Ask("head", {"head"}, {period})

\* loadStock, once, when the dashboard is mounted.
LoadStock ==
  /\ Pay("stocks")
  /\ reads' = reads \cup
       {[of |-> 0, what |-> "stock", place |-> "stock", part |-> "stock", stage |-> "reading", got |-> <<>>,
         cursor |-> None, first |-> None, quiet |-> TRUE]}
  /\ UNCHANGED <<posted, moves, open, screen>>

-----------------------------------------------------------------------------
(* The API answers *)

\* Mutant: the next page starts at the last line of this one.
NextPageFrom(r) == Len(r.lines) - (IF r.lines = <<>> THEN 0 ELSE 1)
Offset(r) == Len(r.lines)

\* SupabaseReportingGateway.read
ReadLedger(r) ==
  LET ledger == Ledger(posted, r.period.to)
      end == IF Offset(r) + LedgerPage < Len(ledger)
             THEN Offset(r) + LedgerPage ELSE Len(ledger)
      rows == SubSeq(ledger, Offset(r) + 1, end) IN
  /\ r.what = "report" /\ r.stage = "reading"
  /\ reads' = (reads \ {r}) \cup
       {[r EXCEPT !.lines = @ \o rows, !.truth = posted,
                  !.stage = IF Len(rows) < LedgerPage THEN "answered" ELSE @]}
  /\ UNCHANGED <<posted, moves, open, screen, budget>>

Committed == DOMAIN moves \ open
\* GET /stock: all movements, newest first, a page and one row more at a time.
ReadStock(r) ==
  LET older == {i \in Committed : r.cursor = None \/ i < r.cursor}
      ids == Ordered(older, {p \in older \X older : p[1] > p[2]})
      rows == SubSeq(ids, 1, IF Len(ids) < StockPage THEN Len(ids)
                             ELSE StockPage) IN
  /\ r.what = "stock" /\ r.stage = "reading"
  /\ reads' = (reads \ {r}) \cup
       {[r EXCEPT
           !.got = @ \o rows,
           !.first = IF r.cursor = None THEN Committed ELSE @,
           !.quiet = IF r.cursor = None THEN open = {} ELSE @,
           !.cursor = IF rows = <<>> THEN @ ELSE Last(rows),
           !.stage = IF Len(ids) > StockPage THEN @ ELSE "answered"]}
  /\ UNCHANGED <<posted, moves, open, screen, budget>>

FailRead(r) ==
  /\ Pay("failures")
  /\ r.stage = "reading"
  /\ reads' = (reads \ {r}) \cup {[r EXCEPT !.stage = "failed"]}
  /\ UNCHANGED <<posted, moves, open, screen>>

\* What the dashboard's stock comes to: the route adds what came in and takes
\* away what went out, of the types it knows.
Incoming == {"OPENING", "PURCHASE", "SALE_RETURN", "TRANSFER_IN"}
Outgoing == {"SALE", "PURCHASE_RETURN", "TRANSFER_OUT"}
Direction(type) == IF type \in Incoming THEN 1
                   ELSE IF type \in Outgoing THEN -1 ELSE 0
Stock(ids) ==
  LET Of(p) == {i \in DOMAIN ids : moves[ids[i]].product = p} IN
  [p \in {moves[ids[i]].product : i \in DOMAIN ids} |->
     SumFunction([i \in Of(p) |->
       Direction(moves[ids[i]].type) * moves[ids[i]].quantity])]

-----------------------------------------------------------------------------
(* The pages show *)

Group(r) == {q \in reads : q.of = r.of /\ q.place = r.place}
\* Promise.all: every part, or the first error.
Show(r) ==
  /\ \/ /\ \A q \in Group(r) : q.stage = "answered"
        /\ screen' = [screen EXCEPT ![r.place] = Group(r)]
     \/ /\ r.stage = "failed"
        /\ screen' = IF r.place = "report" THEN screen
                     ELSE [screen EXCEPT ![r.place] = None]
  /\ reads' = reads \ Group(r)
  /\ UNCHANGED <<posted, moves, open, budget>>

-----------------------------------------------------------------------------
(* Meanwhile *)

\* A document is posted, with a date and an id that sort it anywhere.
PostDocument(d) ==
  /\ Pay("posts")
  /\ d \notin posted
  /\ posted' = posted \cup {d}
  /\ reads' = {IF r.what = "report" /\ r.lines # <<>>
                    /\ \E x \in LinesOf(d) : Earlier(x, Last(r.lines))
               THEN [r EXCEPT !.shifted = TRUE] ELSE r : r \in reads}
  /\ UNCHANGED <<moves, open, screen>>

Move(m) ==
  /\ Pay("moves")
  /\ moves' = Append(moves, m)
  /\ open' = open \cup {Len(moves) + 1}
  /\ UNCHANGED <<posted, reads, screen>>
CommitMove(i) ==
  /\ open' = open \ {i}
  /\ UNCHANGED <<posted, moves, reads, screen, budget>>

-----------------------------------------------------------------------------
Shown == {"profit", "sales", "receivables", "net", "trend", "report", "head",
          "stock"}

\* The page that is open is one of these or one of Registers.
ReportsInit ==
  /\ budget \in Reading
  /\ posted = budget.posted /\ moves = budget.moved /\ open = {}
  /\ reads = {} /\ screen = [s \in Shown |-> None]

AskReports ==
  \/ LoadProfit \/ LoadMetric
  \/ LoadNet \/ LoadTrend \/ LoadStock
  \/ \E period \in budget.periods : SubmitReport(period)

ReportsNext ==
  \/ AskReports
  \/ \E r \in reads : ReadLedger(r) \/ ReadStock(r) \/ FailRead(r) \/ Show(r)
  \/ \E d \in Document : PostDocument(d)
  \/ \E m \in Movement : Move(m)
  \/ \E i \in open : CommitMove(i)

BothInit == /\ Init /\ ReportsInit
            /\ budget.page = "reports" => kind = "movements"
BothNext == \/ budget.page = "registers" /\ Next /\ UNCHANGED reportVars
            \/ budget.page = "reports" /\ ReportsNext /\ UNCHANGED vars
ReportsSpec == BothInit /\ [][BothNext]_<<vars, reportVars>>

-----------------------------------------------------------------------------
(* Properties *)

\* What the figures mean, said of the documents instead of their lines.
Booked(documents, period) ==
  LET Total(field, sources, days) ==
        SumFunction([d \in {e \in documents : /\ e.source \in sources
                                             /\ Falls(e.day, days)} |-> d[field]])
      Amount(source, days) == Total("amount", {source}, days)
      Ever == [from |-> 1, to |-> period.to]
      sales == Amount("INVOICE", period) - Amount("CREDIT_NOTE", period)
      income == sales - Total("cost", {"INVOICE"}, period)
                      + Total("cost", {"CREDIT_NOTE"}, period)
      turnover == Total("amount", Source, period)
                    + Total("cost", {"INVOICE", "CREDIT_NOTE"}, period)
      ever == Total("amount", Source, Ever)
                + Total("cost", {"INVOICE", "CREDIT_NOTE"}, Ever)
      received == Amount("CUSTOMER_PAYMENT", Ever)
      paid == Amount("VENDOR_PAYMENT", Ever) IN
  [sales |-> sales, purchases |-> Amount("PURCHASE", period),
   receivables |-> Amount("INVOICE", Ever) - Amount("CREDIT_NOTE", Ever) - received,
   payables |-> Amount("PURCHASE", Ever) - paid,
   cash |-> received - paid,
   profit |-> IF income > 0 THEN income ELSE 0,
   loss |-> IF income < 0 THEN 0 - income ELSE 0,
   debits |-> turnover, credits |-> turnover,
   trialDebits |-> ever, trialCredits |-> ever]

\* A report has every line that was in the ledger when it was asked for; unless
\* a document was dated before where the reading was, it has each of them once,
\* and its figures are those of the documents posted when it was read.
ReportAddsUp(r) ==
  LET Read == {r.lines[i] : i \in DOMAIN r.lines} IN
  r.stage = "answered" =>
    /\ {r.first[i] : i \in DOMAIN r.first} \subseteq Read
    /\ ~r.shifted => /\ Cardinality(Read) = Len(r.lines)
                     /\ Figures(r.lines, r.period) = Booked(r.truth, r.period)

\* A stock overview counts no movement twice and each that was committed when
\* it was asked for; and if none was being written then, it counts no other:
\* the stock it shows is one the products had.
StockAddsUp(r) ==
  LET Those == {r.got[i] : i \in DOMAIN r.got}
      Total(types, p) == SumFunction(
        [i \in {j \in r.first : moves[j].product = p /\ moves[j].type \in types} |->
           moves[i].quantity]) IN
  r.stage = "answered" =>
    /\ Cardinality(Those) = Len(r.got)
    /\ r.first \subseteq Those
    /\ r.quiet => \A p \in {moves[i].product : i \in r.first} :
         Stock(r.got)[p] = Total(Incoming, p) - Total(Outgoing, p)

\* What is shown together was asked for together and is all there; and if no
\* document was posted between its parts, the profit less the loss is the
\* income, and the months of the trend add up to the sales of all of them.
PartsFit(place) ==
  LET parts == screen[place]
      Sum(figure) == SumFunction([r \in parts |->
        IF r.part = figure THEN Figures(r.lines, r.period)[figure] ELSE 0])
      \* Of the documents of any of them, which are the same.
      Books(period) == Booked(UNION {r.truth : r \in parts}, period) IN
  /\ \A q, r \in parts : q.of = r.of /\ r.stage = "answered"
  /\ (\A q, r \in parts : q.truth = r.truth /\ ~q.shifted) =>
       /\ place = "net" =>
            Sum("profit") - Sum("loss") = Books(Monthly).profit - Books(Monthly).loss
       /\ place = "trend" =>
            Sum("sales") = Books([from |-> 1, to |-> Today]).sales

FiguresAreTrue ==
  /\ \A r \in reads : IF r.what = "report" THEN ReportAddsUp(r) ELSE StockAddsUp(r)
  /\ \A s \in Shown \ {"stock"} : screen[s] # None => PartsFit(s)
=============================================================================
