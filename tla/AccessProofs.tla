----------------------------- MODULE AccessProofs -----------------------------
(***************************************************************************)
(* Who the application acts for: a tab keeps no workspace of another       *)
(* account, and whatever route or tool is called, its actor was granted    *)
(* what it does.  The first part goes through the routes one by one.       *)
(***************************************************************************)
EXTENDS Access, TLAPS

-----------------------------------------------------------------------------
(* What is asked *)

Code == {"member", "branch", "customers.read", "vendors.read", "products.read",
         "inventory.read", "purchases.read", "sales.read", "accounting.read",
         "customers.write", "vendors.write", "products.write", "purchases.create",
         "sales.create", "payments.create", "returns.create", "inventory.adjust",
         "accounting.post", "reports.view"}
Has(s, x) == \E i \in 1 .. Len(s) : s[i] = x
Routing == [by : SUBSET {"browser", "key", "token"}, asks : Seq(Code),
            does : SUBSET Code, again : SUBSET Code]
\* A route asks, by itself or in its transaction, for all that it needs.
Covers(route) ==
  /\ route \in Routing
  /\ \A x \in Needs(route) : Has(route.asks, x) \/ x \in route.again
AllCover(router) == \A path \in DOMAIN router : Covers(router[path])

LEMMA HasConcat ==
  ASSUME NEW s \in Seq(Code), NEW t \in Seq(Code)
  PROVE  /\ s \o t \in Seq(Code)
         /\ \A x : Has(s, x) \/ Has(t, x) => Has(s \o t, x)
<1>1. ASSUME NEW x, Has(s, x) PROVE Has(s \o t, x)
  <2>1. PICK i \in 1 .. Len(s) : s[i] = x
    BY <1>1 DEF Has
  <2>2. i \in 1 .. Len(s \o t) /\ (s \o t)[i] = x
    BY <2>1
  <2>. QED
    BY <2>2 DEF Has
<1>2. ASSUME NEW x, Has(t, x) PROVE Has(s \o t, x)
  <2>1. PICK i \in 1 .. Len(t) : t[i] = x
    BY <1>2 DEF Has
  <2>2. Len(s) + i \in 1 .. Len(s \o t) /\ (s \o t)[Len(s) + i] = x
    BY <2>1
  <2>. QED
    BY <2>2 DEF Has
<1>. QED
  BY <1>1, <1>2

\* Short sequences, of anything.
LEMMA Short ==
  ASSUME NEW S, NEW p \in S, NEW q \in S, NEW r \in S, NEW t \in S
  PROVE  /\ <<>> \in Seq(S) /\ <<p>> \in Seq(S) /\ <<p, q>> \in Seq(S)
         /\ <<p, q, r>> \in Seq(S) /\ <<p, q, r, t>> \in Seq(S)
OBVIOUS

LEMMA ShortHas ==
  ASSUME NEW p, NEW q PROVE Has(<<p>>, p) /\ Has(<<p, q>>, p) /\ Has(<<p, q>>, q)
<1>1. /\ Len(<<p>>) = 1 /\ Len(<<p, q>>) = 2
      /\ <<p>>[1] = p /\ <<p, q>>[1] = p /\ <<p, q>>[2] = q
  OBVIOUS
<1>. QED
  BY <1>1 DEF Has

LEMMA EnterHas ==
  Enter \in Seq(Code) /\ Has(Enter, "member") /\ Has(Enter, "branch")
<1>1. "member" \in Code /\ "branch" \in Code
  BY DEF Code
<1>. QED
  BY <1>1, Short, ShortHas, Zenon DEF Enter

LEMMA OneHas ==
  ASSUME NEW p \in Code
  PROVE  <<p>> \in Seq(Code) /\ Has(<<p>>, p)
BY Short, ShortHas, Zenon

LEMMA AdmitHas ==
  ASSUME NEW p \in Code
  PROVE  /\ Admit(p) \in Seq(Code)
         /\ Has(Admit(p), "member") /\ Has(Admit(p), "branch") /\ Has(Admit(p), p)
<1>1. "member" \in Code
  BY DEF Code
<1>2. Ask(p) \in Seq(Code) /\ Has(Ask(p), p)
  BY <1>1, Short, ShortHas, Zenon DEF Ask
<1>. QED
  BY <1>2, EnterHas, HasConcat DEF Admit

LEMMA AskAllHas ==
  ASSUME NEW ps \in Seq(Code)
  PROVE  AskAll(ps) \in Seq(Code) /\ \A x \in Codes(ps) : Has(AskAll(ps), x)
<1>. DEFINE n == 2 * Len(ps)
<1>1. n \in Nat
  OBVIOUS
<1>2. \A i \in 1 .. n : (IF i % 2 = 1 THEN "member" ELSE ps[i \div 2]) \in Code
  <2>1. ASSUME NEW i \in 1 .. n, i % 2 # 1 PROVE ps[i \div 2] \in Code
    <3>1. i \div 2 \in 1 .. Len(ps)
      BY <2>1
    <3>. QED
      BY <3>1
  <2>2. "member" \in Code
    BY DEF Code
  <2>. QED
    BY <2>1, <2>2, Zenon
<1>3. AskAll(ps) \in Seq(Code) /\ Len(AskAll(ps)) = n
  BY <1>1, <1>2 DEF AskAll
<1>4. ASSUME NEW j \in 1 .. Len(ps) PROVE 2 * j \in 1 .. n /\ AskAll(ps)[2 * j] = ps[j]
  <2>1. 2 * j \in 1 .. n /\ (2 * j) % 2 = 0 /\ (2 * j) \div 2 = j
    OBVIOUS
  <2>. QED
    BY <2>1 DEF AskAll
<1>. QED
  BY <1>3, <1>4 DEF Has, Codes

\* The same fact of several sequences one after the other.
LEMMA PlanHas ==
  ASSUME NEW p \in Code, NEW more \in Seq(Code)
  PROVE  /\ Plan(p, <<>>) \in Seq(Code) /\ Has(Plan(p, <<>>), p)
         /\ Plan(p, more) \in Seq(Code)
         /\ Has(Plan(p, more), "member") /\ Has(Plan(p, more), "branch")
         /\ Has(Plan(p, more), p)
         /\ \A x \in Codes(more) : Has(Plan(p, more), x)
<1>1. /\ <<p>> \o Enter \in Seq(Code) /\ Has(<<p>> \o Enter, "member")
      /\ Has(<<p>> \o Enter, "branch") /\ Has(<<p>> \o Enter, p)
  BY OneHas, EnterHas, HasConcat
<1>2. \A x \in Codes(more) : Has(more, x)
  BY DEF Codes, Has
<1>3. <<>> \in Seq(Code)
  OBVIOUS
<1>. QED
  BY <1>1, <1>2, <1>3, HasConcat DEF Plan

-----------------------------------------------------------------------------
(* The kinds of routes *)

LEMMA RouteCovers ==
  ASSUME NEW by \in SUBSET {"browser", "key", "token"}, NEW asks \in Seq(Code),
         NEW does \in SUBSET Code, NEW again \in SUBSET Code,
         \A x \in {"member", "branch"} \cup does : Has(asks, x) \/ x \in again
  PROVE  Covers(Route(by, asks, does, again))
<1>. DEFINE r == Route(by, asks, does, again)
<1>1. r \in Routing /\ r.asks = asks /\ r.does = does /\ r.again = again
  BY DEF Route, Routing
<1>. HIDE DEF r
<1>2. Covers(r)
  BY <1>1 DEF Covers, Needs
<1>. QED
  BY <1>2 DEF r

\* Who may call it makes no difference.
LEMMA ByCovers ==
  ASSUME NEW route, Covers(route), NEW by \in SUBSET {"browser", "key", "token"}
  PROVE  Covers([route EXCEPT !.by = by])
<1>. DEFINE r == [route EXCEPT !.by = by]
<1>1. /\ r \in Routing /\ r.asks = route.asks /\ r.does = route.does
      /\ r.again = route.again
  BY DEF Covers, Routing
<1>. HIDE DEF r
<1>2. Covers(r)
  BY <1>1 DEF Covers, Needs
<1>. QED
  BY <1>2 DEF r

\* A transaction asks besides.
LEMMA AgainCovers ==
  ASSUME NEW route, Covers(route), route.again = {}, NEW more \in SUBSET Code
  PROVE  /\ Covers([route EXCEPT !.again = more])
         /\ Covers([route EXCEPT !.does = @ \cup (more \ {"member", "branch"}), !.again = more])
<1>1. Covers([route EXCEPT !.again = more])
  <2>. DEFINE r == [route EXCEPT !.again = more]
  <2>1. r \in Routing /\ r.asks = route.asks /\ r.does = route.does
    BY DEF Covers, Routing
  <2>. HIDE DEF r
  <2>2. Covers(r)
    BY <2>1 DEF Covers, Needs
  <2>. QED
    BY <2>2 DEF r
<1>2. Covers([route EXCEPT !.does = @ \cup (more \ {"member", "branch"}), !.again = more])
  <2>. DEFINE does == route.does \cup (more \ {"member", "branch"})
              r == [route EXCEPT !.does = does, !.again = more]
  <2>1. does \in SUBSET Code
    BY DEF Covers, Routing
  <2>2. r \in Routing /\ r.asks = route.asks /\ r.does = does /\ r.again = more
    BY <2>1 DEF Covers, Routing
  <2>. HIDE DEF r
  <2>3. Covers(r)
    BY <2>2 DEF Covers, Needs
  <2>. QED
    BY <2>3 DEF r
<1>. QED
  BY <1>1, <1>2

LEMMA GuardedCovers ==
  ASSUME NEW p \in Code
  PROVE  /\ Covers(Guarded(p)) /\ Guarded(p).again = {} /\ Guarded(p).asks = Admit(p)
         /\ Covers(Posting(p)) /\ Covers(Unasked(p))
         /\ Covers(Internal(Guarded(p)))
<1>1. Covers(Guarded(p))
  BY AdmitHas, RouteCovers DEF Guarded
<1>2. Guarded(p).again = {} /\ Guarded(p).does = {p} /\ Guarded(p).asks = Admit(p)
  BY DEF Guarded, Route
<1>3. Again(p) \in SUBSET Code
  BY DEF Again, Code
<1>4. Covers(Posting(p))
  BY <1>1, <1>2, <1>3, AgainCovers DEF Posting
<1>5. Covers(Internal(Guarded(p))) /\ Covers(Internal(Posting(p)))
  BY <1>1, <1>4, ByCovers DEF Internal
<1>6. Covers(Unasked(p))
  <2>. DEFINE i == Internal(Posting(p))
              r == [i EXCEPT !.asks = <<>>]
  <2>1. i.does = {p} /\ i.again = Again(p)
    <3>1. Posting(p) \in Routing /\ Posting(p).does = {p} /\ Posting(p).again = Again(p)
      BY <1>1, <1>2, <1>3 DEF Posting, Covers, Routing
    <3>. QED
      BY <3>1 DEF Internal, Routing
  <2>. HIDE DEF i
  <2>2. r \in Routing /\ r.does = {p} /\ r.again = Again(p)
    <3>1. <<>> \in Seq(Code)
      OBVIOUS
    <3>2. i \in Routing
      BY <1>5 DEF i, Covers
    <3>. QED
      BY <2>1, <3>1, <3>2 DEF Routing
  <2>3. Unasked(p) = r
    BY DEF Unasked, i
  <2>. HIDE DEF r
  <2>4. Covers(r)
    BY <2>2 DEF Covers, Needs, Again
  <2>. QED
    BY <2>3, <2>4
<1>. QED
  BY <1>1, <1>2, <1>4, <1>5, <1>6

LEMMA ToolCovers ==
  ASSUME NEW asks \in Seq(Code), NEW does \in SUBSET Code,
         \A x \in {"member", "branch"} \cup does : Has(asks, x)
  PROVE  /\ Covers(Tool(asks, does)) /\ Tool(asks, does).again = {}
         /\ Tool(asks, does).asks = asks /\ Tool(asks, does).does = does
         /\ Covers(Copilot(asks, does)) /\ Copilot(asks, does).again = {}
<1>1. Covers(Tool(asks, does)) /\ Covers(Copilot(asks, does))
  BY RouteCovers DEF Tool, Copilot
<1>2. /\ Tool(asks, does).again = {} /\ Tool(asks, does).asks = asks
      /\ Tool(asks, does).does = does /\ Copilot(asks, does).again = {}
  BY DEF Tool, Copilot, Route
<1>. QED
  BY <1>1, <1>2

LEMMA CodesType == \A ps \in Seq(Code) : Codes(ps) \in SUBSET Code
BY DEF Codes

LEMMA ReaderCovers ==
  ASSUME NEW p \in Code, NEW more \in Seq(Code) PROVE Covers(Reader(p, more))
<1>1. /\ Admit(p) \o AskAll(more) \in Seq(Code)
      /\ \A x \in {"member", "branch"} \cup ({p} \cup Codes(more)) :
           Has(Admit(p) \o AskAll(more), x)
  BY AdmitHas, AskAllHas, HasConcat
<1>2. {p} \cup Codes(more) \in SUBSET Code
  BY CodesType
<1>. QED
  BY <1>1, <1>2, ToolCovers DEF Reader

LEMMA InBranchCovers ==
  ASSUME NEW ps \in Seq(Code) PROVE Covers(InBranch(ps))
<1>1. /\ Enter \o AskAll(ps) \in Seq(Code)
      /\ \A x \in {"member", "branch"} \cup Codes(ps) : Has(Enter \o AskAll(ps), x)
  BY EnterHas, AskAllHas, HasConcat
<1>. QED
  BY <1>1, CodesType, ToolCovers DEF InBranch

LEMMA FurtherCovers ==
  ASSUME NEW ps \in Seq(Code), NEW qs \in Seq(Code)
  PROVE  /\ Covers(Further(ps, qs))
         /\ \A s, t \in Seq(Code) : Covers([Further(ps, qs) EXCEPT !.asks = @ \o s \o t])
<1>. DEFINE asks == Enter \o AskAll(ps) \o Enter \o AskAll(qs)
            does == Codes(ps) \cup Codes(qs)
            route == Further(ps, qs)
<1>1. /\ Enter \o AskAll(ps) \in Seq(Code)
      /\ \A x \in {"member", "branch"} \cup Codes(ps) : Has(Enter \o AskAll(ps), x)
  BY EnterHas, AskAllHas, HasConcat
<1>2. /\ Enter \o AskAll(ps) \o Enter \in Seq(Code)
      /\ \A x \in {"member", "branch"} \cup Codes(ps) : Has(Enter \o AskAll(ps) \o Enter, x)
  BY <1>1, EnterHas, HasConcat
<1>3. asks \in Seq(Code) /\ \A x \in {"member", "branch"} \cup does : Has(asks, x)
  BY <1>2, AskAllHas, HasConcat
<1>4. does \in SUBSET Code
  BY CodesType
<1>5. route = Tool(asks, does)
  BY DEF Further
<1>. HIDE DEF asks, does, route
<1>6. Covers(route) /\ route.asks = asks /\ route.does = does
  BY <1>3, <1>4, <1>5, ToolCovers
<1>7. ASSUME NEW s \in Seq(Code), NEW t \in Seq(Code)
      PROVE  Covers([route EXCEPT !.asks = route.asks \o s \o t])
  <2>. DEFINE longer == route.asks \o s \o t
              r == [route EXCEPT !.asks = longer]
  <2>1. /\ route.asks \o s \in Seq(Code)
        /\ \A x \in {"member", "branch"} \cup does : Has(route.asks \o s, x)
    BY <1>3, <1>6, HasConcat
  <2>2. longer \in Seq(Code) /\ \A x \in {"member", "branch"} \cup does : Has(longer, x)
    BY <2>1, HasConcat
  <2>. HIDE DEF longer
  <2>3. r \in Routing /\ r.asks = longer /\ r.does = does
    BY <1>6, <2>2 DEF Covers, Routing
  <2>. HIDE DEF r
  <2>4. Covers(r)
    BY <2>2, <2>3 DEF Covers, Needs
  <2>. QED
    BY <2>4 DEF r, longer
<1>. QED
  BY <1>6, <1>7 DEF route

LEMMA PreparedCovers ==
  ASSUME NEW p \in Code, NEW first \in Seq(Code), NEW more \in Seq(Code)
  PROVE  Covers(Prepared(p, first, more))
<1>. DEFINE start == Admit(p) \o Plan(p, <<>>) \o first
            asks == start \o Plan(p, more)
<1>1. start \in Seq(Code)
  BY AdmitHas, PlanHas, HasConcat
<1>. HIDE DEF start
<1>2. /\ Plan(p, more) \in Seq(Code)
      /\ \A x \in {"member", "branch"} \cup ({p} \cup Codes(more)) : Has(Plan(p, more), x)
  BY PlanHas
<1>3. /\ asks \in Seq(Code)
      /\ \A x \in {"member", "branch"} \cup ({p} \cup Codes(more)) : Has(asks, x)
  BY <1>1, <1>2, HasConcat
<1>4. {p} \cup Codes(more) \in SUBSET Code
  BY CodesType
<1>5. Prepared(p, first, more) = Tool(asks, {p} \cup Codes(more))
  BY DEF Prepared, start
<1>. HIDE DEF asks
<1>. QED
  BY <1>3, <1>4, <1>5, ToolCovers

LEMMA ConfirmedCovers ==
  ASSUME NEW p \in Code, NEW more \in Seq(Code), NEW again \in SUBSET Code
  PROVE  Covers(Confirmed(p, more, again))
<1>. DEFINE asks == Enter \o Plan(p, more)
            does == {p} \cup Codes(more) \cup (again \ {"member", "branch"})
            tool == Tool(asks, does)
            r == [tool EXCEPT !.again = again]
<1>1. /\ Plan(p, more) \in Seq(Code)
      /\ \A x \in {"member", "branch"} \cup ({p} \cup Codes(more)) : Has(Plan(p, more), x)
  BY PlanHas
<1>2. /\ asks \in Seq(Code)
      /\ \A x \in {"member", "branch"} \cup ({p} \cup Codes(more)) : Has(asks, x)
  BY <1>1, EnterHas, HasConcat
<1>3. does \in SUBSET Code /\ Codes(more) \in SUBSET Code
  BY CodesType
<1>4. \A x \in {"member", "branch"} \cup does : Has(asks, x) \/ x \in again
  BY <1>2
<1>5. Confirmed(p, more, again) = r
  BY DEF Confirmed
<1>. HIDE DEF asks, does
<1>6. tool \in Routing /\ tool.asks = asks /\ tool.does = does
  BY <1>2, <1>3 DEF Tool, Route, Routing
<1>. HIDE DEF tool
<1>7. r \in Routing /\ r.asks = asks /\ r.does = does /\ r.again = again
  BY <1>6 DEF Routing
<1>. HIDE DEF r
<1>. QED
  BY <1>4, <1>5, <1>7 DEF Covers, Needs

-----------------------------------------------------------------------------
(* The routers *)

LEMMA OnCovers ==
  ASSUME NEW route, Covers(route) PROVE \A paths : AllCover(On(paths, route))
BY DEF AllCover, On

LEMMA JoinCovers ==
  ASSUME NEW f, NEW g, AllCover(f), AllCover(g) PROVE AllCover(f ++ g)
<1>1. DOMAIN (f ++ g) = DOMAIN f \cup DOMAIN g
  BY DEF ++
<1>2. ASSUME NEW path \in DOMAIN (f ++ g) PROVE Covers((f ++ g)[path])
  <2>1. CASE path \in DOMAIN f
    <3>1. (f ++ g)[path] = f[path]
      BY <1>1, <2>1 DEF ++
    <3>. QED
      BY <2>1, <3>1 DEF AllCover
  <2>2. CASE path \in DOMAIN g \ DOMAIN f
    <3>1. (f ++ g)[path] = g[path]
      BY <1>1, <2>2 DEF ++
    <3>. QED
      BY <2>2, <3>1 DEF AllCover
  <2>. QED
    BY <1>1, <2>1, <2>2
<1>. QED
  BY <1>2 DEF AllCover

LEMMA CodesOwn ==
  /\ {"customers.read", "vendors.read", "products.read", "inventory.read",
      "purchases.read", "sales.read", "accounting.read"} \subseteq Code
  /\ {"customers.write", "vendors.write", "products.write"} \subseteq Code
  /\ {"purchases.create", "sales.create", "payments.create", "returns.create"}
       \subseteq Code
  /\ {"inventory.adjust", "accounting.post", "reports.view"} \subseteq Code
BY DEF Code

LEMMA GuardedPaths ==
  ASSUME NEW p \in Code, NEW paths
  PROVE  /\ AllCover(On(paths, Guarded(p))) /\ AllCover(On(paths, Posting(p)))
         /\ AllCover(On(paths, Unasked(p))) /\ AllCover(On(paths, Internal(Guarded(p))))
BY GuardedCovers, OnCovers

LEMMA MasterDataCovers ==
  /\ AllCover(Customers) /\ AllCover(Vendors) /\ AllCover(Products)
  /\ AllCover(Warehouses) /\ AllCover(RateListPages) /\ AllCover(Stock)
  /\ AllCover(Inventory) /\ AllCover(Erp)
<1>1. AllCover(Customers) /\ AllCover(Vendors) /\ AllCover(Products)
  BY GuardedPaths, JoinCovers, CodesOwn DEF Customers, Vendors, Products
<1>2. AllCover(Warehouses) /\ AllCover(RateListPages) /\ AllCover(Stock)
  BY GuardedPaths, JoinCovers, CodesOwn DEF Warehouses, RateListPages, Stock
<1>3. AllCover(Inventory) /\ AllCover(Erp)
  BY GuardedPaths, JoinCovers, CodesOwn DEF Inventory, Erp
<1>. QED
  BY <1>1, <1>2, <1>3

LEMMA DocumentsCover ==
  /\ AllCover(Invoices) /\ AllCover(Returns) /\ AllCover(Purchases)
  /\ AllCover(CustomerPayments) /\ AllCover(VendorPayments)
  /\ AllCover(EstimateDrafts) /\ AllCover(EstimateConversion) /\ AllCover(WhatsAppShare)
  /\ AllCover(InternalSales) /\ AllCover(InternalCustomerPayments)
  /\ AllCover(InternalVendorPayments) /\ AllCover(InternalReturns)
<1>1. AllCover(Invoices) /\ AllCover(Returns) /\ AllCover(Purchases)
  BY GuardedPaths, JoinCovers, CodesOwn DEF Invoices, Returns, Purchases
<1>2. AllCover(CustomerPayments) /\ AllCover(VendorPayments)
  BY GuardedPaths, JoinCovers, CodesOwn DEF CustomerPayments, VendorPayments
<1>3. AllCover(EstimateDrafts) /\ AllCover(EstimateConversion) /\ AllCover(WhatsAppShare)
  BY GuardedPaths, JoinCovers, CodesOwn DEF EstimateDrafts, EstimateConversion, WhatsAppShare
<1>4. /\ AllCover(InternalSales) /\ AllCover(InternalCustomerPayments)
      /\ AllCover(InternalVendorPayments) /\ AllCover(InternalReturns)
  BY GuardedPaths, CodesOwn
  DEF InternalSales, InternalCustomerPayments, InternalVendorPayments, InternalReturns
<1>. QED
  BY <1>1, <1>2, <1>3, <1>4

LEMMA BooksCover ==
  AllCover(Accounting) /\ AllCover(Reports) /\ AllCover(Dashboard)
<1>1. AllCover(Accounting) /\ AllCover(Dashboard)
  BY GuardedPaths, JoinCovers, CodesOwn DEF Accounting, Dashboard
<1>2. Covers([Guarded("reports.view") EXCEPT !.asks = @ \o <<"reports.view">>])
  <2>. DEFINE route == Guarded("reports.view")
              asks == route.asks \o <<"reports.view">>
              r == [route EXCEPT !.asks = asks]
  <2>1. Covers(route) /\ <<"reports.view">> \in Seq(Code)
    BY GuardedCovers, OneHas, CodesOwn
  <2>. HIDE DEF route
  <2>2. asks \in Seq(Code) /\ \A x : Has(route.asks, x) => Has(asks, x)
    BY <2>1, HasConcat DEF Covers, Routing
  <2>. HIDE DEF asks
  <2>3. r \in Routing /\ r.asks = asks /\ r.does = route.does /\ r.again = route.again
    BY <2>1, <2>2 DEF Covers, Routing
  <2>. HIDE DEF r
  <2>4. Covers(r)
    BY <2>1, <2>2, <2>3 DEF Covers, Needs
  <2>. QED
    BY <2>4 DEF r, asks, route
<1>3. AllCover(Reports)
  BY <1>2, GuardedPaths, OnCovers, JoinCovers, CodesOwn DEF Reports
<1>. QED
  BY <1>1, <1>3

LEMMA IntentType == PermissionByIntent \in [Intent -> Code]
BY CodesOwn DEF PermissionByIntent, Intent

LEMMA OneToolCovers ==
  ASSUME NEW asks \in Seq(Code), NEW p \in Code,
         \A x \in {"member", "branch", p} : Has(asks, x)
  PROVE  /\ Covers(Tool(asks, {p})) /\ Covers(Copilot(asks, {p}))
         /\ Tool(asks, {p}).again = {} /\ Copilot(asks, {p}).again = {}
         /\ Tool(asks, {p}).does = {p}
<1>. DEFINE does == {p}
<1>1. does \in SUBSET Code /\ \A x \in {"member", "branch"} \cup does : Has(asks, x)
  OBVIOUS
<1>2. /\ Covers(Tool(asks, does)) /\ Covers(Copilot(asks, does))
      /\ Tool(asks, does).again = {} /\ Copilot(asks, does).again = {}
      /\ Tool(asks, does).does = does
  <2>. HIDE DEF does
  <2>. QED
    BY <1>1, ToolCovers
<1>. QED
  BY <1>2

LEMMA CopilotCovers ==
  /\ AllCover(Review) /\ AllCover(Quote) /\ AllCover(Extraction)
  /\ AllCover(Drafts) /\ AllCover(Confirmation)
<1>1. \A p \in Code : Covers(Copilot(Enter \o <<p>>, {p}))
  <2>1. ASSUME NEW p \in Code PROVE Covers(Copilot(Enter \o <<p>>, {p}))
    <3>1. /\ Enter \o <<p>> \in Seq(Code)
          /\ \A x \in {"member", "branch", p} : Has(Enter \o <<p>>, x)
      BY EnterHas, OneHas, HasConcat
    <3>. QED
      BY <3>1, OneToolCovers
  <2>. QED
    BY <2>1
<1>2. \A p \in Code : Covers(Copilot(<<p>> \o Enter, {p}))
  <2>1. ASSUME NEW p \in Code PROVE Covers(Copilot(<<p>> \o Enter, {p}))
    <3>1. /\ <<p>> \o Enter \in Seq(Code)
          /\ \A x \in {"member", "branch", p} : Has(<<p>> \o Enter, x)
      BY EnterHas, OneHas, HasConcat
    <3>. QED
      BY <3>1, OneToolCovers
  <2>. QED
    BY <2>1
<1>3. AllCover(Review)
  BY <1>1, IntentType DEF AllCover, Review
<1>4. AllCover(Quote) /\ AllCover(Extraction)
  BY <1>1, <1>2, OnCovers, CodesOwn DEF Quote, Extraction
<1>5. \A p \in Code : Covers(Copilot(Plan(p, <<>>), {p}))
                      /\ Copilot(Plan(p, <<>>), {p}).again = {}
  <2>1. ASSUME NEW p \in Code
        PROVE  /\ Covers(Copilot(Plan(p, <<>>), {p}))
               /\ Copilot(Plan(p, <<>>), {p}).again = {}
    <3>1. <<>> \in Seq(Code)
      OBVIOUS
    <3>2. /\ Plan(p, <<>>) \in Seq(Code)
          /\ \A x \in {"member", "branch", p} : Has(Plan(p, <<>>), x)
      BY <3>1, PlanHas
    <3>. QED
      BY <3>2, OneToolCovers
  <2>. QED
    BY <2>1
<1>6. \A intent \in Intent : Covers(Drafts[intent]) /\ Drafts[intent].again = {}
  BY <1>5, IntentType DEF Drafts
<1>7. \A intent \in Intent : Again(PermissionByIntent[intent]) \in SUBSET Code
  BY IntentType DEF Again, Code
<1>8. \A intent \in Intent :
        Covers([Drafts[intent] EXCEPT !.again = Again(PermissionByIntent[intent])])
  BY <1>6, <1>7, AgainCovers
<1>9. AllCover(Drafts) /\ AllCover(Confirmation)
  BY <1>6, <1>8 DEF AllCover, Drafts, Confirmation
<1>. QED
  BY <1>3, <1>4, <1>9

-----------------------------------------------------------------------------
(* The tools *)

LEMMA SequencesOwn ==
  /\ <<>> \in Seq(Code) /\ \A p \in Code : <<p>> \in Seq(Code)
  /\ \A p, q \in Code : <<p, q>> \in Seq(Code)
  /\ \A p, q, r \in Code : <<p, q, r>> \in Seq(Code)
  /\ \A p, q, r, t \in Code : <<p, q, r, t>> \in Seq(Code)
BY Short

LEMMA ToolsCover == AllCover(Tools) /\ AllCover(Selection)
<1>1. \A p \in Code : Covers(Tool(Admit(p) \o Plan(p, <<>>), {p}))
  <2>1. ASSUME NEW p \in Code PROVE Covers(Tool(Admit(p) \o Plan(p, <<>>), {p}))
    <3>1. <<>> \in Seq(Code)
      OBVIOUS
    <3>2. Plan(p, <<>>) \in Seq(Code)
      BY <3>1, PlanHas
    <3>3. /\ Admit(p) \o Plan(p, <<>>) \in Seq(Code)
          /\ \A x \in {"member", "branch", p} : Has(Admit(p) \o Plan(p, <<>>), x)
      BY <3>2, AdmitHas, HasConcat
    <3>. QED
      BY <3>3, OneToolCovers
  <2>. QED
    BY <2>1
<1>2. \A p \in Code : \A paths :
        /\ AllCover(On(paths, Reader(p, <<>>)))
        /\ AllCover(On(paths, Tool(Admit(p) \o Plan(p, <<>>), {p})))
        /\ \A q \in Code : AllCover(On(paths, Reader(p, <<q>>)))
  BY <1>1, ReaderCovers, OnCovers, SequencesOwn
<1>3. AllCover(Tools)
  BY <1>2, JoinCovers, CodesOwn DEF Tools
<1>4. \A p \in Code : Covers(InBranch(<<p>>))
  BY InBranchCovers, SequencesOwn
<1>5. AllCover(Selection)
  BY <1>4, CodesOwn DEF Selection, AllCover
<1>. QED
  BY <1>3, <1>5

LEMMA DraftToolsCover == AllCover(DraftTools)
<1>. DEFINE more == Append(Drafting, "customers.read")
            context == Append(Drafting, "sales.read")
            first == Enter \o AskAll(Drafting) \o Enter
            asks == first \o AskAll(more)
            stored == Enter \o AskAll(more) \o Plan("sales.create", <<>>)
            does == Codes(Drafting) \cup {"customers.read"}
<1>1. /\ Drafting \in Seq(Code) /\ more \in Seq(Code) /\ context \in Seq(Code)
  BY SequencesOwn, CodesOwn DEF Drafting
<1>2. Codes(more) = does /\ does \in SUBSET Code
  BY <1>1, CodesType, CodesOwn DEF Drafting, Codes
<1>. HIDE DEF more, context
<1>3. first \in Seq(Code) /\ Has(first, "member") /\ Has(first, "branch")
  BY <1>1, EnterHas, AskAllHas, HasConcat
<1>. HIDE DEF first
<1>4. asks \in Seq(Code) /\ \A x \in {"member", "branch"} \cup does : Has(asks, x)
  BY <1>1, <1>2, <1>3, AskAllHas, HasConcat
<1>5. stored \in Seq(Code) /\ \A x \in {"member", "branch"} \cup does : Has(stored, x)
  <2>1. /\ Enter \o AskAll(more) \in Seq(Code)
        /\ \A x \in {"member", "branch"} \cup does : Has(Enter \o AskAll(more), x)
    BY <1>1, <1>2, EnterHas, AskAllHas, HasConcat
  <2>2. Plan("sales.create", <<>>) \in Seq(Code)
    <3>1. "sales.create" \in Code /\ <<>> \in Seq(Code)
      BY CodesOwn
    <3>. QED
      BY <3>1, PlanHas
  <2>. QED
    BY <2>1, <2>2, HasConcat
<1>. HIDE DEF asks, stored, does
<1>6. Covers(Tool(asks, does)) /\ Covers(Tool(stored, does)) /\ Covers(InBranch(context))
  BY <1>1, <1>2, <1>4, <1>5, ToolCovers, InBranchCovers
<1>7. \A paths : /\ AllCover(On(paths, Tool(asks, does)))
                 /\ AllCover(On(paths, Tool(stored, does)))
                 /\ AllCover(On(paths, InBranch(context)))
  BY <1>6, OnCovers
<1>8. \A p, q, r : AllCover(On(p, Tool(asks, does)) ++ On(q, InBranch(context))
                           ++ On(r, Tool(stored, does)))
  BY <1>7, JoinCovers
<1>. QED
  BY <1>8, Zenon DEF DraftTools, asks, stored, does, first, more, context

LEMMA BusinessToolsCover == AllCover(BusinessTools) /\ AllCover(PaymentTools)
<1>1. \A ps \in Seq(Code) : \A paths : AllCover(On(paths, InBranch(ps)))
  BY InBranchCovers, OnCovers
<1>2. \A ps, qs \in Seq(Code) : \A paths : AllCover(On(paths, Further(ps, qs)))
  BY FurtherCovers, OnCovers
<1>3. CustomerDocuments \in Seq(Code) /\ VendorDocuments \in Seq(Code)
  BY SequencesOwn, CodesOwn DEF CustomerDocuments, VendorDocuments
<1>4. \A documents \in Seq(Code) : \A paths : AllCover(On(paths, Payment(documents)))
  <2>1. ASSUME NEW documents \in Seq(Code) PROVE Covers(Payment(documents))
    <3>. DEFINE one == <<"payments.create">>
                again == AskAll(one \o documents)
    <3>1. one \in Seq(Code) /\ one \o documents \in Seq(Code)
      BY SequencesOwn, CodesOwn
    <3>2. again \in Seq(Code) /\ Enter \in Seq(Code)
      BY <3>1, EnterHas, AskAllHas
    <3>3. Payment(documents) = [Further(one, documents) EXCEPT !.asks = @ \o Enter \o again]
      BY DEF Payment
    <3>. HIDE DEF one, again
    <3>4. Covers([Further(one, documents) EXCEPT !.asks = @ \o Enter \o again])
      BY <3>1, <3>2, FurtherCovers, Zenon
    <3>. QED
      BY <3>3, <3>4, Zenon
  <2>. QED
    BY <2>1, OnCovers
<1>5. \A documents \in Seq(Code) : \A paths : AllCover(On(paths, StoredPayment(documents)))
  <2>1. ASSUME NEW documents \in Seq(Code) PROVE Covers(StoredPayment(documents))
    <3>. DEFINE all == <<"payments.create">> \o documents
                asks == Enter \o AskAll(all) \o Plan("payments.create", <<>>)
    <3>1. all \in Seq(Code)
      BY SequencesOwn, CodesOwn
    <3>. HIDE DEF all
    <3>2. /\ Enter \o AskAll(all) \in Seq(Code)
          /\ \A x \in {"member", "branch"} \cup Codes(all) : Has(Enter \o AskAll(all), x)
      BY <3>1, EnterHas, AskAllHas, HasConcat
    <3>3. Plan("payments.create", <<>>) \in Seq(Code)
      <4>1. "payments.create" \in Code /\ <<>> \in Seq(Code)
        BY CodesOwn
      <4>. QED
        BY <4>1, PlanHas
    <3>4. /\ asks \in Seq(Code)
          /\ \A x \in {"member", "branch"} \cup Codes(all) : Has(asks, x)
      BY <3>2, <3>3, HasConcat
    <3>5. StoredPayment(documents) = Tool(asks, Codes(all))
      BY DEF StoredPayment, all
    <3>. HIDE DEF asks
    <3>. QED
      BY <3>1, <3>4, <3>5, CodesType, ToolCovers
  <2>. QED
    BY <2>1, OnCovers
<1>6. AllCover(BusinessTools)
  BY <1>1, <1>2, JoinCovers, SequencesOwn, CodesOwn DEF BusinessTools
<1>7. AllCover(PaymentTools)
  BY <1>2, <1>3, <1>4, <1>5, JoinCovers, SequencesOwn, CodesOwn DEF PaymentTools
<1>. QED
  BY <1>6, <1>7

LEMMA AnalyticsCover == AllCover(AnalyticsTools)
<1>. DEFINE Asked(router) == \A tool \in DOMAIN router : router[tool] \in Seq(Code)
<1>1. \A ps \in Seq(Code) : \A paths : Asked(On(paths, ps))
  BY DEF On
<1>2. ASSUME NEW f, NEW g, Asked(f), Asked(g) PROVE Asked(f ++ g)
  BY <1>2 DEF ++
<1>. HIDE DEF Asked
<1>3. Asked(Analytics)
  BY <1>1, <1>2, SequencesOwn, CodesOwn DEF Analytics
<1>4. \A tool \in DOMAIN Analytics : Covers(InBranch(Analytics[tool]))
  BY <1>3, InBranchCovers DEF Asked
<1>5. \A tool \in DOMAIN Analytics :
        Covers([InBranch(Analytics[tool]) EXCEPT !.by = {"browser", "token"}])
  BY <1>4, ByCovers
<1>. QED
  BY <1>5 DEF AllCover, AnalyticsTools

\* The permission each action and each reading tool is registered with.
LEMMA PermissionsType ==
  /\ \A tool \in DOMAIN ActionPermissions : ActionPermissions[tool] \in Code
  /\ \A tool \in DOMAIN ReadPermissions : ReadPermissions[tool] \in Code
  /\ "erp_get_depot_insights" \in DOMAIN ReadPermissions
<1>. DEFINE Asked(router) == \A tool \in DOMAIN router : router[tool] \in Code
<1>1. \A p \in Code : \A paths : Asked(On(paths, p))
  BY DEF On
<1>2. ASSUME NEW f, NEW g, Asked(f), Asked(g) PROVE Asked(f ++ g)
  BY <1>2 DEF ++
<1>3. "erp_get_depot_insights" \in DOMAIN ReadPermissions
  BY DEF ReadPermissions, On, ++
<1>. HIDE DEF Asked
<1>4. Asked(ActionPermissions)
  BY <1>1, <1>2, CodesOwn DEF ActionPermissions
<1>5. Asked(ReadPermissions)
  BY <1>1, <1>2, CodesOwn DEF ReadPermissions
<1>. QED
  BY <1>3, <1>4, <1>5 DEF Asked

LEMMA ReadActionsCover ==
  /\ AllCover(ReadActions) /\ AllCover(InsightTools)
<1>1. ASSUME NEW p \in Code
      PROVE  /\ Covers(Tool(Admit(p) \o Plan(p, <<>>), {p}))
             /\ Tool(Admit(p) \o Plan(p, <<>>), {p}).again = {}
  <2>1. <<>> \in Seq(Code)
    OBVIOUS
  <2>2. Plan(p, <<>>) \in Seq(Code)
    BY <2>1, PlanHas
  <2>3. /\ Admit(p) \o Plan(p, <<>>) \in Seq(Code)
        /\ \A x \in {"member", "branch", p} : Has(Admit(p) \o Plan(p, <<>>), x)
    BY <2>2, AdmitHas, HasConcat
  <2>. QED
    BY <2>3, OneToolCovers
<1>2. \A tool \in DOMAIN ReadPermissions :
        Covers(ReadActions[tool]) /\ ReadActions[tool].again = {}
  BY <1>1, PermissionsType DEF ReadActions
<1>3. \A report \in DOMAIN Insights :
        Insights[report] \in SUBSET (Code \ {"member", "branch"})
  BY CodesOwn DEF Insights
<1>. DEFINE reader == ReadActions["erp_get_depot_insights"]
<1>4. Covers(reader) /\ reader.again = {}
  BY <1>2, PermissionsType
<1>5. InsightTools = [report \in DOMAIN Insights |->
        [reader EXCEPT !.does = @ \cup Insights[report],
                       !.again = {"branch"} \cup Insights[report]]]
  BY DEF InsightTools
<1>. HIDE DEF reader
<1>6. ASSUME NEW report \in DOMAIN Insights PROVE Covers(InsightTools[report])
  <2>. DEFINE more == Insights[report]
              does == reader.does \cup more
              again == {"branch"} \cup more
              r == [reader EXCEPT !.does = does, !.again = again]
  <2>1. does \in SUBSET Code /\ again \in SUBSET Code
    BY <1>3, <1>4, EnterHas DEF Covers, Routing, Code
  <2>2. \A x \in {"member", "branch"} \cup does : Has(reader.asks, x) \/ x \in again
    BY <1>4 DEF Covers, Needs
  <2>3. InsightTools[report] = r
    BY <1>5
  <2>. HIDE DEF does, again
  <2>4. r \in Routing /\ r.asks = reader.asks /\ r.does = does /\ r.again = again
    BY <1>4, <2>1 DEF Covers, Routing
  <2>. HIDE DEF r
  <2>. QED
    BY <2>2, <2>3, <2>4 DEF Covers, Needs
<1>. QED
  BY <1>2, <1>6 DEF AllCover, ReadActions, InsightTools

LEMMA ActionsCover == AllCover(Actions) /\ AllCover(ConfirmedActions)
<1>. DEFINE plain == [tool \in DOMAIN ActionPermissions |->
                        Prepared(ActionPermissions[tool], <<>>, <<>>)]
            Asked(tool) ==
              IF tool = "erp_import_rate_list" THEN {}
              ELSE IF tool \in {"erp_transfer_site_material", "erp_deliver_site_transfer"}
              THEN Again(ActionPermissions[tool]) \cup {"returns.create"}
              ELSE Again(ActionPermissions[tool])
            checked == [tool \in DOMAIN ActionPermissions |->
                        Confirmed(ActionPermissions[tool], <<>>, Asked(tool))]
<1>1. AllCover(plain)
  BY PreparedCovers, PermissionsType, SequencesOwn DEF AllCover
<1>2. \A p \in Code : Again(p) \in SUBSET Code
  BY DEF Again, Code
<1>3. \A tool \in DOMAIN ActionPermissions : Asked(tool) \in SUBSET Code
  BY <1>2, PermissionsType, CodesOwn
<1>4. AllCover(checked)
  <2>. HIDE DEF Asked
  <2>. QED
    BY <1>3, ConfirmedCovers, PermissionsType, SequencesOwn DEF AllCover
<1>5. \A p \in Code, first, more \in Seq(Code) : \A paths :
        AllCover(On(paths, Prepared(p, first, more)))
  BY PreparedCovers, OnCovers
<1>6. ASSUME NEW p \in Code, NEW q \in Code, NEW paths
      PROVE  AllCover(On(paths, Confirmed(p, <<q>>, Again(p) \cup {q})))
  <2>. DEFINE again == Again(p) \cup {q}
  <2>1. again \in SUBSET Code /\ <<q>> \in Seq(Code)
    BY <1>2, SequencesOwn
  <2>2. Covers(Confirmed(p, <<q>>, again))
    <3>. HIDE DEF again
    <3>. QED
      BY <2>1, ConfirmedCovers
  <2>. QED
    BY <2>2, OnCovers
<1>7. AllCover(Actions)
  <2>. HIDE DEF plain
  <2>1. AllCover(plain
           ++ On({"erp_create_estimate for a new customer"},
                 Prepared("sales.create", <<"customers.write">>, <<"customers.write">>))
           ++ On({"erp_create_customer with a balance"},
                 Prepared("customers.write", <<>>, <<"accounting.post">>))
           ++ On({"erp_create_invoice paid"},
                 Prepared("sales.create", <<>>, <<"payments.create">>)))
    BY <1>1, <1>5, JoinCovers, SequencesOwn, CodesOwn
  <2>. QED
    BY <2>1, Zenon DEF Actions, plain
<1>8. AllCover(ConfirmedActions)
  <2>. HIDE DEF checked
  <2>1. AllCover(checked
           ++ On({"erp_create_estimate for a new customer"},
                 Confirmed("sales.create", <<"customers.write">>,
                           Again("sales.create") \cup {"customers.write"}))
           ++ On({"erp_create_customer with a balance"},
                 Confirmed("customers.write", <<"accounting.post">>,
                           Again("customers.write") \cup {"accounting.post"}))
           ++ On({"erp_create_invoice paid"},
                 Confirmed("sales.create", <<"payments.create">>,
                           Again("sales.create") \cup {"payments.create"})))
    BY <1>4, <1>6, JoinCovers, CodesOwn
  <2>. QED
    BY <2>1, Zenon DEF ConfirmedActions, checked, Asked
<1>. QED
  BY <1>7, <1>8

\* Whatever the API answers or writes, it asks for all that it needs.
LEMMA KindCovers == \A kind \in Kind : Covers(kind)
<1>1. \A router \in Routers : AllCover(router)
  BY MasterDataCovers, DocumentsCover, BooksCover, CopilotCovers, ToolsCover,
     DraftToolsCover, BusinessToolsCover, AnalyticsCover, ReadActionsCover, ActionsCover
  DEF Routers
<1>. QED
  BY <1>1 DEF Kind, AllCover

-----------------------------------------------------------------------------
(* The type invariant *)

Actor == User \cup {None}
Somewhere == Place \cup {None}
Left == [asks : Nat, changes : Nat, requests : Nat, signs : Nat, every : BOOLEAN]
Session == [tab : Tab, what : {"check", "in", "out"}, user : Actor, served : BOOLEAN]
Find == [tab : Tab, no : Nat, user : Actor, previous : Somewhere, form : BOOLEAN,
         served : BOOLEAN, places : SUBSET Place, whose : Actor]
Request == [no : Nat, by : {"browser", "key", "token"}, who : Actor, where : Somewhere,
            kind : Kind, stage : {"sent", "identified"}, looked : Nat, lacked : SUBSET Code]

ClientType ==
  /\ auth \in [Tab -> Actor] /\ account \in [Tab -> Actor]
  /\ listed \in [Tab -> Actor] /\ astray \subseteq Tab
  /\ ws \in [Tab -> Somewhere] /\ mounted \in [Tab -> Somewhere]
  /\ found \in [Tab -> SUBSET Place] /\ asked \in [Tab -> Nat]
  /\ sessions \subseteq Session /\ finds \subseteq Find
ServerType == cookie \in Actor /\ owner \in User /\ cached \in Actor /\ left \in Left
RequestType == requests \subseteq Request
\* A request that was identified has lacked until now what is in lacked; what it
\* has looked up is not.
GrantedSoFar ==
  \A r \in requests :
    IF r.stage = "identified"
      THEN /\ r.lacked \subseteq Needs(r.kind)
           /\ \A x \in r.lacked : ~Holds(r.who, r.where, x)
           /\ \A i \in 1 .. r.looked : r.kind.asks[i] \notin r.lacked
      ELSE r.looked = 0 /\ r.lacked = {}

\* What is signed in to, and what the server answers, is an account.
SessionsNamed == \A s \in sessions : s.what = "in" => s.user # None
FindNamed(f) == (f.form => f.user # None) /\ (f.served => f.whose # None)
TabNamed(t) == (ws[t] # None => account[t] # None) /\ (found[t] # {} => listed[t] # None)
\* A tab has one discovery of its latest number (or copies of it); unless the list
\* is empty it is for the account signed in.
FindsNumbered ==
  \A f \in finds :
    /\ FindNamed(f) /\ f.no <= asked[f.tab]
    /\ \A g \in finds : f.tab = g.tab /\ f.no = g.no => f.user = g.user
FindTimely(f) ==
  f.no = asked[f.tab] => f.user = auth[f.tab] \/ found[f.tab] = {}
\* The list is the account's own, unless the discovery that replaces it is under way.
ListOfAccount(t) ==
  found[t] # {} => listed[t] = auth[t] \/ Connecting(t)
OwnTab(t) ==
  t \notin astray =>
    /\ ws[t] # None => account[t] = auth[t]
    /\ ListOfAccount(t)
    /\ \A f \in finds : f.tab = t => FindTimely(f)
TabsInv == SessionsNamed /\ FindsNumbered /\ \A t \in Tab : TabNamed(t) /\ OwnTab(t)
ClientInv == ClientType /\ ServerType /\ TabsInv
RequestInv == RequestType /\ GrantedSoFar /\ WriteWasGranted
IInv == ClientInv /\ RequestInv

LEMMA KindType == Kind \subseteq Routing
BY KindCovers DEF Covers

LEMMA NeedsType == \A kind \in Kind : Needs(kind) \in SUBSET Code
<1>1. {"member", "branch"} \subseteq Code
  BY DEF Code
<1>. QED
  BY <1>1, KindType DEF Needs, Routing

LEMMA InitInv == Init => IInv
<1>. SUFFICES ASSUME Init PROVE IInv
  OBVIOUS
<1>1. owner \in User /\ left \in Left
  BY AccessAssumption DEF Init, Left
<1>2. /\ auth \in [Tab -> Actor] /\ account \in [Tab -> Actor] /\ cookie \in Actor
      /\ listed \in [Tab -> Actor] /\ astray = {}
  BY <1>1 DEF Init, AtWork, Opening, Actor
<1>3. /\ ws \in [Tab -> Somewhere] /\ mounted \in [Tab -> Somewhere]
      /\ found \in [Tab -> SUBSET Place]
  BY AccessAssumption DEF Init, AtWork, Opening, Somewhere
<1>4. sessions \subseteq Session
  <2>1. \A t \in Tab : [tab |-> t, what |-> "check", user |-> None, served |-> FALSE] \in Session
    BY DEF Session, Actor
  <2>. QED
    BY <2>1 DEF Init, AtWork, Opening
<1>5. asked \in [Tab -> Nat] /\ finds \subseteq Find /\ cached \in Actor
  BY DEF Init, Actor
<1>6. TabsInv
  <2>1. SessionsNamed /\ FindsNumbered
    BY DEF Init, AtWork, Opening, SessionsNamed, FindsNumbered
  <2>2. owner # None
    BY <1>1, AccessAssumption
  <2>3. ASSUME NEW t \in Tab PROVE TabNamed(t) /\ OwnTab(t)
    <3>1. finds = {}
      BY DEF Init
    <3>2. CASE AtWork
      BY <2>2, <3>1, <3>2 DEF AtWork, TabNamed, OwnTab, ListOfAccount
    <3>3. CASE Opening
      BY <3>1, <3>3 DEF Opening, TabNamed, OwnTab, ListOfAccount
    <3>. QED
      BY <3>2, <3>3 DEF Init
  <2>. QED
    BY <2>1, <2>3 DEF TabsInv
<1>7. RequestInv
  BY DEF Init, RequestInv, RequestType, GrantedSoFar, WriteWasGranted
<1>. QED
  BY <1>1, <1>2, <1>3, <1>4, <1>5, <1>6, <1>7 DEF IInv, ClientInv, ClientType, ServerType

-----------------------------------------------------------------------------
(* Tabs and accounts *)

LEMMA SpendType ==
  ASSUME left \in Left,
         Spend("asks") \/ Spend("changes") \/ Spend("requests") \/ Spend("signs")
  PROVE  left' \in Left
BY DEF Spend, Left

\* What the tabs know, and their discoveries, are left as they are.
LEMMA TabsStay ==
  ASSUME TabsInv, SessionsNamed',
         UNCHANGED <<auth, ws, found, asked, finds, account, listed, astray>>
  PROVE  TabsInv'
<1>1. FindsNumbered'
  BY DEF TabsInv, FindsNumbered, FindNamed
<1>2. ASSUME NEW u \in Tab PROVE TabNamed(u)' /\ OwnTab(u)'
  BY DEF TabsInv, TabNamed, OwnTab, ListOfAccount, Connecting, Current, FindTimely
<1>. QED
  BY <1>1, <1>2 DEF TabsInv

\* A step of one tab leaves the others alone.
Alone(u) ==
  /\ auth'[u] = auth[u] /\ ws'[u] = ws[u] /\ found'[u] = found[u]
  /\ asked'[u] = asked[u] /\ account'[u] = account[u] /\ listed'[u] = listed[u]
  /\ u \in astray' <=> u \in astray
  /\ \A f : f.tab = u => (f \in finds' <=> f \in finds)
LEMMA OtherTab ==
  ASSUME TabsInv, NEW u \in Tab, Alone(u)
  PROVE  TabNamed(u)' /\ OwnTab(u)'
<1>1. TabNamed(u)'
  BY DEF TabsInv, TabNamed, Alone
<1>2. Connecting(u) => Connecting(u)'
  BY DEF Connecting, Current, Alone
<1>3. ASSUME NEW f \in finds', f.tab = u, FindTimely(f) PROVE FindTimely(f)'
  BY <1>3 DEF FindTimely, Alone
<1>4. ASSUME u \notin astray' PROVE /\ ws'[u] # None => account'[u] = auth'[u]
                                   /\ ListOfAccount(u)'
                                   /\ \A f \in finds' : f.tab = u => FindTimely(f)'
  <2>1. /\ ws[u] # None => account[u] = auth[u]
        /\ ListOfAccount(u) /\ \A f \in finds : f.tab = u => FindTimely(f)
    BY <1>4 DEF TabsInv, OwnTab, Alone
  <2>2. ListOfAccount(u)'
    BY <1>2, <2>1 DEF ListOfAccount, Alone
  <2>3. \A f \in finds' : f.tab = u => FindTimely(f)'
    BY <1>3, <2>1 DEF Alone
  <2>. QED
    BY <2>1, <2>2, <2>3 DEF Alone
<1>. QED
  BY <1>1, <1>4 DEF OwnTab

LEMMA OneTab ==
  ASSUME TabsInv, SessionsNamed', FindsNumbered', NEW t \in Tab, TabNamed(t)', OwnTab(t)',
         \A u \in Tab \ {t} : Alone(u)
  PROVE  TabsInv'
<1>1. ASSUME NEW u \in Tab PROVE TabNamed(u)' /\ OwnTab(u)'
  BY <1>1, OtherTab
<1>. QED
  BY <1>1 DEF TabsInv

LEMMA SignInKeeps ==
  ASSUME ClientInv, NEW t \in Tab, NEW u \in User, SignIn(t, u) PROVE ClientInv'
<1>1. left' \in Left
  BY SpendType DEF SignIn, ClientInv, ServerType
<1>2. sessions' \subseteq Session
  <2>1. [tab |-> t, what |-> "in", user |-> u, served |-> FALSE] \in Session
    BY DEF Session, Actor
  <2>. QED
    BY <2>1 DEF SignIn, ClientInv, ClientType
<1>3. TabsInv'
  <2>1. u # None
    BY AccessAssumption
  <2>2. SessionsNamed'
    BY <2>1 DEF SignIn, ClientInv, TabsInv, SessionsNamed
  <2>. QED
    BY <2>2, TabsStay DEF SignIn, ClientInv
<1>. QED
  BY <1>1, <1>2, <1>3 DEF SignIn, rights, api, ClientInv, ClientType, ServerType

LEMMA SignOutKeeps ==
  ASSUME ClientInv, NEW t \in Tab, SignOut(t) PROVE ClientInv'
<1>1. left' \in Left
  BY SpendType DEF SignOut, ClientInv, ServerType
<1>2. sessions' \subseteq Session
  <2>1. [tab |-> t, what |-> "out", user |-> None, served |-> FALSE] \in Session
    BY DEF Session, Actor
  <2>. QED
    BY <2>1 DEF SignOut, ClientInv, ClientType
<1>3. TabsInv'
  <2>1. SessionsNamed'
    BY DEF SignOut, ClientInv, TabsInv, SessionsNamed
  <2>. QED
    BY <2>1, TabsStay DEF SignOut, ClientInv
<1>. QED
  BY <1>1, <1>2, <1>3 DEF SignOut, rights, api, ClientInv, ClientType, ServerType

LEMMA SessionServedKeeps ==
  ASSUME ClientInv, NEW s \in sessions, SessionServed(s) PROVE ClientInv'
<1>1. s \in Session /\ cookie \in Actor
  BY DEF ClientInv, ClientType, ServerType
<1>2. cookie' \in Actor
  BY <1>1 DEF SessionServed, Session, Actor
<1>. DEFINE user == IF s.what = "check" THEN cookie ELSE s.user
            next == [s EXCEPT !.served = TRUE, !.user = user]
<1>3. user \in Actor /\ (s.what # "check" => user = s.user)
  BY <1>1 DEF Session
<1>4. sessions' = (sessions \ {s}) \cup {next}
  BY DEF SessionServed
<1>. HIDE DEF user
<1>5. next \in Session /\ next.what = s.what /\ next.user = user
  BY <1>1, <1>3 DEF Session
<1>. HIDE DEF next
<1>6. sessions' \subseteq Session
  BY <1>4, <1>5 DEF ClientInv, ClientType
<1>7. TabsInv'
  <2>1. SessionsNamed'
    BY <1>3, <1>4, <1>5 DEF ClientInv, TabsInv, SessionsNamed
  <2>. QED
    BY <2>1, TabsStay DEF SessionServed, ClientInv
<1>. QED
  BY <1>2, <1>6, <1>7 DEF SessionServed, rights, api, ClientInv, ClientType, ServerType

LEMMA ConnectType ==
  ASSUME ClientInv, NEW t \in Tab, NEW user \in Actor, NEW previous \in Somewhere,
         NEW form \in BOOLEAN, Connect(t, user, previous, form)
  PROVE  left' \in Left /\ asked' \in [Tab -> Nat] /\ finds' \subseteq Find
<1>1. left' \in Left
  BY SpendType DEF Connect, ClientInv, ServerType
<1>2. asked' \in [Tab -> Nat]
  BY DEF Connect, ClientInv, ClientType
<1>3. [tab |-> t, no |-> asked'[t], user |-> user, previous |-> previous,
       form |-> form, served |-> FALSE, places |-> {}, whose |-> None] \in Find
  BY <1>2 DEF Find, Actor
<1>. QED
  BY <1>1, <1>2, <1>3 DEF Connect, ClientInv, ClientType

\* A new discovery has the latest number, and no other has it.
Renumbered(t, user, form) ==
  /\ FindsNumbered'
  /\ \A f \in finds' : f.tab = t /\ f.no = asked'[t] => f.user = user
  /\ \E f \in finds' : f.tab = t /\ f.no = asked'[t] /\ f.user = user /\ f.form = form
  /\ \A u \in Tab \ {t} :
       asked'[u] = asked[u] /\ \A f : f.tab = u => (f \in finds' <=> f \in finds)
LEMMA ConnectNumbers ==
  ASSUME ClientInv, NEW t \in Tab, NEW user \in Actor, NEW previous, NEW form \in BOOLEAN,
         Connect(t, user, previous, form), form => user # None
  PROVE  Renumbered(t, user, form)
<1>. DEFINE n == [tab |-> t, no |-> asked'[t], user |-> user, previous |-> previous,
                  form |-> form, served |-> FALSE, places |-> {}, whose |-> None]
<1>1. /\ asked \in [Tab -> Nat] /\ asked' = [asked EXCEPT ![t] = @ + 1]
      /\ finds \subseteq Find
  BY DEF Connect, ClientInv, ClientType
<1>2. /\ finds' = finds \cup {n} /\ n.tab = t /\ n.no = asked'[t]
      /\ n.user = user /\ n.form = form /\ ~n.served
  BY DEF Connect
<1>. HIDE DEF n
<1>3. \A f \in finds : f.tab = t => f.no \in Nat /\ f.no <= asked[t] /\ f.no # n.no
  BY <1>1, <1>2 DEF ClientInv, TabsInv, FindsNumbered, Find
<1>4. ASSUME NEW f \in finds' PROVE FindNamed(f) /\ f.no <= asked'[f.tab]
  <2>1. CASE f \in finds
    BY <1>1, <1>3, <2>1 DEF ClientInv, TabsInv, FindsNumbered, FindNamed, Find
  <2>2. CASE f = n
    BY <1>1, <1>2, <2>2 DEF FindNamed
  <2>. QED
    BY <1>2, <2>1, <2>2
<1>5. ASSUME NEW f \in finds', NEW g \in finds', f.tab = g.tab, f.no = g.no
      PROVE  f.user = g.user
  BY <1>2, <1>3, <1>5 DEF ClientInv, TabsInv, FindsNumbered
<1>6. FindsNumbered'
  BY <1>4, <1>5 DEF FindsNumbered, FindNamed
<1>. QED
  BY <1>1, <1>2, <1>3, <1>6 DEF Renumbered

\* The tab shows no account any more; it knows nothing of one, or is astray.
LEMMA SignedOff ==
  ASSUME ClientInv, SessionsNamed', NEW t \in Tab, auth' = [auth EXCEPT ![t] = None],
         astray' = IF auth[t] # None THEN astray \cup {t} ELSE astray,
         UNCHANGED <<ws, found, account, listed, asked, finds>>
  PROVE  TabsInv'
<1>1. TabsInv /\ auth \in [Tab -> Actor] /\ astray \subseteq Tab
  BY DEF ClientInv, ClientType
<1>2. CASE auth[t] = None
  <2>1. auth' = auth /\ astray' = astray
    BY <1>1, <1>2
  <2>. QED
    BY <1>1, <2>1, TabsStay
<1>3. CASE auth[t] # None
  <2>1. FindsNumbered'
    BY <1>1 DEF TabsInv, FindsNumbered, FindNamed
  <2>2. TabNamed(t)' /\ OwnTab(t)'
    BY <1>1, <1>3 DEF TabsInv, TabNamed, OwnTab
  <2>3. \A u \in Tab \ {t} : Alone(u)
    BY <1>1, <1>3 DEF Alone
  <2>. QED
    BY <1>1, <2>1, <2>2, <2>3, OneTab
<1>. QED
  BY <1>2, <1>3

\* The tab has no workspace and no list.
LEMMA Emptied ==
  ASSUME TabsInv, SessionsNamed', NEW t \in Tab, ws'[t] = None, found'[t] = {},
         asked' = asked, finds' \subseteq finds, \A u \in Tab \ {t} : Alone(u)
  PROVE  TabsInv'
<1>1. FindsNumbered'
  BY DEF TabsInv, FindsNumbered, FindNamed
<1>2. TabNamed(t)' /\ OwnTab(t)'
  BY DEF TabNamed, OwnTab, ListOfAccount, FindTimely
<1>. QED
  BY <1>1, <1>2, OneTab

LEMMA SessionAnsweredKeeps ==
  ASSUME ClientInv, NEW s \in sessions, SessionAnswered(s) PROVE ClientInv'
<1>1. s \in Session /\ s.tab \in Tab /\ s.user \in Actor
  BY DEF ClientInv, ClientType, Session
<1>2. None \in Somewhere
  BY DEF Somewhere
<1>3. /\ sessions' \subseteq Session /\ cookie' = cookie /\ owner' = owner
      /\ cached' = cached
  BY DEF SessionAnswered, rights, api, ClientInv, ClientType
<1>4. SessionsNamed' /\ TabsInv
  BY DEF SessionAnswered, ClientInv, TabsInv, SessionsNamed
<1>. DEFINE t == s.tab
<1>5. CASE CheckAnswered(s) /\ s.user # None
  <2>1. Connect(t, s.user, None, FALSE)
    BY <1>5 DEF CheckAnswered
  <2>2. left' \in Left /\ asked' \in [Tab -> Nat] /\ finds' \subseteq Find
    BY <1>1, <1>2, <2>1, ConnectType
  <2>3. /\ FindsNumbered'
        /\ \A f \in finds' : f.tab = t /\ f.no = asked'[t] => f.user = s.user
        /\ \A u \in Tab \ {t} :
              asked'[u] = asked[u] /\ \A f : f.tab = u => (f \in finds' <=> f \in finds)
    <3>1. Renumbered(t, s.user, FALSE)
      BY <1>1, <2>1, ConnectNumbers
    <3>. QED
      BY <3>1 DEF Renumbered
  <2>4. /\ auth' = [auth EXCEPT ![t] = s.user]
        /\ astray' = IF auth[t] # None THEN astray \cup {t} ELSE astray
        /\ UNCHANGED <<ws, mounted, found, account, listed>>
    BY <1>5 DEF CheckAnswered, Overtaken
  <2>5. auth' \in [Tab -> Actor] /\ astray' \subseteq Tab /\ auth'[t] = s.user
    BY <1>1, <2>4 DEF ClientInv, ClientType
  <2>6. TabNamed(t) /\ OwnTab(t)
    BY <1>1, <1>4 DEF TabsInv
  <2>7. TabNamed(t)'
    BY <2>4, <2>6 DEF TabNamed
  \* Who was not signed in has no workspace and no list of an account.
  <2>8. ASSUME t \notin astray' PROVE ws[t] = None /\ found[t] = {}
    <3>1. auth[t] = None /\ t \notin astray
      BY <2>4, <2>8
    <3>2. ~Connecting(t)
      BY <1>4, <3>1 DEF Connecting, Current, TabsInv, FindsNumbered, FindNamed
    <3>. QED
      BY <2>6, <3>1, <3>2 DEF TabNamed, OwnTab, ListOfAccount
  <2>9. OwnTab(t)'
    BY <2>3, <2>4, <2>5, <2>8 DEF OwnTab, ListOfAccount, FindTimely
  <2>10. \A u \in Tab \ {t} : Alone(u)
    BY <2>3, <2>4, <1>1 DEF Alone, ClientInv, ClientType
  <2>11. TabsInv'
    BY <1>1, <1>4, <2>3, <2>7, <2>9, <2>10, OneTab
  <2>. QED
    BY <1>3, <2>2, <2>4, <2>5, <2>11 DEF ClientInv, ClientType, ServerType
<1>6. CASE CheckAnswered(s) /\ s.user = None
  <2>1. /\ auth' = [auth EXCEPT ![t] = None]
        /\ astray' = IF auth[t] # None THEN astray \cup {t} ELSE astray
        /\ UNCHANGED <<ws, mounted, found, account, listed, asked, finds, left>>
    BY <1>6 DEF CheckAnswered, Overtaken
  <2>2. TabsInv'
    BY <1>1, <1>4, <2>1, SignedOff
  <2>. QED
    BY <1>1, <1>3, <2>1, <2>2 DEF ClientInv, ClientType, ServerType, Actor
<1>7. CASE s.what = "in" /\ SignInAnswered(s)
  <2>1. Connect(t, s.user, None, TRUE) /\ s.user # None
    BY <1>7, <1>4 DEF SignInAnswered, TabsInv, SessionsNamed
  <2>2. left' \in Left /\ asked' \in [Tab -> Nat] /\ finds' \subseteq Find
    BY <1>1, <1>2, <2>1, ConnectType
  <2>3. /\ FindsNumbered'
        /\ \A f \in finds' : f.tab = t /\ f.no = asked'[t] => f.user = s.user
        /\ \E f \in finds' : f.tab = t /\ f.no = asked'[t] /\ f.user = s.user /\ f.form = TRUE
        /\ \A u \in Tab \ {t} :
              asked'[u] = asked[u] /\ \A f : f.tab = u => (f \in finds' <=> f \in finds)
    <3>1. Renumbered(t, s.user, TRUE)
      BY <1>1, <2>1, ConnectNumbers
    <3>. QED
      BY <3>1 DEF Renumbered
  <2>4. /\ auth' = [auth EXCEPT ![t] = s.user] /\ ws' = [ws EXCEPT ![t] = None]
        /\ account' = [account EXCEPT ![t] = None] /\ astray' = astray \ {t}
        /\ UNCHANGED <<mounted, found, listed>>
    BY <1>7 DEF SignInAnswered, Forget
  <2>5. /\ auth' \in [Tab -> Actor] /\ astray' \subseteq Tab /\ auth'[t] = s.user
        /\ ws' \in [Tab -> Somewhere] /\ ws'[t] = None /\ account' \in [Tab -> Actor]
    BY <1>1, <2>4 DEF ClientInv, ClientType, Actor, Somewhere
  <2>6. TabNamed(t)'
    BY <1>1, <1>4, <2>4, <2>5 DEF TabsInv, TabNamed
  <2>7. OwnTab(t)'
    <3>1. Connecting(t)'
      BY <2>3, <2>5 DEF Connecting, Current
    <3>2. \A f \in finds' : f.tab = t => FindTimely(f)'
      BY <2>3, <2>5 DEF FindTimely
    <3>. QED
      BY <2>5, <3>1, <3>2 DEF OwnTab, ListOfAccount
  <2>8. \A u \in Tab \ {t} : Alone(u)
    BY <2>3, <2>4, <1>1 DEF Alone, ClientInv, ClientType
  <2>9. TabsInv'
    BY <1>1, <1>4, <2>3, <2>6, <2>7, <2>8, OneTab
  <2>. QED
    BY <1>3, <2>2, <2>4, <2>5, <2>9 DEF ClientInv, ClientType, ServerType
<1>8. CASE SignOutAnswered(s)
  <2>1. /\ auth' = [auth EXCEPT ![t] = None] /\ ws' = [ws EXCEPT ![t] = None]
        /\ account' = [account EXCEPT ![t] = None] /\ astray' = astray \ {t}
        /\ found' = [found EXCEPT ![t] = {}] /\ mounted' = [mounted EXCEPT ![t] = None]
        /\ UNCHANGED <<asked, finds, listed, left>>
    BY <1>8 DEF SignOutAnswered, Forget
  <2>2. /\ auth' \in [Tab -> Actor] /\ ws' \in [Tab -> Somewhere]
        /\ account' \in [Tab -> Actor] /\ mounted' \in [Tab -> Somewhere]
        /\ found' \in [Tab -> SUBSET Place] /\ astray' \subseteq Tab
    BY <1>1, <2>1 DEF ClientInv, ClientType, Actor, Somewhere
  <2>3. ws'[t] = None /\ found'[t] = {} /\ \A u \in Tab \ {t} : Alone(u)
    BY <1>1, <2>1 DEF Alone, ClientInv, ClientType
  <2>4. TabsInv'
    BY <1>1, <1>4, <2>1, <2>3, Emptied
  <2>. QED
    BY <1>3, <2>1, <2>2, <2>4 DEF ClientInv, ClientType, ServerType
<1>. QED
  BY <1>5, <1>6, <1>7, <1>8 DEF SessionAnswered

LEMMA SessionFailedKeeps ==
  ASSUME ClientInv, NEW s \in sessions, SessionFailed(s) PROVE ClientInv'
<1>1. s \in Session /\ s.tab \in Tab
  BY DEF ClientInv, ClientType, Session
<1>2. /\ auth' \in [Tab -> Actor] /\ sessions' \subseteq Session /\ astray' \subseteq Tab
  BY <1>1 DEF SessionFailed, Overtaken, ClientInv, ClientType, Actor
<1>3. SessionsNamed'
  BY DEF SessionFailed, ClientInv, TabsInv, SessionsNamed
<1>4. CASE s.what = "check"
  <2>1. TabsInv'
    BY <1>1, <1>3, <1>4, SignedOff DEF SessionFailed, Overtaken
  <2>. QED
    BY <1>2, <2>1 DEF SessionFailed, rights, api, ClientInv, ClientType, ServerType
<1>5. CASE s.what # "check"
  <2>1. TabsInv'
    BY <1>3, <1>5, TabsStay DEF SessionFailed, ClientInv
  <2>. QED
    BY <1>2, <2>1 DEF SessionFailed, rights, api, ClientInv, ClientType, ServerType
<1>. QED
  BY <1>4, <1>5

\* The latest discovery is replaced only when the list is empty or the account's.
LEMMA RefreshKeeps ==
  ASSUME ClientInv, NEW t \in Tab, Refresh(t) PROVE ClientInv'
<1>1. auth[t] \in Actor /\ ws[t] \in Somewhere
  BY DEF ClientInv, ClientType
<1>2. Connect(t, auth[t], ws[t], FALSE)
  BY DEF Refresh
<1>3. left' \in Left /\ asked' \in [Tab -> Nat] /\ finds' \subseteq Find
  BY <1>1, <1>2, ConnectType
<1>4. /\ FindsNumbered'
      /\ \A f \in finds' : f.tab = t /\ f.no = asked'[t] => f.user = auth[t]
      /\ \A u \in Tab \ {t} :
              asked'[u] = asked[u] /\ \A f : f.tab = u => (f \in finds' <=> f \in finds)
  <2>1. Renumbered(t, auth[t], FALSE)
    BY <1>1, <1>2, ConnectNumbers
  <2>. QED
    BY <2>1 DEF Renumbered
<1>5. /\ UNCHANGED <<auth, ws, mounted, found, sessions, account, listed, astray, cookie>>
      /\ UNCHANGED <<owner, cached>>
      /\ found[t] = {} \/ ~\E f \in finds : f.tab = t /\ f.no = asked[t]
  BY DEF Refresh, rights, api
<1>6. TabNamed(t) /\ OwnTab(t) /\ TabsInv /\ SessionsNamed'
  BY <1>5 DEF ClientInv, TabsInv, SessionsNamed
<1>7. TabNamed(t)'
  BY <1>5, <1>6 DEF TabNamed
<1>8. found[t] # {} => ~Connecting(t)
  BY <1>5 DEF Connecting, Current
<1>9. OwnTab(t)'
  <2>1. \A f \in finds' : f.tab = t => FindTimely(f)'
    BY <1>4, <1>5 DEF FindTimely
  <2>2. t \notin astray => ListOfAccount(t)'
    BY <1>5, <1>6, <1>8 DEF OwnTab, ListOfAccount
  <2>. QED
    BY <1>5, <1>6, <2>1, <2>2 DEF OwnTab
<1>10. \A u \in Tab \ {t} : Alone(u)
  BY <1>4, <1>5 DEF Alone
<1>11. TabsInv'
  BY <1>4, <1>6, <1>7, <1>9, <1>10, OneTab
<1>. QED
  BY <1>3, <1>5, <1>11 DEF ClientInv, ClientType, ServerType

\* A discovery that is served stays the one it was.
LEMMA FindServedKeeps ==
  ASSUME ClientInv, NEW f \in finds, FindServed(f) PROVE ClientInv'
<1>. DEFINE places == Discovered(cookie)
            next == [f EXCEPT !.served = TRUE, !.places = places, !.whose = cookie]
<1>1. f \in Find /\ cookie \in Actor /\ cookie # None
  BY DEF FindServed, ClientInv, ClientType, ServerType
<1>2. places \in SUBSET Place
  BY DEF Discovered
<1>3. finds' = (finds \ {f}) \cup {next}
  BY DEF FindServed
<1>. HIDE DEF places
<1>4. /\ next \in Find /\ next.tab = f.tab /\ next.no = f.no /\ next.user = f.user
      /\ next.form = f.form /\ next.whose = cookie
  BY <1>1, <1>2 DEF Find
<1>. HIDE DEF next
<1>5. finds' \subseteq Find
  BY <1>3, <1>4 DEF ClientInv, ClientType
<1>6. /\ UNCHANGED <<auth, ws, mounted, found, asked, sessions, account, listed, astray>>
      /\ UNCHANGED <<cookie, owner, cached, left>>
  BY DEF FindServed, rights, api
<1>7. TabsInv /\ SessionsNamed' /\ FindNamed(f)
  BY <1>6 DEF ClientInv, TabsInv, SessionsNamed, FindsNumbered
<1>8. \A g \in finds' : g \in finds \/ g = next
  BY <1>3
<1>9. FindsNumbered'
  <2>1. \A g \in finds' : FindNamed(g) /\ g.no <= asked'[g.tab]
    BY <1>1, <1>4, <1>6, <1>7, <1>8 DEF TabsInv, FindsNumbered, FindNamed
  <2>2. \A g, h \in finds' : g.tab = h.tab /\ g.no = h.no => g.user = h.user
    BY <1>4, <1>7, <1>8 DEF TabsInv, FindsNumbered
  <2>. QED
    BY <2>1, <2>2 DEF FindsNumbered, FindNamed
<1>10. ASSUME NEW u \in Tab PROVE TabNamed(u)' /\ OwnTab(u)'
  <2>1. TabNamed(u) /\ OwnTab(u)
    BY <1>7 DEF TabsInv
  <2>2. Connecting(u) => Connecting(u)'
    BY <1>3, <1>4, <1>6 DEF Connecting, Current
  <2>3. (\A g \in finds : g.tab = u => FindTimely(g)) =>
          (\A g \in finds' : g.tab = u => FindTimely(g)')
    BY <1>4, <1>6, <1>8 DEF FindTimely
  <2>4. TabNamed(u)'
    BY <1>6, <2>1 DEF TabNamed
  <2>5. ListOfAccount(u) => ListOfAccount(u)'
    BY <1>6, <2>2 DEF ListOfAccount
  <2>. QED
    BY <1>6, <2>1, <2>3, <2>4, <2>5 DEF OwnTab
<1>11. TabsInv'
  BY <1>7, <1>9, <1>10 DEF TabsInv
<1>. QED
  BY <1>5, <1>6, <1>11 DEF ClientInv, ClientType, ServerType

\* What is known of a discovery that ends.
LEMMA FindGone ==
  ASSUME ClientInv, NEW f \in finds, finds' = finds \ {f}, UNCHANGED asked
  PROVE  /\ f \in Find /\ f.tab \in Tab /\ f.user \in Actor /\ f.whose \in Actor
         /\ f.places \in SUBSET Place /\ finds' \subseteq Find
         /\ FindsNumbered' /\ TabsInv /\ (f.served => f.whose # None)
         /\ \A g \in finds : g.tab = f.tab /\ g.no = f.no => g.user = f.user
         /\ \A u \in Tab \ {f.tab} : \A g : g.tab = u => (g \in finds' <=> g \in finds)
<1>1. f \in Find /\ finds \subseteq Find /\ TabsInv
  BY DEF ClientInv, ClientType
<1>2. FindsNumbered'
  BY <1>1 DEF TabsInv, FindsNumbered, FindNamed
<1>. QED
  BY <1>1, <1>2 DEF Find, TabsInv, FindsNumbered, FindNamed

LEMMA FindAnsweredKeeps ==
  ASSUME ClientInv, NEW f \in finds, FindAnswered(f) PROVE ClientInv'
<1>. DEFINE t == f.tab
<1>1. /\ finds' = finds \ {f} /\ f.served
      /\ UNCHANGED <<auth, asked, sessions, cookie, owner, cached, left>>
  BY DEF FindAnswered, rights, api
<1>2. /\ f \in Find /\ t \in Tab /\ f.user \in Actor /\ f.whose \in Actor
      /\ f.places \in SUBSET Place /\ finds' \subseteq Find
      /\ FindsNumbered' /\ TabsInv /\ f.whose # None
      /\ \A g \in finds : g.tab = t /\ g.no = f.no => g.user = f.user
      /\ \A u \in Tab \ {t} : \A g : g.tab = u => (g \in finds' <=> g \in finds)
  BY <1>1, FindGone
<1>3. SessionsNamed' /\ TabNamed(t) /\ OwnTab(t)
  BY <1>1, <1>2 DEF TabsInv, SessionsNamed
<1>4. CASE ~Current(f)
  <2>1. UNCHANGED <<ws, account, found, listed, mounted, astray>>
    BY <1>4 DEF FindAnswered
  <2>2. Connecting(t) => Connecting(t)'
    BY <1>1, <1>4 DEF Connecting, Current
  <2>3. TabNamed(t)' /\ OwnTab(t)'
    BY <1>1, <1>3, <2>1, <2>2 DEF TabNamed, OwnTab, ListOfAccount, FindTimely
  <2>4. \A u \in Tab \ {t} : Alone(u)
    BY <1>1, <1>2, <2>1 DEF Alone
  <2>5. TabsInv'
    BY <1>2, <1>3, <2>3, <2>4, OneTab
  <2>. QED
    BY <1>1, <1>2, <2>1, <2>5 DEF ClientInv, ClientType, ServerType
<1>5. CASE Current(f)
  <2>1. PICK w \in Preferred(f) :
          /\ ws' = [ws EXCEPT ![t] = w]
          /\ account' = [account EXCEPT ![t] = IF w = None THEN None ELSE f.whose]
          /\ found' = [found EXCEPT ![t] = f.places]
          /\ listed' = [listed EXCEPT ![t] = f.whose]
          /\ mounted' = [mounted EXCEPT ![t] = w]
          /\ astray' = IF f.whose = f.user THEN astray \ {t} ELSE astray \cup {t}
    BY <1>5 DEF FindAnswered
  <2>2. w \in Somewhere
    BY <1>2 DEF Preferred, Somewhere
  <2>3. /\ ws' \in [Tab -> Somewhere] /\ mounted' \in [Tab -> Somewhere]
        /\ found' \in [Tab -> SUBSET Place] /\ account' \in [Tab -> Actor]
        /\ listed' \in [Tab -> Actor] /\ astray' \subseteq Tab
    BY <1>2, <2>1, <2>2 DEF ClientInv, ClientType, Actor
  <2>4. ws'[t] = w /\ account'[t] = (IF w = None THEN None ELSE f.whose) /\ listed'[t] = f.whose
    BY <1>2, <2>1 DEF ClientInv, ClientType
  <2>5. TabNamed(t)'
    BY <1>2, <2>4 DEF TabNamed
  \* It was for the account signed in, and was served to it, or the tab is astray.
  <2>6. OwnTab(t)'
    <3>1. \A g \in finds' : g.tab = t => FindTimely(g)'
      BY <1>1, <1>2, <1>5 DEF FindTimely, Current
    <3>2. t \notin astray' => f.whose = auth'[t]
      BY <1>1, <1>5, <2>1 DEF Current
    <3>. QED
      BY <2>4, <3>1, <3>2 DEF OwnTab, ListOfAccount
  <2>7. \A u \in Tab \ {t} : Alone(u)
    BY <1>1, <1>2, <2>1 DEF Alone, ClientInv, ClientType
  <2>8. TabsInv'
    BY <1>2, <1>3, <2>5, <2>6, <2>7, OneTab
  <2>. QED
    BY <1>1, <1>2, <2>3, <2>8 DEF ClientInv, ClientType, ServerType
<1>. QED
  BY <1>4, <1>5

LEMMA FindFailedKeeps ==
  ASSUME ClientInv, NEW f \in finds, FindFailed(f) PROVE ClientInv'
<1>. DEFINE t == f.tab
<1>1. /\ finds' = finds \ {f}
      /\ UNCHANGED <<auth, asked, sessions, listed, cookie, owner, cached, left>>
  BY DEF FindFailed, rights, api
<1>2. /\ t \in Tab /\ finds' \subseteq Find /\ FindsNumbered' /\ TabsInv
      /\ \A u \in Tab \ {t} : \A g : g.tab = u => (g \in finds' <=> g \in finds)
  BY <1>1, FindGone
<1>3. SessionsNamed' /\ TabNamed(t) /\ OwnTab(t)
  BY <1>1, <1>2 DEF TabsInv, SessionsNamed
<1>4. CASE ~Current(f)
  <2>1. UNCHANGED <<ws, account, found, mounted, astray>>
    BY <1>4 DEF FindFailed
  <2>2. Connecting(t) => Connecting(t)'
    BY <1>1, <1>4 DEF Connecting, Current
  <2>3. TabNamed(t)' /\ OwnTab(t)'
    BY <1>1, <1>3, <2>1, <2>2 DEF TabNamed, OwnTab, ListOfAccount, FindTimely
  <2>4. \A u \in Tab \ {t} : Alone(u)
    BY <1>1, <1>2, <2>1 DEF Alone
  <2>5. TabsInv'
    BY <1>2, <1>3, <2>3, <2>4, OneTab
  <2>. QED
    BY <1>1, <1>2, <2>1, <2>5 DEF ClientInv, ClientType, ServerType
<1>5. CASE Current(f)
  <2>1. /\ ws' = [ws EXCEPT ![t] = None] /\ account' = [account EXCEPT ![t] = None]
        /\ found' = [found EXCEPT ![t] = {}] /\ mounted' = [mounted EXCEPT ![t] = None]
        /\ astray' = astray \ {t}
    BY <1>5 DEF FindFailed, Forget
  <2>2. /\ ws' \in [Tab -> Somewhere] /\ mounted' \in [Tab -> Somewhere]
        /\ found' \in [Tab -> SUBSET Place] /\ account' \in [Tab -> Actor]
        /\ astray' \subseteq Tab /\ ws'[t] = None /\ found'[t] = {}
    BY <1>2, <2>1 DEF ClientInv, ClientType, Actor, Somewhere
  <2>3. \A u \in Tab \ {t} : Alone(u)
    BY <1>1, <1>2, <2>1 DEF Alone, ClientInv, ClientType
  <2>4. TabsInv'
    BY <1>1, <1>2, <1>3, <2>2, <2>3, Emptied
  <2>. QED
    BY <1>1, <1>2, <2>2, <2>4 DEF ClientInv, ClientType, ServerType
<1>. QED
  BY <1>4, <1>5

LEMMA ChooseKeeps ==
  ASSUME ClientInv, NEW t \in Tab, NEW w \in Place, Choose(t, w) PROVE ClientInv'
<1>1. /\ w \in found[t]
      /\ ws' = [ws EXCEPT ![t] = w] /\ account' = [account EXCEPT ![t] = listed[t]]
      /\ mounted' = [mounted EXCEPT ![t] = w]
      /\ astray' = IF Connecting(t) THEN astray \cup {t} ELSE astray
      /\ UNCHANGED <<auth, found, asked, sessions, finds, listed, cookie, owner, cached, left>>
  BY DEF Choose, rights, api
<1>2. /\ ws' \in [Tab -> Somewhere] /\ mounted' \in [Tab -> Somewhere]
      /\ account' \in [Tab -> Actor] /\ astray' \subseteq Tab
      /\ account'[t] = listed[t]
  BY <1>1 DEF ClientInv, ClientType, Somewhere
<1>3. TabsInv /\ TabNamed(t) /\ OwnTab(t) /\ SessionsNamed' /\ FindsNumbered'
  BY <1>1 DEF ClientInv, TabsInv, SessionsNamed, FindsNumbered, FindNamed
<1>4. TabNamed(t)'
  BY <1>1, <1>2, <1>3 DEF TabNamed
<1>5. OwnTab(t)'
  <2>1. ASSUME t \notin astray' PROVE t \notin astray /\ ~Connecting(t)
    BY <1>1, <2>1
  <2>2. t \notin astray' => listed[t] = auth[t]
    BY <1>1, <1>3, <2>1 DEF OwnTab, ListOfAccount
  <2>. QED
    BY <1>1, <1>2, <1>3, <2>1, <2>2 DEF OwnTab, ListOfAccount, FindTimely
<1>6. \A u \in Tab \ {t} : Alone(u)
  BY <1>1 DEF Alone, ClientInv, ClientType
<1>7. TabsInv'
  BY <1>3, <1>4, <1>5, <1>6, OneTab
<1>. QED
  BY <1>1, <1>2, <1>7 DEF ClientInv, ClientType, ServerType

LEMMA NavigateKeeps ==
  ASSUME ClientInv, NEW t \in Tab, Navigate(t) PROVE ClientInv'
<1>1. mounted' \in [Tab -> Somewhere]
  BY DEF Navigate, ClientInv, ClientType
<1>2. TabsInv'
  BY TabsStay DEF Navigate, ClientInv, TabsInv, SessionsNamed
<1>. QED
  BY <1>1, <1>2 DEF Navigate, rights, api, ClientInv, ClientType, ServerType

\* The requests, and what administration and time do, leave the tabs alone.
LEMMA RequestsKeepClients ==
  ASSUME ClientInv, UNCHANGED client, cookie' \in Actor, owner' \in User, cached' \in Actor,
         left' \in Left
  PROVE  ClientInv'
<1>1. TabsInv'
  BY TabsStay DEF client, ClientInv, TabsInv, SessionsNamed
<1>. QED
  BY <1>1 DEF client, ClientInv, ClientType, ServerType

LEMMA SendKeepsClients ==
  ASSUME ClientInv, NEW by, NEW who, NEW where, NEW kind, Send(by, who, where, kind)
  PROVE  ClientInv'
<1>1. left' \in Left
  BY SpendType DEF Send, ClientInv, ServerType
<1>. QED
  BY <1>1, RequestsKeepClients DEF Send, rights, ClientInv, ServerType

LEMMA ClientStep ==
  ASSUME ClientInv, RequestType, [Next]_vars PROVE ClientInv'
<1>1. CASE \E t \in Tab :
             \/ \E u \in User : SignIn(t, u)
             \/ SignOut(t) \/ Refresh(t) \/ Navigate(t)
             \/ \E w \in Place : Choose(t, w)
             \/ \E k \in Sendable : PageSends(t, k)
  BY <1>1, SignInKeeps, SignOutKeeps, RefreshKeeps, NavigateKeeps, ChooseKeeps,
     SendKeepsClients DEF PageSends
<1>2. CASE \E s \in sessions : SessionServed(s) \/ SessionAnswered(s) \/ SessionFailed(s)
  BY <1>2, SessionServedKeeps, SessionAnsweredKeeps, SessionFailedKeeps
<1>3. CASE \E f \in finds : FindServed(f) \/ FindAnswered(f) \/ FindFailed(f)
  BY <1>3, FindServedKeeps, FindAnsweredKeeps, FindFailedKeeps
<1>4. CASE \E by \in {"key", "token"}, u \in User \cup {None}, w \in Place \cup {None},
              k \in Sendable : MachineSends(by, u, w, k)
  BY <1>4, SendKeepsClients DEF MachineSends
<1>5. CASE \E r \in requests : Identify(r) \/ Lookup(r) \/ Write(r)
  <2>1. cached' \in Actor
    BY <1>5 DEF Identify, Lookup, Write, ClientInv, ServerType, Actor
  <2>. QED
    BY <1>5, <2>1, RequestsKeepClients
    DEF Identify, Lookup, Write, rights, ClientInv, ServerType
<1>6. CASE \/ \E u \in User, w \in Place, x \in Watched : ChangeRight(u, w, x)
           \/ \E u \in User : ChangeOwner(u)
           \/ \E user \in User \cup {None} : CookieChanges(user)
  <2>1. left' \in Left
    BY <1>6, SpendType DEF ChangeRight, ChangeOwner, CookieChanges, ClientInv, ServerType
  <2>. QED
    BY <1>6, <2>1, RequestsKeepClients
    DEF ChangeRight, ChangeOwner, CookieChanges, api, ClientInv, ServerType, Actor
<1>7. CASE CacheExpires
  BY <1>7, RequestsKeepClients DEF CacheExpires, rights, ClientInv, ServerType, Actor
<1>8. CASE UNCHANGED vars
  BY <1>8, RequestsKeepClients DEF vars, rights, api, ClientInv, ServerType
<1>. QED
  BY <1>1, <1>2, <1>3, <1>4, <1>5, <1>6, <1>7, <1>8 DEF Next

-----------------------------------------------------------------------------
(* Requests and grants *)

LEMMA ClientsKeepRequests ==
  ASSUME RequestInv, UNCHANGED <<requests, writes, grants>> PROVE RequestInv'
BY DEF RequestInv, RequestType, GrantedSoFar, WriteWasGranted, Holds

LEMMA SendKeeps ==
  ASSUME RequestInv, left \in Left, NEW by \in {"browser", "key", "token"}, NEW who \in Actor,
         NEW where \in Somewhere, NEW kind \in Kind, Send(by, who, where, kind)
  PROVE  RequestInv'
<1>. DEFINE r == [no |-> left.requests, by |-> by, who |-> who, where |-> where, kind |-> kind,
                  stage |-> "sent", looked |-> 0, lacked |-> {}]
<1>1. r \in Request /\ r.stage = "sent" /\ r.looked = 0 /\ r.lacked = {}
  BY DEF Left, Request
<1>2. /\ requests' = requests \cup {r}
      /\ UNCHANGED <<grants, writes>>
  BY DEF Send, rights
<1>. HIDE DEF r
<1>3. RequestType' /\ WriteWasGranted'
  BY <1>1, <1>2 DEF RequestInv, RequestType, WriteWasGranted
<1>4. GrantedSoFar'
  BY <1>1, <1>2 DEF RequestInv, GrantedSoFar, Holds
<1>. QED
  BY <1>3, <1>4 DEF RequestInv

LEMMA SendableType == Sendable \subseteq Kind
BY AccessAssumption DEF Sendable

\* One request goes on, or is refused; nothing else changes.
LEMMA ToKeeps ==
  ASSUME RequestInv, NEW r \in requests, NEW next \in Request, next.stage = "identified",
         next.lacked \subseteq Needs(next.kind),
         \A x \in next.lacked : ~Holds(next.who, next.where, x),
         \A i \in 1 .. next.looked : next.kind.asks[i] \notin next.lacked,
         To(r, next), UNCHANGED <<grants, writes>>
  PROVE  RequestInv'
<1>1. RequestType' /\ WriteWasGranted'
  BY DEF To, RequestInv, RequestType, WriteWasGranted
<1>2. GrantedSoFar'
  BY DEF To, RequestInv, GrantedSoFar, Holds
<1>. QED
  BY <1>1, <1>2 DEF RequestInv

LEMMA GoneKeeps ==
  ASSUME RequestInv, NEW r, requests' = requests \ {r}, UNCHANGED <<grants, writes>>
  PROVE  RequestInv'
BY DEF RequestInv, RequestType, GrantedSoFar, WriteWasGranted, Holds

LEMMA IdentifyKeeps ==
  ASSUME RequestInv, ServerType, NEW r \in requests, Identify(r) PROVE RequestInv'
<1>. DEFINE default == IF cached = None THEN owner ELSE cached
            who == IF r.by = "key" /\ r.who = None THEN default ELSE r.who
            where == IF r.by = "key" /\ r.where = None THEN Home ELSE r.where
            lacked == Lacking(who, where, Needs(r.kind))
            next == [r EXCEPT !.who = who, !.where = where, !.stage = "identified",
                              !.lacked = lacked]
<1>1. r \in Request /\ r.stage = "sent"
  BY DEF Identify, RequestInv, RequestType
<1>2. who \in Actor /\ where \in Somewhere
  BY <1>1, AccessAssumption DEF ServerType, Request, Actor, Somewhere
<1>3. \/ To(r, next) /\ UNCHANGED writes
      \/ Refuse(r)
  BY DEF Identify
<1>4. UNCHANGED grants
  BY DEF Identify, rights
<1>. HIDE DEF who, where
<1>5. lacked \in SUBSET Code /\ lacked \subseteq Needs(r.kind)
  BY <1>1, NeedsType DEF Lacking, Request
<1>6. \A x \in lacked : ~Holds(who, where, x)
  BY DEF Lacking
<1>. HIDE DEF lacked
<1>7. /\ next \in Request /\ next.kind = r.kind /\ next.looked = r.looked
      /\ next.who = who /\ next.where = where /\ next.lacked = lacked
      /\ next.stage = "identified"
  BY <1>1, <1>2, <1>5 DEF Request
<1>. HIDE DEF next
<1>8. r.looked = 0
  BY <1>1 DEF RequestInv, GrantedSoFar
<1>9. CASE To(r, next) /\ UNCHANGED writes
  BY <1>4, <1>5, <1>6, <1>7, <1>8, <1>9, ToKeeps
<1>10. CASE Refuse(r)
  BY <1>4, <1>10, GoneKeeps DEF Refuse
<1>. QED
  BY <1>3, <1>9, <1>10

LEMMA LookupKeeps ==
  ASSUME RequestInv, NEW r \in requests, Lookup(r) PROVE RequestInv'
<1>. DEFINE next == [r EXCEPT !.looked = @ + 1]
<1>1. r \in Request /\ r.stage = "identified" /\ UNCHANGED <<grants, writes>>
  BY DEF Lookup, rights, RequestInv, RequestType
<1>2. /\ r.lacked \subseteq Needs(r.kind)
      /\ \A x \in r.lacked : ~Holds(r.who, r.where, x)
      /\ \A i \in 1 .. r.looked : r.kind.asks[i] \notin r.lacked
  BY <1>1 DEF RequestInv, GrantedSoFar
<1>3. CASE Holds(r.who, r.where, r.kind.asks[r.looked + 1])
  <2>1. To(r, next)
    BY <1>3 DEF Lookup
  <2>2. /\ next \in Request /\ next.kind = r.kind /\ next.looked = r.looked + 1
        /\ next.who = r.who /\ next.where = r.where /\ next.lacked = r.lacked
        /\ next.stage = "identified" /\ r.looked \in Nat
    BY <1>1 DEF Request
  <2>. HIDE DEF next
  <2>3. \A i \in 1 .. next.looked : next.kind.asks[i] \notin next.lacked
    <3>1. r.kind.asks[r.looked + 1] \notin r.lacked
      BY <1>2, <1>3
    <3>2. \A i \in 1 .. r.looked + 1 : i \in 1 .. r.looked \/ i = r.looked + 1
      BY <2>2
    <3>. QED
      BY <1>2, <2>2, <3>1, <3>2
  <2>4. /\ next.lacked \subseteq Needs(next.kind)
        /\ \A x \in next.lacked : ~Holds(next.who, next.where, x)
    BY <1>2, <2>2
  <2>. QED
    BY <1>1, <2>1, <2>2, <2>3, <2>4, ToKeeps
<1>4. CASE ~Holds(r.who, r.where, r.kind.asks[r.looked + 1])
  BY <1>1, <1>4, GoneKeeps DEF Lookup
<1>. QED
  BY <1>3, <1>4

\* What the route needs it has looked up, or the transaction asks for it.
LEMMA WriteKeeps ==
  ASSUME RequestInv, NEW r \in requests, Write(r) PROVE RequestInv'
<1>1. /\ r \in Request /\ r.stage = "identified" /\ r.looked = Len(r.kind.asks)
      /\ UNCHANGED grants
  BY DEF Write, rights, RequestInv, RequestType
<1>2. CASE Rechecked(r)
  <2>. DEFINE w == [no |-> r.no, who |-> r.who, where |-> r.where, kind |-> r.kind,
                    lacked |-> r.lacked, lacks |-> Lacking(r.who, r.where, r.kind.again)]
  <2>1. requests' = requests \ {r} /\ writes' = writes \cup {w}
    BY <1>2 DEF Write
  <2>2. /\ r.lacked \subseteq Needs(r.kind)
        /\ \A x \in r.lacked : ~Holds(r.who, r.where, x)
        /\ \A i \in 1 .. Len(r.kind.asks) : r.kind.asks[i] \notin r.lacked
    BY <1>1 DEF RequestInv, GrantedSoFar
  <2>3. Covers(r.kind)
    BY <1>1, KindCovers DEF Request
  <2>4. ASSUME NEW x \in r.lacked PROVE FALSE
    <3>1. CASE Has(r.kind.asks, x)
      BY <2>2, <3>1 DEF Has
    <3>2. CASE x \in r.kind.again
      BY <1>2, <2>2, <3>2 DEF Rechecked, Lacking
    <3>. QED
      BY <2>2, <2>3, <3>1, <3>2 DEF Covers
  <2>5. w.lacked = {} /\ w.lacks = {}
    BY <1>2, <2>4 DEF Rechecked
  <2>. HIDE DEF w
  <2>6. RequestType' /\ WriteWasGranted'
    BY <2>1, <2>5 DEF RequestInv, RequestType, WriteWasGranted
  <2>7. GrantedSoFar'
    BY <1>1, <2>1 DEF RequestInv, GrantedSoFar, Holds
  <2>. QED
    BY <2>6, <2>7 DEF RequestInv
<1>3. CASE ~Rechecked(r)
  BY <1>1, <1>3, GoneKeeps DEF Write, Refuse
<1>. QED
  BY <1>2, <1>3

LEMMA ChangeRightKeeps ==
  ASSUME RequestInv, NEW u, NEW w, NEW x, ChangeRight(u, w, x) PROVE RequestInv'
<1>. DEFINE Still(r) == {y \in r.lacked : ~HeldIn(grants', r.who, r.where, y)}
            Now(r) == [r EXCEPT !.lacked = Still(r)]
<1>1. requests' = {Now(r) : r \in requests} /\ writes' = writes
  BY DEF ChangeRight, Seen
<1>2. ASSUME NEW r \in requests
      PROVE  /\ Now(r) \in Request /\ Now(r).kind = r.kind /\ Now(r).looked = r.looked
             /\ Now(r).who = r.who /\ Now(r).where = r.where /\ Now(r).stage = r.stage
             /\ Now(r).lacked = Still(r)
  <2>1. r \in Request /\ Still(r) \in SUBSET Code
    BY DEF RequestInv, RequestType, Request
  <2>. HIDE DEF Still
  <2>. QED
    BY <2>1 DEF Request
<1>3. ASSUME NEW r \in requests
      PROVE  Still(r) \subseteq r.lacked /\ \A y \in Still(r) : ~Holds(r.who, r.where, y)'
  BY DEF Holds
<1>. HIDE DEF Now, Still
<1>4. RequestType' /\ WriteWasGranted'
  BY <1>1, <1>2 DEF RequestInv, RequestType, WriteWasGranted
<1>5. ASSUME NEW n \in requests'
      PROVE  IF n.stage = "identified"
               THEN /\ n.lacked \subseteq Needs(n.kind)
                    /\ \A y \in n.lacked : ~Holds(n.who, n.where, y)'
                    /\ \A i \in 1 .. n.looked : n.kind.asks[i] \notin n.lacked
               ELSE n.looked = 0 /\ n.lacked = {}
  <2>1. PICK r \in requests : n = Now(r)
    BY <1>1, <1>5
  <2>2. /\ n.kind = r.kind /\ n.looked = r.looked /\ n.who = r.who /\ n.where = r.where
        /\ n.stage = r.stage /\ n.lacked \subseteq r.lacked
        /\ \A y \in n.lacked : ~Holds(n.who, n.where, y)'
    BY <1>2, <1>3, <2>1
  <2>. QED
    BY <2>2 DEF RequestInv, GrantedSoFar
<1>6. GrantedSoFar'
  BY <1>5 DEF GrantedSoFar
<1>. QED
  BY <1>4, <1>6 DEF RequestInv

LEMMA RequestStep ==
  ASSUME IInv, [Next]_vars PROVE RequestInv'
<1>1. CASE \E t \in Tab :
             \/ \E u \in User : SignIn(t, u)
             \/ SignOut(t) \/ Refresh(t) \/ Navigate(t)
             \/ \E w \in Place : Choose(t, w)
  BY <1>1, ClientsKeepRequests
  DEF IInv, SignIn, SignOut, Refresh, Navigate, Choose, rights, api
<1>2. ASSUME NEW t \in Tab, NEW k \in Sendable, PageSends(t, k) PROVE RequestInv'
  <2>1. mounted[t] \in Somewhere /\ cookie \in Actor /\ left \in Left /\ k \in Kind
    BY SendableType DEF IInv, ClientInv, ClientType, ServerType
  <2>. QED
    BY <1>2, <2>1, SendKeeps DEF IInv, PageSends
<1>3. CASE \/ \E s \in sessions : SessionServed(s) \/ SessionAnswered(s) \/ SessionFailed(s)
           \/ \E f \in finds : FindServed(f) \/ FindAnswered(f) \/ FindFailed(f)
  BY <1>3, ClientsKeepRequests
  DEF IInv, SessionServed, SessionAnswered, SessionFailed, FindServed, FindAnswered, FindFailed,
      rights, api
<1>4. ASSUME NEW by \in {"key", "token"}, NEW u \in User \cup {None},
             NEW w \in Place \cup {None}, NEW k \in Sendable, MachineSends(by, u, w, k)
      PROVE  RequestInv'
  BY <1>4, SendKeeps, SendableType
  DEF IInv, MachineSends, ClientInv, ServerType, Actor, Somewhere
<1>5. CASE \E r \in requests : Identify(r) \/ Lookup(r) \/ Write(r)
  BY <1>5, IdentifyKeeps, LookupKeeps, WriteKeeps DEF IInv, ClientInv
<1>6. CASE \E u \in User, w \in Place, x \in Watched : ChangeRight(u, w, x)
  BY <1>6, ChangeRightKeeps DEF IInv
<1>7. CASE \/ \E u \in User : ChangeOwner(u)
           \/ \E user \in User \cup {None} : CookieChanges(user)
           \/ CacheExpires \/ UNCHANGED vars
  BY <1>7, ClientsKeepRequests
  DEF IInv, ChangeOwner, CookieChanges, CacheExpires, vars, rights, api
<1>. QED
  BY <1>1, <1>2, <1>3, <1>4, <1>5, <1>6, <1>7 DEF Next

-----------------------------------------------------------------------------
(* The theorems *)

LEMMA Invariance == Spec => []IInv
<1>1. IInv /\ [Next]_vars => IInv'
  BY ClientStep, RequestStep DEF IInv, RequestInv
<1>. QED
  BY InitInv, <1>1, PTL DEF Spec

\* A tab works in no workspace that the server found for another account than the
\* one it shows as signed in, but for the three cases that WorkspaceOfAccount names
\* (astray): the answers of sessions and of discoveries come in any order, for any
\* number of tabs and accounts, and other tabs change the cookie meanwhile.  The
\* list a choice is made from is the account's own, or the discovery that replaces
\* it is under way (ListOfAccount); a discovery that counts was started by the
\* account, or finds the list empty (FindTimely).
THEOREM WorkspaceStaysOfAccount == Spec => []WorkspaceOfAccount
<1>1. IInv => WorkspaceOfAccount
  BY DEF IInv, ClientInv, TabsInv, OwnTab, WorkspaceOfAccount
<1>. QED
  BY Invariance, <1>1, PTL

\* Whatever route or tool is called and however the grants change meanwhile, what
\* is answered or written was allowed: every right it needs the actor held at
\* some moment since the request was identified, and what the transaction asks
\* for the actor holds when it writes.
THEOREM WriteIsGranted == Spec => []WriteWasGranted
<1>1. IInv => WriteWasGranted
  BY DEF IInv, RequestInv
<1>. QED
  BY Invariance, <1>1, PTL
=============================================================================
