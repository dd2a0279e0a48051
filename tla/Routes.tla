-------------------------------- MODULE Routes --------------------------------
(***************************************************************************)
(* What the API's routes and the assistant's tools ask before they answer  *)
(* or write.  A route is a record: who may call it, the lookups it makes   *)
(* one after the other, the permissions that cover what it does, and what  *)
(* the database asks once more in the transaction that writes.             *)
(***************************************************************************)
EXTENDS Naturals, Sequences

\* The permissions the roles are made of.
Permission ==
  {area \o ".read" : area \in {"customers", "vendors", "products", "inventory", "purchases",
                               "sales", "accounting"}}
  \cup {area \o ".write" : area \in {"customers", "vendors", "products"}}
  \cup {area \o ".create" : area \in {"purchases", "sales", "payments", "returns"}}
  \cup {"purchases.approve", "sales.approve", "inventory.adjust", "accounting.post",
        "reports.view", "organization.manage"}
Right == {"member", "branch"} \cup Permission

\* Each look-up of a permission or of a branch looks the membership up first.
Ask(p) == <<"member", p>>
Enter == <<"member", "branch">>
\* Mutant: the branch is taken from the header as it is.
AdmitShort(p) == Ask(p)
Admit(p) == Ask(p) \o Enter
AskAll(ps) == [i \in 1 .. 2 * Len(ps) |-> IF i % 2 = 1 THEN "member" ELSE ps[i \div 2]]
\* What the transactions of the posting functions ask.
Again(p) == {"member", p, "branch"}

Route(by, asks, does, again) == [by |-> by, asks |-> asks, does |-> does, again |-> again]
Guarded(p) == Route({"browser", "key", "token"}, Admit(p), {p}, {})
Posting(p) == [Guarded(p) EXCEPT !.again = Again(p)]
Internal(route) == [route EXCEPT !.by = {"key", "token"}]
\* The route itself asks nothing: its transaction does.
Unasked(p) == [Internal(Posting(p)) EXCEPT !.asks = <<>>]

On(paths, route) == [path \in paths |-> route]
f ++ g == [path \in DOMAIN f \cup DOMAIN g |-> IF path \in DOMAIN f THEN f[path] ELSE g[path]]

-----------------------------------------------------------------------------
(* Master data and stock *)

Customers == On({"GET /", "GET /:id"}, Guarded("customers.read"))
          ++ On({"POST /", "PATCH /:id", "DELETE /:id"}, Guarded("customers.write"))
Vendors == On({"GET /", "GET /:id"}, Guarded("vendors.read"))
        ++ On({"POST /", "PATCH /:id", "DELETE /:id"}, Guarded("vendors.write"))
Products == On({"GET /", "GET /:id"}, Guarded("products.read"))
         ++ On({"POST /", "PATCH /:id"}, Guarded("products.write"))
Warehouses == On({"GET /", "GET /:id"}, Guarded("inventory.read"))
           ++ On({"POST /", "PATCH /:id"}, Guarded("inventory.adjust"))
RateListPages ==
     On({"GET /", "GET /:id", "GET /:id/price"}, Guarded("products.read"))
  ++ On({"POST /", "POST /:id/versions", "POST /:id/versions/:versionId/publish"},
        Guarded("products.write"))
Stock == On({"GET /balances", "GET /movements"}, Guarded("inventory.read"))
Inventory == On({"GET /balances", "GET /balances/:productId/:warehouseId", "GET /movements"},
                Internal(Guarded("inventory.read")))
Erp == On({"GET /brands", "GET /brands/:id", "GET /products", "GET /products/:id"},
          Internal(Guarded("products.read")))
    ++ On({"POST /brands", "PATCH /brands/:id", "DELETE /brands/:id",
           "POST /products", "PATCH /products/:id", "DELETE /products/:id"},
          Internal(Guarded("products.write")))
    ++ On({"GET /warehouses", "GET /warehouses/:id", "GET /inventory", "GET /stock-movements"},
          Internal(Guarded("inventory.read")))
    ++ On({"POST /warehouses", "PATCH /warehouses/:id", "DELETE /warehouses/:id"},
          Internal(Guarded("inventory.adjust")))
    ++ On({"GET /purchases", "GET /purchases/:id"}, Internal(Guarded("purchases.read")))
    ++ On({"POST /purchases"}, Unasked("purchases.create"))

-----------------------------------------------------------------------------
(* Documents *)

Invoices ==
     On({"GET /", "GET /ready-estimates", "GET /ready-estimates/:id", "GET /:id"},
        Guarded("sales.read"))
  ++ On({"POST /", "POST /from-estimate"}, Posting("sales.create"))
Returns == On({"GET /", "GET /:id"}, Guarded("sales.read"))
        ++ On({"POST /"}, Posting("returns.create"))
Purchases == On({"GET /", "GET /:id"}, Guarded("purchases.read"))
          ++ On({"POST /"}, Posting("purchases.create"))
CustomerPayments == On({"GET /receivables", "GET /", "GET /:id"}, Guarded("payments.create"))
                 ++ On({"POST /"}, Posting("payments.create"))
VendorPayments == On({"GET /payables", "GET /", "GET /:id"}, Guarded("payments.create"))
               ++ On({"POST /"}, Posting("payments.create"))
EstimateDrafts == On({"GET /rate-lists", "POST /rate-list-preview"}, Guarded("sales.create"))
               ++ On({"POST /"}, Posting("sales.create"))
EstimateConversion == On({"POST /:id/reprice/preview"}, Guarded("sales.create"))
                   ++ On({"POST /:id/reprice/confirm"}, Posting("sales.create"))
WhatsAppShare == On({"GET /:id/whatsapp-share"}, Guarded("sales.read"))

InternalSales == On({"POST /invoices"}, Unasked("sales.create"))
InternalCustomerPayments == On({"POST /"}, Unasked("payments.create"))
InternalVendorPayments == On({"POST /"}, Unasked("payments.create"))
InternalReturns == On({"POST /"}, Unasked("returns.create"))

-----------------------------------------------------------------------------
(* Books and reports *)

Accounting == On({"GET /accounts", "GET /entries", "GET /entries/:id", "GET /accounts/:id/ledger"},
                 Guarded("accounting.read"))
\* The reporting service asks for the permission once more.
Reports == On({"GET /overview", "GET /summary", "GET /details"},
              [Guarded("reports.view") EXCEPT !.asks = @ \o <<"reports.view">>])
        ++ On({"GET /trial-balance"}, Guarded("reports.view"))
Dashboard == On({"GET /estimates/count"}, Guarded("sales.read"))
          ++ On({"GET /stock"}, Guarded("inventory.read"))

-----------------------------------------------------------------------------
(* The copilot: its routes do not take the API key. *)

Copilot(asks, does) == Route({"browser", "token"}, asks, does, {})
PermissionByIntent ==
  [estimate |-> "sales.create", customer_create |-> "customers.write",
   vendor_create |-> "vendors.write", rate_list_update |-> "products.write",
   customer_payment |-> "payments.create", vendor_payment |-> "payments.create",
   customer_return |-> "returns.create", supplier_bill |-> "purchases.create"]
Intent == DOMAIN PermissionByIntent
\* assertPlanAuthorized: what else a plan does is asked for after the branch.
Plan(p, more) == <<p>> \o Enter \o more

Review == [intent \in Intent |->
             LET p == PermissionByIntent[intent] IN Copilot(Enter \o <<p>>, {p})]
Quote == On({"POST /review/quote"}, Copilot(Enter \o <<"sales.create">>, {"sales.create"}))
Extraction == On({"POST /extract/invoice"}, Copilot(<<"sales.read">> \o Enter, {"sales.read"}))
Drafts == [intent \in Intent |->
             LET p == PermissionByIntent[intent] IN Copilot(Plan(p, <<>>), {p})]
\* New parties and price lists are written without a transaction that asks.
Confirmation ==
  [intent \in Intent |->
     IF intent \in {"customer_create", "vendor_create", "rate_list_update"} THEN Drafts[intent]
     ELSE [Drafts[intent] EXCEPT !.again = Again(PermissionByIntent[intent])]]

-----------------------------------------------------------------------------
(* The assistant's tools, which a browser's session reaches. *)

Codes(ps) == {ps[i] : i \in DOMAIN ps}
Tool(asks, does) == Route({"browser"}, asks, does, {})
\* The registry's permission and the branch, then what the tool itself asks.
Reader(p, more) == Tool(Admit(p) \o AskAll(more), {p} \cup Codes(more))
\* The branch, then one permission after the other.
InBranch(ps) == Tool(Enter \o AskAll(ps), Codes(ps))

Tools ==
     On({"search_products", "lookup_product"}, Reader("products.read", <<>>))
  ++ On({"erp_audit_catalog_rates"}, Reader("products.read", <<"sales.read">>))
  ++ On({"search_rate_lists", "lookup_current_sale_rate"}, Reader("sales.read", <<>>))
  ++ On({"lookup_current_sale_rate of a customer"}, Reader("sales.read", <<"customers.read">>))
  ++ On({"erp_get_product_sale_rate", "erp_compare_brand_rates"},
        Reader("sales.read", <<"products.read">>))
  ++ On({"recall_customer_memory"}, Reader("customers.read", <<"sales.read">>))
  ++ On({"lookup_customers"}, Reader("customers.read", <<>>))
  ++ On({"lookup_vendors"}, Reader("vendors.read", <<>>))
  ++ On({"prepare_customer_create"},
        Tool(Admit("customers.write") \o Plan("customers.write", <<>>), {"customers.write"}))
Selection == [product |-> InBranch(<<"products.read">>),
              customer |-> InBranch(<<"customers.read">>),
              vendor |-> InBranch(<<"vendors.read">>)]

\* The drafts are inspected after every change, and the customer read.
Drafting == <<"sales.create", "products.read">>
DraftTools ==
     On({"begin_estimate_draft", "add_draft_item", "remove_draft_item",
         "update_draft_quantity", "update_draft_discount", "inspect_draft",
         "recalculate_draft", "prepare_estimate"},
        Tool(Enter \o AskAll(Drafting) \o Enter \o AskAll(Append(Drafting, "customers.read")),
             Codes(Drafting) \cup {"customers.read"}))
  ++ On({"set_task_context"}, InBranch(Append(Drafting, "sales.read")))
  ++ On({"POST /conversation/drafts"},
        Tool(Enter \o AskAll(Append(Drafting, "customers.read")) \o Plan("sales.create", <<>>),
             Codes(Drafting) \cup {"customers.read"}))

\* A tool that learns from its input what more to ask asks for the branch again.
Further(ps, qs) == Tool(Enter \o AskAll(ps) \o Enter \o AskAll(qs), Codes(ps) \cup Codes(qs))
CustomerDocuments == <<"customers.read", "sales.read">>
VendorDocuments == <<"vendors.read", "purchases.read">>
\* A prepared payment is validated against its documents once more.
Payment(documents) ==
  LET all == <<"payments.create">> \o documents IN
  [Further(<<"payments.create">>, documents) EXCEPT !.asks = @ \o Enter \o AskAll(all)]
StoredPayment(documents) ==
  LET all == <<"payments.create">> \o documents IN
  Tool(Enter \o AskAll(all) \o Plan("payments.create", <<>>), Codes(all))
BusinessTools ==
     On({"query_customer_ledger"}, InBranch(<<"accounting.read", "customers.read">>))
  ++ On({"query_inventory"}, InBranch(<<"products.read", "inventory.read">>))
  ++ On({"calculate_margin"}, InBranch(<<"products.read", "sales.read", "purchases.read">>))
  ++ On({"compare_products by stock"}, Further(<<"products.read">>, <<"inventory.read">>))
  ++ On({"compare_products by price"}, Further(<<"products.read">>, <<"sales.read">>))
  ++ On({"compare_products by profit"},
        Further(<<"products.read">>, <<"sales.read", "purchases.read">>))
PaymentTools ==
     On({"list_payment_documents of a customer"},
        Further(<<"payments.create">>, CustomerDocuments))
  ++ On({"list_payment_documents of a vendor"}, Further(<<"payments.create">>, VendorDocuments))
  ++ On({"prepare_customer_payment"}, Payment(CustomerDocuments))
  ++ On({"prepare_vendor_payment"}, Payment(VendorDocuments))
  ++ On({"POST /conversation/payments of a customer"}, StoredPayment(CustomerDocuments))
  ++ On({"POST /conversation/payments of a vendor"}, StoredPayment(VendorDocuments))

Analytics ==
     On({"erp_get_profit_summary", "erp_get_daily_cash_summary"},
        <<"reports.view", "accounting.read">>)
  ++ On({"erp_get_top_customers"},
        <<"reports.view", "sales.read", "customers.read", "accounting.read">>)
  ++ On({"erp_get_top_salesmen"}, <<"reports.view", "sales.read">>)
  ++ On({"erp_get_top_profitable_products"}, <<"reports.view", "sales.read", "purchases.read">>)
  ++ On({"erp_get_top_vendors"},
        <<"reports.view", "purchases.read", "vendors.read", "accounting.read">>)
  ++ On({"erp_get_slow_moving_stock"}, <<"reports.view", "inventory.read", "products.read">>)
  ++ On({"erp_get_inventory_summary"}, <<"inventory.read", "products.read">>)
AnalyticsTools == [tool \in DOMAIN Analytics |->
                     [InBranch(Analytics[tool]) EXCEPT !.by = {"browser", "token"}]]

ActionPermissions ==
     On({"erp_amend_estimate", "erp_accept_companions", "erp_transfer_site_material",
         "erp_deliver_site_transfer", "erp_create_dispatch", "erp_record_dispatch",
         "erp_create_estimate", "erp_convert_estimate_to_invoice", "erp_create_invoice"},
        "sales.create")
  ++ On({"erp_create_site", "erp_create_customer", "erp_update_customer"}, "customers.write")
  ++ On({"erp_prepare_site_return", "erp_customer_return"}, "returns.create")
  ++ On({"erp_update_commodity_rates", "erp_import_rate_list", "erp_update_product_price"},
        "products.write")
  ++ On({"erp_log_expense"}, "accounting.post")
  ++ On({"erp_record_payment"}, "payments.create")
ReadPermissions ==
     On({"erp_reconcile_vendor_quote", "erp_correct_vendor_quote", "erp_calculate_landed_cost"},
        "purchases.read")
  ++ On({"erp_get_business_report", "erp_get_depot_insights"}, "reports.view")
  ++ On({"erp_find_site_records", "erp_get_dispatch_status"}, "sales.read")
\* The registry asks, and the runtime it calls asks again.
ReadActions == [tool \in DOMAIN ReadPermissions |->
  LET p == ReadPermissions[tool] IN Tool(Admit(p) \o Plan(p, <<>>), {p})]
\* The reports of the depot ask for what they read when they read it.
Insights == [accounts |-> {"accounting.read"}, closing |-> {"accounting.read"},
             top_sellers |-> {"sales.read"},
             customer_profitability |-> {"sales.read", "purchases.read"},
             reorder_deadstock |-> {"inventory.read", "sales.read"},
             salesman_roi |-> {"accounting.read", "sales.read", "purchases.read"},
             credit_guard |-> {"customers.read", "accounting.read"}]
InsightTools == [report \in DOMAIN Insights |->
  [ReadActions["erp_get_depot_insights"] EXCEPT
     !.does = @ \cup Insights[report], !.again = {"branch"} \cup Insights[report]]]

\* The action is prepared, and its plan kept for the user to confirm.
Prepared(p, first, more) ==
  Tool(Admit(p) \o Plan(p, <<>>) \o first \o Plan(p, more), {p} \cup Codes(more))
Actions == [tool \in DOMAIN ActionPermissions |-> Prepared(ActionPermissions[tool], <<>>, <<>>)]
  ++ On({"erp_create_estimate for a new customer"},
        Prepared("sales.create", <<"customers.write">>, <<"customers.write">>))
  ++ On({"erp_create_customer with a balance"},
        Prepared("customers.write", <<>>, <<"accounting.post">>))
  ++ On({"erp_create_invoice paid"}, Prepared("sales.create", <<>>, <<"payments.create">>))
\* The assistant confirms it: the branch, the plan, and the transaction asks.
Confirmed(p, more, again) ==
  [Tool(Enter \o Plan(p, more), {p} \cup Codes(more) \cup (again \ {"member", "branch"}))
     EXCEPT !.again = again]
ConfirmedActions == [tool \in DOMAIN ActionPermissions |->
       LET p == ActionPermissions[tool] IN
       Confirmed(p, <<>>, IF tool = "erp_import_rate_list" THEN {}
                          ELSE IF tool \in {"erp_transfer_site_material",
                                            "erp_deliver_site_transfer"}
                          THEN Again(p) \cup {"returns.create"} ELSE Again(p))]
  ++ On({"erp_create_estimate for a new customer"},
        Confirmed("sales.create", <<"customers.write">>,
                  Again("sales.create") \cup {"customers.write"}))
  ++ On({"erp_create_customer with a balance"},
        Confirmed("customers.write", <<"accounting.post">>,
                  Again("customers.write") \cup {"accounting.post"}))
  ++ On({"erp_create_invoice paid"},
        Confirmed("sales.create", <<"payments.create">>,
                  Again("sales.create") \cup {"payments.create"}))

-----------------------------------------------------------------------------

Routers ==
  {Customers, Vendors, Products, Warehouses, RateListPages, Stock, Inventory, Erp, Invoices,
   Returns, Purchases, CustomerPayments, VendorPayments, EstimateDrafts, EstimateConversion,
   WhatsAppShare, InternalSales, InternalCustomerPayments, InternalVendorPayments,
   InternalReturns, Accounting, Reports, Dashboard, Review, Quote, Extraction, Drafts,
   Confirmation, Tools, Selection, DraftTools, BusinessTools, PaymentTools,
   AnalyticsTools, ReadActions, InsightTools, Actions, ConfirmedActions}
Kind == UNION {{router[path] : path \in DOMAIN router} : router \in Routers}
=============================================================================
