------------------------------ MODULE RateLists ------------------------------
(***************************************************************************)
(* Rate lists: dated versions of a list's prices, of which one is active,  *)
(* the page that drafts and publishes them, and the two ways a version     *)
(* comes into being without it: the import of a catalogue and a change of  *)
(* prices the assistant was told to make.  Estimates reads the prices.     *)
(***************************************************************************)
EXTENDS Naturals, SequencesExt

CONSTANTS
  List,      \* the rate lists, all of them active
  Product,
  Quantity,  \* what is sold, and the tiers from which a price holds
  Tables,    \* what a new version may hold: a price, or 0, of each product
             \* from each tier
  Prices,    \* what the assistant may change a price to
  None,
  Budgets    \* the pages considered, with bounds on what happens

ASSUME RateListsAssumption ==
  /\ Quantity \subseteq Nat \ {0} /\ Prices \subseteq Nat \ {0}
  /\ Tables \subseteq [Product \X Quantity -> Nat]
  /\ None \notin List \cup Nat

\* The versions as the pages find them: one of a list at most is active, which
\* is newer than those it replaced.
ASSUME BudgetsAssumption ==
  \A budget \in Budgets :
    LET found == budget.versions IN
    /\ found \in Seq([list : List, number : Nat, from : {"before", "today", "later"},
                     status : {"DRAFT", "ACTIVE", "ARCHIVED"},
                     items : [Product \X Quantity -> Nat]])
    /\ \A v, w \in DOMAIN found :
         /\ found[v].list = found[w].list
         /\ found[v].status = "ACTIVE" /\ found[w].status = "ACTIVE"
         => v = w
    /\ \A w \in DOMAIN found : found[w].status = "ARCHIVED" =>
         \E v \in DOMAIN found :
           /\ found[v].list = found[w].list /\ found[v].status = "ACTIVE"
           /\ found[w].number < found[v].number

VARIABLES
  versions,  \* the versions of all lists by id
  register,  \* the page
  calls,     \* the requests of all pages in flight
  left
rateVars == <<versions, register>>

\* The record r with the fields of s that it has not.
r ++ s == [x \in DOMAIN r \cup DOMAIN s |-> IF x \in DOMAIN r THEN r[x] ELSE s[x]]

Spend(what) == /\ left[what] > 0
               /\ left' = [left EXCEPT ![what] = @ - 1]

\* A request that is sent.  waiting: its page is there to get the answer.
Sent(id, request) ==
  [id |-> id, stage |-> "sent", answer |-> None, waiting |-> TRUE] ++ request
Call(request) == /\ Spend("steps")
                 /\ calls' = calls \cup {Sent(left.steps, request)}

Become(c, changed) == calls' = (calls \ {c}) \cup {changed}
Reply(c, answer) ==
  IF c.waiting THEN Become(c, [c EXCEPT !.stage = "served", !.answer = answer])
  ELSE calls' = calls \ {c}
Refuse(c) ==
  IF c.waiting THEN Become(c, [c EXCEPT !.stage = "refused"])
  ELSE calls' = calls \ {c}

-----------------------------------------------------------------------------
(* Versions *)

VersionsOf(list) == {v \in DOMAIN versions : versions[v].list = list}
ActiveOf(list) == {v \in VersionsOf(list) : versions[v].status = "ACTIVE"}
NumbersOf(list) == {versions[v].number : v \in VersionsOf(list)}
NumberAfter(list) == Max(NumbersOf(list) \cup {0}) + 1

\* The price of so much of a product in a version: that of the highest tier
\* reached; 0 when there is none, or not yet at the date prices are asked for.
PriceIn(v, product, quantity) ==
  LET tiers == {t \in Quantity : /\ t <= quantity
                                 /\ versions[v].items[product, t] > 0} IN
  IF tiers = {} \/ versions[v].from # "before" THEN 0
  ELSE versions[v].items[product, Max(tiers)]

\* findBestRateListItem of a given list: the version that has the price.
Resolve(list, product, quantity) ==
  {v \in ActiveOf(list) : PriceIn(v, product, quantity) > 0}

\* A version holds from before the date prices are asked for, from later today
\* ("today"), or from a day to come ("later").
Version(list, number, status, items, from) ==
  [list |-> list, number |-> number, status |-> status, items |-> items,
   from |-> from]

Archived(list) ==
  [v \in DOMAIN versions |->
     IF v \in ActiveOf(list) THEN [versions[v] EXCEPT !.status = "ARCHIVED"]
     ELSE versions[v]]

\* A draft gets the number its form asks for, if no version of the list has it.
Draft(list, number, items, from) ==
  /\ number \notin NumbersOf(list)
  /\ versions' = Append(versions, Version(list, number, "DRAFT", items, from))

\* Mutant: any draft can be published.
MayPublishAny(v) == versions[v].status = "DRAFT"
MayPublish(v) ==
  /\ versions[v].status = "DRAFT"
  /\ \A active \in ActiveOf(versions[v].list) :
       versions[v].number > versions[active].number

\* A publication replaces the active version at once, whatever its date.
Publish(v) ==
  versions' = [Archived(versions[v].list) EXCEPT ![v].status = "ACTIVE"]

\* A version made elsewhere replaces the active one, which ends now; that it
\* cannot do before it began.
Replace(list, items, from) ==
  /\ from # "later"
  /\ \A active \in ActiveOf(list) : versions[active].from # "later"
  /\ versions' = Append(Archived(list),
                        Version(list, NumberAfter(list), "ACTIVE", items, from))

\* A catalogue is imported.  The version holds from the moment it is made, so
\* not yet for a document of that day, whose prices are asked for as of its
\* midnight.  An import that is repeated under its key changes nothing.
Import(list, items, from) ==
  /\ Spend("others")
  /\ Replace(list, items, from)

\* The approved changes of prices are made if the version they were approved
\* for is still active and had the price; all other prices are kept.
Reprice(list, product, tier, price, from) ==
  /\ Spend("others")
  /\ \E v \in ActiveOf(list) :
       /\ versions[v].items[product, tier] > 0
       /\ Replace(list, [versions[v].items EXCEPT ![<<product, tier>>] = price],
                  from)

Elsewhere ==
  /\ \E list \in left.lists, from \in left.dates :
       \/ \E items \in Tables : Import(list, items, from)
       \/ \E product \in Product, tier \in Quantity, price \in Prices :
            Reprice(list, product, tier, price, from)
  /\ UNCHANGED <<register, calls>>

-----------------------------------------------------------------------------
(* The page *)

Detail(list, after) == [what |-> "detail", list |-> list, after |-> after]

\* A list is clicked: openDetail.
OpenDetail(list) ==
  /\ register.shown = "none"
  /\ Call(Detail(list, None))
  /\ register' = [register EXCEPT !.shown = "loading"]
  /\ UNCHANGED versions

CloseDetail ==
  /\ register.shown # "none" /\ ~register.editor
  /\ register' = [register EXCEPT !.shown = "none"]
  /\ UNCHANGED <<versions, calls, left>>

OpenVersionEditor ==
  /\ register.shown = "ready" /\ ~register.editor
  /\ register' = [register EXCEPT !.editor = TRUE]
  /\ UNCHANGED <<versions, calls, left>>

CloseVersionEditor ==
  /\ register.editor
  /\ register' = [register EXCEPT !.editor = FALSE]
  /\ UNCHANGED <<versions, calls, left>>

\* The draft is of the list that is selected when it is submitted.  Its number
\* is filled in, and can be changed.
SubmitVersion ==
  /\ register.editor /\ ~register.saving
  /\ \E number \in 1 .. Len(versions) + 1, items \in Tables, from \in left.dates :
       Call([what |-> "draft", list |-> register.selected, number |-> number,
             items |-> items, from |-> from])
  /\ register' = [register EXCEPT !.saving = TRUE]
  /\ UNCHANGED versions

PressPublish(v) ==
  /\ register.shown = "ready" /\ ~register.editor
  /\ v \in register.drafts \ register.pressed
  /\ Call([what |-> "publish", version |-> v])
  /\ register' = [register EXCEPT !.pressed = @ \cup {v}]
  /\ UNCHANGED versions

UseRegister ==
  \/ \E list \in left.lists : OpenDetail(list)
  \/ CloseDetail \/ OpenVersionEditor \/ CloseVersionEditor \/ SubmitVersion
  \/ \E v \in register.drafts : PressPublish(v)

-----------------------------------------------------------------------------
(* The API of the page *)

ServeDetail(c) ==
  /\ c.what = "detail"
  /\ Reply(c, {v \in VersionsOf(c.list) : versions[v].status = "DRAFT"})
  /\ UNCHANGED versions

ServeDraft(c) ==
  /\ c.what = "draft"
  /\ \/ Draft(c.list, c.number, c.items, c.from) /\ Reply(c, None)
     \/ /\ c.number \in NumbersOf(c.list)
        /\ Refuse(c) /\ UNCHANGED versions

ServePublish(c) ==
  /\ c.what = "publish"
  /\ \/ MayPublish(c.version) /\ Publish(c.version) /\ Reply(c, None)
     \/ ~MayPublish(c.version) /\ Refuse(c) /\ UNCHANGED versions

ServeRegister(c) ==
  /\ ServeDetail(c) \/ ServeDraft(c) \/ ServePublish(c)
  /\ UNCHANGED <<register, left>>

-----------------------------------------------------------------------------
(* Its answers *)

\* The detail that arrives last is shown and selected, whichever was asked for.
GetDetail(c) ==
  /\ c.what = "detail"
  /\ register' =
       LET settled == [register EXCEPT !.saving = @ /\ c.after # "draft"] IN
       IF c.stage = "served"
       THEN [settled EXCEPT !.selected = c.list, !.drafts = c.answer,
                            !.pressed = {},
                            !.shown = IF @ = "none" THEN @ ELSE "ready"]
       ELSE [settled EXCEPT !.shown = IF @ = "none" THEN @ ELSE "error"]
  /\ calls' = calls \ {c}

\* A draft or a publication that went well is followed by the detail of the
\* list that is selected now.
Follow(c) ==
  Become(c, Sent(c.id, Detail(register.selected, c.what)))

GetDraft(c) ==
  /\ c.what = "draft"
  /\ \/ /\ c.stage = "served"
        /\ register' = [register EXCEPT !.editor = FALSE, !.shown = "loading"]
        /\ Follow(c)
     \/ /\ c.stage # "served"
        /\ register' = [register EXCEPT !.saving = FALSE]
        /\ calls' = calls \ {c}

GetPublished(c) ==
  /\ c.what = "publish"
  /\ \/ /\ c.stage = "served"
        /\ register' = [register EXCEPT !.shown = "loading"]
        /\ Follow(c)
     \/ /\ c.stage # "served"
        /\ register' = [register EXCEPT !.pressed = @ \ {c.version}]
        /\ calls' = calls \ {c}

DeliverRegister(c) ==
  /\ GetDetail(c) \/ GetDraft(c) \/ GetPublished(c)
  /\ UNCHANGED <<versions, left>>

InitRegister ==
  register = [selected |-> None, drafts |-> {}, shown |-> "none",
              editor |-> FALSE, saving |-> FALSE, pressed |-> {}]

-----------------------------------------------------------------------------
(* Properties *)

\* Of the versions of a list at most one is active, and no version that was
\* replaced is newer than it: two people who publish, import and change prices
\* at once cannot bring an old version back, though each decides by what the
\* page showed it before.
ActiveIsNewest ==
  \A v, w \in DOMAIN versions :
    /\ versions[v].list = versions[w].list /\ v # w
    /\ versions[v].status = "ACTIVE"
    => /\ versions[w].status # "ACTIVE"
       /\ versions[w].status = "ARCHIVED"
            => versions[w].number < versions[v].number
=============================================================================
