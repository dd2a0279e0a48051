----------------------------- MODULE PagesProofs -----------------------------
(***************************************************************************)
(* What the posting pages post is what was reviewed, for any number of     *)
(* tabs, sources, drafts and posts.  A review fixes a body and a key of    *)
(* its own, and the draft keeps both until it is withdrawn; a converted    *)
(* estimate without a number leaves a draft without a key, which no        *)
(* handler accepts.  So every post that reaches a posting function carries *)
(* body and key of one review, and one that is sent again finds in the     *)
(* documents the body it would have made.                                  *)
(***************************************************************************)
EXTENDS Pages, TLAPS

-----------------------------------------------------------------------------
(* The inductive invariant *)

\* A draft, a post or a document with the body and the key of a review.
Reviewed(d) == \E r \in reviews : r.key = d.key /\ r.body = d.body
\* A draft or a post that was left without a key by HalfReviewed.
Unkeyed(d) ==
  d.key = NoKey /\ d.body.task = "estimate" /\ d.body.number = Blank

\* Every review has a key of its own, and settles what the user selected.
ReviewsKeyed ==
  /\ nextKey \in Nat \ {0}
  /\ \A r \in reviews :
       /\ r.key \in Nat \ {0} /\ r.key < nextKey
       /\ r.body.task \in {"return"} \cup Listing => r.body.source = r.picked
       /\ \A s \in reviews : s.key = r.key => s = r

DraftsReviewed ==
  /\ pending = [p \in Page |-> pending[p]]
  /\ \A p \in Page : \/ pending[p] = NoDraft
                     \/ Unkeyed(pending[p])
                     \/ Reviewed(pending[p])

Stages == {"sent", "checked", "answered"}
Results == {"none", "created", "refused"}
\* Posts of given contents, at any stage.
CallOf(p, n, k, b, t) ==
  [page : {p}, no : {n}, key : {k}, body : {b}, to : {t},
   stage : Stages, result : Results, heard : BOOLEAN]
IsCall(c) == c \in CallOf(c.page, c.no, c.key, c.body, c.to)
\* Only a reviewed post gets past the checks of its handler.
CallFit(c) ==
  /\ IsCall(c) /\ c.no \in Nat
  /\ Reviewed(c) \/ (Unkeyed(c) /\ c.stage # "checked")
CallsFit ==
  /\ posts \in Nat
  /\ \A c \in calls : /\ CallFit(c) /\ c.no <= posts
                      /\ \A a \in calls : a.no = c.no => a = c

DocsReviewed ==
  \A d \in docs : Reviewed(d) /\ \A e \in docs : e.key = d.key => e = d

IInv == ReviewsKeyed /\ DraftsReviewed /\ CallsFit /\ DocsReviewed

-----------------------------------------------------------------------------
(* The steps *)

\* What the reviews, the drafts, the posts and the documents are.
record == <<reviews, nextKey, pending, calls, posts, docs>>

\* Nothing was reviewed before the first draft.
LEMMA InitReviewed == Init => IInv
<1>. SUFFICES ASSUME Init PROVE IInv
  OBVIOUS
<1>1. ReviewsKeyed
  BY DEF Init, ReviewsKeyed
<1>2. DraftsReviewed
  BY DEF Init, DraftsReviewed
<1>3. CallsFit
  BY DEF Init, CallsFit
<1>4. DocsReviewed
  BY DEF Init, DocsReviewed
<1>. QED
  BY <1>1, <1>2, <1>3, <1>4 DEF IInv

\* A step that withdraws drafts and does nothing else here.
LEMMA ResetReviewed ==
  ASSUME IInv, UNCHANGED <<reviews, nextKey, calls, posts, docs>>,
         NEW p \in Page, Reset(p)
  PROVE  IInv'
<1>1. DraftsReviewed'
  <2>1. pending' = [pending EXCEPT ![p] = NoDraft]
    BY DEF Reset
  <2>2. \A q \in Page : pending'[q] = NoDraft \/ pending'[q] = pending[q]
    BY <2>1 DEF IInv, DraftsReviewed
  <2>3. pending' = [q \in Page |-> pending'[q]]
    BY <2>1 DEF IInv, DraftsReviewed
  <2>. QED
    BY <2>2, <2>3 DEF IInv, DraftsReviewed, Reviewed, Unkeyed
<1>. QED
  BY <1>1 DEF IInv, ReviewsKeyed, CallsFit, CallFit, IsCall, DocsReviewed,
              Reviewed, Unkeyed

\* A step that does nothing here.
LEMMA KeptReviewed == ASSUME IInv, UNCHANGED record PROVE IInv'
  BY DEF record, IInv, ReviewsKeyed, DraftsReviewed, CallsFit, CallFit, IsCall,
         DocsReviewed, Reviewed, Unkeyed

\* A review takes a key that no review has had.
LEMMA ReviewReviewed ==
  ASSUME IInv, NEW p \in Page, Review(p)
  PROVE  IInv'
<1>. DEFINE draft == [body |-> Draft(p), key |-> nextKey]
            half == [body |-> Draft(p), key |-> NoKey]
            new == [key |-> nextKey, body |-> Draft(p), picked |-> entry[p].source]
<1>1. UNCHANGED <<calls, posts, docs>>
  BY DEF Review, server
<1>2. CASE HalfReviewed(p)
  <2>1. pending' = [pending EXCEPT ![p] = half] /\ UNCHANGED <<reviews, nextKey>>
    BY <1>2 DEF Review
  <2>2. Unkeyed(half)
    BY <1>2 DEF HalfReviewed, Draft, Unkeyed
  <2>3. /\ pending' = [q \in Page |-> pending'[q]]
        /\ \A q \in Page : pending'[q] = half \/ pending'[q] = pending[q]
    BY <2>1 DEF IInv, DraftsReviewed
  <2>4. DraftsReviewed'
    BY <2>1, <2>2, <2>3 DEF IInv, DraftsReviewed, Reviewed, Unkeyed
  <2>. QED
    BY <2>1, <2>4, <1>1 DEF IInv, ReviewsKeyed, CallsFit, CallFit, IsCall,
                            DocsReviewed, Reviewed, Unkeyed
<1>3. CASE ~HalfReviewed(p)
  <2>1. /\ pending' = [pending EXCEPT ![p] = draft]
        /\ reviews' = reviews \cup {new}
        /\ nextKey' = nextKey + 1
        /\ Ready(p)
    BY <1>3 DEF Review
  <2>2. Draft(p).task \in {"return"} \cup Listing
          => Draft(p).source = entry[p].source
    <3>1. task[p] = "return" => chosen[p] = entry[p].source
      BY <2>1 DEF Ready, ReturnReady
    <3>. QED
      BY <3>1 DEF Draft, Loading, Listing
  <2>3. ReviewsKeyed'
    BY <2>1, <2>2 DEF IInv, ReviewsKeyed
  <2>4. \A d : d = draft => \E r \in reviews' : r.key = d.key /\ r.body = d.body
    <3>1. new \in reviews' /\ new.key = draft.key /\ new.body = draft.body
      BY <2>1
    <3>. QED
      BY <3>1
  <2>5. /\ pending' = [q \in Page |-> pending'[q]]
        /\ \A q \in Page : pending'[q] = draft \/ pending'[q] = pending[q]
    BY <2>1 DEF IInv, DraftsReviewed
  <2>6. \A d : Reviewed(d) => Reviewed(d)'
    BY <2>1 DEF Reviewed
  <2>7. DraftsReviewed'
    <3>1. ASSUME NEW q \in Page
          PROVE  \/ pending'[q] = NoDraft \/ Unkeyed(pending'[q])
                 \/ \E r \in reviews' : /\ r.key = pending'[q].key
                                       /\ r.body = pending'[q].body
      <4>. HIDE DEF draft
      <4>1. CASE pending'[q] = draft
        BY <4>1, <2>4
      <4>2. CASE pending'[q] = pending[q]
        BY <4>2, <2>1 DEF IInv, DraftsReviewed, Reviewed
      <4>. QED
        BY <4>1, <4>2, <2>5
    <3>. QED
      BY <3>1, <2>5 DEF DraftsReviewed, Unkeyed, Reviewed
  <2>8. CallsFit'
    BY <2>6, <1>1 DEF IInv, CallsFit, CallFit, IsCall, Unkeyed, Reviewed
  <2>9. DocsReviewed'
    BY <2>6, <1>1 DEF IInv, DocsReviewed, Reviewed
  <2>. QED
    BY <2>3, <2>7, <2>8, <2>9 DEF IInv
<1>. QED
  BY <1>2, <1>3

\* A post carries the draft, under a number that no post has had.
LEMMA PostReviewed ==
  ASSUME IInv, NEW p \in Page, Post(p)
  PROVE  IInv'
<1>. DEFINE new == [page |-> p, no |-> posts + 1, key |-> pending[p].key,
                    body |-> pending[p].body, to |-> Endpoint(p),
                    stage |-> "sent", result |-> "none", heard |-> TRUE]
<1>1. /\ UNCHANGED <<reviews, nextKey, pending, docs>>
      /\ posts' = posts + 1
      /\ calls' = calls \cup {new}
      /\ pending[p] # NoDraft
  BY DEF Post, Sent, server
<1>2. IsCall(new) /\ new.stage # "checked" /\ new.no = posts + 1
  BY DEF IsCall, CallOf, Stages, Results
<1>3. Reviewed(new) \/ Unkeyed(new)
  BY <1>1 DEF IInv, DraftsReviewed, Reviewed, Unkeyed
<1>4. posts' \in Nat /\ posts \in Nat
  BY <1>1 DEF IInv, CallsFit
<1>5. CallFit(new)
  BY <1>2, <1>3, <1>4, <1>1 DEF CallFit
<1>. HIDE DEF new
<1>6. \A c \in calls' : /\ CallFit(c) /\ c.no <= posts'
                        /\ \A a \in calls' : a.no = c.no => a = c
  BY <1>1, <1>2, <1>4, <1>5 DEF IInv, CallsFit, CallFit
<1>7. CallsFit'
  BY <1>1, <1>4, <1>6 DEF CallsFit, CallFit, IsCall, Reviewed, Unkeyed
<1>. QED
  BY <1>1, <1>7 DEF IInv, ReviewsKeyed, DraftsReviewed, DocsReviewed, Reviewed,
                    Unkeyed

\* A post that goes on keeps its number, its key and its body.
LEMMA CallMoved ==
  ASSUME IInv, NEW c \in calls, NEW new, CallFit(new), new.no = c.no,
         calls' = (calls \ {c}) \cup {new},
         UNCHANGED <<reviews, posts>>
  PROVE  CallsFit'
<1>1. \A x \in calls' : /\ CallFit(x) /\ x.no <= posts'
                        /\ \A a \in calls' : a.no = x.no => a = x
  BY DEF IInv, CallsFit
<1>. QED
  BY <1>1 DEF IInv, CallsFit, CallFit, IsCall, Reviewed, Unkeyed

\* What To leaves of a call.
Moved(new, c, stage, result) ==
  new = [c EXCEPT !.stage = stage, !.result = result]
\* The call a step leaves of another, with its stage and result replaced.
LEMMA CallAfter ==
  ASSUME NEW c, IsCall(c), NEW stage \in Stages, NEW result \in Results,
         NEW new, Moved(new, c, stage, result)
  PROVE  /\ IsCall(new) /\ new.no = c.no /\ new.key = c.key
         /\ new.body = c.body /\ new.stage = stage /\ new.result = result
<1>1. ASSUME NEW p, NEW n, NEW k, NEW b, NEW t, c \in CallOf(p, n, k, b, t)
      PROVE  /\ new \in CallOf(p, n, k, b, t)
             /\ new.stage = stage /\ new.result = result
  BY <1>1 DEF CallOf, Moved
<1>2. /\ new \in CallOf(c.page, c.no, c.key, c.body, c.to)
      /\ new.stage = stage /\ new.result = result
  BY <1>1 DEF IsCall
<1>3. /\ new.page = c.page /\ new.no = c.no /\ new.key = c.key
      /\ new.body = c.body /\ new.to = c.to
  BY <1>2 DEF CallOf
<1>. QED
  BY <1>2, <1>3 DEF IsCall

\* The call a lost answer leaves.
LEMMA CallUnheard ==
  ASSUME NEW c, IsCall(c)
  PROVE  LET new == [c EXCEPT !.heard = FALSE]
         IN  /\ IsCall(new) /\ new.no = c.no /\ new.key = c.key
             /\ new.body = c.body /\ new.stage = c.stage
<1>. DEFINE new == [c EXCEPT !.heard = FALSE]
<1>1. ASSUME NEW p, NEW n, NEW k, NEW b, NEW t, c \in CallOf(p, n, k, b, t)
      PROVE  new \in CallOf(p, n, k, b, t) /\ new.stage = c.stage
  BY <1>1 DEF CallOf
<1>2. new \in CallOf(c.page, c.no, c.key, c.body, c.to) /\ new.stage = c.stage
  BY <1>1 DEF IsCall
<1>. HIDE DEF new
<1>3. /\ new.page = c.page /\ new.no = c.no /\ new.key = c.key
      /\ new.body = c.body /\ new.to = c.to
  BY <1>2 DEF CallOf
<1>. QED
  BY <1>2, <1>3 DEF IsCall, new

\* No handler accepts what was left without a key.
LEMMA CheckReviewed ==
  ASSUME IInv, NEW c \in calls, Check(c)
  PROVE  IInv'
<1>1. UNCHANGED <<reviews, nextKey, posts, pending, docs>>
  BY DEF Check, Serve, page, server
<1>2. CallFit(c)
  BY DEF IInv, CallsFit
<1>3. PICK stage \in Stages, result \in Results :
        /\ To(c, stage, result)
        /\ stage = "checked" => Accepted(c)
  BY DEF Check, Stages, Results
<1>4. Unkeyed(c) => ~Accepted(c)
  BY DEF Unkeyed, Accepted, InvoiceAccepted, EstimateAccepted, PaymentAccepted,
         VendorPaymentAccepted, ReturnAccepted, PurchaseAccepted
<1>. DEFINE new == [c EXCEPT !.stage = stage, !.result = result]
<1>5. /\ IsCall(new) /\ new.no = c.no /\ new.key = c.key
      /\ new.body = c.body /\ new.stage = stage
  <2>1. IsCall(c) /\ Moved(new, c, stage, result)
    BY <1>2 DEF CallFit, Moved
  <2>. HIDE DEF new
  <2>. QED
    BY <2>1, CallAfter
<1>6. calls' = (calls \ {c}) \cup {new}
  BY <1>3 DEF To
<1>. HIDE DEF new
<1>7. CallFit(new)
  BY <1>2, <1>3, <1>4, <1>5 DEF CallFit, Reviewed, Unkeyed
<1>8. CallsFit'
  BY <1>1, <1>5, <1>6, <1>7, CallMoved
<1>. QED
  BY <1>1, <1>8 DEF IInv, ReviewsKeyed, DraftsReviewed, DocsReviewed, Reviewed,
                    Unkeyed

\* A document is made of a post that was reviewed, and only if its key has none.
LEMMA CommitReviewed ==
  ASSUME IInv, NEW c \in calls, Commit(c)
  PROVE  IInv'
<1>. DEFINE made == [key |-> c.key, body |-> c.body, no |-> c.no]
<1>1. UNCHANGED <<reviews, nextKey, posts, pending>>
  BY DEF Commit, Serve, page
<1>2. CallFit(c) /\ c.stage = "checked"
  BY DEF IInv, CallsFit, Commit
<1>3. Reviewed(c)
  BY <1>2 DEF CallFit
<1>4. PICK stage \in Stages, result \in Results :
        stage = "answered" /\ To(c, stage, result)
  BY DEF Commit, Outcome, Stages, Results
<1>. DEFINE new == [c EXCEPT !.stage = stage, !.result = result]
<1>5. /\ IsCall(new) /\ new.no = c.no /\ new.key = c.key /\ new.body = c.body
  <2>1. IsCall(c) /\ Moved(new, c, stage, result)
    BY <1>2 DEF CallFit, Moved
  <2>. HIDE DEF new
  <2>. QED
    BY <2>1, CallAfter
<1>6. calls' = (calls \ {c}) \cup {new}
  BY <1>4 DEF To
<1>. HIDE DEF new
<1>7. CallFit(new)
  BY <1>2, <1>3, <1>5 DEF CallFit, Reviewed
<1>8. CallsFit'
  BY <1>1, <1>5, <1>6, <1>7, CallMoved
<1>9. CASE Outcome(c) # "created"
  <2>1. docs' = docs
    BY <1>9 DEF Commit
  <2>. QED
    BY <2>1, <1>1, <1>8 DEF IInv, ReviewsKeyed, DraftsReviewed, DocsReviewed,
                            Reviewed, Unkeyed
<1>10. CASE Outcome(c) = "created"
  <2>1. docs' = docs \cup {made}
    BY <1>10 DEF Commit
  <2>2. \A d \in docs : d.key # c.key
    BY <1>10 DEF Outcome
  <2>3. Reviewed(made)
    BY <1>3 DEF Reviewed
  <2>4. \A d \in docs' : Reviewed(d) /\ \A e \in docs' : e.key = d.key => e = d
    BY <2>1, <2>2, <2>3 DEF IInv, DocsReviewed
  <2>5. DocsReviewed'
    BY <2>4, <1>1 DEF DocsReviewed, Reviewed
  <2>. QED
    BY <2>5, <1>1, <1>8 DEF IInv, ReviewsKeyed, DraftsReviewed, Reviewed, Unkeyed
<1>. QED
  BY <1>9, <1>10

\* A lost answer changes only what the page hears.
LEMMA LoseReviewed ==
  ASSUME IInv, NEW c \in calls, Lose(c)
  PROVE  IInv'
<1>. DEFINE new == [c EXCEPT !.heard = FALSE]
<1>1. /\ UNCHANGED <<reviews, nextKey, posts, pending, docs>>
      /\ calls' = (calls \ {c}) \cup {new}
  BY DEF Lose, server
<1>2. CallFit(c)
  BY DEF IInv, CallsFit
<1>3. IsCall(new) /\ new.no = c.no /\ new.key = c.key /\ new.body = c.body
        /\ new.stage = c.stage
  BY <1>2, CallUnheard DEF CallFit
<1>. HIDE DEF new
<1>4. CallFit(new)
  BY <1>2, <1>3 DEF CallFit, Reviewed, Unkeyed
<1>5. CallsFit'
  BY <1>1, <1>3, <1>4, CallMoved
<1>. QED
  BY <1>1, <1>5 DEF IInv, ReviewsKeyed, DraftsReviewed, DocsReviewed, Reviewed,
                    Unkeyed

\* An answered post is forgotten.
LEMMA AnsweredReviewed ==
  ASSUME IInv, NEW c \in calls, Answered(c)
  PROVE  IInv'
<1>1. /\ UNCHANGED <<reviews, nextKey, posts, pending, docs>>
      /\ calls' = calls \ {c}
  BY DEF Answered, server
<1>2. CallsFit'
  BY <1>1 DEF IInv, CallsFit, CallFit, IsCall, Reviewed, Unkeyed
<1>. QED
  BY <1>1, <1>2 DEF IInv, ReviewsKeyed, DraftsReviewed, DocsReviewed, Reviewed,
                    Unkeyed

\* Every step of the pages, of the server and of others keeps the invariant.
LEMMA NextReviewed == IInv /\ [Next]_vars => IInv'
<1>. SUFFICES ASSUME IInv, [Next]_vars PROVE IInv'
  OBVIOUS
<1>1. ASSUME NEW p \in Page, NEW t \in Task, Open(p, t) PROVE IInv'
  BY <1>1, ResetReviewed DEF Open, server
<1>2. ASSUME NEW p \in Page, Listed(p) PROVE IInv'
  BY <1>2, KeptReviewed DEF Listed, server, record
<1>3. ASSUME NEW p \in Page, Type(p) PROVE IInv'
  BY <1>3, ResetReviewed DEF Type, server
<1>4. ASSUME NEW p \in Page, LoadSource(p) PROVE IInv'
  <2>1. UNCHANGED <<reviews, nextKey, calls, posts, docs>>
    BY <1>4 DEF LoadSource, server
  <2>2. Reset(p) \/ UNCHANGED pending
    BY <1>4 DEF LoadSource
  <2>. QED
    BY <2>1, <2>2, ResetReviewed, KeptReviewed DEF record
<1>5. ASSUME NEW p \in Page, CloseEditor(p) PROVE IInv'
  BY <1>5, KeptReviewed DEF CloseEditor, server, record
<1>6. ASSUME NEW p \in Page, NEW s \in Source, Choose(p, s) PROVE IInv'
  BY <1>6, ResetReviewed DEF Choose, server
<1>7. ASSUME NEW p \in Page, NEW s \in Source, Loaded(p, s) PROVE IInv'
  <2>1. UNCHANGED <<reviews, nextKey, calls, posts, docs>>
    BY <1>7 DEF Loaded, server
  <2>2. Reset(p) \/ UNCHANGED pending
    BY <1>7 DEF Loaded
  <2>. QED
    BY <2>1, <2>2, ResetReviewed, KeptReviewed DEF record
<1>8. ASSUME NEW p \in Page, Review(p) PROVE IInv'
  BY <1>8, ReviewReviewed
<1>9. ASSUME NEW p \in Page, Post(p) PROVE IInv'
  BY <1>9, PostReviewed
<1>10. ASSUME NEW p \in Page, Advance(p) PROVE IInv'
  <2>1. CASE Refreshed(p)
    BY <2>1, KeptReviewed DEF Refreshed, server, record
  <2>2. CASE \E c \in calls : c.page = p /\ (Check(c) \/ Commit(c) \/ Answered(c))
    BY <2>2, CheckReviewed, CommitReviewed, AnsweredReviewed
  <2>. QED
    BY <2>1, <2>2, <1>10 DEF Advance
<1>11. ASSUME NEW r \in reads, ReadFailed(r) PROVE IInv'
  BY <1>11, KeptReviewed DEF ReadFailed, server, record
<1>12. ASSUME NEW c \in calls, Lose(c) PROVE IInv'
  BY <1>12, LoseReviewed
<1>13. ASSUME NEW s \in Source, Elsewhere(s) PROVE IInv'
  BY <1>13, KeptReviewed DEF Elsewhere, page, record
<1>14. CASE UNCHANGED vars
  BY <1>14, KeptReviewed DEF vars, page, server, record
<1>. QED
  BY <1>1, <1>2, <1>3, <1>4, <1>5, <1>6, <1>7, <1>8, <1>9, <1>10, <1>11, <1>12,
     <1>13, <1>14 DEF Next

\* The invariant holds in every behaviour.
LEMMA SpecReviewed == Spec => []IInv
  BY InitReviewed, NextReviewed, PTL DEF Spec

-----------------------------------------------------------------------------
(* The theorems *)

\* What is posted is what was shown for review, once, and what a payment or a
\* return settles is the document the user had selected.
THEOREM PostedWasReviewed == Spec => []DocumentWasReviewed
<1>1. IInv => DocumentWasReviewed
  BY DEF IInv, ReviewsKeyed, DocsReviewed, Reviewed, DocumentWasReviewed
<1>. QED
  BY <1>1, SpecReviewed, PTL

\* Where a key has its document, a post with that key has its body.
LEMMA SameBody ==
  ASSUME IInv, NEW c \in calls, c.stage = "checked", NEW d \in docs,
         c.key = d.key
  PROVE  d.body = c.body
<1>1. Reviewed(c)
  BY DEF IInv, CallsFit, CallFit
<1>2. Reviewed(d)
  BY DEF IInv, DocsReviewed
<1>. QED
  BY <1>1, <1>2 DEF Reviewed, IInv, ReviewsKeyed

\* A form submitted again after its answer was lost is never refused, but for
\* the conversion of an estimate, on any page and whatever others settled.
THEOREM RetryIsFound == Spec => RetryFindsDocument
<1>. DEFINE tasks == Task \ {"estimate"}
<1>1. ASSUME IInv, [Next]_vars PROVE FoundAgain(tasks)
  <2>. SUFFICES ASSUME NEW c \in calls, NEW d \in docs, c.key = d.key,
                       c.stage = "checked", c.to \in tasks,
                       NEW a \in calls', a.no = c.no
                PROVE  a.stage # "answered" \/ a.result # "refused"
    BY DEF FoundAgain
  <2>1. \A x \in calls : CallFit(x) /\ (x.no = c.no => x = c)
    BY <1>1 DEF IInv, CallsFit
  <2>2. CASE a \in calls
    BY <2>1, <2>2
  <2>3. CASE a \notin calls
    <3>1. CASE \E p \in Page : Post(p)
      <4>1. a.no = posts + 1
        BY <3>1, <2>3 DEF Post, Sent
      <4>2. c.no <= posts /\ c.no \in Nat /\ posts \in Nat
        BY <1>1 DEF IInv, CallsFit, CallFit
      <4>. QED
        BY <4>1, <4>2
    <3>2. CASE \E x \in calls : Check(x) \/ Commit(x) \/ Lose(x)
      <4>1. PICK x \in calls : Check(x) \/ Commit(x) \/ Lose(x)
        BY <3>2
      <4>2. IsCall(x)
        BY <2>1 DEF CallFit
      <4>3. CASE Lose(x)
        <5>1. a = [x EXCEPT !.heard = FALSE]
          BY <4>3, <2>3 DEF Lose
        <5>2. a.no = x.no /\ a.stage = x.stage
          BY <5>1, <4>2, CallUnheard
        <5>. QED
          BY <5>2, <2>1
      <4>4. CASE Check(x)
        <5>1. PICK stage \in Stages, result \in Results :
                Moved(a, x, stage, result)
          BY <4>4, <2>3 DEF Check, To, Moved, Stages, Results
        <5>2. a.no = x.no
          BY <5>1, <4>2, CallAfter
        <5>. QED
          BY <5>2, <4>4, <2>1 DEF Check
      <4>5. CASE Commit(x)
        <5>1. PICK stage \in Stages, result \in Results :
                /\ Moved(a, x, stage, result)
                /\ result = IF Outcome(x) = "replayed" THEN "created"
                                                       ELSE Outcome(x)
          BY <4>5, <2>3 DEF Commit, To, Moved, Outcome, Stages, Results
        <5>2. a.no = x.no /\ a.result = result
          BY <5>1, <4>2, CallAfter
        <5>3. x = c
          BY <5>2, <2>1
        <5>4. d.body = c.body
          BY <1>1, SameBody
        <5>5. Outcome(c) = "replayed"
          BY <5>4 DEF Outcome
        <5>. QED
          BY <5>1, <5>2, <5>3, <5>5
      <4>. QED
        BY <4>1, <4>3, <4>4, <4>5
    <3>3. CASE calls' \subseteq calls
      BY <3>3, <2>3
    <3>4. \/ calls' \subseteq calls
          \/ \E p \in Page : Post(p)
          \/ \E x \in calls : Check(x) \/ Commit(x) \/ Lose(x)
      BY <1>1 DEF Next, vars, Open, Listed, Type, LoadSource, CloseEditor, Choose,
                  Loaded, Review, Advance, Refreshed, Answered, ReadFailed, Elsewhere
    <3>. QED
      BY <3>1, <3>2, <3>3, <3>4
  <2>. QED
    BY <2>2, <2>3
<1>. QED
  BY <1>1, SpecReviewed, PTL DEF Spec, RetryFindsDocument

=============================================================================
