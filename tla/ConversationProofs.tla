------------------------- MODULE ConversationProofs -------------------------
(***************************************************************************)
(* Between turns: what is posted was shown, and what is announced was      *)
(* posted, for any tabs, workspaces and items, and any number of requests. *)
(* Inside a turn (below): what is stored for confirmation was shown, and   *)
(* an open question stays open, whatever the language model asks for.      *)
(***************************************************************************)
EXTENDS Assistant, TLAPS

-----------------------------------------------------------------------------
(* The types *)

Messages == {"yes", "decline", "turn"}
Content == [of : Item \cup {None}, price : Nat]
Status == {"DRAFT", "EXECUTED", "FAILED"}
TabState == [scope : Scope, token : Token \cup {None}, active : Row \cup {None},
             ready : Ready \cup {None}, review : Item \cup {None},
             busy : BOOLEAN, version : Nat,
             mic : {"off", "asked", "recording", "stopping"}, late : Nat,
             voice : BOOLEAN]
Given == [token : Token \cup {None}, row : Row \cup {None},
          plan : Content \cup {None}, view : {"none", "draft", "payment"}]
Request == [id : Nat, tab : Tab, kind : Messages \cup ByButton \cup {"review"},
            scope : Scope, version : Nat, token : Token \cup {None},
            row : Row \cup {None}, of : Item \cup {None},
            stage : {"sent", "served", "failed"}, answer : Given \cup {None}]

\* A request holds what its kind needs, and so does its answer.
Complete(c) ==
  /\ c.kind \in {"estimate", "payment"} => c.token \in Token
  /\ c.kind = "confirm" => c.row \in Row
  /\ c.stage = "served" =>
       /\ c.answer \in Given
       /\ c.kind = "review" => c.answer.plan \in Content
       /\ c.answer.view # "none" => c.answer.token \in Token

TabsTyped == /\ DOMAIN tab \subseteq Tab
             /\ tab \in [DOMAIN tab -> TabState]
CallsTyped == /\ calls \subseteq Request
              /\ \A c \in calls : Complete(c)
DraftsTyped == draft \in [DOMAIN draft -> [plan : Content, status : Status]]
LeftTyped == /\ left = [x \in DOMAIN left |-> left[x]]
             /\ "requests" \in DOMAIN left
             /\ left.requests \in Nat
TypeOK == TabsTyped /\ CallsTyped /\ DraftsTyped /\ LeftTyped /\ price \in Nat

-----------------------------------------------------------------------------
(* Requests and rows have numbers of their own *)

NumbersOK ==
  /\ \A c \in calls : c.id > left.requests
  /\ \A c, d \in calls : c.id = d.id => c = d
  /\ \A r \in DOMAIN draft : r.kind = "action" =>
       /\ r.number \in Nat /\ r.number > left.requests
       /\ \A c \in calls : c.stage = "sent" => c.id # r.number

-----------------------------------------------------------------------------
(* What may be confirmed was shown *)

\* Of drafts D and what was shown S: the user of the tab was shown the row with
\* what it holds.
Viewed(D, S, t, r) == r \in DOMAIN D /\ <<t, r, D[r].plan>> \in S
PendingViewed(D, S, t, token) ==
  token # None /\ token.pending # None => Viewed(D, S, t, token.pending)
TabViewed(D, S, t, s) == /\ PendingViewed(D, S, t, s.token)
                         /\ s.active # None => Viewed(D, S, t, s.active)
\* An answer shows the row it brings; what else its token proposes was shown.
AnswerSound(D, S, c) ==
  LET a == c.answer IN
  /\ a.row # None /\ c.kind # "confirm"
       => a.row \in DOMAIN D /\ D[a.row].plan = a.plan
  /\ a.token # None /\ a.token.pending # None /\ a.token.pending # a.row
       => Viewed(D, S, c.tab, a.token.pending)
CallViewed(D, S, c) == /\ PendingViewed(D, S, c.tab, c.token)
                       /\ c.kind = "confirm" => Viewed(D, S, c.tab, c.row)
                       /\ c.stage = "served" => AnswerSound(D, S, c)
ShownInv ==
  /\ \A t \in DOMAIN tab : TabViewed(draft, shown, t, tab[t])
  /\ \A c \in calls : CallViewed(draft, shown, c)
  /\ PostedAsShown

-----------------------------------------------------------------------------
(* The tab waits for what it has asked for *)

\* In the tabs T, the version of the tab that asked is not over.
Live(T, c) == c.version = T[c.tab].version
Timely(T, c) == c.tab \in DOMAIN T /\ c.version <= T[c.tab].version
\* In a tab that nothing has freed, what a button started is live and keeps the tab
\* busy; it is alone, so the draft being confirmed stays the active one unless
\* it is cancelled.
Steady(T, C, c) ==
  /\ c.kind \in ByButton => Live(T, c)
  /\ Live(T, c) => T[c.tab].busy
  /\ \A d \in C : d.tab = c.tab /\ Live(T, c) /\ Live(T, d) => c = d
  /\ c.kind = "confirm" => T[c.tab].active \in {None, c.row}
WaitInv ==
  \A c \in calls : Timely(tab, c) /\ (c.tab \notin freed => Steady(tab, calls, c))

IsPosted(P, r) == \E p \in P : p[2] = r
ConfirmDone(P, c) == c.kind = "confirm" /\ c.stage = "served" => IsPosted(P, c.row)
PostedInv ==
  /\ \A c \in calls : ConfirmDone(posted, c)
  /\ \A r \in DOMAIN draft : draft[r].status = "EXECUTED" => IsPosted(posted, r)
  /\ AnnouncedWasPosted

IInv == TypeOK /\ NumbersOK /\ ShownInv /\ WaitInv /\ PostedInv

-----------------------------------------------------------------------------
(* What a step that only adds keeps *)

\* Drafts keep what they hold, and nothing shown is forgotten.
Grown(D, E, S, R) == /\ \A r \in DOMAIN D : r \in DOMAIN E /\ E[r].plan = D[r].plan
                     /\ S \subseteq R

\* What was shown stays shown.
LEMMA ViewedStays ==
  ASSUME NEW D, NEW E, NEW S, NEW R, Grown(D, E, S, R), NEW t, NEW c
  PROVE  /\ TabViewed(D, S, t, c) => TabViewed(E, R, t, c)
         /\ CallViewed(D, S, c) => CallViewed(E, R, c)
         /\ PendingViewed(D, S, t, c) => PendingViewed(E, R, t, c)
<1>1. \A u, r : Viewed(D, S, u, r) => Viewed(E, R, u, r)
  BY DEF Grown, Viewed
<1>2. \A u, k : PendingViewed(D, S, u, k) => PendingViewed(E, R, u, k)
  BY <1>1 DEF PendingViewed
<1>3. AnswerSound(D, S, c) => AnswerSound(E, R, c)
  BY <1>1 DEF AnswerSound, Grown
<1>. QED
  BY <1>1, <1>2, <1>3 DEF TabViewed, CallViewed

\* What a step has to show for the first half of the invariant.
LEMMA ShownKept ==
  ASSUME ShownInv, Grown(draft, draft', shown, shown'),
         \A t \in DOMAIN tab' : \/ t \in DOMAIN tab /\ tab'[t] = tab[t]
                                \/ TabViewed(draft', shown', t, tab'[t]),
         \A c \in calls' : c \in calls \/ CallViewed(draft', shown', c),
         \A p \in posted' : p \in posted \/ p \in shown'
  PROVE  ShownInv'
<1>1. \A t \in DOMAIN tab' : TabViewed(draft', shown', t, tab'[t])
  BY ViewedStays DEF ShownInv
<1>2. \A c \in calls' : CallViewed(draft', shown', c)
  BY ViewedStays DEF ShownInv
<1>3. PostedAsShown'
  BY DEF ShownInv, PostedAsShown, Grown
<1>. QED
  BY <1>1, <1>2, <1>3 DEF ShownInv

\* Tabs that a step leaves alone go on waiting for what they have asked for.
LEMMA WaitKept ==
  ASSUME WaitInv, NEW t, freed \subseteq freed',
         \A u \in DOMAIN tab : u # t => u \in DOMAIN tab' /\ tab'[u] = tab[u],
         \A c \in calls' : c.tab # t => c \in calls,
         \A c \in calls' : c.tab = t =>
           Timely(tab', c) /\ (t \notin freed' => Steady(tab', calls', c))
  PROVE  WaitInv'
<1>. SUFFICES ASSUME NEW c \in calls', c.tab # t
              PROVE  Timely(tab', c) /\ (c.tab \notin freed' => Steady(tab', calls', c))
  BY DEF WaitInv
<1>1. c \in calls /\ Timely(tab, c) /\ (c.tab \notin freed' => Steady(tab, calls, c))
  BY DEF WaitInv
<1>2. c.tab \in DOMAIN tab' /\ tab'[c.tab] = tab[c.tab]
  BY <1>1 DEF Timely
<1>3. \A d \in calls' : d.tab = c.tab => d \in calls /\ (Live(tab', d) <=> Live(tab, d))
  BY <1>2 DEF Live
<1>. QED
  BY <1>1, <1>2, <1>3 DEF Timely, Steady, Live

\* What a step has to show for what was posted.
LEMMA PostedKept ==
  ASSUME PostedInv, posted \subseteq posted', freed \subseteq freed',
         \A c \in calls' : c \in calls \/ ConfirmDone(posted', c),
         \A r \in DOMAIN draft' : draft'[r].status = "EXECUTED" =>
           \/ r \in DOMAIN draft /\ draft[r].status = "EXECUTED"
           \/ IsPosted(posted', r),
         \A a \in announced' : \/ a \in announced \/ a[1] \in freed'
                               \/ IsPosted(posted', a[2])
  PROVE  PostedInv'
<1>1. \A r : IsPosted(posted, r) => IsPosted(posted', r)
  BY DEF IsPosted
<1>2. \A c \in calls' : ConfirmDone(posted', c)
  BY <1>1 DEF PostedInv, ConfirmDone
<1>3. \A a \in announced' : a[1] \in freed' \/ IsPosted(posted', a[2])
  BY <1>1 DEF PostedInv, AnnouncedWasPosted, IsPosted
<1>. QED
  BY <1>1, <1>2, <1>3 DEF PostedInv, AnnouncedWasPosted, IsPosted

-----------------------------------------------------------------------------
(* Sending *)

Sent(t, kind, version, token, row, of) ==
  [id |-> left.requests, tab |-> t, kind |-> kind,
   scope |-> tab[t].scope, version |-> version, token |-> token,
   row |-> row, of |-> of, stage |-> "sent", answer |-> None]

\* Each bound is spent by itself.
LEMMA SpendTyped ==
  ASSUME LeftTyped, NEW what, Spend(what)
  PROVE  /\ LeftTyped'
         /\ left'.requests = IF what = "requests" THEN left.requests - 1
                             ELSE left.requests
<1>1. left' = [x \in DOMAIN left |-> IF x = what THEN left[x] - 1 ELSE left[x]]
  BY DEF Spend, LeftTyped
<1>2. DOMAIN left' = DOMAIN left /\ left' = [x \in DOMAIN left' |-> left'[x]]
  BY <1>1
<1>3. left'["requests"] = IF what = "requests" THEN left["requests"] - 1
                          ELSE left["requests"]
  BY <1>1 DEF LeftTyped
<1>. QED
  BY <1>2, <1>3 DEF Spend, LeftTyped

\* A request that the tab sends has what its kind needs.
Sends(t, kind, version, token, row, of) ==
  /\ t \in DOMAIN tab /\ kind \in Messages \cup ByButton \cup {"review"}
  /\ version \in Nat /\ token \in Token \cup {None} /\ row \in Row \cup {None}
  /\ of \in Item \cup {None}
  /\ kind \in {"estimate", "payment"} => token \in Token
  /\ kind = "confirm" => row \in Row
  /\ Call(t, kind, version, token, row, of)

\* A new request has its type and a number that no other has.
LEMMA CallTyped ==
  ASSUME TypeOK, NumbersOK, draft' = draft, NEW t, NEW kind, NEW version,
         NEW token, NEW row, NEW of, Sends(t, kind, version, token, row, of)
  PROVE  /\ CallsTyped' /\ LeftTyped' /\ NumbersOK'
         /\ calls' = calls \cup {Sent(t, kind, version, token, row, of)}
<1>. DEFINE new == Sent(t, kind, version, token, row, of)
<1>1. calls' = calls \cup {new} /\ Spend("requests")
  BY DEF Sends, Call, Sent
<1>2. LeftTyped' /\ left'.requests = left.requests - 1
  BY <1>1, SpendTyped DEF TypeOK
<1>3. tab[t] \in TabState /\ t \in Tab
  BY DEF Sends, TypeOK, TabsTyped
<1>4. new \in Request /\ Complete(new)
  BY <1>3 DEF Sends, Sent, Request, TabState, Complete, TypeOK, LeftTyped
<1>5. CallsTyped'
  BY <1>1, <1>4 DEF TypeOK, CallsTyped
<1>6. NumbersOK'
  <2>1. new.id = left.requests /\ new.stage = "sent"
    BY DEF Sent
  <2>2. \A c \in calls : c.id \in Nat
    BY DEF TypeOK, CallsTyped, Request
  <2>3. ASSUME NEW r \in DOMAIN draft, r.kind = "action"
        PROVE  /\ r.number \in Nat /\ r.number > left'.requests
               /\ \A c \in calls' : c.stage = "sent" => c.id # r.number
    BY <1>1, <1>2, <2>1, <2>3 DEF NumbersOK, TypeOK, LeftTyped
  <2>. QED
    BY <1>1, <1>2, <2>1, <2>2, <2>3 DEF NumbersOK, TypeOK, LeftTyped
<1>. QED
  BY <1>1, <1>2, <1>5, <1>6

\* A tab that changes has its type if its state has.
LEMMA TabTyped ==
  ASSUME TabsTyped, NEW t \in DOMAIN tab, NEW next \in TabState,
         tab' = [tab EXCEPT ![t] = next]
  PROVE  /\ TabsTyped' /\ DOMAIN tab' = DOMAIN tab /\ tab'[t] = next
         /\ \A u \in DOMAIN tab : u # t => tab'[u] = tab[u]
BY DEF TabsTyped

\* The tab that sends waits for nothing else, or it is freed.
LEMMA SendKeeps ==
  ASSUME IInv, NEW t \in DOMAIN tab, NEW next \in TabState,
         tab' = [tab EXCEPT ![t] = next],
         NEW kind, NEW version, NEW token, NEW row, NEW of,
         Sends(t, kind, version, token, row, of),
         kind = "confirm" => Viewed(draft, shown, t, row),
         UNCHANGED <<draft, posted, price, shown, announced>>,
         freed \subseteq freed',
         next.version = version, tab[t].version <= version,
         PendingViewed(draft, shown, t, token), TabViewed(draft, shown, t, next),
         t \notin freed' => ~tab[t].busy /\ next.busy,
         kind = "confirm" => next.active = row
  PROVE  IInv'
<1>. DEFINE new == Sent(t, kind, version, token, row, of)
<1>1. TabsTyped' /\ DOMAIN tab' = DOMAIN tab /\ tab'[t] = next
      /\ \A u \in DOMAIN tab : u # t => tab'[u] = tab[u]
  BY TabTyped DEF IInv, TypeOK
<1>2. CallsTyped' /\ LeftTyped' /\ NumbersOK' /\ calls' = calls \cup {new}
  BY CallTyped DEF IInv
<1>3. TypeOK'
  BY <1>1, <1>2 DEF IInv, TypeOK, DraftsTyped
<1>4. /\ new.tab = t /\ new.kind = kind /\ new.version = version
      /\ new.token = token /\ new.row = row /\ new.stage = "sent"
  BY DEF Sent
<1>. HIDE DEF new
<1>0. version \in Nat
  BY DEF Sends
<1>5. ShownInv'
  <2>1. CallViewed(draft', shown', new)
    BY <1>4 DEF CallViewed
  <2>2. \A u \in DOMAIN tab' : \/ u \in DOMAIN tab /\ tab'[u] = tab[u]
                               \/ TabViewed(draft', shown', u, tab'[u])
    BY <1>1
  <2>. QED
    BY <1>2, <2>1, <2>2, ShownKept DEF IInv, Grown
<1>6. WaitInv'
  <2>1. \A c \in calls : c.tab = t => c.version \in Nat /\ c.version <= tab[t].version
    BY DEF IInv, WaitInv, Timely, TypeOK, CallsTyped, Request
  <2>2. tab[t].version \in Nat
    BY DEF IInv, TypeOK, TabsTyped, TabState
  <2>3. \A c \in calls' : c.tab = t => Timely(tab', c)
    BY <1>0, <1>1, <1>2, <1>4, <2>1, <2>2 DEF Timely
  <2>4. ASSUME t \notin freed'
        PROVE  \A c \in calls : c.tab = t => ~Live(tab', c) /\ c.kind \notin ByButton
    <3>1. \A c \in calls : c.tab = t => ~Live(tab, c) /\ c.kind \notin ByButton
      BY <2>4 DEF IInv, WaitInv, Steady
    <3>. QED
      BY <1>0, <1>1, <2>1, <2>2, <3>1 DEF Live
  <2>5. ASSUME t \notin freed'
        PROVE  \A c \in calls' : c.tab = t => Steady(tab', calls', c)
    <3>1. Live(tab', new) /\ tab'[t].busy
      BY <1>1, <1>4, <2>5 DEF Live
    <3>2. \A c \in calls : c.tab = t => Steady(tab', calls', c)
      BY <2>4, <2>5 DEF Steady, ByButton
    <3>3. Steady(tab', calls', new)
      BY <1>1, <1>2, <1>4, <2>4, <2>5, <3>1 DEF Steady
    <3>. QED
      BY <1>2, <3>2, <3>3
  <2>6. \A c \in calls' : c.tab # t => c \in calls
    BY <1>2, <1>4
  <2>7. \A u \in DOMAIN tab : u # t => u \in DOMAIN tab' /\ tab'[u] = tab[u]
    BY <1>1
  <2>8. WaitInv
    BY DEF IInv
  <2>. QED
    BY <2>3, <2>5, <2>6, <2>7, <2>8, WaitKept, Zenon
<1>7. PostedInv'
  BY <1>2, <1>4, PostedKept DEF IInv, ConfirmDone
<1>. QED
  BY <1>2, <1>3, <1>5, <1>6, <1>7 DEF IInv

\* The token the tab may send, and what the tab knows.
LEMMA CurrentOwn ==
  ASSUME IInv, NEW t \in DOMAIN tab
  PROVE  /\ tab[t] \in TabState /\ TabViewed(draft, shown, t, tab[t])
         /\ Current(t) \in Token \cup {None}
         /\ PendingViewed(draft, shown, t, Current(t))
<1>1. tab[t] \in TabState /\ TabViewed(draft, shown, t, tab[t])
  BY DEF IInv, TypeOK, TabsTyped, ShownInv
<1>. QED
  BY <1>1 DEF Current, TabViewed, PendingViewed, TabState

\* A message, and what waited for its user is gone.
LEMMA SayKeeps ==
  ASSUME IInv, NEW t \in DOMAIN tab, NEW text \in Messages, Say(t, text)
  PROVE  IInv'
<1>. DEFINE version == tab[t].version + 1
            next == [tab[t] EXCEPT !.token = Current(t), !.active = None, !.ready = None,
                                   !.busy = TRUE, !.voice = FALSE, !.version = version]
<1>0. tab[t] \in TabState /\ TabViewed(draft, shown, t, tab[t])
      /\ Current(t) \in Token \cup {None} /\ PendingViewed(draft, shown, t, Current(t))
  BY CurrentOwn
<1>1. /\ tab' = [tab EXCEPT ![t] = next] /\ ~tab[t].busy
      /\ Call(t, text, version, Current(t), None, None)
      /\ UNCHANGED <<draft, posted, price, shown, announced, freed>>
  BY DEF Say, server
<1>2. version \in Nat /\ tab[t].version <= version
  BY <1>0 DEF TabState
<1>. HIDE DEF version
<1>3. /\ next \in TabState /\ next.version = version /\ next.token = Current(t)
      /\ next.active = None /\ next.busy
  BY <1>0, <1>2 DEF TabState
<1>4. Sends(t, text, version, Current(t), None, None) /\ text # "confirm"
  BY <1>1, <1>2, <1>3, <1>0 DEF Sends, Messages
<1>5. TabViewed(draft, shown, t, next)
  BY <1>3, <1>0 DEF TabViewed
<1>. HIDE DEF next
<1>. QED
  BY <1>1, <1>2, <1>3, <1>4, <1>5, <1>0, SendKeeps

\* A document to be reviewed: what waited for the user goes on waiting.
LEMMA AskReviewKeeps ==
  ASSUME IInv, NEW t \in DOMAIN tab, AskReview(t) PROVE IInv'
<1>. DEFINE version == tab[t].version + 1
            next == [tab[t] EXCEPT !.busy = TRUE, !.voice = FALSE, !.version = version]
<1>0. tab[t] \in TabState /\ TabViewed(draft, shown, t, tab[t])
      /\ Current(t) \in Token \cup {None} /\ PendingViewed(draft, shown, t, Current(t))
  BY CurrentOwn
<1>1. /\ tab' = [tab EXCEPT ![t] = next] /\ ~tab[t].busy
      /\ Call(t, "review", version, None, None, None)
      /\ UNCHANGED <<draft, posted, price, shown, announced, freed>>
  BY DEF AskReview, server
<1>2. version \in Nat /\ tab[t].version <= version
  BY <1>0 DEF TabState
<1>. HIDE DEF version
<1>3. /\ next \in TabState /\ next.version = version /\ next.token = tab[t].token
      /\ next.active = tab[t].active /\ next.busy
  BY <1>0, <1>2 DEF TabState
<1>4. Sends(t, "review", version, None, None, None)
      /\ PendingViewed(draft, shown, t, None)
  BY <1>1, <1>2, <1>3 DEF Sends, PendingViewed
<1>5. TabViewed(draft, shown, t, next)
  BY <1>3, <1>0 DEF TabViewed
<1>. HIDE DEF next
<1>. QED
  BY <1>1, <1>2, <1>3, <1>4, <1>5, SendKeeps

\* The draft of a review, which may be made in a busy tab.
LEMMA PrepareDraftKeeps ==
  ASSUME IInv, NEW t \in DOMAIN tab, PrepareDraft(t) PROVE IInv'
<1>. DEFINE version == tab[t].version
            next == [tab[t] EXCEPT !.busy = TRUE, !.voice = FALSE]
<1>0. tab[t] \in TabState /\ TabViewed(draft, shown, t, tab[t])
      /\ Current(t) \in Token \cup {None} /\ PendingViewed(draft, shown, t, Current(t))
  BY CurrentOwn
<1>1. /\ tab' = [tab EXCEPT ![t] = next] /\ tab[t].review # None
      /\ Call(t, "draft", version, None, None, tab[t].review)
      /\ UNCHANGED <<draft, posted, price, shown, announced>>
      /\ freed' = IF tab[t].busy THEN freed \cup {t} ELSE freed
  BY DEF PrepareDraft, server
<1>2. version \in Nat /\ tab[t].version <= version
  BY <1>0 DEF TabState
<1>3. /\ next \in TabState /\ next.version = version /\ next.token = tab[t].token
      /\ next.active = tab[t].active /\ next.busy
  BY <1>0, <1>2 DEF TabState
<1>4. Sends(t, "draft", version, None, None, tab[t].review)
      /\ PendingViewed(draft, shown, t, None)
  BY <1>1, <1>2, <1>3, <1>0 DEF Sends, PendingViewed, TabState, ByButton
<1>5. TabViewed(draft, shown, t, next)
  BY <1>3, <1>0 DEF TabViewed
<1>6. /\ freed \subseteq freed'
      /\ t \notin freed' => ~tab[t].busy /\ next.busy
      /\ tab' = [tab EXCEPT ![t] = next]
      /\ UNCHANGED <<draft, posted, price, shown, announced>>
  BY <1>1, <1>3
<1>. HIDE DEF version, next
<1>. QED
  <2>1. freed \subseteq freed'
    BY <1>6
  <2>2. next \in TabState /\ next.version = version
    BY <1>3
  <2>. DEFINE kind == "draft"  of == tab[t].review
  <2>3. Sends(t, kind, version, None, None, of) /\ kind # "confirm"
    BY <1>4
  <2>. HIDE DEF kind, of
  <2>. QED
    BY <1>2, <2>1, <2>2, <2>3, <1>4, <1>5, <1>6, SendKeeps

\* The estimate or payment of the last turn, if its token is the tab's.
LEMMA PrepareReadyKeeps ==
  ASSUME IInv, NEW t \in DOMAIN tab, PrepareReady(t) PROVE IInv'
<1>. DEFINE version == tab[t].version + 1
            next == [tab[t] EXCEPT !.busy = TRUE, !.voice = FALSE, !.version = version]
            kind == tab[t].ready.kind
<1>0. tab[t] \in TabState /\ TabViewed(draft, shown, t, tab[t])
      /\ Current(t) \in Token \cup {None} /\ PendingViewed(draft, shown, t, Current(t))
  BY CurrentOwn
<1>1. /\ tab' = [tab EXCEPT ![t] = next] /\ ~tab[t].busy /\ tab[t].ready # None
      /\ Current(t) = tab[t].ready.token
      /\ Call(t, kind, version, Current(t), None, None)
      /\ UNCHANGED <<draft, posted, price, shown, announced, freed>>
  BY DEF PrepareReady, server
<1>2. version \in Nat /\ tab[t].version <= version
  BY <1>0 DEF TabState
<1>. HIDE DEF version
<1>3. /\ next \in TabState /\ next.version = version /\ next.token = tab[t].token
      /\ next.active = tab[t].active /\ next.busy
  BY <1>0, <1>2 DEF TabState
<1>4. kind \in {"estimate", "payment"} /\ Current(t) \in Token
  BY <1>1, <1>0 DEF TabState, Ready
<1>5. Sends(t, kind, version, Current(t), None, None) /\ kind # "confirm"
  BY <1>1, <1>2, <1>3, <1>4 DEF Sends, ByButton
<1>6. TabViewed(draft, shown, t, next)
  BY <1>3, <1>0 DEF TabViewed
<1>. HIDE DEF next, kind
<1>. QED
  BY <1>1, <1>2, <1>3, <1>5, <1>6, <1>0, SendKeeps

\* A confirmation is for the draft that is active.
LEMMA ConfirmKeeps ==
  ASSUME IInv, NEW t \in DOMAIN tab, Confirm(t) PROVE IInv'
<1>. DEFINE version == tab[t].version
            next == [tab[t] EXCEPT !.busy = TRUE, !.voice = FALSE]
            row == tab[t].active
<1>0. tab[t] \in TabState /\ TabViewed(draft, shown, t, tab[t])
      /\ Current(t) \in Token \cup {None} /\ PendingViewed(draft, shown, t, Current(t))
  BY CurrentOwn
<1>1. /\ tab' = [tab EXCEPT ![t] = next] /\ ~tab[t].busy /\ row # None
      /\ Call(t, "confirm", version, None, row, None)
      /\ UNCHANGED <<draft, posted, price, shown, announced, freed>>
  BY DEF Confirm, server
<1>2. version \in Nat /\ tab[t].version <= version
  BY <1>0 DEF TabState
<1>3. /\ next \in TabState /\ next.version = version /\ next.token = tab[t].token
      /\ next.active = row /\ next.busy
  BY <1>0, <1>2 DEF TabState
<1>4. /\ Sends(t, "confirm", version, None, row, None)
      /\ PendingViewed(draft, shown, t, None)
      /\ Viewed(draft, shown, t, row)
  BY <1>1, <1>2, <1>3, <1>0 DEF Sends, PendingViewed, TabState, TabViewed, ByButton
<1>5. TabViewed(draft, shown, t, next)
  BY <1>3, <1>0 DEF TabViewed
<1>. HIDE DEF version, next, row
<1>. QED
  BY <1>1, <1>2, <1>3, <1>4, <1>5, SendKeeps

-----------------------------------------------------------------------------
(* What else the user does *)

\* Another bound than that on requests is spent, or none.
Spares == \/ UNCHANGED left
          \/ \E what : what # "requests" /\ Spend(what)

\* No request is touched.
LEMMA OtherSpent ==
  ASSUME TypeOK, NumbersOK, Spares, UNCHANGED <<calls, draft>>
  PROVE  CallsTyped' /\ LeftTyped' /\ NumbersOK'
<1>1. LeftTyped' /\ left'.requests = left.requests
  <2>1. CASE UNCHANGED left
    BY <2>1 DEF TypeOK, LeftTyped
  <2>2. ASSUME NEW what, what # "requests", Spend(what)
        PROVE  LeftTyped' /\ left'.requests = left.requests
    BY <2>2, SpendTyped DEF TypeOK
  <2>. QED
    BY <2>1, <2>2 DEF Spares
<1>. QED
  BY <1>1 DEF TypeOK, CallsTyped, NumbersOK

\* A tab is changed without asking for anything: it goes on waiting for what it
\* has asked for, or what it has asked for is over.
LEMMA TouchKeeps ==
  ASSUME IInv, NEW t \in DOMAIN tab, NEW next \in TabState,
         tab' = [tab EXCEPT ![t] = next], Spares,
         UNCHANGED <<calls, draft, posted, price, shown, announced>>,
         freed \subseteq freed',
         TabViewed(draft, shown, t, next), tab[t].version <= next.version,
         t \notin freed' =>
           \/ /\ next.version = tab[t].version /\ (tab[t].busy => next.busy)
              /\ next.active \in {None, tab[t].active}
           \/ next.version > tab[t].version /\ ~WorkingIn(t)
           \/ next.version = tab[t].version /\ ~Pending(t)
  PROVE  IInv'
<1>1. TabsTyped' /\ DOMAIN tab' = DOMAIN tab /\ tab'[t] = next
      /\ \A u \in DOMAIN tab : u # t => tab'[u] = tab[u]
  BY TabTyped DEF IInv, TypeOK
<1>2. CallsTyped' /\ LeftTyped' /\ NumbersOK'
  BY OtherSpent DEF IInv
<1>3. TypeOK'
  BY <1>1, <1>2 DEF IInv, TypeOK, DraftsTyped
<1>4. ShownInv'
  BY <1>1, ShownKept DEF IInv, Grown
<1>5. WaitInv'
  <2>1. tab[t].version \in Nat /\ next.version \in Nat
    BY DEF IInv, TypeOK, TabsTyped, TabState
  <2>2. ASSUME NEW c \in calls, c.tab = t
        PROVE  /\ c.version \in Nat /\ c.version <= tab[t].version
               /\ t \notin freed' => Steady(tab, calls, c)
    BY <2>2 DEF IInv, WaitInv, Timely, TypeOK, CallsTyped, Request
  <2>3. ASSUME NEW c \in calls, c.tab = t PROVE Timely(tab', c)
    BY <1>1, <2>1, <2>2, <2>3 DEF Timely
  <2>4. ASSUME NEW c \in calls, c.tab = t, t \notin freed'
        PROVE  Steady(tab', calls, c)
    <3>1. CASE /\ next.version = tab[t].version /\ (tab[t].busy => next.busy)
               /\ next.active \in {None, tab[t].active}
      <4>1. \A d \in calls : d.tab = t => (Live(tab', d) <=> Live(tab, d))
        BY <1>1, <3>1 DEF Live
      <4>. QED
        BY <1>1, <2>2, <2>4, <3>1, <4>1 DEF Steady
    <3>2. CASE next.version > tab[t].version /\ ~WorkingIn(t)
      <4>1. ~Live(tab', c)
        BY <1>1, <2>1, <2>2, <2>4, <3>2 DEF Live
      <4>2. c.kind \notin ByButton
        BY <2>4, <3>2 DEF WorkingIn
      <4>3. c.kind # "confirm"
        BY <4>2 DEF ByButton
      <4>. QED
        BY <4>1, <4>2, <4>3 DEF Steady
    <3>3. CASE next.version = tab[t].version /\ ~Pending(t)
      <4>1. c.kind \notin ByButton /\ c.version # tab[t].version
        BY <2>4, <3>3 DEF Pending, WorkingIn
      <4>2. ~Live(tab', c)
        BY <1>1, <2>4, <3>3, <4>1 DEF Live
      <4>3. c.kind # "confirm"
        BY <4>1 DEF ByButton
      <4>. QED
        BY <4>1, <4>2, <4>3 DEF Steady
    <3>. QED
      BY <2>4, <3>1, <3>2, <3>3
  <2>5. \A c \in calls' : c.tab = t =>
          Timely(tab', c) /\ (t \notin freed' => Steady(tab', calls', c))
    BY <2>3, <2>4
  <2>6. /\ \A u \in DOMAIN tab : u # t => u \in DOMAIN tab' /\ tab'[u] = tab[u]
        /\ \A c \in calls' : c.tab # t => c \in calls
        /\ WaitInv
    BY <1>1 DEF IInv
  <2>. QED
    BY <2>5, <2>6, WaitKept, Zenon
<1>6. PostedInv'
  BY PostedKept DEF IInv
<1>. QED
  BY <1>2, <1>3, <1>4, <1>5, <1>6 DEF IInv

\* Whatever makes a tab idle frees it, if anything was under way in it.
LEMMA FreesKeeps ==
  ASSUME IInv, NEW t \in DOMAIN tab, NEW next \in TabState, Frees(t, next), Spares,
         UNCHANGED <<calls, draft, posted, price, shown, announced>>,
         next.version = tab[t].version, TabViewed(draft, shown, t, next)
  PROVE  IInv'
<1>. DEFINE idle == [next EXCEPT !.busy = FALSE]
<1>1. /\ tab' = [tab EXCEPT ![t] = idle] /\ freed \subseteq freed'
      /\ t \notin freed' => ~Pending(t)
  BY DEF Frees
<1>2. /\ idle \in TabState /\ idle.version = tab[t].version
      /\ idle.token = next.token /\ idle.active = next.active
  BY DEF TabState
<1>3. TabViewed(draft, shown, t, idle)
  BY <1>2 DEF TabViewed
<1>4. tab[t].version <= idle.version
  BY <1>2 DEF TabState
<1>. HIDE DEF idle
<1>. QED
  BY <1>1, <1>2, <1>3, <1>4, TouchKeeps

LEMMA StumbleKeeps ==
  ASSUME IInv, NEW t \in DOMAIN tab, Stumble(t) PROVE IInv'
<1>1. tab[t] \in TabState /\ TabViewed(draft, shown, t, tab[t])
  BY CurrentOwn
<1>2. /\ Frees(t, tab[t]) /\ Spares
      /\ UNCHANGED <<calls, draft, posted, price, shown, announced>>
  <2>1. Spend("strays") /\ "strays" # "requests"
    BY DEF Stumble
  <2>. QED
    BY <2>1 DEF Stumble, server, Spares
<1>. QED
  BY <1>1, <1>2, FreesKeeps

\* What a button changes that works at any time.
LEMMA StrayKeeps ==
  ASSUME IInv, NEW t \in DOMAIN tab, NEW next \in TabState, Stray(t, next),
         freed' = freed, TabViewed(draft, shown, t, next),
         next.version = tab[t].version, tab[t].busy => next.busy,
         next.active \in {None, tab[t].active}
  PROVE  IInv'
<1>0. Spares
  BY DEF Stray, Spares
<1>1. /\ tab' = [tab EXCEPT ![t] = next] /\ Spend("strays")
      /\ UNCHANGED <<calls, draft, posted, price, shown, announced>>
      /\ freed \subseteq freed'
  BY DEF Stray, server
<1>2. tab[t].version <= next.version
  BY DEF TabState
<1>. QED
  BY <1>0, <1>1, <1>2, TouchKeeps

LEMMA CancelKeeps ==
  ASSUME IInv, NEW t \in DOMAIN tab,
         Cancel(t) \/ CancelReview(t) \/ Clear(t) \/ Switch(t)
  PROVE  IInv'
<1>1. tab[t] \in TabState /\ TabViewed(draft, shown, t, tab[t])
  BY CurrentOwn
<1>2. CASE Cancel(t)
  <2>. DEFINE next == [tab[t] EXCEPT !.active = None]
  <2>1. Stray(t, next) /\ freed' = freed
    BY <1>2 DEF Cancel
  <2>2. /\ next \in TabState /\ next.version = tab[t].version /\ next.busy = tab[t].busy
        /\ next.token = tab[t].token /\ next.active = None
    BY <1>1 DEF TabState
  <2>3. TabViewed(draft, shown, t, next)
    BY <1>1, <2>2 DEF TabViewed
  <2>. HIDE DEF next
  <2>. QED
    BY <2>1, <2>2, <2>3, StrayKeeps
<1>3. CASE CancelReview(t)
  <2>. DEFINE next == [tab[t] EXCEPT !.review = None]
  <2>1. Stray(t, next) /\ freed' = freed
    BY <1>3 DEF CancelReview
  <2>2. /\ next \in TabState /\ next.version = tab[t].version /\ next.busy = tab[t].busy
        /\ next.token = tab[t].token /\ next.active = tab[t].active
    BY <1>1 DEF TabState
  <2>3. TabViewed(draft, shown, t, next)
    BY <1>1, <2>2 DEF TabViewed
  <2>. HIDE DEF next
  <2>. QED
    BY <2>1, <2>2, <2>3, StrayKeeps
<1>4. CASE Clear(t)
  <2>. DEFINE next == [tab[t] EXCEPT !.token = None]
  <2>1. Stray(t, next) /\ freed' = freed
    BY <1>4 DEF Clear
  <2>2. /\ next \in TabState /\ next.version = tab[t].version /\ next.busy = tab[t].busy
        /\ next.token = None /\ next.active = tab[t].active
    BY <1>1 DEF TabState
  <2>3. TabViewed(draft, shown, t, next)
    BY <1>1, <2>2 DEF TabViewed, PendingViewed
  <2>. HIDE DEF next
  <2>. QED
    BY <2>1, <2>2, <2>3, StrayKeeps
<1>5. CASE Switch(t)
  <2>0. PICK s \in Scope : Stray(t, [tab[t] EXCEPT !.scope = s])
    BY <1>5 DEF Switch
  <2>. DEFINE next == [tab[t] EXCEPT !.scope = s]
  <2>1. Stray(t, next) /\ freed' = freed
    BY <1>5, <2>0 DEF Switch
  <2>2. /\ next \in TabState /\ next.version = tab[t].version /\ next.busy = tab[t].busy
        /\ next.token = tab[t].token /\ next.active = tab[t].active
    BY <1>1 DEF TabState
  <2>3. TabViewed(draft, shown, t, next)
    BY <1>1, <2>2 DEF TabViewed
  <2>. HIDE DEF next
  <2>. QED
    BY <2>1, <2>2, <2>3, StrayKeeps
<1>. QED
  BY <1>2, <1>3, <1>4, <1>5

LEMMA UnansweredNat ==
  ASSUME IInv, NEW t \in DOMAIN tab PROVE Unanswered(t) \in Nat
<1>1. tab[t] \in TabState
  BY CurrentOwn
<1>. QED
  BY <1>1 DEF TabState, Unanswered

\* Whoever signs out starts anew, and what was asked for before is over.
LEMMA SignOutKeeps ==
  ASSUME IInv, NEW t \in DOMAIN tab, SignOut(t) PROVE IInv'
<1>1. tab[t] \in TabState
  BY CurrentOwn
<1>2. PICK s \in Scope : Stray(t, [NewTab(s) EXCEPT !.version = tab[t].version + 1,
                                                   !.late = Unanswered(t)])
  BY DEF SignOut
<1>. DEFINE version == tab[t].version + 1
            next == [NewTab(s) EXCEPT !.version = version, !.late = Unanswered(t)]
<1>3. NewTab(s) \in TabState /\ NewTab(s).token = None /\ NewTab(s).active = None
  BY DEF NewTab, TabState
<1>4. /\ tab' = [tab EXCEPT ![t] = next] /\ Spares
      /\ UNCHANGED <<calls, draft, posted, price, shown, announced>>
      /\ freed \subseteq freed'
      /\ t \notin freed' => ~WorkingIn(t)
  BY <1>2 DEF Stray, server, SignOut, Spares
<1>5. version \in Nat /\ version > tab[t].version /\ tab[t].version <= version
  BY <1>1 DEF TabState
<1>. HIDE DEF version
<1>6. /\ next \in TabState /\ next.version = version /\ next.token = None
      /\ next.active = None
  BY <1>1, <1>3, <1>5, UnansweredNat DEF TabState
<1>7. TabViewed(draft, shown, t, next)
  BY <1>6 DEF TabViewed, PendingViewed
<1>. HIDE DEF next
<1>. QED
  BY <1>4, <1>5, <1>6, <1>7, TouchKeeps

-----------------------------------------------------------------------------
(* The voice recorder *)

\* What the recorder changes of a tab leaves the conversation alone.
LEMMA RecorderState ==
  ASSUME IInv, NEW t \in DOMAIN tab, NEW late \in Nat,
         NEW mic \in {"off", "asked", "recording", "stopping"}
  PROVE  LET next == [tab[t] EXCEPT !.mic = mic, !.late = late] IN
         /\ next \in TabState /\ next.version = tab[t].version
         /\ next.active = tab[t].active /\ next.busy = tab[t].busy
         /\ TabViewed(draft, shown, t, next)
<1>. DEFINE next == [tab[t] EXCEPT !.mic = mic, !.late = late]
<1>1. tab[t] \in TabState /\ TabViewed(draft, shown, t, tab[t])
  BY CurrentOwn
<1>2. /\ next \in TabState /\ next.version = tab[t].version
      /\ next.active = tab[t].active /\ next.busy = tab[t].busy
      /\ next.token = tab[t].token
  BY <1>1 DEF TabState
<1>3. TabViewed(draft, shown, t, next)
  BY <1>1, <1>2 DEF TabViewed
<1>. QED
  BY <1>2, <1>3

\* The recorder makes the tab idle, or leaves it as it is.
LEMMA MicKeeps ==
  ASSUME IInv, NEW t \in DOMAIN tab, NEW late \in Nat,
         NEW mic \in {"off", "asked", "recording", "stopping"},
         LET next == [tab[t] EXCEPT !.mic = mic, !.late = late] IN
           Frees(t, next) \/ (tab' = [tab EXCEPT ![t] = next] /\ UNCHANGED freed),
         Spares, UNCHANGED <<calls, draft, posted, price, shown, announced>>
  PROVE  IInv'
<1>. DEFINE next == [tab[t] EXCEPT !.mic = mic, !.late = late]
<1>1. /\ next \in TabState /\ next.version = tab[t].version
      /\ next.active = tab[t].active /\ next.busy = tab[t].busy
      /\ TabViewed(draft, shown, t, next)
  BY RecorderState
<1>2. Frees(t, next) \/ (tab' = [tab EXCEPT ![t] = next] /\ freed' = freed)
  OBVIOUS
<1>. HIDE DEF next
<1>3. CASE Frees(t, next)
  BY <1>1, <1>3, FreesKeeps
<1>4. CASE tab' = [tab EXCEPT ![t] = next] /\ freed' = freed
  <2>1. tab[t].version <= next.version
    BY <1>1 DEF TabState
  <2>2. freed \subseteq freed'
    BY <1>4
  <2>. QED
    BY <1>1, <1>4, <2>1, <2>2, TouchKeeps
<1>. QED
  BY <1>2, <1>3, <1>4

LEMMA RecordKeeps ==
  ASSUME IInv, NEW t \in DOMAIN tab, Record(t) PROVE IInv'
<1>. DEFINE next == [tab[t] EXCEPT !.mic = "asked", !.late = Unanswered(t),
                                   !.busy = TRUE, !.voice = TRUE]
<1>1. tab[t] \in TabState /\ TabViewed(draft, shown, t, tab[t])
  BY CurrentOwn
<1>2. Stray(t, next) /\ freed' = freed
  BY DEF Record
<1>3. /\ next \in TabState /\ next.version = tab[t].version /\ next.busy
      /\ next.token = tab[t].token /\ next.active = tab[t].active
  BY <1>1, UnansweredNat DEF TabState
<1>4. TabViewed(draft, shown, t, next)
  BY <1>1, <1>3 DEF TabViewed
<1>. HIDE DEF next
<1>. QED
  BY <1>2, <1>3, <1>4, StrayKeeps

LEMMA RecorderKeeps ==
  ASSUME IInv, NEW t \in DOMAIN tab, Close(t) \/ Recorder(t) PROVE IInv'
<1>. DEFINE Shift(mic, late) == [tab[t] EXCEPT !.mic = mic, !.late = late]
            Kept(mic, late) == tab' = [tab EXCEPT ![t] = Shift(mic, late)] /\ freed' = freed
<1>1. tab[t] \in TabState /\ tab[t].late \in Nat /\ Unanswered(t) \in Nat
      /\ (tab[t].late > 0 => tab[t].late - 1 \in Nat)
  BY CurrentOwn, UnansweredNat DEF TabState
<1>2. Spares /\ UNCHANGED <<calls, draft, posted, price, shown, announced>>
  BY DEF Close, Recorder, server, Spares
<1>3. /\ \A mic : [tab[t] EXCEPT !.mic = mic] = Shift(mic, tab[t].late)
      /\ \A late : [tab[t] EXCEPT !.late = late] = Shift(tab[t].mic, late)
  BY <1>1 DEF TabState
<1>4. \E mic \in {"off", "asked", "recording", "stopping"}, late \in Nat :
        Frees(t, Shift(mic, late)) \/ Kept(mic, late)
  <2>0. tab[t].mic \in {"off", "asked", "recording", "stopping"}
    BY <1>1 DEF TabState
  <2>1. CASE Close(t)
    <3>1. Frees(t, Shift("off", tab[t].late)) \/ Kept("off", Unanswered(t))
      BY <1>3, <2>1 DEF Close
    <3>. HIDE DEF Shift, Kept
    <3>. QED
      BY <1>1, <3>1
  <2>2. CASE Granted(t)
    <3>1. \/ Frees(t, Shift("recording", tab[t].late))
          \/ tab[t].late > 0 /\ Kept(tab[t].mic, tab[t].late - 1)
      BY <1>3, <2>2 DEF Granted
    <3>. HIDE DEF Shift, Kept
    <3>. QED
      BY <1>1, <2>0, <3>1
  <2>3. CASE Denied(t)
    <3>1. \/ Frees(t, Shift("off", tab[t].late))
          \/ tab[t].late > 0 /\ Frees(t, Shift(tab[t].mic, tab[t].late - 1))
      BY <1>3, <2>3 DEF Denied
    <3>. HIDE DEF Shift, Kept
    <3>. QED
      BY <1>1, <2>0, <3>1
  <2>4. CASE StopRecording(t)
    <3>1. Kept("stopping", tab[t].late)
      BY <1>3, <2>4 DEF StopRecording
    <3>. HIDE DEF Shift, Kept
    <3>. QED
      BY <1>1, <3>1
  <2>5. CASE Stopped(t)
    <3>1. Frees(t, Shift("off", tab[t].late))
      BY <1>3, <2>5 DEF Stopped
    <3>. HIDE DEF Shift, Kept
    <3>. QED
      BY <1>1, <3>1
  <2>. QED
    BY <2>1, <2>2, <2>3, <2>4, <2>5 DEF Recorder
<1>. QED
  BY <1>2, <1>4, MicKeeps

-----------------------------------------------------------------------------
(* The API answers *)

Replied(c, answer) == [c EXCEPT !.stage = "served", !.answer = answer]
Failed(c) == [c EXCEPT !.stage = "failed"]
\* The request c becomes e, which is the same request, answered or failed.
Becomes(c, e) ==
  /\ calls' = (calls \ {c}) \cup {e}
  /\ e \in Request /\ Complete(e) /\ e.stage # "sent"
  /\ e.id = c.id /\ e.tab = c.tab /\ e.kind = c.kind /\ e.version = c.version
  /\ e.token = c.token /\ e.row = c.row

\* An answer of the type its kind needs is given.
LEMMA ReplyBecomes ==
  ASSUME TypeOK, NEW c \in calls, NEW answer \in Given,
         c.kind = "review" => answer.plan \in Content,
         answer.view # "none" => answer.token \in Token,
         Reply(c, answer)
  PROVE  /\ Becomes(c, Replied(c, answer))
         /\ Replied(c, answer).stage = "served" /\ Replied(c, answer).answer = answer
<1>. DEFINE e == Replied(c, answer)
<1>1. c \in Request /\ Complete(c)
  BY DEF TypeOK, CallsTyped
<1>2. /\ e \in Request /\ e.stage = "served" /\ e.answer = answer
      /\ e.id = c.id /\ e.tab = c.tab /\ e.kind = c.kind /\ e.version = c.version
      /\ e.token = c.token /\ e.row = c.row
  BY <1>1 DEF Replied, Request
<1>3. calls' = (calls \ {c}) \cup {e}
  BY DEF Reply, Replied
<1>. HIDE DEF e
<1>4. Complete(e)
  BY <1>1, <1>2 DEF Complete
<1>5. Becomes(c, e)
  BY <1>2, <1>3, <1>4 DEF Becomes
<1>. QED
  BY <1>2, <1>5 DEF e

LEMMA FailBecomes ==
  ASSUME TypeOK, NEW c \in calls, Fail(c)
  PROVE  Becomes(c, Failed(c)) /\ Failed(c).stage = "failed"
<1>. DEFINE e == Failed(c)
<1>1. c \in Request /\ Complete(c)
  BY DEF TypeOK, CallsTyped
<1>2. /\ e \in Request /\ e.stage = "failed"
      /\ e.id = c.id /\ e.tab = c.tab /\ e.kind = c.kind /\ e.version = c.version
      /\ e.token = c.token /\ e.row = c.row
  BY <1>1 DEF Failed, Request
<1>3. calls' = (calls \ {c}) \cup {e}
  BY DEF Fail, Failed
<1>. HIDE DEF e
<1>4. Complete(e)
  BY <1>1, <1>2 DEF Complete
<1>5. Becomes(c, e)
  BY <1>2, <1>3, <1>4 DEF Becomes
<1>. QED
  BY <1>2, <1>5 DEF e

\* What has to hold of an answer, and of what was stored and posted for it.
LEMMA BecomeKeeps ==
  ASSUME IInv, NEW c \in calls, NEW e, Becomes(c, e),
         UNCHANGED <<tab, left, price, shown, announced, freed>>,
         DraftsTyped', Grown(draft, draft', shown, shown'),
         \A r \in DOMAIN draft' :
           r \in DOMAIN draft \/ (r.kind = "action" => r.number = c.id),
         e.stage = "served" => AnswerSound(draft', shown', e),
         posted \subseteq posted', ConfirmDone(posted', e),
         \A p \in posted' : p \in posted \/ p \in shown',
         \A r \in DOMAIN draft' : draft'[r].status = "EXECUTED" =>
           \/ r \in DOMAIN draft /\ draft[r].status = "EXECUTED"
           \/ IsPosted(posted', r)
  PROVE  IInv'
<1>1. TypeOK'
  BY DEF IInv, TypeOK, TabsTyped, CallsTyped, LeftTyped, Becomes
<1>2. NumbersOK'
  <2>1. \A d \in calls' : /\ d.id > left.requests
                          /\ \A f \in calls' : d.id = f.id => d = f
    BY DEF IInv, NumbersOK, Becomes
  <2>2. ASSUME NEW r \in DOMAIN draft', r.kind = "action"
        PROVE  /\ r.number \in Nat /\ r.number > left.requests
               /\ \A d \in calls' : d.stage = "sent" => d.id # r.number
    <3>1. CASE r \in DOMAIN draft
      BY <2>2, <3>1 DEF IInv, NumbersOK, Becomes
    <3>2. CASE r.number = c.id
      <4>1. c.id \in Nat
        BY DEF IInv, TypeOK, CallsTyped, Request
      <4>. QED
        BY <3>2, <4>1 DEF IInv, NumbersOK, Becomes
    <3>. QED
      BY <2>2, <3>1, <3>2
  <2>. QED
    BY <2>1, <2>2 DEF NumbersOK
<1>3. ShownInv'
  <2>1. CallViewed(draft, shown, c)
    BY DEF IInv, ShownInv
  <2>2. PendingViewed(draft', shown', c.tab, c.token)
        /\ (c.kind = "confirm" => Viewed(draft', shown', c.tab, c.row))
    BY <2>1 DEF CallViewed, PendingViewed, Viewed, Grown
  <2>3. CallViewed(draft', shown', e)
    BY <2>2 DEF CallViewed, Becomes, Request
  <2>4. \A d \in calls' : d \in calls \/ CallViewed(draft', shown', d)
    BY <2>3 DEF Becomes
  <2>. QED
    BY <2>4, ShownKept DEF IInv
<1>4. WaitInv'
  <2>1. \A d \in calls' : \/ d \in calls /\ d # c
                          \/ d = e
    BY DEF Becomes
  <2>2. Timely(tab, e) /\ (Live(tab, e) <=> Live(tab, c))
    BY DEF IInv, WaitInv, Timely, Live, Becomes
  <2>3. ASSUME NEW d \in calls', d.tab \notin freed PROVE Steady(tab, calls', d)
    <3>1. Steady(tab, calls, IF d = e THEN c ELSE d)
      BY <2>1, <2>3 DEF IInv, WaitInv, Becomes
    <3>. QED
      BY <2>1, <2>2, <3>1 DEF Steady, Becomes, Live
  <2>. QED
    BY <2>1, <2>2, <2>3 DEF IInv, WaitInv
<1>5. PostedInv'
  <2>1. \A d \in calls' : d \in calls \/ ConfirmDone(posted', d)
    BY DEF Becomes
  <2>. QED
    BY <2>1, PostedKept DEF IInv
<1>. QED
  BY <1>1, <1>2, <1>3, <1>4, <1>5 DEF IInv

\* What is posted is what was shown: its price is the price now, or it has none.
LEMMA ExecuteKeeps ==
  ASSUME IInv, NEW c \in calls, NEW row, Viewed(draft, shown, c.tab, row),
         NEW answer \in Given, c.kind # "review", answer.view = "none",
         \A D, S : AnswerSound(D, S, Replied(c, answer)),
         c.kind = "confirm" => c.row = row,
         Execute(c, row, answer),
         UNCHANGED <<tab, left, price, shown, announced, freed>>
  PROVE  IInv'
<1>1. /\ row \in DOMAIN draft /\ draft[row] \in [plan : Content, status : Status]
      /\ <<c.tab, row, draft[row].plan>> \in shown
  BY DEF Viewed, IInv, TypeOK, DraftsTyped
<1>2. ASSUME NEW status \in Status, draft' = [draft EXCEPT ![row].status = status]
      PROVE  /\ DraftsTyped' /\ DOMAIN draft' = DOMAIN draft
             /\ \A r \in DOMAIN draft : draft'[r].plan = draft[r].plan
             /\ \A r \in DOMAIN draft : r # row => draft'[r] = draft[r]
             /\ draft'[row].status = status
  BY <1>1, <1>2 DEF IInv, TypeOK, DraftsTyped
<1>3. Reply(c, answer) => /\ Becomes(c, Replied(c, answer))
                          /\ Replied(c, answer).stage = "served"
  BY ReplyBecomes DEF IInv
<1>4. Fail(c) => /\ Becomes(c, Failed(c)) /\ Failed(c).stage = "failed"
                 /\ ConfirmDone(posted', Failed(c))
  BY FailBecomes DEF IInv, ConfirmDone
<1>5. CASE draft[row].status = "DRAFT" /\ Approved(draft[row].plan) /\ Reply(c, answer)
           /\ draft' = [draft EXCEPT ![row].status = "EXECUTED"]
           /\ posted' = posted \cup
                {<<c.tab, row,
                   IF draft[row].plan.price = 0 THEN draft[row].plan
                   ELSE [draft[row].plan EXCEPT !.price = price]>>}
  <2>1. [draft[row].plan EXCEPT !.price = price] = draft[row].plan
        \/ draft[row].plan.price = 0
    BY <1>1, <1>5 DEF Approved, Content
  <2>2. posted' = posted \cup {<<c.tab, row, draft[row].plan>>}
    BY <1>5, <2>1
  <2>3. IsPosted(posted', row)
    <3>. DEFINE p == <<c.tab, row, draft[row].plan>>
    <3>1. p[2] = row /\ p \in posted'
      BY <2>2
    <3>. HIDE DEF p
    <3>. QED
      BY <3>1 DEF IsPosted
  <2>4. /\ DraftsTyped' /\ DOMAIN draft' = DOMAIN draft
        /\ \A r \in DOMAIN draft : draft'[r].plan = draft[r].plan
        /\ \A r \in DOMAIN draft : r # row => draft'[r] = draft[r]
    BY <1>2, <1>5 DEF Status
  <2>5. ConfirmDone(posted', Replied(c, answer))
    BY <1>3, <1>5, <2>3 DEF ConfirmDone, Becomes
  <2>6. Grown(draft, draft', shown, shown')
    BY <2>4 DEF Grown
  <2>7. \A r \in DOMAIN draft' : draft'[r].status = "EXECUTED" =>
           \/ r \in DOMAIN draft /\ draft[r].status = "EXECUTED"
           \/ IsPosted(posted', r)
    BY <2>3, <2>4
  <2>8. posted \subseteq posted' /\ \A p \in posted' : p \in posted \/ p \in shown'
    BY <1>1, <2>2
  <2>. QED
    BY <1>3, <1>5, <2>4, <2>5, <2>6, <2>7, <2>8, BecomeKeeps
<1>6. CASE draft' = [draft EXCEPT ![row].status = "FAILED"] /\ posted' = posted /\ Fail(c)
  <2>1. /\ DraftsTyped' /\ DOMAIN draft' = DOMAIN draft
        /\ \A r \in DOMAIN draft : draft'[r].plan = draft[r].plan
        /\ \A r \in DOMAIN draft : r # row => draft'[r] = draft[r]
        /\ draft'[row].status = "FAILED"
    BY <1>2, <1>6 DEF Status
  <2>2. Grown(draft, draft', shown, shown')
    BY <2>1 DEF Grown
  <2>. QED
    BY <1>4, <1>6, <2>1, <2>2, BecomeKeeps
<1>7. CASE /\ draft[row].status # "DRAFT" /\ draft' = draft /\ posted' = posted
           /\ IF draft[row].status = "EXECUTED" THEN Reply(c, answer) ELSE Fail(c)
  <2>1. DraftsTyped' /\ Grown(draft, draft', shown, shown')
    BY <1>7 DEF IInv, TypeOK, DraftsTyped, Grown
  <2>2. CASE Fail(c)
    BY <1>4, <1>7, <2>1, <2>2, BecomeKeeps
  <2>3. CASE draft[row].status = "EXECUTED" /\ Reply(c, answer)
    <3>1. IsPosted(posted', row)
      BY <1>1, <1>7, <2>3 DEF IInv, PostedInv
    <3>2. ConfirmDone(posted', Replied(c, answer))
      BY <1>3, <2>3, <3>1 DEF ConfirmDone, Becomes
    <3>. QED
      BY <1>3, <1>7, <2>1, <2>3, <3>2, BecomeKeeps
  <2>. QED
    BY <1>7, <2>2, <2>3
<1>. QED
  BY <1>5, <1>6, <1>7 DEF Execute

\* A request that is answered or fails without any trace at the server.
LEMMA QuietKeeps ==
  ASSUME IInv, NEW c \in calls, NEW e, Becomes(c, e),
         UNCHANGED <<tab, left, price, shown, announced, freed, draft, posted>>,
         e.stage = "served" => c.kind # "confirm" /\ AnswerSound(draft, shown, e)
  PROVE  IInv'
<1>1. DraftsTyped' /\ Grown(draft, draft', shown, shown')
  BY DEF IInv, TypeOK, DraftsTyped, Grown
<1>2. ConfirmDone(posted', e)
  BY DEF ConfirmDone, Becomes
<1>. QED
  BY <1>1, <1>2, BecomeKeeps

LEMMA AnswerFields ==
  ASSUME NEW token, NEW row, NEW plan, NEW view
  PROVE  LET a == Answer(token, row, plan, view) IN
         /\ a.token = token /\ a.row = row /\ a.plan = plan /\ a.view = view
         /\ token \in Token \cup {None} /\ row \in Row \cup {None}
              /\ plan \in Content \cup {None} /\ view \in {"none", "draft", "payment"}
            => a \in Given
BY DEF Answer, Given

\* A token that starts a conversation proposes nothing.
LEMMA OpeningOwn ==
  ASSUME IInv, NEW c \in calls
  PROVE  /\ Opening(c) \in Token
         /\ Opening(c).pending # None => Viewed(draft, shown, c.tab, Opening(c).pending)
<1>1. c \in Request /\ PendingViewed(draft, shown, c.tab, c.token)
  BY DEF IInv, TypeOK, CallsTyped, ShownInv, CallViewed
<1>2. CASE c.token # None
  BY <1>1, <1>2 DEF Opening, Request, PendingViewed
<1>3. CASE c.token = None
  BY <1>1, <1>3 DEF Opening, Request, Token
<1>. QED
  BY <1>2, <1>3

\* A confirmation by message, and one by the button of the card.
LEMMA ServeYesKeeps ==
  ASSUME IInv, NEW c \in calls, ServeYes(c),
         UNCHANGED <<tab, left, price, shown, announced, freed>>
  PROVE  IInv'
<1>. DEFINE said == [Opening(c) EXCEPT !.pending = None]
            answer == Answer(said, None, None, "none")
<1>1. /\ c.kind = "yes"
      /\ \/ Reply(c, answer) /\ UNCHANGED <<draft, posted>>
         \/ /\ Opening(c).pending # None
            /\ Execute(c, Opening(c).pending, answer)
  BY DEF ServeYes, server
<1>2. said \in Token /\ said.pending = None
  BY OpeningOwn DEF Token
<1>. HIDE DEF said
<1>3. answer \in Given /\ answer.token = said /\ answer.row = None /\ answer.view = "none"
  BY <1>2, AnswerFields
<1>. HIDE DEF answer
<1>4. ASSUME NEW D, NEW S PROVE AnswerSound(D, S, Replied(c, answer))
  <2>1. Replied(c, answer).answer = answer
    BY DEF Replied, IInv, TypeOK, CallsTyped, Request
  <2>. QED
    BY <1>2, <1>3, <2>1 DEF AnswerSound
<1>5. CASE Reply(c, answer) /\ UNCHANGED <<draft, posted>>
  <2>1. Becomes(c, Replied(c, answer))
    BY <1>1, <1>3, <1>5, ReplyBecomes DEF IInv
  <2>. QED
    BY <1>1, <1>4, <1>5, <2>1, QuietKeeps
<1>6. CASE Opening(c).pending # None /\ Execute(c, Opening(c).pending, answer)
  BY <1>1, <1>3, <1>4, <1>6, OpeningOwn, ExecuteKeeps
<1>. QED
  BY <1>1, <1>5, <1>6

LEMMA ServeConfirmKeeps ==
  ASSUME IInv, NEW c \in calls, ServeConfirm(c),
         UNCHANGED <<tab, left, price, shown, announced, freed>>
  PROVE  IInv'
<1>. DEFINE answer == Answer(None, c.row, None, "none")
<1>1. c.kind = "confirm" /\ Execute(c, c.row, answer)
  BY DEF ServeConfirm
<1>2. c \in Request /\ Viewed(draft, shown, c.tab, c.row)
  BY <1>1 DEF IInv, TypeOK, CallsTyped, ShownInv, CallViewed
<1>3. answer \in Given /\ answer.token = None /\ answer.row = c.row /\ answer.view = "none"
  BY <1>2, AnswerFields DEF Request
<1>. HIDE DEF answer
<1>4. ASSUME NEW D, NEW S PROVE AnswerSound(D, S, Replied(c, answer))
  <2>1. Replied(c, answer).answer = answer /\ Replied(c, answer).kind = "confirm"
    BY <1>1, <1>2 DEF Replied, Request
  <2>. QED
    BY <1>3, <2>1 DEF AnswerSound
<1>. QED
  BY <1>1, <1>2, <1>3, <1>4, ExecuteKeeps

\* A draft that is stored is new and holds what it is stored with.
LEMMA StoreNew ==
  ASSUME DraftsTyped, NEW row, row \notin DOMAIN draft, NEW plan \in Content,
         Store(row, plan)
  PROVE  /\ DraftsTyped' /\ DOMAIN draft' = DOMAIN draft \cup {row}
         /\ Grown(draft, draft', shown, shown)
         /\ draft'[row].plan = plan
         /\ \A r \in DOMAIN draft' : draft'[r].status = "EXECUTED" =>
              r \in DOMAIN draft /\ draft[r].status = "EXECUTED"
<1>. DEFINE new == [plan |-> plan, status |-> "DRAFT"]
<1>1. new \in [plan : Content, status : Status] /\ new.plan = plan
      /\ new.status # "EXECUTED"
  BY DEF Status
<1>2. draft' = [r \in DOMAIN draft \cup {row} |-> IF r = row THEN new ELSE draft[r]]
  BY DEF Store, Put
<1>. HIDE DEF new
<1>3. /\ DOMAIN draft' = DOMAIN draft \cup {row} /\ draft'[row] = new
      /\ \A r \in DOMAIN draft : r # row /\ draft'[r] = draft[r]
  BY <1>2
<1>4. draft' \in [DOMAIN draft' -> [plan : Content, status : Status]]
  BY <1>1, <1>2, <1>3 DEF DraftsTyped
<1>. QED
  BY <1>1, <1>3, <1>4 DEF DraftsTyped, Grown

\* A draft is stored under its key, or is there with the same content.
LEMMA PersistKeeps ==
  ASSUME IInv, NEW c \in calls, c.kind \notin {"confirm", "review"},
         NEW row \in Row, row.kind # "action", NEW plan \in Content,
         Persist(c, row, plan, Answer(None, row, plan, "none")),
         UNCHANGED <<tab, left, price, shown, announced, freed, posted>>
  PROVE  IInv'
<1>. DEFINE answer == Answer(None, row, plan, "none")
<1>1. /\ answer \in Given /\ answer.token = None /\ answer.row = row
      /\ answer.plan = plan /\ answer.view = "none"
  BY AnswerFields
<1>2. Persist(c, row, plan, answer)
  OBVIOUS
<1>. HIDE DEF answer
<1>3. Reply(c, answer) => /\ Becomes(c, Replied(c, answer))
                          /\ Replied(c, answer).answer = answer
                          /\ ConfirmDone(posted', Replied(c, answer))
  BY <1>1, ReplyBecomes DEF IInv, ConfirmDone, Becomes
<1>4. Fail(c) => Becomes(c, Failed(c)) /\ Failed(c).stage = "failed"
  BY FailBecomes DEF IInv
<1>5. CASE row \notin DOMAIN draft /\ Store(row, plan) /\ Reply(c, answer)
  <2>1. /\ DraftsTyped' /\ DOMAIN draft' = DOMAIN draft \cup {row}
        /\ Grown(draft, draft', shown, shown')
        /\ draft'[row].plan = plan
        /\ \A r \in DOMAIN draft' : draft'[r].status = "EXECUTED" =>
             r \in DOMAIN draft /\ draft[r].status = "EXECUTED"
    BY <1>5, StoreNew DEF IInv, TypeOK
  <2>2. AnswerSound(draft', shown', Replied(c, answer))
    BY <1>1, <1>3, <1>5, <2>1 DEF AnswerSound
  <2>3. \A r \in DOMAIN draft' :
          r \in DOMAIN draft \/ (r.kind = "action" => r.number = c.id)
    BY <2>1
  <2>. QED
    BY <1>3, <1>5, <2>1, <2>2, <2>3, BecomeKeeps
<1>6. CASE row \in DOMAIN draft /\ draft[row].plan = plan /\ Reply(c, answer)
           /\ draft' = draft
  <2>1. AnswerSound(draft, shown, Replied(c, answer))
    BY <1>1, <1>3, <1>6 DEF AnswerSound
  <2>. QED
    BY <1>3, <1>6, <2>1, QuietKeeps
<1>7. CASE Fail(c) /\ draft' = draft
  BY <1>4, <1>7, QuietKeeps
<1>. QED
  BY <1>2, <1>5, <1>6, <1>7 DEF Persist

LEMMA ServeStoredKeeps ==
  ASSUME IInv, NEW c \in calls, ServeEstimate(c) \/ ServePayment(c) \/ ServeDraft(c),
         UNCHANGED <<tab, left, price, shown, announced, freed>>
  PROVE  IInv'
<1>1. c \in Request /\ Complete(c) /\ price \in Nat
  BY DEF IInv, TypeOK, CallsTyped
<1>2. CASE ServeEstimate(c)
  <2>. DEFINE plan == [of |-> c.token.of, price |-> price]
              row == [scope |-> c.scope, kind |-> "estimate",
                      number |-> c.token.conversation, rev |-> c.token.rev,
                      of |-> None]
  <2>1. c.kind = "estimate" /\ Persist(c, row, plan, Answer(None, row, plan, "none"))
        /\ posted' = posted
    BY <1>2 DEF ServeEstimate
  <2>2. row \in Row /\ row.kind # "action" /\ plan \in Content
    BY <1>1, <2>1 DEF Complete, Request, Token, Row, Kind, Content
  <2>. HIDE DEF row, plan
  <2>. QED
    BY <2>1, <2>2, PersistKeeps
<1>3. CASE ServePayment(c)
  <2>. DEFINE plan == [of |-> c.token.payment, price |-> 0]
              row == [scope |-> c.scope, kind |-> "payment",
                      number |-> c.token.conversation, rev |-> 0,
                      of |-> c.token.payment]
  <2>1. c.kind = "payment" /\ Persist(c, row, plan, Answer(None, row, plan, "none"))
        /\ posted' = posted
    BY <1>3 DEF ServePayment
  <2>2. row \in Row /\ row.kind # "action" /\ plan \in Content
    BY <1>1, <2>1 DEF Complete, Request, Token, Row, Kind, Content
  <2>. HIDE DEF row, plan
  <2>. QED
    BY <2>1, <2>2, PersistKeeps
<1>4. CASE ServeDraft(c)
  <2>. DEFINE plan == [of |-> c.of, price |-> 0]
              row == [scope |-> c.scope, kind |-> "review", number |-> c.id,
                      rev |-> 0, of |-> None]
  <2>1. c.kind = "draft" /\ Persist(c, row, plan, Answer(None, row, plan, "none"))
        /\ posted' = posted
    BY <1>4 DEF ServeDraft
  <2>2. row \in Row /\ row.kind # "action" /\ plan \in Content
    BY <1>1, <2>1 DEF Request, Row, Kind, Content
  <2>. HIDE DEF row, plan
  <2>. QED
    BY <2>1, <2>2, PersistKeeps
<1>. QED
  BY <1>2, <1>3, <1>4

\* Reviews, messages that decline, and lost requests leave no trace.
LEMMA ServeQuietKeeps ==
  ASSUME IInv, NEW c \in calls, ServeDecline(c) \/ ServeReview(c) \/ Lose(c),
         UNCHANGED <<tab, left, price, shown, announced, freed>>
  PROVE  IInv'
<1>1. c \in Request /\ PendingViewed(draft, shown, c.tab, c.token)
  BY DEF IInv, TypeOK, CallsTyped, ShownInv, CallViewed
<1>2. CASE ServeDecline(c)
  <2>. DEFINE answer == Answer(c.token, None, None, "none")
  <2>1. c.kind = "decline" /\ Reply(c, answer) /\ UNCHANGED <<draft, posted>>
    BY <1>2 DEF ServeDecline, server
  <2>2. answer \in Given /\ answer.token = c.token /\ answer.row = None
        /\ answer.view = "none"
    BY <1>1, AnswerFields DEF Request
  <2>. HIDE DEF answer
  <2>3. Becomes(c, Replied(c, answer)) /\ Replied(c, answer).answer = answer
    BY <2>1, <2>2, ReplyBecomes DEF IInv
  <2>4. AnswerSound(draft, shown, Replied(c, answer))
    BY <1>1, <2>2, <2>3 DEF AnswerSound, PendingViewed, Becomes
  <2>. QED
    BY <2>1, <2>3, <2>4, QuietKeeps
<1>3. CASE ServeReview(c)
  <2>0. PICK i \in Item : Reply(c, Answer(None, None, [of |-> i, price |-> 0], "none"))
    BY <1>3 DEF ServeReview
  <2>. DEFINE plan == [of |-> i, price |-> 0]
              answer == Answer(None, None, plan, "none")
  <2>1. c.kind = "review" /\ Reply(c, answer) /\ UNCHANGED <<draft, posted>>
    BY <1>3, <2>0 DEF ServeReview, server
  <2>2. plan \in Content
    BY DEF Content
  <2>. HIDE DEF plan
  <2>3. answer \in Given /\ answer.token = None /\ answer.row = None
        /\ answer.view = "none" /\ answer.plan = plan
    BY <2>2, AnswerFields
  <2>. HIDE DEF answer
  <2>4. Becomes(c, Replied(c, answer)) /\ Replied(c, answer).answer = answer
    BY <2>1, <2>2, <2>3, ReplyBecomes DEF IInv
  <2>5. AnswerSound(draft, shown, Replied(c, answer))
    BY <2>3, <2>4 DEF AnswerSound
  <2>. QED
    BY <2>1, <2>4, <2>5, QuietKeeps
<1>4. CASE Lose(c)
  <2>1. Becomes(c, Failed(c)) /\ Failed(c).stage = "failed"
    BY <1>4, FailBecomes DEF IInv, Lose
  <2>2. UNCHANGED <<draft, posted>>
    BY <1>4 DEF Lose, server
  <2>. QED
    BY <2>1, <2>2, QuietKeeps
<1>. QED
  BY <1>2, <1>3, <1>4

\* A turn that proposes nothing.
LEMMA TellKeeps ==
  ASSUME IInv, NEW c \in calls, c.kind = "turn",
         NEW next \in Token, next.pending = None,
         NEW view \in {"none", "draft", "payment"},
         Reply(c, Answer(next, None, None, view)),
         UNCHANGED <<tab, left, price, shown, announced, freed, draft, posted>>
  PROVE  IInv'
<1>. DEFINE answer == Answer(next, None, None, view)
<1>1. answer \in Given /\ answer.token = next /\ answer.row = None
  BY AnswerFields
<1>2. Reply(c, answer)
  OBVIOUS
<1>. HIDE DEF answer
<1>3. Becomes(c, Replied(c, answer)) /\ Replied(c, answer).answer = answer
  BY <1>1, <1>2, ReplyBecomes DEF IInv
<1>4. AnswerSound(draft, shown, Replied(c, answer))
  BY <1>1, <1>3 DEF AnswerSound
<1>. QED
  BY <1>3, <1>4, QuietKeeps

\* A turn that proposes an action: its row is new, since its number is the
\* request's, and only its answer can show it.
LEMMA ProposeKeeps ==
  ASSUME IInv, NEW c \in calls, c.kind = "turn", c.stage = "sent",
         NEW state \in Token, NEW row \in Row, NEW plan \in Content,
         row.kind = "action", row.number = c.id, Store(row, plan),
         Reply(c, Answer([state EXCEPT !.pending = row], row, plan, "none")),
         UNCHANGED <<tab, left, price, shown, announced, freed, posted>>
  PROVE  IInv'
<1>. DEFINE next == [state EXCEPT !.pending = row]
            answer == Answer(next, row, plan, "none")
<1>1. next \in Token /\ next.pending = row
  BY DEF Token
<1>. HIDE DEF next
<1>2. /\ answer \in Given /\ answer.token = next /\ answer.row = row
      /\ answer.plan = plan /\ answer.view = "none"
  BY <1>1, AnswerFields
<1>3. Reply(c, answer)
  BY DEF next
<1>. HIDE DEF answer
<1>4. Becomes(c, Replied(c, answer)) /\ Replied(c, answer).answer = answer
  BY <1>1, <1>2, <1>3, ReplyBecomes DEF IInv
<1>5. row \notin DOMAIN draft
  BY DEF IInv, NumbersOK
<1>6. /\ DraftsTyped' /\ DOMAIN draft' = DOMAIN draft \cup {row}
      /\ Grown(draft, draft', shown, shown')
      /\ draft'[row].plan = plan
      /\ \A r \in DOMAIN draft' : draft'[r].status = "EXECUTED" =>
           r \in DOMAIN draft /\ draft[r].status = "EXECUTED"
  BY <1>5, StoreNew DEF IInv, TypeOK
<1>7. AnswerSound(draft', shown', Replied(c, answer))
  BY <1>1, <1>2, <1>4, <1>6 DEF AnswerSound
<1>8. ConfirmDone(posted', Replied(c, answer))
  BY <1>4 DEF ConfirmDone, Becomes
<1>9. \A r \in DOMAIN draft' :
        r \in DOMAIN draft \/ (r.kind = "action" => r.number = c.id)
  BY <1>6
<1>. QED
  BY <1>4, <1>6, <1>7, <1>8, <1>9, BecomeKeeps

LEMMA ServeTurnKeeps ==
  ASSUME IInv, NEW c \in calls, c.stage = "sent", ServeTurn(c),
         UNCHANGED <<tab, left, price, shown, announced, freed>>
  PROVE  IInv'
<1>. DEFINE state == [Opening(c) EXCEPT !.pending = None, !.payment = None]
            To(next, view) == /\ Reply(c, Answer(next, None, None, view))
                              /\ UNCHANGED server
<1>1. c.kind = "turn" /\ c \in Request /\ price \in Nat
  BY DEF ServeTurn, IInv, TypeOK, CallsTyped
<1>2. state \in Token /\ state.pending = None /\ state.rev + 1 \in Nat
  <2>1. Opening(c) \in Token
    BY OpeningOwn
  <2>2. state \in Token /\ state.pending = None
    BY <2>1 DEF Token
  <2>. HIDE DEF state
  <2>. QED
    BY <2>2 DEF Token
<1>3. ASSUME NEW next \in Token, next.pending = None,
             NEW view \in {"none", "draft", "payment"}, To(next, view)
      PROVE  IInv'
  BY <1>1, <1>3, TellKeeps DEF server
<1>4. CASE \E i \in Item :
             LET row == [scope |-> c.scope, kind |-> "action", number |-> c.id,
                         rev |-> 0, of |-> None]
                 plan == [of |-> i, price |-> price] IN
             /\ Store(row, plan)
             /\ Reply(c, Answer([state EXCEPT !.pending = row], row, plan, "none"))
             /\ UNCHANGED posted
  <2>. HIDE DEF state
  <2>. DEFINE row == [scope |-> c.scope, kind |-> "action", number |-> c.id,
                      rev |-> 0, of |-> None]
              Plan1(i) == [of |-> i, price |-> price]
  <2>1. PICK i \in Item :
             /\ Store(row, Plan1(i))
             /\ Reply(c, Answer([state EXCEPT !.pending = row], row, Plan1(i), "none"))
             /\ UNCHANGED posted
    BY <1>4
  <2>2. row \in Row /\ row.kind = "action" /\ row.number = c.id /\ Plan1(i) \in Content
    BY <1>1 DEF Row, Kind, Request, Content
  <2>. HIDE DEF row, Plan1
  <2>. QED
    BY <1>1, <1>2, <2>1, <2>2, ProposeKeeps
<1>5. CASE To(state, "none")
  BY <1>2, <1>3, <1>5
<1>6. CASE \E i \in Item : To(Edited(state, i), "draft")
  <2>. HIDE DEF To, state
  <2>1. PICK i \in Item : To(Edited(state, i), "draft")
    BY <1>6
  <2>2. Edited(state, i) \in Token /\ Edited(state, i).pending = None
    BY <1>2 DEF Edited, Token
  <2>. QED
    BY <1>3, <2>1, <2>2
<1>7. CASE To([state EXCEPT !.prepared = TRUE], "draft")
  <2>. HIDE DEF To, state
  <2>1. [state EXCEPT !.prepared = TRUE] \in Token
        /\ [state EXCEPT !.prepared = TRUE].pending = None
    BY <1>2 DEF Token
  <2>. QED
    BY <1>3, <1>7, <2>1
<1>8. CASE \E i \in Item : To([state EXCEPT !.payment = i], "payment")
  <2>. HIDE DEF To, state
  <2>1. PICK i \in Item : To([state EXCEPT !.payment = i], "payment")
    BY <1>8
  <2>2. [state EXCEPT !.payment = i] \in Token /\ [state EXCEPT !.payment = i].pending = None
    BY <1>2 DEF Token
  <2>. QED
    BY <1>3, <2>1, <2>2
<1>. QED
  BY <1>4, <1>5, <1>6, <1>7, <1>8 DEF ServeTurn

\* Whatever the API does with a request.
LEMMA ServeKeeps ==
  ASSUME IInv, NEW c \in calls, Serve(c) \/ Lose(c) PROVE IInv'
<1>1. UNCHANGED <<tab, left, price, shown, announced, freed>>
  BY DEF Serve, Lose, browser
<1>2. CASE Lose(c)
  BY <1>1, <1>2, ServeQuietKeeps
<1>3. CASE Serve(c)
  <2>1. c.stage = "sent"
    BY <1>3 DEF Serve
  <2>. QED
    BY <1>1, <1>3, <2>1, ServeYesKeeps, ServeTurnKeeps, ServeStoredKeeps,
       ServeQuietKeeps, ServeConfirmKeeps DEF Serve
<1>. QED
  BY <1>2, <1>3

-----------------------------------------------------------------------------
(* The tab is answered *)

\* The tab has waited for this answer and for nothing else, or it goes on waiting,
\* or it was freed.
LEMMA DeliverKeeps ==
  ASSUME IInv, NEW c \in calls, calls' = calls \ {c}, NEW next \in TabState,
         tab' = [tab EXCEPT ![c.tab] = next],
         UNCHANGED <<draft, posted, price, left, freed>>,
         shown \subseteq shown', TabViewed(draft, shown', c.tab, next),
         next.version = tab[c.tab].version,
         \A a \in announced' : \/ a \in announced \/ a[1] \in freed
                               \/ IsPosted(posted, a[2]),
         \/ Live(tab, c)
         \/ next.busy = tab[c.tab].busy /\ next.active \in {None, tab[c.tab].active}
         \/ c.tab \in freed
  PROVE  IInv'
<1>. DEFINE t == c.tab
<1>0. t \in DOMAIN tab
  BY DEF IInv, WaitInv, Timely
<1>1. TabsTyped' /\ DOMAIN tab' = DOMAIN tab /\ tab'[t] = next
      /\ \A u \in DOMAIN tab : u # t => tab'[u] = tab[u]
  BY <1>0, TabTyped DEF IInv, TypeOK
<1>2. TypeOK' /\ NumbersOK'
  BY <1>1 DEF IInv, TypeOK, CallsTyped, DraftsTyped, LeftTyped, NumbersOK
<1>3. ShownInv'
  <2>1. Grown(draft, draft', shown, shown')
    BY DEF Grown
  <2>2. \A u \in DOMAIN tab' : \/ u \in DOMAIN tab /\ tab'[u] = tab[u]
                               \/ TabViewed(draft', shown', u, tab'[u])
    BY <1>1
  <2>. QED
    BY <2>1, <2>2, ShownKept DEF IInv
<1>4. WaitInv'
  <2>1. \A d \in calls : d.tab = t => /\ Timely(tab', d)
                                      /\ (Live(tab', d) <=> Live(tab, d))
    BY <1>0, <1>1 DEF IInv, WaitInv, Timely, Live
  <2>2. ASSUME NEW d \in calls', d.tab = t, t \notin freed
        PROVE  Steady(tab', calls', d)
    <3>1. Steady(tab, calls, c) /\ Steady(tab, calls, d) /\ d # c /\ d \in calls
      BY <2>2 DEF IInv, WaitInv
    <3>0. Live(tab', d) <=> Live(tab, d)
      BY <2>1, <2>2, <3>1
    <3>2. CASE Live(tab, c)
      <4>1. ~Live(tab, d)
        BY <2>2, <3>1, <3>2 DEF Steady
      <4>2. ~Live(tab', d) /\ d.kind \notin ByButton
        BY <2>2, <3>0, <3>1, <4>1 DEF Steady
      <4>. QED
        BY <4>2 DEF Steady, ByButton
    <3>3. CASE next.busy = tab[t].busy /\ next.active \in {None, tab[t].active}
      <4>1. \A f \in calls : f.tab = t => (Live(tab', f) <=> Live(tab, f))
        BY <2>1
      <4>. QED
        BY <1>1, <2>2, <3>1, <3>3, <4>1 DEF Steady
    <3>. QED
      BY <2>2, <3>2, <3>3
  <2>3. \A d \in calls' : d.tab = t =>
          Timely(tab', d) /\ (t \notin freed' => Steady(tab', calls', d))
    <3>1. calls' \subseteq calls /\ freed' = freed
      OBVIOUS
    <3>. HIDE DEF t
    <3>. QED
      BY <2>1, <2>2, <3>1
  <2>4. /\ \A u \in DOMAIN tab : u # t => u \in DOMAIN tab' /\ tab'[u] = tab[u]
        /\ \A d \in calls' : d.tab # t => d \in calls
        /\ WaitInv /\ freed \subseteq freed'
    BY <1>1 DEF IInv
  <2>. HIDE DEF t
  <2>. QED
    BY <2>3, <2>4, WaitKept, Zenon
<1>5. PostedInv'
  BY PostedKept DEF IInv
<1>. QED
  BY <1>2, <1>3, <1>4, <1>5 DEF IInv

\* The tab stays as it is.
LEMMA IgnoreKeeps ==
  ASSUME IInv, NEW c \in calls, calls' = calls \ {c},
         UNCHANGED <<tab, draft, posted, price, left, freed, shown, announced>>
  PROVE  IInv'
<1>1. c.tab \in DOMAIN tab
  BY DEF IInv, WaitInv, Timely
<1>2. tab[c.tab] \in TabState /\ TabViewed(draft, shown, c.tab, tab[c.tab])
  BY <1>1, CurrentOwn
<1>3. tab' = [tab EXCEPT ![c.tab] = tab[c.tab]]
  BY <1>1 DEF IInv, TypeOK, TabsTyped
<1>. QED
  BY <1>2, <1>3, DeliverKeeps

\* What is known of an answer that arrives.
LEMMA AnswerOwn ==
  ASSUME IInv, NEW c \in calls
  PROVE  /\ c.tab \in DOMAIN tab /\ tab[c.tab] \in TabState /\ c \in Request
         /\ TabViewed(draft, shown, c.tab, tab[c.tab])
         /\ c.tab \notin freed => Steady(tab, calls, c)
         /\ c.stage = "served" =>
              /\ c.answer \in Given /\ Complete(c) /\ AnswerSound(draft, shown, c)
              /\ ConfirmDone(posted, c)
<1>1. c.tab \in DOMAIN tab /\ (c.tab \notin freed => Steady(tab, calls, c))
  BY DEF IInv, WaitInv, Timely
<1>2. tab[c.tab] \in TabState /\ TabViewed(draft, shown, c.tab, tab[c.tab])
  BY <1>1, CurrentOwn
<1>3. c \in Request /\ Complete(c)
  BY DEF IInv, TypeOK, CallsTyped
<1>4. c.stage = "served" => AnswerSound(draft, shown, c) /\ ConfirmDone(posted, c)
  BY DEF IInv, ShownInv, CallViewed, PostedInv
<1>. QED
  BY <1>1, <1>2, <1>3, <1>4 DEF Complete

\* An answer to a message is shown with the row it brings.
LEMMA HearKeeps ==
  ASSUME IInv, NEW c \in calls, c.stage = "served", Hear(c), calls' = calls \ {c},
         UNCHANGED <<draft, posted, price, left>>
  PROVE  IInv'
<1>. DEFINE t == c.tab
            token == c.answer.token
            ready == IF c.answer.view = "payment"
                     THEN [token |-> token, kind |-> "payment"]
                     ELSE IF c.answer.view = "draft" /\ token.prepared
                     THEN [token |-> token, kind |-> "estimate"]
                     ELSE None
            next == [Hold(t, c.answer.row, ready) EXCEPT !.token = token]
<1>1. /\ tab[t] \in TabState /\ TabViewed(draft, shown, t, tab[t])
      /\ c.answer \in Given /\ Complete(c) /\ AnswerSound(draft, shown, c)
  BY AnswerOwn
<1>2. UNCHANGED <<announced, freed>> /\ c.kind # "confirm"
  BY DEF Hear
<1>3. CASE UNCHANGED <<tab, shown>>
  BY <1>2, <1>3, IgnoreKeeps
<1>4. CASE /\ c.version = tab[t].version
           /\ tab' = [tab EXCEPT ![t].token = None, ![t].busy = FALSE]
           /\ shown' = shown
  <2>. DEFINE idle == [tab[t] EXCEPT !.token = None, !.busy = FALSE]
  <2>1. tab' = [tab EXCEPT ![t] = idle]
    BY <1>4
  <2>2. /\ idle \in TabState /\ idle.version = tab[t].version
        /\ idle.token = None /\ idle.active = tab[t].active
    BY <1>1 DEF TabState
  <2>3. TabViewed(draft, shown', t, idle)
    BY <1>1, <1>4, <2>2 DEF TabViewed, PendingViewed
  <2>4. Live(tab, c)
    BY <1>4 DEF Live
  <2>. HIDE DEF idle
  <2>. QED
    BY <1>2, <1>4, <2>1, <2>2, <2>3, <2>4, DeliverKeeps
<1>5. CASE /\ c.version = tab[t].version
           /\ tab' = [tab EXCEPT ![t] = next]
           /\ IF c.answer.row = None THEN UNCHANGED shown ELSE Show(c)
  <2>1. token \in Token \cup {None} /\ c.answer.row \in Row \cup {None}
        /\ ready \in Ready \cup {None}
    BY <1>1 DEF Given, Complete, Ready
  <2>. HIDE DEF ready
  <2>2. /\ next \in TabState /\ next.version = tab[t].version
        /\ next.token = token /\ next.active = c.answer.row
    BY <1>1, <2>1 DEF Hold, TabState
  <2>3. shown \subseteq shown'
        /\ (c.answer.row # None => <<t, c.answer.row, c.answer.plan>> \in shown')
    BY <1>5 DEF Show
  <2>4. c.answer.row # None => Viewed(draft, shown', t, c.answer.row)
    BY <1>1, <1>2, <2>3 DEF AnswerSound, Viewed
  <2>5. PendingViewed(draft, shown', t, token)
    BY <1>1, <2>3, <2>4 DEF AnswerSound, PendingViewed, Viewed
  <2>6. TabViewed(draft, shown', t, next)
    BY <2>2, <2>4, <2>5 DEF TabViewed
  <2>7. Live(tab, c)
    BY <1>5 DEF Live
  <2>. HIDE DEF next
  <2>. QED
    BY <1>2, <1>5, <2>2, <2>3, <2>6, <2>7, DeliverKeeps
<1>. QED
  BY <1>3, <1>4, <1>5 DEF Hear

\* A stored draft is shown with what it holds and becomes the active one.
LEMMA HoldKeeps ==
  ASSUME IInv, NEW c \in calls, c.stage = "served", c.kind # "confirm",
         calls' = calls \ {c}, NEW next \in TabState,
         tab' = [tab EXCEPT ![c.tab] = next],
         next.active = c.answer.row, next.token = tab[c.tab].token,
         next.version = tab[c.tab].version, Show(c),
         UNCHANGED <<draft, posted, price, left, announced, freed>>,
         Live(tab, c) \/ c.tab \in freed
  PROVE  IInv'
<1>1. /\ TabViewed(draft, shown, c.tab, tab[c.tab])
      /\ AnswerSound(draft, shown, c)
  BY AnswerOwn
<1>2. shown \subseteq shown' /\ <<c.tab, c.answer.row, c.answer.plan>> \in shown'
  BY DEF Show
<1>3. TabViewed(draft, shown', c.tab, next)
  BY <1>1, <1>2 DEF TabViewed, PendingViewed, Viewed, AnswerSound
<1>. QED
  BY <1>2, <1>3, DeliverKeeps

\* What becomes of the tab otherwise: nothing new waits for its user.
LEMMA DropKeeps ==
  ASSUME IInv, NEW c \in calls, calls' = calls \ {c}, NEW next \in TabState,
         tab' = [tab EXCEPT ![c.tab] = next],
         next.active = tab[c.tab].active, next.token = tab[c.tab].token,
         next.version = tab[c.tab].version,
         UNCHANGED <<draft, posted, price, left, announced, freed, shown>>,
         Live(tab, c) \/ c.tab \in freed \/ next.busy = tab[c.tab].busy
  PROVE  IInv'
<1>1. TabViewed(draft, shown, c.tab, tab[c.tab])
  BY AnswerOwn
<1>2. TabViewed(draft, shown', c.tab, next)
  BY <1>1 DEF TabViewed
<1>. QED
  BY <1>2, DeliverKeeps

LEMMA GetReadyKeeps ==
  ASSUME IInv, NEW c \in calls, c.stage = "served", GetReady(c), calls' = calls \ {c},
         UNCHANGED <<draft, posted, price, left>>
  PROVE  IInv'
<1>. DEFINE t == c.tab
<1>1. tab[t] \in TabState /\ c.answer \in Given
  BY AnswerOwn
<1>2. UNCHANGED <<announced, freed>> /\ c.kind # "confirm"
  BY DEF GetReady
<1>3. CASE UNCHANGED <<tab, shown>>
  BY <1>2, <1>3, IgnoreKeeps
<1>4. CASE /\ c.version = tab[t].version
           /\ tab' = [tab EXCEPT ![t].busy = FALSE]
           /\ shown' = shown
  <2>. DEFINE next == [tab[t] EXCEPT !.busy = FALSE]
  <2>1. tab' = [tab EXCEPT ![t] = next]
    BY <1>4
  <2>2. /\ next \in TabState /\ next.version = tab[t].version
        /\ next.token = tab[t].token /\ next.active = tab[t].active
    BY <1>1 DEF TabState
  <2>3. Live(tab, c)
    BY <1>4 DEF Live
  <2>. HIDE DEF next
  <2>. QED
    BY <1>2, <1>4, <2>1, <2>2, <2>3, DropKeeps
<1>5. CASE /\ c.version = tab[t].version
           /\ tab' = [tab EXCEPT ![t] = Hold(t, c.answer.row, None)]
           /\ Show(c)
  <2>. DEFINE next == Hold(t, c.answer.row, None)
  <2>1. c.answer.row \in Row \cup {None}
    BY <1>1 DEF Given
  <2>2. /\ next \in TabState /\ next.version = tab[t].version
        /\ next.token = tab[t].token /\ next.active = c.answer.row
    BY <1>1, <2>1 DEF Hold, TabState
  <2>3. Live(tab, c)
    BY <1>5 DEF Live
  <2>4. tab' = [tab EXCEPT ![t] = next] /\ Show(c)
    BY <1>5
  <2>. HIDE DEF next
  <2>. QED
    BY <1>2, <2>2, <2>3, <2>4, HoldKeeps
<1>. QED
  BY <1>3, <1>4, <1>5 DEF GetReady

LEMMA GetReviewKeeps ==
  ASSUME IInv, NEW c \in calls, c.stage = "served", GetReview(c), calls' = calls \ {c},
         UNCHANGED <<draft, posted, price, left>>
  PROVE  IInv'
<1>. DEFINE t == c.tab
            busy == tab[t].busy /\ c.version # tab[t].version
            next == [tab[t] EXCEPT !.review = c.answer.plan.of, !.busy = busy]
<1>1. tab[t] \in TabState /\ Complete(c)
  BY AnswerOwn
<1>2. UNCHANGED <<announced, freed, shown>> /\ c.kind = "review"
      /\ tab' = [tab EXCEPT ![t] = next]
  BY DEF GetReview
<1>3. busy \in BOOLEAN /\ (Live(tab, c) \/ busy = tab[t].busy)
  BY <1>1 DEF TabState, Live
<1>4. c.answer.plan.of \in Item \cup {None}
  BY <1>1, <1>2 DEF Complete, Content
<1>. HIDE DEF busy
<1>5. /\ next \in TabState /\ next.version = tab[t].version /\ next.busy = busy
      /\ next.token = tab[t].token /\ next.active = tab[t].active
  BY <1>1, <1>3, <1>4 DEF TabState
<1>. HIDE DEF next
<1>. QED
  BY <1>2, <1>3, <1>5, DropKeeps

LEMMA GetDraftKeeps ==
  ASSUME IInv, NEW c \in calls, c.stage = "served", GetDraft(c), calls' = calls \ {c},
         UNCHANGED <<draft, posted, price, left>>
  PROVE  IInv'
<1>. DEFINE t == c.tab
<1>1. tab[t] \in TabState /\ c.answer \in Given
  BY AnswerOwn
<1>2. UNCHANGED <<announced, freed>> /\ c.kind = "draft"
  BY DEF GetDraft
<1>3. Live(tab, c) \/ t \in freed
  BY <1>2, AnswerOwn DEF Steady, ByButton
<1>4. CASE /\ tab' = [tab EXCEPT ![t].busy = FALSE]
           /\ shown' = shown
  <2>. DEFINE next == [tab[t] EXCEPT !.busy = FALSE]
  <2>1. tab' = [tab EXCEPT ![t] = next]
    BY <1>4
  <2>2. /\ next \in TabState /\ next.version = tab[t].version
        /\ next.token = tab[t].token /\ next.active = tab[t].active
    BY <1>1 DEF TabState
  <2>. HIDE DEF next
  <2>. QED
    BY <1>2, <1>3, <1>4, <2>1, <2>2, DropKeeps
<1>5. CASE /\ tab' = [tab EXCEPT ![t] =
                       [Hold(t, c.answer.row, tab[t].ready) EXCEPT !.review = None]]
           /\ Show(c)
  <2>. DEFINE next == [Hold(t, c.answer.row, tab[t].ready) EXCEPT !.review = None]
  <2>1. c.answer.row \in Row \cup {None}
    BY <1>1 DEF Given
  <2>2. /\ next \in TabState /\ next.version = tab[t].version
        /\ next.token = tab[t].token /\ next.active = c.answer.row
    BY <1>1, <2>1 DEF Hold, TabState
  <2>3. tab' = [tab EXCEPT ![t] = next] /\ Show(c)
    BY <1>5
  <2>4. c.kind # "confirm" /\ UNCHANGED <<announced, freed>>
    BY <1>2
  <2>. HIDE DEF next
  <2>. QED
    BY <1>3, <2>2, <2>3, <2>4, HoldKeeps
<1>. QED
  BY <1>4, <1>5 DEF GetDraft

\* What is announced is the draft that was confirmed, if its user waited.
LEMMA GetConfirmedKeeps ==
  ASSUME IInv, NEW c \in calls, c.stage = "served", GetConfirmed(c),
         calls' = calls \ {c}, UNCHANGED <<draft, posted, price, left>>
  PROVE  IInv'
<1>. DEFINE t == c.tab
            next == [Hold(t, None, None) EXCEPT !.token = None]
<1>1. tab[t] \in TabState /\ ConfirmDone(posted, c)
  BY AnswerOwn
<1>2. /\ c.kind = "confirm" /\ UNCHANGED <<freed, shown>>
      /\ announced' = IF tab[t].active = None THEN announced
                      ELSE announced \cup {<<t, tab[t].active>>}
      /\ tab' = [tab EXCEPT ![t] = next]
  BY DEF GetConfirmed
<1>3. t \notin freed => Live(tab, c) /\ tab[t].active \in {None, c.row}
  BY <1>2, AnswerOwn DEF Steady, ByButton
<1>4. /\ next \in TabState /\ next.version = tab[t].version
      /\ next.token = None /\ next.active = None
  BY <1>1 DEF Hold, TabState
<1>5. TabViewed(draft, shown', t, next)
  BY <1>4 DEF TabViewed, PendingViewed
<1>6. IsPosted(posted, c.row)
  BY <1>1, <1>2 DEF ConfirmDone
<1>7. \A a \in announced' : a \in announced \/ a[1] \in freed \/ IsPosted(posted, a[2])
  BY <1>2, <1>3, <1>6
<1>. HIDE DEF next
<1>. QED
  BY <1>2, <1>3, <1>4, <1>5, <1>7, DeliverKeeps

\* An error makes the tab idle, unless it is of an operation that is over.
LEMMA GetErrorKeeps ==
  ASSUME IInv, NEW c \in calls, GetError(c), calls' = calls \ {c},
         UNCHANGED <<draft, posted, price, left>>
  PROVE  IInv'
<1>. DEFINE t == c.tab
            busy == tab[t].busy /\ c.kind \notin ByButton /\ c.version # tab[t].version
            next == [tab[t] EXCEPT !.busy = busy]
<1>1. tab[t] \in TabState /\ (t \notin freed => Steady(tab, calls, c))
  BY AnswerOwn
<1>2. UNCHANGED <<announced, freed, shown>> /\ tab' = [tab EXCEPT ![t] = next]
  BY DEF GetError
<1>3. busy \in BOOLEAN /\ (Live(tab, c) \/ t \in freed \/ busy = tab[t].busy)
  BY <1>1 DEF TabState, Live, Steady
<1>. HIDE DEF busy
<1>4. /\ next \in TabState /\ next.version = tab[t].version /\ next.busy = busy
      /\ next.token = tab[t].token /\ next.active = tab[t].active
  BY <1>1, <1>3 DEF TabState
<1>. HIDE DEF next
<1>. QED
  BY <1>2, <1>3, <1>4, DropKeeps

LEMMA DeliveredKeeps ==
  ASSUME IInv, NEW c \in calls, Deliver(c) PROVE IInv'
<1>1. calls' = calls \ {c} /\ UNCHANGED <<draft, posted, price, left>>
  BY DEF Deliver, server
<1>. QED
  BY <1>1, HearKeeps, GetReadyKeeps, GetReviewKeeps, GetDraftKeeps, GetConfirmedKeeps,
     GetErrorKeeps DEF Deliver

-----------------------------------------------------------------------------
(* Duplicated tabs, prices, and the turns of Assistant *)

\* A duplicated tab has asked for nothing, and its user knows what was shown.
LEMMA DuplicateKeeps ==
  ASSUME IInv, NEW t \in DOMAIN tab, NEW u \in Tab, Duplicate(t, u) PROVE IInv'
<1>. DEFINE new == [NewTab(tab[t].scope) EXCEPT !.token = tab[t].token]
<1>1. tab[t] \in TabState /\ TabViewed(draft, shown, t, tab[t])
  BY CurrentOwn
<1>2. /\ u \notin DOMAIN tab /\ Spend("copies")
      /\ tab' = Put(tab, u, new)
      /\ shown' = shown \cup {<<u, x[2], x[3]>> : x \in {y \in shown : y[1] = t}}
      /\ UNCHANGED <<calls, draft, posted, price, announced, freed>>
  BY DEF Duplicate, server
<1>3. /\ new \in TabState /\ new.token = tab[t].token /\ new.active = None
  <2>1. NewTab(tab[t].scope) \in TabState /\ NewTab(tab[t].scope).active = None
    BY <1>1 DEF NewTab, TabState
  <2>. QED
    BY <1>1, <2>1 DEF TabState
<1>. HIDE DEF new
<1>4. /\ DOMAIN tab' = DOMAIN tab \cup {u} /\ tab'[u] = new
      /\ \A v \in DOMAIN tab : v # u /\ tab'[v] = tab[v]
      /\ TabsTyped'
  <2>1. tab' = [v \in DOMAIN tab \cup {u} |-> IF v = u THEN new ELSE tab[v]]
    BY <1>2 DEF Put
  <2>2. /\ DOMAIN tab' = DOMAIN tab \cup {u} /\ tab'[u] = new
        /\ \A v \in DOMAIN tab : v # u /\ tab'[v] = tab[v]
    BY <1>2, <2>1
  <2>. QED
    BY <1>3, <2>1, <2>2 DEF IInv, TypeOK, TabsTyped
<1>5. CallsTyped' /\ LeftTyped' /\ NumbersOK'
  <2>1. Spares
    BY <1>2 DEF Spares
  <2>. QED
    BY <1>2, <2>1, OtherSpent DEF IInv
<1>6. TypeOK'
  BY <1>2, <1>4, <1>5 DEF IInv, TypeOK, DraftsTyped
<1>7. ShownInv'
  <2>1. Grown(draft, draft', shown, shown')
    BY <1>2 DEF Grown
  <2>2. \A r : Viewed(draft, shown, t, r) => Viewed(draft', shown', u, r)
    <3>. SUFFICES ASSUME NEW r, Viewed(draft, shown, t, r)
                  PROVE  Viewed(draft', shown', u, r)
      OBVIOUS
    <3>. DEFINE x == <<t, r, draft[r].plan>>
    <3>1. x \in shown /\ x[1] = t /\ x[2] = r /\ x[3] = draft[r].plan
      BY DEF Viewed
    <3>. HIDE DEF x
    <3>2. <<u, r, draft[r].plan>> \in shown'
      BY <1>2, <3>1
    <3>. QED
      BY <1>2, <3>2 DEF Viewed
  <2>3. TabViewed(draft', shown', u, new)
    BY <1>1, <1>3, <2>2 DEF TabViewed, PendingViewed
  <2>4. \A v \in DOMAIN tab' : \/ v \in DOMAIN tab /\ tab'[v] = tab[v]
                               \/ TabViewed(draft', shown', v, tab'[v])
    BY <1>4, <2>3
  <2>5. (\A c \in calls' : c \in calls) /\ (\A p \in posted' : p \in posted)
    BY <1>2
  <2>. QED
    BY <2>1, <2>4, <2>5, ShownKept DEF IInv
<1>8. WaitInv'
  <2>1. \A c \in calls : c.tab # u
    BY <1>2 DEF IInv, WaitInv, Timely
  <2>2. /\ \A v \in DOMAIN tab : v # u => v \in DOMAIN tab' /\ tab'[v] = tab[v]
        /\ \A c \in calls' : c.tab # u => c \in calls
        /\ \A c \in calls' : c.tab = u =>
             Timely(tab', c) /\ (u \notin freed' => Steady(tab', calls', c))
        /\ WaitInv /\ freed \subseteq freed'
    BY <1>2, <1>4, <2>1 DEF IInv
  <2>. QED
    BY <2>2, WaitKept, Zenon
<1>9. PostedInv'
  BY <1>2, PostedKept DEF IInv
<1>. QED
  BY <1>5, <1>6, <1>7, <1>8, <1>9 DEF IInv

\* What the tabs, the requests and the drafts say depends on no price, and what
\* is left matters for the numbers alone.
LEMMA IdleKeeps ==
  ASSUME IInv, UNCHANGED <<tab, calls, draft, posted, shown, announced, freed>>,
         price' \in Nat, LeftTyped', left'.requests = left.requests
  PROVE  IInv'
<1>1. TypeOK' /\ NumbersOK'
  BY DEF IInv, TypeOK, TabsTyped, CallsTyped, DraftsTyped, NumbersOK
<1>2. ShownInv' /\ PostedInv'
  BY DEF IInv, ShownInv, PostedAsShown, PostedInv, AnnouncedWasPosted
<1>3. WaitInv'
  BY DEF IInv, WaitInv
<1>. QED
  BY <1>1, <1>2, <1>3 DEF IInv

LEMMA RepriceKeeps ==
  ASSUME IInv, Reprice PROVE IInv'
<1>1. LeftTyped' /\ left'.requests = left.requests
  BY SpendTyped DEF Reprice, IInv, TypeOK
<1>2. price' \in Nat
  BY DEF Reprice, IInv, TypeOK
<1>. QED
  BY <1>1, <1>2, IdleKeeps DEF Reprice, server

\* No tool and no turn of the assistant spends a request.
LEMMA WorkLeft ==
  ASSUME LeftTyped, NEW tool, tool # "requests", NEW next, Work(tool, next)
  PROVE  LeftTyped' /\ left'.requests = left.requests
BY SpendTyped DEF Work

LEMMA TalkLeft ==
  ASSUME LeftTyped, Talk PROVE LeftTyped' /\ left'.requests = left.requests
<1>. DEFINE Kept == LeftTyped' /\ left'.requests = left.requests
<1>1. ASSUME UNCHANGED left PROVE Kept
  BY <1>1 DEF LeftTyped
<1>2. ASSUME NEW s, NEW estimate, Begin(s, estimate) PROVE Kept
  BY <1>2, SpendTyped DEF Begin
<1>3. ASSUME NEW s, NEW prepares, Draft(s, prepares) PROVE Kept
  BY <1>3, WorkLeft DEF Draft
<1>4. ASSUME NEW lines, Change(lines) PROVE Kept
  BY <1>3, <1>4 DEF Change
<1>. SUFFICES Kept
  OBVIOUS
<1>. HIDE DEF Kept
<1>5. CASE CallTool
  <2>1. ASSUME NEW P, NEW resolved, NEW rated,
               SearchProducts(P, resolved) \/ QueryProduct(P, resolved)
                 \/ SaleRate(P, resolved, rated)
        PROVE  Kept
    BY <2>1, WorkLeft DEF SearchProducts, QueryProduct, SaleRate, Kept
  <2>2. ASSUME NEW P, SearchFails \/ LookupProduct(P) PROVE Kept
    BY <2>2, WorkLeft DEF SearchFails, LookupProduct, Kept
  <2>3. ASSUME NEW C, NEW resolved,
               LookupCustomers(C, resolved) \/ QueryLedger(C, resolved) \/ CustomersFail
        PROVE  Kept
    BY <2>3, WorkLeft DEF LookupCustomers, QueryLedger, CustomersFail, Kept
  <2>4. ASSUME NEW c, ListDocuments(c) \/ PreparePayment(c) \/ SetContext PROVE Kept
    BY <2>4, WorkLeft DEF ListDocuments, PreparePayment, SetContext, Kept
  <2>5. ASSUME NEW p, NEW q, NEW P,
               \/ BeginDraft \/ Recalculate \/ Inspect \/ PrepareEstimate
               \/ AddItem(p) \/ RemoveItem(p) \/ UpdateQuantity(p, q) \/ UpdateDiscount(P)
        PROVE  Kept
    BY <1>3, <1>4, <2>5 DEF BeginDraft, Recalculate, Inspect, PrepareEstimate, AddItem,
       RemoveItem, UpdateQuantity, UpdateDiscount
  <2>. QED
    BY <1>5, <2>1, <2>2, <2>3, <2>4, <2>5 DEF CallTool
<1>6. CASE \E status \in {"completed", "clarification", "failed"} : End(status)
  BY <1>1, <1>6 DEF End, Answered
<1>7. CASE EndLimited \/ LoseTurn \/ StoreEstimate \/ StorePayment
  BY <1>1, <1>7 DEF EndLimited, LoseTurn, StoreEstimate, StorePayment, Answered, Keep
<1>8. CASE Learn
  BY <1>8, SpendTyped DEF Learn, Kept
<1>9. CASE \/ \E estimate \in BOOLEAN : Ask(estimate)
           \/ Hand \/ \E choice \in thread.asked : Select(choice)
  BY <1>2, <1>9 DEF Ask, Hand, Select
<1>. QED
  BY <1>5, <1>6, <1>7, <1>8, <1>9 DEF Talk

-----------------------------------------------------------------------------
(* The specification *)

\* Nothing was shown, proposed or asked for at first.
LEMMA InitSound == Init => IInv
<1>. SUFFICES ASSUME Init PROVE IInv
  OBVIOUS
<1>. USE ConversationAssumption
<1>1. PICK s \in Scope : tab = [t \in {First} |-> NewTab(s)]
  BY DEF Init
<1>2. /\ calls = {} /\ draft = <<>> /\ price = 1 /\ posted = {} /\ announced = {}
      /\ left \in Budgets
  BY DEF Init
<1>3. NewTab(s) \in TabState /\ NewTab(s).token = None /\ NewTab(s).active = None
  BY DEF NewTab, TabState
<1>4. TypeOK
  BY <1>1, <1>2, <1>3 DEF TypeOK, TabsTyped, CallsTyped, DraftsTyped, LeftTyped
<1>5. NumbersOK /\ WaitInv /\ PostedInv
  BY <1>2 DEF NumbersOK, WaitInv, PostedInv, AnnouncedWasPosted
<1>6. ShownInv
  BY <1>1, <1>2, <1>3 DEF ShownInv, TabViewed, PendingViewed, PostedAsShown
<1>. QED
  BY <1>4, <1>5, <1>6 DEF IInv

\* Every step of a conversation keeps the invariant.
LEMMA NextKeeps == IInv /\ Next => IInv'
<1>. SUFFICES ASSUME IInv, Next PROVE IInv'
  OBVIOUS
<1>1. CASE \E t \in DOMAIN tab : Use(t)
  <2>1. PICK t \in DOMAIN tab : Use(t)
    BY <1>1
  <2>2. CASE Say(t, "yes") \/ Say(t, "turn") \/ Say(t, "decline")
    BY <2>2, SayKeeps DEF Messages
  <2>. QED
    BY <2>1, <2>2, AskReviewKeeps, PrepareDraftKeeps, StumbleKeeps, PrepareReadyKeeps,
       ConfirmKeeps, CancelKeeps, SignOutKeeps, RecordKeeps, RecorderKeeps DEF Use
<1>2. CASE \E t \in DOMAIN tab, u \in Tab : Duplicate(t, u)
  BY <1>2, DuplicateKeeps
<1>3. CASE \E c \in calls : Serve(c) \/ Lose(c) \/ Deliver(c)
  BY <1>3, ServeKeeps, DeliveredKeeps
<1>. QED
  BY <1>1, <1>2, <1>3, RepriceKeeps DEF Next

LEMMA StepKeeps == IInv /\ [AssistantNext]_<<vars, talk>> => IInv'
<1>. SUFFICES ASSUME IInv, [AssistantNext]_<<vars, talk>> PROVE IInv'
  OBVIOUS
<1>1. CASE Next
  BY <1>1, NextKeeps
<1>2. CASE Talk /\ UNCHANGED <<browser, server, calls, price>>
  <2>1. UNCHANGED <<tab, calls, draft, posted, shown, announced, freed, price>>
    BY <1>2 DEF browser, server
  <2>. QED
    BY <1>2, <2>1, TalkLeft, IdleKeeps DEF IInv, TypeOK
<1>3. CASE UNCHANGED <<vars, talk>>
  <2>1. UNCHANGED <<tab, calls, draft, posted, shown, announced, freed, price, left>>
    BY <1>3 DEF vars
  <2>. QED
    BY <2>1, IdleKeeps DEF IInv, TypeOK, LeftTyped
<1>. QED
  BY <1>1, <1>2, <1>3 DEF AssistantNext

LEMMA ConversationSound == AssistantSpec => []IInv
<1>1. AssistantInit => IInv
  BY InitSound DEF AssistantInit
<1>. QED
  BY <1>1, StepKeeps, PTL DEF AssistantSpec

\* Whatever is posted was shown to the user of that tab with just that content and
\* price: a token that proposes a row, a card that is active and a confirmation
\* that is under way are only ever of rows that were shown (persistPlan gives a
\* key one plan, and confirmAndExecute compares the price).
THEOREM PostedWasShown == AssistantSpec => []PostedAsShown
<1>1. IInv => PostedAsShown
  BY DEF IInv, ShownInv
<1>. QED
  BY <1>1, ConversationSound, PTL

\* What the thread says is in the ERP was posted, in every tab that nothing made
\* idle and no one worked in while an operation of it was under way (AnnouncedWasPosted
\* says what does): there the one operation under way keeps the tab busy, so the
\* draft that is active when confirmDraft is answered is the one it confirmed.
THEOREM AnnouncedIsPosted == AssistantSpec => []AnnouncedWasPosted
<1>1. IInv => AnnouncedWasPosted
  BY DEF IInv, PostedInv
<1>. QED
  BY <1>1, ConversationSound, PTL
-----------------------------------------------------------------------------
(***************************************************************************)
(* Inside a turn.  What the assistant may do, whatever the language model  *)
(* asks for: what is stored was shown, and an open question stays open.    *)
(***************************************************************************)

-----------------------------------------------------------------------------
(* The inductive invariant *)

GivenTo(line, c) == line.off.by = "user" \/ line.off.of = c
AllGiven(lines, c) == \A p \in DOMAIN lines : GivenTo(lines[p], c)

\* The discounts of a prepared draft are those of its customer, if there is one.
IsPrepared(s) == s.draft # None /\ s.draft.prepared /\ s.customer # None
Fit(s) == IsPrepared(s) => AllGiven(s.draft.lines, s.customer)

\* What is shown as prepared is the draft, as long as that is prepared too.
ViewSound(t) ==
  t.view # None /\ t.view.prepared =>
    /\ t.state.draft # None
    /\ IsPrepared(t.state) =>
         t.view.estimate = Estimate(t.state.customer, t.state.draft.lines)

\* While the question which product is meant is open (a), it was so when the turn
\* began, and is in the state of the task.
Waits(a, t) ==
  a => /\ t.before \/ t.prior
       /\ t.state.unresolved \/ (t.prior /\ ~t.searched /\ t.state.several)

TurnInv == turn # None => /\ turn \in Turn /\ Fit(turn.state)
                          /\ ViewSound(turn) /\ Waits(awaited, turn)
\* What the tab offers was shown, if it is still prepared.
ThreadInv ==
  /\ thread \in State /\ Fit(thread)
  /\ awaited => thread.unresolved \/ thread.several
  /\ offer = "estimate" =>
       /\ thread.draft # None
       /\ IsPrepared(thread) => Estimate(thread.customer, thread.draft.lines) \in viewed
  /\ offer = "payment" => PaymentOf(thread.payment) \in viewed
TurnIInv == /\ memory \in Nat /\ awaited \in BOOLEAN
        /\ TurnInv /\ ThreadInv /\ PreparedAsViewed

AskedStep ==
  awaited /\ turn # None =>
    IF awaited'
    THEN turn' # None /\ Drafting
           => DOMAIN turn'.state.draft.lines \subseteq DOMAIN Lines
    ELSE turn' # None /\ OneProduct(turn'.state)

-----------------------------------------------------------------------------
(* Lemmas about the state of the task *)

\* The lines of a draft are a function on some of the products.
LEMMA GoodsType ==
  /\ \A l \in Goods : /\ DOMAIN l \subseteq Product
                      /\ l \in [DOMAIN l -> [qty : Nat, off : Discount]]
  /\ \A P \in SUBSET Product :
       \A l \in [P -> [qty : Nat, off : Discount]] : l \in Goods
BY DEF Goods

\* From s to u the draft keeps its lines, and stays prepared only if it was, and
\* for the customer it was for, if any.
Follows(s, u) ==
  /\ u.draft = None <=> s.draft = None
  /\ s.draft # None => u.draft.lines = s.draft.lines
  /\ IsPrepared(u) => IsPrepared(s) /\ u.customer = s.customer
SameProducts(s, u) == u.unresolved = s.unresolved /\ u.several = s.several
SameSet(s, u) == SameProducts(s, u) /\ u.products = s.products

Unready(s) == s.draft # None => ~s.draft.prepared

LEMMA FollowsFit ==
  ASSUME NEW s, NEW u, Follows(s, u), Fit(s) PROVE Fit(u)
BY DEF Follows, Fit, IsPrepared

LEMMA TouchOp ==
  ASSUME NEW s \in State
  PROVE  /\ Touch(s) \in State /\ Follows(s, Touch(s)) /\ Unready(Touch(s))
         /\ SameProducts(s, Touch(s)) /\ Touch(s).customer = s.customer
<1>. USE AssistantAssumption
<1>1. CASE s.draft = None
  BY <1>1 DEF Touch, Follows, SameProducts, IsPrepared, Unready
<1>2. CASE s.draft # None
  <2>. DEFINE d == [s.draft EXCEPT !.prepared = FALSE]
  <2>1. Touch(s) = [s EXCEPT !.draft = d]
    BY <1>2 DEF Touch
  <2>2. d \in Drafts /\ d.lines = s.draft.lines /\ ~d.prepared
    BY <1>2 DEF State, Drafts
  <2>. HIDE DEF d
  <2>3. /\ Touch(s) \in State /\ Touch(s).draft = d /\ Touch(s).customer = s.customer
        /\ Touch(s).unresolved = s.unresolved /\ Touch(s).several = s.several
    BY <2>1, <2>2 DEF State
  <2>. QED
    BY <1>2, <2>2, <2>3 DEF Follows, SameProducts, IsPrepared, Unready
<1>. QED
  BY <1>1, <1>2

LEMMA MeetOp ==
  ASSUME NEW s \in State, NEW c \in Customer \cup {None}
  PROVE  /\ Meet(s, c) \in State /\ Follows(s, Meet(s, c))
         /\ SameProducts(s, Meet(s, c)) /\ Meet(s, c).customer = c
         /\ s.customer # c => Unready(Meet(s, c))
<1>. DEFINE t == IF s.customer = c THEN s ELSE Touch(s)
<1>1. /\ t \in State /\ Follows(s, t) /\ SameProducts(s, t)
      /\ t.customer = s.customer /\ (s.customer # c => Unready(t))
  BY TouchOp DEF Follows, SameProducts
<1>2. Meet(s, c) = [t EXCEPT !.customer = c]
  BY DEF Meet
<1>. HIDE DEF t
<1>3. /\ Meet(s, c) \in State /\ Meet(s, c).customer = c /\ Meet(s, c).draft = t.draft
      /\ Meet(s, c).unresolved = t.unresolved /\ Meet(s, c).several = t.several
  BY <1>1, <1>2 DEF State
<1>. QED
  BY <1>1, <1>3 DEF Follows, SameProducts, IsPrepared, Unready

\* Answers about products change what is known of them and nothing else.
LEMMA ProductOps ==
  ASSUME NEW s \in State, NEW P \in SUBSET Product
  PROVE  /\ Mean(s, P) \in State /\ Follows(s, Mean(s, P))
         /\ Unique(P) => OneProduct(Mean(s, P))
         /\ Miss(s) \in State /\ Follows(s, Miss(s)) /\ Miss(s).unresolved
<1>1. /\ Mean(s, P) \in State /\ Mean(s, P).draft = s.draft
      /\ Mean(s, P).customer = s.customer
      /\ Mean(s, P).products = P /\ ~Mean(s, P).several /\ ~Mean(s, P).unresolved
  BY DEF Mean, State
<1>2. /\ Miss(s) \in State /\ Miss(s).draft = s.draft
      /\ Miss(s).customer = s.customer /\ Miss(s).unresolved
  BY DEF Miss, State
<1>3. Unique(P) => OneProduct(Mean(s, P))
  BY <1>1 DEF Unique, OneProduct
<1>. QED
  BY <1>1, <1>2, <1>3 DEF Follows, IsPrepared

LEMMA AskingOps ==
  ASSUME NEW s \in State, NEW kind, NEW candidates, {kind} \X candidates \subseteq Choice,
         NEW resolved
  PROVE  /\ Offering(s, kind, candidates) \in State
         /\ Follows(s, Offering(s, kind, candidates))
         /\ SameProducts(s, Offering(s, kind, candidates))
         /\ Offering(s, kind, candidates).products = s.products
         /\ Offering(s, kind, candidates).customer = s.customer
         /\ Asking(s, kind, candidates, resolved) \in State
         /\ Follows(s, Asking(s, kind, candidates, resolved))
         /\ SameProducts(s, Asking(s, kind, candidates, resolved))
         /\ Asking(s, kind, candidates, resolved).customer = s.customer
<1>1. ASSUME NEW A \in SUBSET Choice
      PROVE  LET u == [s EXCEPT !.asked = A] IN
             /\ u \in State /\ Follows(s, u) /\ SameProducts(s, u)
             /\ u.customer = s.customer /\ u.products = s.products
  <2>. DEFINE u == [s EXCEPT !.asked = A]
  <2>1. /\ u \in State /\ u.draft = s.draft /\ u.customer = s.customer
        /\ u.unresolved = s.unresolved /\ u.several = s.several
        /\ u.products = s.products
    BY DEF State
  <2>. QED
    BY <2>1 DEF Follows, SameProducts, IsPrepared
<1>2. {a \in s.asked : a[1] # kind} \in SUBSET Choice
  BY DEF State
<1>. QED
  BY <1>1, <1>2 DEF Offering, Asking

\* An inspection gives the lines of a draft the discounts of its customer.
LEMMA InspectOp ==
  ASSUME NEW s \in State, s.draft # None, memory \in Nat
  PROVE  /\ Inspected(s) \in State /\ Inspected(s).draft # None
         /\ SameProducts(s, Inspected(s)) /\ Inspected(s).customer = s.customer
         /\ Inspected(s).draft.prepared = s.draft.prepared
         /\ DOMAIN Inspected(s).draft.lines = DOMAIN s.draft.lines
         /\ s.customer # None => AllGiven(Inspected(s).draft.lines, s.customer)
         /\ s.customer # None /\ AllGiven(s.draft.lines, s.customer) =>
              Inspected(s).draft.lines = s.draft.lines
<1>. DEFINE lines == s.draft.lines
            Anew(p) == IF lines[p].off.by = "user" \/ lines[p].off.of = s.customer THEN lines[p]
                       ELSE [lines[p] EXCEPT !.off = Remembered(s.customer)]
            given == [p \in DOMAIN lines |-> Anew(p)]
            d == [s.draft EXCEPT !.lines = given]
<1>1. s.draft \in Drafts /\ lines \in Goods /\ s.customer \in Customer \cup {None}
  BY DEF State, Drafts
<1>2. CASE s.customer = None
  BY <1>2 DEF Inspected, SameProducts
<1>3. CASE s.customer # None
  <2>1. Inspected(s) = [s EXCEPT !.draft = d]
    BY <1>3 DEF Inspected
  <2>2. DOMAIN lines \subseteq Product /\ lines \in [DOMAIN lines -> [qty : Nat, off : Discount]]
    BY <1>1, GoodsType
  <2>3. Remembered(s.customer) \in Discount /\ Remembered(s.customer).of = s.customer
    BY <1>1 DEF Remembered, Discount
  <2>4. ASSUME NEW p \in DOMAIN lines
        PROVE  Anew(p) \in [qty : Nat, off : Discount] /\ GivenTo(Anew(p), s.customer)
    <3>1. lines[p] \in [qty : Nat, off : Discount]
      BY <2>2
    <3>. QED
      BY <2>3, <3>1 DEF GivenTo
  <2>. HIDE DEF Anew
  <2>5. given \in [DOMAIN lines -> [qty : Nat, off : Discount]]
    BY <2>4
  <2>6. given \in Goods
    BY <2>2, <2>5, GoodsType
  <2>7. AllGiven(given, s.customer)
    BY <2>4 DEF AllGiven
  <2>8. AllGiven(lines, s.customer) => given = lines
    <3>1. AllGiven(lines, s.customer) => \A p \in DOMAIN lines : Anew(p) = lines[p]
      BY DEF AllGiven, GivenTo, Anew
    <3>. QED
      BY <2>2, <3>1
  <2>9. DOMAIN given = DOMAIN lines
    OBVIOUS
  <2>. HIDE DEF given, lines
  <2>10. d \in Drafts /\ d.lines = given /\ d.prepared = s.draft.prepared
    BY <1>1, <2>6 DEF Drafts
  <2>. HIDE DEF d
  <2>11. /\ Inspected(s) \in State /\ Inspected(s).draft = d
         /\ Inspected(s).customer = s.customer
         /\ Inspected(s).unresolved = s.unresolved /\ Inspected(s).several = s.several
    BY <2>1, <2>10 DEF State
  <2>12. d # None
    BY <2>10, AssistantAssumption
  <2>. QED
    BY <2>7, <2>8, <2>9, <2>10, <2>11, <2>12 DEF SameProducts, lines
<1>. QED
  BY <1>2, <1>3

-----------------------------------------------------------------------------
(* The tools *)

\* What a tool has to show of the turn it leaves.
LEMMA ToolKeeps ==
  ASSUME TurnIInv, NEW tool, NEW next, Work(tool, next), next \in Turn, Fit(next.state),
         ViewSound(next), Waits(awaited', next), awaited' \in BOOLEAN,
         awaited' => awaited
  PROVE  TurnIInv'
<1>1. turn' = next /\ UNCHANGED <<thread, offer, viewed, stored, memory>>
  BY DEF Work
<1>2. TurnInv'
  BY <1>1 DEF TurnInv
<1>3. ThreadInv' /\ PreparedAsViewed'
  BY <1>1 DEF TurnIInv, ThreadInv, PreparedAsViewed
<1>. QED
  BY <1>1, <1>2, <1>3 DEF TurnIInv

\* A tool that leaves the lines of the draft alone.
LEMMA FollowKeeps ==
  ASSUME TurnIInv, NEW tool, NEW next, Work(tool, next), next \in Turn,
         Follows(turn.state, next.state), next.view \in {turn.view, None},
         Waits(awaited', next), awaited' \in BOOLEAN,
         awaited' => awaited, awaited /\ ~awaited' => OneProduct(next.state)
  PROVE  TurnIInv' /\ AskedStep
<1>1. turn # None /\ turn' = next
  BY DEF Work
<1>2. Fit(turn.state) /\ ViewSound(turn)
  BY <1>1 DEF TurnIInv, TurnInv
<1>3. Fit(next.state)
  BY <1>2, FollowsFit
<1>4. ViewSound(next)
  BY <1>2 DEF ViewSound, Follows
<1>5. AskedStep
  <2>1. CASE awaited'
    <3>1. turn.state.draft # None => next.state.draft.lines = turn.state.draft.lines
      BY DEF Follows
    <3>2. Drafting => turn'.state.draft.lines = Lines
      BY <1>1, <3>1 DEF Drafting, Lines
    <3>. QED
      BY <2>1, <3>2 DEF AskedStep
  <2>2. CASE ~awaited'
    <3>1. next # None
      BY AssistantAssumption
    <3>. QED
      BY <1>1, <2>2, <3>1 DEF AskedStep
  <2>. QED
    BY <2>1, <2>2
<1>. QED
  BY <1>3, <1>4, <1>5, ToolKeeps

\* What is known of the turn in which a tool is called.
LEMMA TurnOwn ==
  ASSUME TurnIInv, NEW tool, NEW next, Work(tool, next)
  PROVE  turn \in Turn /\ turn.state \in State /\ Waits(awaited, turn)
BY DEF Work, TurnIInv, TurnInv, Turn

\* As long as the question is not answered, every tool that is about something
\* else leaves it open.
LEMMA WaitsOn ==
  ASSUME NEW t, NEW n, NEW a, NEW b, Waits(a, t), b => a,
         n.before = t.before, n.prior = t.prior, n.searched = t.searched,
         SameProducts(t.state, n.state)
  PROVE  Waits(b, n)
BY DEF Waits, SameProducts

LEMMA SearchKeeps ==
  ASSUME TurnIInv, NEW P \in SUBSET Product, NEW resolved \in BOOLEAN,
         SearchProducts(P, resolved)
  PROVE  TurnIInv' /\ AskedStep
<1>. DEFINE v == Asking(turn.state, "product", P, resolved)
            several == ~resolved /\ P # {}
            u == [v EXCEPT !.products = P, !.several = several, !.unresolved = ~resolved]
            next == [turn EXCEPT !.state = u, !.found = P, !.searched = TRUE,
                                 !.unsettled = ~resolved]
<1>1. Work("search", next) /\ awaited' = (awaited /\ ~resolved)
      /\ (resolved => Unique(P))
  BY DEF SearchProducts, Settle
<1>2. turn \in Turn /\ turn.state \in State /\ Waits(awaited, turn)
  BY <1>1, TurnOwn
<1>3. v \in State /\ Follows(turn.state, v) /\ several \in BOOLEAN
      /\ (resolved => ~several)
  BY <1>2, AskingOps DEF Choice
<1>. HIDE DEF v, several
<1>4. u \in State /\ u.draft = v.draft /\ u.customer = v.customer /\ u.unresolved = ~resolved
      /\ u.products = P /\ u.several = several
  BY <1>3 DEF State
<1>5. Follows(turn.state, u)
  BY <1>3, <1>4 DEF Follows, IsPrepared
<1>9. resolved => OneProduct(u)
  BY <1>1, <1>3, <1>4 DEF OneProduct, Unique
<1>. HIDE DEF u
<1>6. /\ next \in Turn /\ next.state = u /\ next.view = turn.view
      /\ next.before = turn.before /\ next.prior = turn.prior
  BY <1>2, <1>4 DEF Turn
<1>7. Waits(awaited', next)
  BY <1>1, <1>2, <1>4, <1>6 DEF Waits
<1>8. awaited' \in BOOLEAN
  BY <1>1 DEF TurnIInv
<1>. HIDE DEF next
<1>. QED
  BY <1>1, <1>5, <1>6, <1>7, <1>8, <1>9, FollowKeeps

LEMMA SearchFailsKeeps ==
  ASSUME TurnIInv, SearchFails PROVE TurnIInv' /\ AskedStep
<1>. DEFINE u == [Miss(turn.state) EXCEPT !.asked = {}]
            next == [turn EXCEPT !.state = u, !.failed = TRUE]
<1>1. Work("search", next) /\ awaited' = awaited
  BY DEF SearchFails
<1>2. turn \in Turn /\ turn.state \in State /\ Waits(awaited, turn)
  BY <1>1, TurnOwn
<1>3. Miss(turn.state) \in State /\ Follows(turn.state, Miss(turn.state))
      /\ Miss(turn.state).unresolved
  BY <1>2, ProductOps
<1>4. u \in State /\ u.draft = Miss(turn.state).draft /\ u.unresolved
      /\ u.customer = Miss(turn.state).customer
  BY <1>3 DEF State
<1>5. Follows(turn.state, u)
  BY <1>3, <1>4 DEF Follows, IsPrepared
<1>. HIDE DEF u
<1>6. /\ next \in Turn /\ next.state = u /\ next.view = turn.view
      /\ next.before = turn.before /\ next.prior = turn.prior
  BY <1>2, <1>4 DEF Turn
<1>7. Waits(awaited', next)
  BY <1>1, <1>2, <1>4, <1>6 DEF Waits
<1>. HIDE DEF next
<1>. QED
  BY <1>1, <1>5, <1>6, <1>7, FollowKeeps DEF TurnIInv

\* A lookup settles nothing that was a question when the turn began.
LEMMA LookupKeeps ==
  ASSUME TurnIInv, NEW P \in SUBSET Product, LookupProduct(P) PROVE TurnIInv' /\ AskedStep
<1>. DEFINE s == turn.state
            found == turn.found \cup P
            stays == turn.prior /\ ~turn.searched
            settled == MaySettle(turn) /\ Unique(found) /\ ~turn.unsettled
            products == IF stays THEN s.products ELSE found
            several == IF stays THEN s.several
                       ELSE found # {} /\ (turn.unsettled \/ ~Unique(found))
            unresolved == s.unresolved /\ ~settled
            u == [s EXCEPT !.products = products, !.several = several,
                           !.unresolved = unresolved]
            next == [turn EXCEPT !.found = found, !.state = u]
<1>1. Work("lookup", next) /\ awaited' = awaited
  BY DEF LookupProduct
<1>2. turn \in Turn /\ s \in State /\ Waits(awaited, turn)
  BY <1>1, TurnOwn
<1>3. /\ products \in SUBSET Product /\ several \in BOOLEAN /\ unresolved \in BOOLEAN
      /\ found \in SUBSET Product
      /\ turn.before \/ turn.prior => unresolved = s.unresolved
      /\ turn.prior /\ ~turn.searched => several = s.several
  BY <1>2 DEF State, Turn, MaySettle
<1>. HIDE DEF products, several, unresolved, found
<1>4. u \in State /\ u.draft = s.draft /\ u.customer = s.customer
      /\ u.unresolved = unresolved /\ u.several = several
  BY <1>2, <1>3 DEF State
<1>5. Follows(s, u)
  BY <1>4 DEF Follows, IsPrepared
<1>. HIDE DEF u
<1>6. /\ next \in Turn /\ next.state = u /\ next.view = turn.view
      /\ next.before = turn.before /\ next.prior = turn.prior
      /\ next.searched = turn.searched
  BY <1>2, <1>3, <1>4 DEF Turn
<1>7. Waits(awaited', next)
  BY <1>1, <1>2, <1>3, <1>4, <1>6 DEF Waits
<1>. HIDE DEF next
<1>. QED
  BY <1>1, <1>5, <1>6, <1>7, FollowKeeps DEF TurnIInv

LEMMA SaleRateKeeps ==
  ASSUME TurnIInv, NEW P \in SUBSET Product, NEW resolved \in BOOLEAN, NEW rated \in BOOLEAN,
         SaleRate(P, resolved, rated)
  PROVE  TurnIInv' /\ AskedStep
<1>. DEFINE s == IF resolved THEN Mean(turn.state, P) ELSE Miss(turn.state)
            u == IF rated THEN [s EXCEPT !.asked = {}]
                 ELSE IF P # {} THEN Offering(s, "product", P) ELSE s
            over == IF rated THEN "completed" ELSE None
            next == [turn EXCEPT !.state = u, !.unsettled = ~resolved, !.over = over]
<1>1. Work("rate", next) /\ awaited' = (awaited /\ ~resolved)
      /\ (resolved => Unique(P))
  BY DEF SaleRate, Settle
<1>2. turn \in Turn /\ turn.state \in State /\ Waits(awaited, turn)
  BY <1>1, TurnOwn
<1>3. s \in State /\ Follows(turn.state, s) /\ (~resolved => s.unresolved)
      /\ (resolved => OneProduct(s))
  BY <1>1, <1>2, ProductOps
<1>. HIDE DEF s
<1>4. u \in State /\ Follows(s, u) /\ SameSet(s, u)
  <2>1. CASE rated
    <3>1. u \in State /\ u.draft = s.draft /\ u.customer = s.customer
          /\ u.unresolved = s.unresolved /\ u.several = s.several
          /\ u.products = s.products
      BY <1>3, <2>1 DEF State
    <3>. QED
      BY <3>1 DEF Follows, SameSet, SameProducts, IsPrepared
  <2>2. CASE ~rated /\ P # {}
    BY <1>3, <2>2, AskingOps DEF Choice, SameSet
  <2>3. CASE ~rated /\ P = {}
    BY <1>3, <2>3 DEF Follows, SameSet, SameProducts, IsPrepared
  <2>. QED
    BY <2>1, <2>2, <2>3
<1>5. Follows(turn.state, u) /\ over \in {"completed", "clarification", None}
  BY <1>3, <1>4 DEF Follows
<1>9. resolved => OneProduct(u)
  BY <1>3, <1>4 DEF SameSet, SameProducts, OneProduct
<1>. HIDE DEF u, over
<1>6. /\ next \in Turn /\ next.state = u /\ next.view = turn.view
      /\ next.before = turn.before /\ next.prior = turn.prior
  BY <1>2, <1>4, <1>5 DEF Turn
<1>7. Waits(awaited', next)
  BY <1>1, <1>2, <1>3, <1>4, <1>6 DEF Waits, SameSet, SameProducts
<1>8. awaited' \in BOOLEAN
  BY <1>1 DEF TurnIInv
<1>. HIDE DEF next
<1>. QED
  BY <1>1, <1>5, <1>6, <1>7, <1>8, <1>9, FollowKeeps

LEMMA QueryProductKeeps ==
  ASSUME TurnIInv, NEW P \in SUBSET Product, NEW resolved \in BOOLEAN,
         QueryProduct(P, resolved)
  PROVE  TurnIInv' /\ AskedStep
<1>. DEFINE s == IF resolved THEN Mean(turn.state, P) ELSE Miss(turn.state)
            u == IF resolved \/ P = {} THEN s ELSE Offering(s, "product", P)
            next == IF resolved THEN [turn EXCEPT !.state = u, !.unsettled = FALSE]
                    ELSE IF P = {} THEN [turn EXCEPT !.state = u]
                    ELSE [turn EXCEPT !.state = u, !.over = "clarification"]
<1>1. Work("query", next) /\ awaited' = (awaited /\ ~resolved)
      /\ (resolved => Unique(P))
  <2>1. awaited' = (awaited /\ ~resolved) /\ (resolved => Unique(P))
    BY DEF QueryProduct, Settle
  <2>2. CASE resolved
    BY <2>1, <2>2 DEF QueryProduct
  <2>3. CASE ~resolved /\ P = {}
    BY <2>1, <2>3 DEF QueryProduct
  <2>4. CASE ~resolved /\ P # {}
    BY <2>1, <2>4 DEF QueryProduct
  <2>. QED
    BY <2>2, <2>3, <2>4
<1>2. turn \in Turn /\ turn.state \in State /\ Waits(awaited, turn)
  BY <1>1, TurnOwn
<1>3. s \in State /\ Follows(turn.state, s) /\ (~resolved => s.unresolved)
      /\ (resolved => OneProduct(s))
  BY <1>1, <1>2, ProductOps
<1>. HIDE DEF s
<1>4. u \in State /\ Follows(s, u) /\ SameSet(s, u)
  <2>1. CASE resolved \/ P = {}
    BY <1>3, <2>1 DEF Follows, SameSet, SameProducts, IsPrepared
  <2>2. CASE ~resolved /\ P # {}
    BY <1>3, <2>2, AskingOps DEF Choice, SameSet
  <2>. QED
    BY <2>1, <2>2
<1>5. Follows(turn.state, u)
  BY <1>3, <1>4 DEF Follows
<1>9. resolved => OneProduct(u)
  BY <1>3, <1>4 DEF SameSet, SameProducts, OneProduct
<1>. HIDE DEF u
<1>6. /\ next \in Turn /\ next.state = u /\ next.view = turn.view
      /\ next.before = turn.before /\ next.prior = turn.prior
  BY <1>2, <1>4 DEF Turn
<1>7. Waits(awaited', next)
  BY <1>1, <1>2, <1>3, <1>4, <1>6 DEF Waits, SameSet, SameProducts
<1>8. awaited' \in BOOLEAN
  BY <1>1 DEF TurnIInv
<1>. HIDE DEF next
<1>. QED
  BY <1>1, <1>5, <1>6, <1>7, <1>8, <1>9, FollowKeeps

\* A tool that is about something else than the products.
Aside(t, n) ==
  /\ n \in Turn /\ Follows(t.state, n.state) /\ SameProducts(t.state, n.state)
  /\ n.view \in {t.view, None}
  /\ n.before = t.before /\ n.prior = t.prior /\ n.searched = t.searched

LEMMA AsideKeeps ==
  ASSUME TurnIInv, NEW tool, NEW next, Work(tool, next), awaited' = awaited,
         Aside(turn, next)
  PROVE  TurnIInv' /\ AskedStep
<1>1. Waits(awaited, turn)
  BY TurnOwn
<1>2. Waits(awaited', next)
  BY <1>1, WaitsOn DEF Aside
<1>. QED
  BY <1>2, FollowKeeps DEF Aside, TurnIInv

LEMMA AsideTwice ==
  ASSUME NEW t, NEW n, NEW m, Aside(t, n), Aside(n, m) PROVE Aside(t, m)
BY DEF Aside, Follows, SameProducts

\* Only the state of the task changes.
LEMMA AsideState ==
  ASSUME NEW t \in Turn, NEW u \in State,
         Follows(t.state, u), SameProducts(t.state, u)
  PROVE  Aside(t, [t EXCEPT !.state = u])
<1>. DEFINE n == [t EXCEPT !.state = u]
<1>1. /\ n \in Turn /\ n.state = u /\ n.view = t.view /\ n.before = t.before
      /\ n.prior = t.prior /\ n.searched = t.searched
  BY DEF Turn
<1>. QED
  BY <1>1 DEF Aside

LEMMA AsideUnclear ==
  ASSUME NEW t \in Turn, NEW b \in BOOLEAN
  PROVE  Aside(t, [t EXCEPT !.state.unclear = b])
<1>. DEFINE u == [t.state EXCEPT !.unclear = b]
<1>1. t.state \in State
  BY DEF Turn
<1>2. /\ u \in State /\ u.draft = t.state.draft /\ u.customer = t.state.customer
      /\ SameProducts(t.state, u)
  BY <1>1 DEF State, SameProducts
<1>3. [t EXCEPT !.state.unclear = b] = [t EXCEPT !.state = u]
  BY DEF Turn
<1>. HIDE DEF u
<1>. QED
  BY <1>2, <1>3, AsideState DEF Follows, IsPrepared

LEMMA TurningOp ==
  ASSUME NEW t \in Turn, NEW c \in Customer \cup {None}
  PROVE  Aside(t, Turning(t, c)) /\ Turning(t, c).state.customer = c
<1>. DEFINE u == Meet(t.state, c)
            view == IF t.state.customer = c THEN t.view ELSE None
            n == [t EXCEPT !.state = u, !.view = view]
<1>1. t.state \in State
  BY DEF Turn
<1>2. /\ u \in State /\ Follows(t.state, u) /\ SameProducts(t.state, u) /\ u.customer = c
  BY <1>1, MeetOp
<1>3. Turning(t, c) = n
  BY DEF Turning
<1>4. view \in {t.view, None} /\ view \in View \cup {None}
  BY DEF Turn
<1>. HIDE DEF u, view
<1>5. /\ n \in Turn /\ n.state = u /\ n.view = view /\ n.before = t.before
      /\ n.prior = t.prior /\ n.searched = t.searched
  BY <1>2, <1>4 DEF Turn
<1>. HIDE DEF n
<1>. QED
  BY <1>2, <1>3, <1>4, <1>5 DEF Aside

\* The customer is no longer known.
LEMMA AsideLost ==
  ASSUME NEW s \in State, NEW b \in BOOLEAN, NEW A \in SUBSET Choice
  PROVE  LET u == [s EXCEPT !.customer = None, !.unclear = b, !.asked = A] IN
         u \in State /\ Follows(s, u) /\ SameProducts(s, u)
<1>. DEFINE u == [s EXCEPT !.customer = None, !.unclear = b, !.asked = A]
<1>1. /\ u \in State /\ u.customer = None /\ u.draft = s.draft
      /\ u.unresolved = s.unresolved /\ u.several = s.several
  BY DEF State
<1>. QED
  BY <1>1 DEF Follows, SameProducts, IsPrepared

LEMMA LookupCustomersKeeps ==
  ASSUME TurnIInv, NEW C \in SUBSET Customer, NEW resolved \in BOOLEAN,
         LookupCustomers(C, resolved)
  PROVE  TurnIInv' /\ AskedStep
<1>. DEFINE s == turn.state
            fresh == [s EXCEPT !.customer = None, !.unclear = FALSE, !.asked = {}]
            found == [turn EXCEPT !.state = Asking(s, "customer", C, resolved)]
            next(c) == IF turn.estimate /\ C = {} THEN [turn EXCEPT !.state = fresh]
                       ELSE [Turning(found, c) EXCEPT !.state.unclear = ~resolved]
<1>1. PICK c \in IF resolved THEN C ELSE {None} : Work("customers", next(c))
  BY DEF LookupCustomers
<1>2. awaited' = awaited /\ c \in Customer \cup {None}
  BY DEF LookupCustomers
<1>. HIDE DEF next
<1>3. turn \in Turn /\ s \in State
  BY <1>1, TurnOwn
<1>4. CASE turn.estimate /\ C = {}
  <2>1. fresh \in State /\ Follows(s, fresh) /\ SameProducts(s, fresh)
    BY <1>3, AsideLost
  <2>. HIDE DEF fresh
  <2>2. Aside(turn, [turn EXCEPT !.state = fresh])
    BY <1>3, <2>1, AsideState
  <2>. QED
    BY <1>1, <1>2, <1>4, <2>2, AsideKeeps DEF next
<1>5. CASE ~(turn.estimate /\ C = {})
  <2>1. Aside(turn, found)
    <3>1. /\ Asking(s, "customer", C, resolved) \in State
          /\ Follows(s, Asking(s, "customer", C, resolved))
          /\ SameProducts(s, Asking(s, "customer", C, resolved))
      BY <1>3, AskingOps DEF Choice
    <3>. QED
      BY <1>3, <3>1, AsideState
  <2>. HIDE DEF found
  <2>2. Aside(found, Turning(found, c))
    BY <1>2, <2>1, TurningOp DEF Aside
  <2>3. Aside(Turning(found, c), [Turning(found, c) EXCEPT !.state.unclear = ~resolved])
    BY <2>2, AsideUnclear DEF Aside
  <2>4. Aside(turn, [Turning(found, c) EXCEPT !.state.unclear = ~resolved])
    BY <2>1, <2>2, <2>3, AsideTwice
  <2>. QED
    BY <1>1, <1>2, <1>5, <2>4, AsideKeeps DEF next
<1>. QED
  BY <1>4, <1>5

LEMMA CustomersFailKeeps ==
  ASSUME TurnIInv, CustomersFail PROVE TurnIInv' /\ AskedStep
<1>. DEFINE s == turn.state
            u == [s EXCEPT !.customer = None, !.unclear = TRUE, !.asked = {}]
<1>1. Work("customers", [turn EXCEPT !.state = u]) /\ awaited' = awaited
  BY DEF CustomersFail
<1>2. turn \in Turn /\ s \in State
  BY <1>1, TurnOwn
<1>3. u \in State /\ Follows(s, u) /\ SameProducts(s, u)
  BY <1>2, AsideLost
<1>. HIDE DEF u
<1>4. Aside(turn, [turn EXCEPT !.state = u])
  BY <1>2, <1>3, AsideState
<1>. QED
  BY <1>1, <1>4, AsideKeeps

LEMMA QueryLedgerKeeps ==
  ASSUME TurnIInv, NEW C \in SUBSET Customer, NEW resolved \in BOOLEAN,
         QueryLedger(C, resolved)
  PROVE  TurnIInv' /\ AskedStep
<1>. DEFINE s == turn.state
            u == [Touch(s) EXCEPT !.customer = None, !.unclear = TRUE]
            lost == [turn EXCEPT !.state = u, !.view = None]
            asking == [lost EXCEPT !.state = Offering(u, "customer", C),
                                   !.over = "clarification"]
            next(c) == IF resolved THEN [Turning(turn, c) EXCEPT !.state.unclear = FALSE]
                       ELSE IF C = {} THEN lost ELSE asking
<1>1. PICK c \in IF resolved THEN C ELSE {None} : Work("ledger", next(c))
  <2>1. [lost EXCEPT !.state = Offering(@, "customer", C), !.over = "clarification"] = asking
    <3>1. lost.state = u \/ "state" \notin DOMAIN turn
      OBVIOUS
    <3>. QED
      BY <3>1
  <2>. QED
    BY <2>1 DEF QueryLedger
<1>2. awaited' = awaited /\ c \in Customer \cup {None}
  BY DEF QueryLedger
<1>. HIDE DEF next
<1>3. turn \in Turn /\ s \in State
  BY <1>1, TurnOwn
<1>4. CASE resolved
  <2>1. Aside(turn, Turning(turn, c))
    BY <1>2, <1>3, TurningOp
  <2>2. Aside(Turning(turn, c), [Turning(turn, c) EXCEPT !.state.unclear = FALSE])
    BY <2>1, AsideUnclear DEF Aside
  <2>. QED
    BY <1>1, <1>2, <1>4, <2>1, <2>2, AsideTwice, AsideKeeps DEF next
<1>5. CASE ~resolved
  <2>1. u \in State /\ Follows(s, u) /\ SameProducts(s, u)
    <3>1. /\ Touch(s) \in State /\ Follows(s, Touch(s)) /\ SameProducts(s, Touch(s))
      BY <1>3, TouchOp
    <3>2. /\ u \in State /\ u.customer = None /\ u.draft = Touch(s).draft
          /\ u.unresolved = Touch(s).unresolved /\ u.several = Touch(s).several
      BY <3>1 DEF State
    <3>. QED
      BY <3>1, <3>2 DEF Follows, SameProducts, IsPrepared
  <2>. HIDE DEF u
  <2>2. Aside(turn, lost) /\ lost.state = u
    <3>1. /\ lost \in Turn /\ lost.state = u /\ lost.view = None
          /\ lost.before = turn.before /\ lost.prior = turn.prior
          /\ lost.searched = turn.searched
      BY <1>3, <2>1 DEF Turn
    <3>. QED
      BY <2>1, <3>1 DEF Aside
  <2>. HIDE DEF lost
  <2>3. Aside(lost, asking)
    <3>1. /\ Offering(u, "customer", C) \in State
          /\ Follows(u, Offering(u, "customer", C))
          /\ SameProducts(u, Offering(u, "customer", C))
      BY <2>1, AskingOps DEF Choice
    <3>2. /\ asking \in Turn /\ asking.state = Offering(u, "customer", C)
          /\ asking.view = lost.view /\ asking.before = lost.before
          /\ asking.prior = lost.prior /\ asking.searched = lost.searched
      BY <2>2, <3>1 DEF Turn, Aside
    <3>. HIDE DEF asking
    <3>. QED
      BY <2>2, <3>1, <3>2 DEF Aside
  <2>. HIDE DEF asking
  <2>4. Aside(turn, next(c))
    BY <1>5, <2>2, <2>3, AsideTwice DEF next
  <2>. QED
    BY <1>1, <1>2, <2>4, AsideKeeps
<1>. QED
  BY <1>4, <1>5

LEMMA PartyKeeps ==
  ASSUME TurnIInv, NEW c \in Customer, ListDocuments(c) \/ PreparePayment(c)
  PROVE  TurnIInv' /\ AskedStep
<1>1. awaited' = awaited
  BY DEF ListDocuments, PreparePayment
<1>2. CASE ListDocuments(c)
  <2>1. Work("documents", Turning(turn, c))
    BY <1>2 DEF ListDocuments
  <2>2. turn \in Turn
    BY <2>1, TurnOwn
  <2>. QED
    BY <1>1, <2>1, <2>2, TurningOp, AsideKeeps
<1>3. CASE PreparePayment(c)
  <2>. DEFINE t == Turning(turn, c)
              u == [t.state EXCEPT !.payment = c]
              n == [t EXCEPT !.state.payment = c]
  <2>1. Work("payment", n)
    BY <1>3 DEF PreparePayment
  <2>2. turn \in Turn
    BY <2>1, TurnOwn
  <2>3. Aside(turn, t)
    BY <2>2, TurningOp
  <2>. HIDE DEF t
  <2>4. Aside(t, n)
    <3>1. t \in Turn /\ t.state \in State
      BY <2>3 DEF Aside, Turn
    <3>2. /\ u \in State /\ u.draft = t.state.draft /\ u.customer = t.state.customer
          /\ SameProducts(t.state, u)
      BY <3>1 DEF State, SameProducts
    <3>3. n = [t EXCEPT !.state = u]
      BY <3>1 DEF Turn
    <3>. HIDE DEF u
    <3>. QED
      BY <3>1, <3>2, <3>3, AsideState DEF Follows, IsPrepared
  <2>. HIDE DEF n
  <2>. QED
    BY <1>1, <2>1, <2>3, <2>4, AsideTwice, AsideKeeps
<1>. QED
  BY <1>2, <1>3

LEMMA SetContextKeeps ==
  ASSUME TurnIInv, SetContext PROVE TurnIInv' /\ AskedStep
<1>1. Work("draft", [turn EXCEPT !.state = Touch(turn.state)]) /\ awaited' = awaited
  BY DEF SetContext
<1>2. turn \in Turn /\ turn.state \in State
  BY <1>1, TurnOwn
<1>3. Aside(turn, [turn EXCEPT !.state = Touch(turn.state)])
  BY <1>2, TouchOp, AsideState
<1>. QED
  BY <1>1, <1>3, AsideKeeps

-----------------------------------------------------------------------------
(* The tools of the draft *)

\* What the inspection leaves is fit for its customer, and it is what is shown.
LEMMA DraftKeeps ==
  ASSUME TurnIInv, NEW s \in State, s.draft # None, NEW prepares \in BOOLEAN,
         Draft(s, prepares), SameProducts(turn.state, s),
         awaited /\ Drafting => DOMAIN s.draft.lines \subseteq DOMAIN Lines
  PROVE  TurnIInv' /\ AskedStep
<1>. DEFINE seen == Inspected(s)
            next == IF prepares THEN [seen EXCEPT !.draft.prepared = TRUE] ELSE seen
            view == [estimate |-> Estimate(next.customer, next.draft.lines),
                     prepared |-> next.draft.prepared]
            n == [turn EXCEPT !.state = next, !.view = view]
<1>1. Work("draft", n) /\ awaited' = awaited
  BY DEF Draft
<1>2. turn \in Turn /\ Waits(awaited, turn) /\ turn' = n
  BY <1>1, TurnOwn DEF Work
<1>3. /\ seen \in State /\ seen.draft # None /\ SameProducts(s, seen)
      /\ seen.customer = s.customer /\ DOMAIN seen.draft.lines = DOMAIN s.draft.lines
      /\ s.customer # None => AllGiven(seen.draft.lines, s.customer)
  BY InspectOp DEF TurnIInv
<1>. HIDE DEF seen
<1>4. /\ next \in State /\ next.draft # None /\ next.customer = seen.customer
      /\ next.unresolved = seen.unresolved /\ next.several = seen.several
      /\ next.draft.lines = seen.draft.lines
  <2>1. CASE ~prepares
    BY <1>3, <2>1
  <2>2. CASE prepares
    <3>. DEFINE d == [seen.draft EXCEPT !.prepared = TRUE]
    <3>1. d \in Drafts /\ d.lines = seen.draft.lines
      BY <1>3 DEF State, Drafts
    <3>2. d # None
      BY <3>1, AssistantAssumption
    <3>3. next = [seen EXCEPT !.draft = d]
      BY <1>3, <2>2 DEF State
    <3>. HIDE DEF d
    <3>4. /\ next \in State /\ next.draft = d /\ next.customer = seen.customer
          /\ next.unresolved = seen.unresolved /\ next.several = seen.several
      BY <1>3, <3>1, <3>3 DEF State
    <3>. QED
      BY <3>1, <3>2, <3>4
  <2>. QED
    BY <2>1, <2>2
<1>. HIDE DEF next
<1>5. /\ view \in View
      /\ view.estimate = Estimate(next.customer, next.draft.lines)
  <2>1. next.draft \in Drafts /\ next.customer \in Customer \cup {None}
    BY <1>4 DEF State
  <2>2. next.draft.lines \in Goods /\ next.draft.prepared \in BOOLEAN
    BY <2>1 DEF Drafts
  <2>. QED
    BY <2>1, <2>2 DEF View, Estimate
<1>. HIDE DEF view
<1>6. /\ n \in Turn /\ n.state = next /\ n.view = view /\ n.before = turn.before
      /\ n.prior = turn.prior /\ n.searched = turn.searched
  BY <1>2, <1>4, <1>5 DEF Turn
<1>. HIDE DEF n
<1>7. Fit(n.state) /\ ViewSound(n)
  BY <1>3, <1>4, <1>5, <1>6 DEF Fit, ViewSound, IsPrepared
<1>8. Waits(awaited', n)
  BY <1>1, <1>2, <1>3, <1>4, <1>6, WaitsOn DEF SameProducts
<1>9. AskedStep
  BY <1>1, <1>2, <1>3, <1>4, <1>6 DEF AskedStep
<1>. QED
  BY <1>1, <1>6, <1>7, <1>8, <1>9, ToolKeeps DEF TurnIInv

\* A change of the lines, which takes the preparation back.
LEMMA ChangeKeeps ==
  ASSUME TurnIInv, Drafting, NEW lines \in Goods, Change(lines),
         awaited => DOMAIN lines \subseteq DOMAIN Lines
  PROVE  TurnIInv' /\ AskedStep
<1>. DEFINE d == [turn.state.draft EXCEPT !.lines = lines]
            u == [turn.state EXCEPT !.draft = d]
<1>1. turn.state \in State /\ turn.state.draft # None
  BY DEF Drafting, TurnIInv, TurnInv, Turn
<1>2. d \in Drafts /\ d.lines = lines
  BY <1>1 DEF State, Drafts
<1>3. d # None
  BY <1>2, AssistantAssumption
<1>4. Draft(Touch(u), FALSE)
  <2>1. [turn.state EXCEPT !.draft.lines = lines] = u
    BY <1>1 DEF State
  <2>. HIDE DEF u
  <2>. QED
    BY <2>1 DEF Change
<1>. HIDE DEF d
<1>5. /\ u \in State /\ u.draft = d /\ SameProducts(turn.state, u)
  BY <1>1, <1>2 DEF State, SameProducts
<1>. HIDE DEF u
<1>6. /\ Touch(u) \in State /\ Touch(u).draft # None /\ Touch(u).draft.lines = lines
      /\ SameProducts(turn.state, Touch(u))
  BY <1>2, <1>3, <1>5, TouchOp DEF Follows, SameProducts
<1>. HIDE DEF Change
<1>. QED
  BY <1>4, <1>6, DraftKeeps

LEMMA LinesOwn ==
  ASSUME TurnIInv, Drafting
  PROVE  /\ turn \in Turn /\ turn.state \in State /\ Waits(awaited, turn)
         /\ Lines \in Goods /\ DOMAIN Lines \subseteq Product
         /\ Lines \in [DOMAIN Lines -> [qty : Nat, off : Discount]]
<1>1. turn \in Turn /\ turn.state \in State /\ Waits(awaited, turn)
  BY DEF Drafting, TurnIInv, TurnInv, Turn
<1>2. turn.state.draft \in Drafts
  BY <1>1 DEF Drafting, State
<1>3. Lines \in Goods
  BY <1>2 DEF Lines, Drafts
<1>. QED
  BY <1>1, <1>3, GoodsType

LEMMA BeginDraftKeeps ==
  ASSUME TurnIInv, BeginDraft PROVE TurnIInv' /\ AskedStep
<1>. DEFINE d == [lines |-> <<>>, prepared |-> FALSE]
            u == [turn.state EXCEPT !.draft = d]
<1>1. turn.state \in State /\ turn.state.draft = None
  BY DEF BeginDraft, TurnIInv, TurnInv, Turn
<1>2. Draft(u, FALSE)
  BY DEF BeginDraft
<1>3. d \in Drafts
  <2>1. <<>> \in [{} -> [qty : Nat, off : Discount]]
    OBVIOUS
  <2>2. <<>> \in Goods
    BY <2>1, GoodsType
  <2>. HIDE DEF Goods
  <2>. QED
    BY <2>2 DEF Drafts
<1>4. d # None
  BY <1>3, AssistantAssumption
<1>. HIDE DEF d
<1>5. /\ u \in State /\ u.draft = d /\ SameProducts(turn.state, u)
  BY <1>1, <1>3 DEF State, SameProducts
<1>. HIDE DEF u
<1>. QED
  BY <1>1, <1>2, <1>4, <1>5, DraftKeeps DEF Drafting

\* A product is added when no question about products is open.
LEMMA AddItemKeeps ==
  ASSUME TurnIInv, NEW p \in Product, AddItem(p) PROVE TurnIInv' /\ AskedStep
<1>. HIDE DEF Change
<1>1. Drafting /\ Known(turn.state, p)
  BY DEF AddItem
<1>2. /\ turn.state \in State /\ Waits(awaited, turn)
      /\ Lines \in Goods /\ DOMAIN Lines \subseteq Product
      /\ Lines \in [DOMAIN Lines -> [qty : Nat, off : Discount]]
  BY <1>1, LinesOwn
<1>3. CASE p \in DOMAIN Lines
  <2>. DEFINE lines == [Lines EXCEPT ![p].qty = @ + 1]
  <2>1. Change(lines)
    BY <1>3 DEF AddItem
  <2>2. /\ DOMAIN lines = DOMAIN Lines
        /\ lines \in [DOMAIN Lines -> [qty : Nat, off : Discount]]
    BY <1>2, <1>3
  <2>3. lines \in Goods
    BY <1>2, <2>2, GoodsType
  <2>. HIDE DEF lines
  <2>. QED
    BY <1>1, <2>1, <2>2, <2>3, ChangeKeeps
<1>4. CASE p \notin DOMAIN Lines
  <2>. DEFINE item == [qty |-> 1, off |-> Remembered(turn.state.customer)]
              lines == Put(Lines, p, item)
  <2>1. Change(lines)
    BY <1>4 DEF AddItem
  <2>2. item \in [qty : Nat, off : Discount]
    <3>1. turn.state.customer \in Customer \cup {None} /\ memory \in Nat
      BY <1>2 DEF State, TurnIInv
    <3>2. Remembered(turn.state.customer) \in Discount
      BY <3>1 DEF Remembered, Discount
    <3>. QED
      BY <3>2
  <2>. HIDE DEF item
  <2>3. lines \in [DOMAIN Lines \cup {p} -> [qty : Nat, off : Discount]]
    BY <1>2, <2>2 DEF Put
  <2>4. lines \in Goods
    BY <1>2, <2>3, GoodsType
  <2>5. ~awaited
    BY <1>1, <1>2 DEF Known, Waits
  <2>. HIDE DEF lines
  <2>. QED
    BY <1>1, <2>1, <2>4, <2>5, ChangeKeeps
<1>. QED
  BY <1>3, <1>4

LEMMA RemoveItemKeeps ==
  ASSUME TurnIInv, NEW p \in Product, RemoveItem(p) PROVE TurnIInv' /\ AskedStep
<1>. DEFINE lines == [q \in DOMAIN Lines \ {p} |-> Lines[q]]
<1>1. Drafting /\ Change(lines)
  BY DEF RemoveItem
<1>2. /\ DOMAIN Lines \subseteq Product
      /\ Lines \in [DOMAIN Lines -> [qty : Nat, off : Discount]]
  BY <1>1, LinesOwn
<1>3. /\ DOMAIN lines \subseteq DOMAIN Lines
      /\ lines \in [DOMAIN Lines \ {p} -> [qty : Nat, off : Discount]]
  BY <1>2
<1>4. lines \in Goods
  BY <1>2, <1>3, GoodsType
<1>. HIDE DEF lines
<1>. QED
  BY <1>1, <1>3, <1>4, ChangeKeeps

LEMMA UpdateQuantityKeeps ==
  ASSUME TurnIInv, NEW p \in Product, NEW q \in 1 .. MaxQuantity, UpdateQuantity(p, q)
  PROVE  TurnIInv' /\ AskedStep
<1>. DEFINE lines == [Lines EXCEPT ![p].qty = q]
<1>1. Drafting /\ p \in DOMAIN Lines /\ Change(lines)
  BY DEF UpdateQuantity
<1>2. /\ DOMAIN Lines \subseteq Product
      /\ Lines \in [DOMAIN Lines -> [qty : Nat, off : Discount]]
  BY <1>1, LinesOwn
<1>3. q \in Nat
  BY AssistantAssumption
<1>4. /\ DOMAIN lines = DOMAIN Lines
      /\ lines \in [DOMAIN Lines -> [qty : Nat, off : Discount]]
  BY <1>1, <1>2, <1>3
<1>5. lines \in Goods
  BY <1>2, <1>4, GoodsType
<1>. HIDE DEF lines
<1>. QED
  BY <1>1, <1>4, <1>5, ChangeKeeps

LEMMA UpdateDiscountKeeps ==
  ASSUME TurnIInv, NEW P \in SUBSET Product, UpdateDiscount(P) PROVE TurnIInv' /\ AskedStep
<1>. DEFINE lines == [p \in DOMAIN Lines |-> IF p \in P THEN [Lines[p] EXCEPT !.off = ByUser]
                                             ELSE Lines[p]]
<1>1. Drafting /\ Change(lines)
  BY DEF UpdateDiscount
<1>2. /\ DOMAIN Lines \subseteq Product
      /\ Lines \in [DOMAIN Lines -> [qty : Nat, off : Discount]]
  BY <1>1, LinesOwn
<1>3. ByUser \in Discount
  BY DEF ByUser, Discount
<1>4. /\ DOMAIN lines = DOMAIN Lines
      /\ lines \in [DOMAIN Lines -> [qty : Nat, off : Discount]]
  BY <1>2, <1>3
<1>5. lines \in Goods
  BY <1>2, <1>4, GoodsType
<1>. HIDE DEF lines
<1>. QED
  BY <1>1, <1>4, <1>5, ChangeKeeps

LEMMA InspectKeeps ==
  ASSUME TurnIInv, Recalculate \/ Inspect \/ PrepareEstimate PROVE TurnIInv' /\ AskedStep
<1>1. Drafting
  BY DEF Recalculate, Inspect, PrepareEstimate
<1>2. turn.state \in State /\ Lines \in Goods /\ SameProducts(turn.state, turn.state)
  BY <1>1, LinesOwn DEF SameProducts
<1>3. CASE Recalculate
  BY <1>1, <1>2, <1>3, ChangeKeeps DEF Recalculate
<1>4. CASE Inspect \/ PrepareEstimate
  <2>1. PICK prepares \in BOOLEAN : Draft(turn.state, prepares)
    BY <1>4 DEF Inspect, PrepareEstimate
  <2>. QED
    BY <1>1, <1>2, <2>1, DraftKeeps DEF Drafting, Lines
<1>. QED
  BY <1>3, <1>4

LEMMA CallToolKeeps ==
  ASSUME TurnIInv, CallTool PROVE TurnIInv' /\ AskedStep
<1>1. CASE \E P \in SUBSET Product, resolved \in BOOLEAN :
             SearchProducts(P, resolved) \/ QueryProduct(P, resolved)
  BY <1>1, SearchKeeps, QueryProductKeeps
<1>2. CASE \E P \in SUBSET Product, resolved \in BOOLEAN, rated \in BOOLEAN :
             SaleRate(P, resolved, rated)
  BY <1>2, SaleRateKeeps
<1>3. CASE \E P \in {{}} \cup {{p} : p \in Product} : LookupProduct(P)
  BY <1>3, LookupKeeps
<1>4. CASE \E C \in SUBSET Customer, resolved \in BOOLEAN :
             LookupCustomers(C, resolved) \/ QueryLedger(C, resolved)
  BY <1>4, LookupCustomersKeeps, QueryLedgerKeeps
<1>5. CASE \E c \in Customer : ListDocuments(c) \/ PreparePayment(c)
  BY <1>5, PartyKeeps
<1>6. CASE \/ \E p \in Product :
                \/ AddItem(p) \/ RemoveItem(p)
                \/ \E q \in 1 .. MaxQuantity : UpdateQuantity(p, q)
           \/ \E P \in SUBSET Product : UpdateDiscount(P)
  BY <1>6, AddItemKeeps, RemoveItemKeeps, UpdateQuantityKeeps, UpdateDiscountKeeps
<1>7. CASE SearchFails \/ CustomersFail \/ SetContext \/ BeginDraft
  BY <1>7, SearchFailsKeeps, CustomersFailKeeps, SetContextKeeps, BeginDraftKeeps
<1>8. CASE Recalculate \/ Inspect \/ PrepareEstimate
  BY <1>8, InspectKeeps
<1>. QED
  BY <1>1, <1>2, <1>3, <1>4, <1>5, <1>6, <1>7, <1>8, Zenon DEF CallTool

-----------------------------------------------------------------------------
(* The turn *)

\* A turn that starts from what follows from the token.
LEMMA BeginKeeps ==
  ASSUME TurnIInv, NEW s \in State, Fit(s), NEW estimate \in BOOLEAN, Begin(s, estimate)
  PROVE  TurnIInv' /\ AskedStep
<1>. DEFINE u == [s EXCEPT !.payment = None]
            t == Working(u, estimate)
<1>1. /\ turn = None /\ turn' = t /\ awaited' = (awaited /\ (s.unresolved \/ s.several))
      /\ offer' = None /\ UNCHANGED <<thread, viewed, stored, memory>>
  BY DEF Begin
<1>2. /\ u \in State /\ u.draft = s.draft /\ u.customer = s.customer
      /\ u.unresolved = s.unresolved /\ u.several = s.several
  BY DEF State
<1>. HIDE DEF u
<1>3. u.several \in BOOLEAN /\ u.unresolved \in BOOLEAN
  BY <1>2 DEF State
<1>4. /\ t \in Turn /\ t.state = u /\ t.view = None /\ t.before = u.unresolved
      /\ t.prior = u.several /\ ~t.searched
  BY <1>2, <1>3 DEF Working, Turn
<1>. HIDE DEF t
<1>5. Fit(t.state) /\ ViewSound(t)
  BY <1>2, <1>4 DEF Fit, IsPrepared, ViewSound
<1>6. Waits(awaited', t)
  BY <1>1, <1>2, <1>4 DEF Waits
<1>7. TurnInv'
  BY <1>1, <1>4, <1>5, <1>6 DEF TurnInv
<1>8. ThreadInv' /\ PreparedAsViewed'
  <2>1. None \notin {"estimate", "payment"}
    BY AssistantAssumption
  <2>. QED
    BY <1>1, <2>1 DEF TurnIInv, ThreadInv, PreparedAsViewed
<1>9. awaited' \in BOOLEAN
  BY <1>1 DEF TurnIInv
<1>. QED
  BY <1>1, <1>7, <1>8, <1>9 DEF TurnIInv, AskedStep, Drafting

LEMMA BeginsKeep ==
  ASSUME TurnIInv, \/ \E estimate \in BOOLEAN : Ask(estimate)
               \/ Hand \/ \E choice \in thread.asked : Select(choice)
  PROVE  TurnIInv' /\ AskedStep
<1>1. thread \in State /\ Fit(thread)
  BY DEF TurnIInv, ThreadInv
<1>2. CASE \E estimate \in BOOLEAN : Ask(estimate)
  BY <1>1, <1>2, BeginKeeps DEF Ask
<1>3. CASE Hand
  <2>1. Touch(thread) \in State /\ Fit(Touch(thread))
    BY <1>1, TouchOp, FollowsFit
  <2>. QED
    BY <1>3, <2>1, BeginKeeps DEF Hand
<1>4. ASSUME NEW choice \in thread.asked, Select(choice) PROVE TurnIInv' /\ AskedStep
  <2>. DEFINE s == Selected(thread, choice)
              u == [s EXCEPT !.asked = {}]
  <2>1. choice \in Choice
    BY <1>1 DEF State
  <2>2. s \in State /\ Follows(thread, s)
    <3>1. CASE choice[1] = "product"
      <4>1. {choice[2]} \in SUBSET Product
        BY <2>1, <3>1 DEF Choice
      <4>. QED
        BY <1>1, <3>1, <4>1, ProductOps DEF Selected
    <3>2. CASE choice[1] # "product"
      <4>. DEFINE m == Meet(thread, choice[2])
      <4>1. choice[2] \in Customer
        BY <2>1, <3>2 DEF Choice
      <4>2. m \in State /\ Follows(thread, m)
        BY <1>1, <4>1, MeetOp
      <4>3. s = [m EXCEPT !.unclear = FALSE]
        BY <3>2 DEF Selected
      <4>. HIDE DEF m, s
      <4>4. s \in State /\ s.draft = m.draft /\ s.customer = m.customer
        BY <4>2, <4>3 DEF State
      <4>. QED
        BY <4>2, <4>4 DEF Follows, IsPrepared
    <3>. QED
      BY <3>1, <3>2
  <2>3. Begin(u, FALSE)
    BY <1>4 DEF Select
  <2>. HIDE DEF s
  <2>4. u \in State /\ u.draft = s.draft /\ u.customer = s.customer
    BY <2>2 DEF State
  <2>. HIDE DEF u
  <2>5. Fit(u)
    BY <1>1, <2>2, <2>4, FollowsFit DEF Fit, IsPrepared
  <2>. QED
    BY <2>3, <2>4, <2>5, BeginKeeps
<1>. QED
  BY <1>2, <1>3, <1>4

\* The tab takes the token, and shows what the turn has prepared.
LEMMA AnsweredKeeps ==
  ASSUME TurnIInv, NEW s \in State, Fit(s), NEW view, Answered(s, view),
         view # None /\ view.prepared =>
           /\ s.draft # None
           /\ IsPrepared(s) => view.estimate = Estimate(s.customer, s.draft.lines),
         awaited => s.unresolved \/ s.several
  PROVE  TurnIInv' /\ AskedStep
<1>. DEFINE asks == s.unresolved \/ s.unclear
            next == IF asks THEN s ELSE [s EXCEPT !.asked = {}]
            prepared == view # None /\ view.prepared
<1>1. /\ thread' = next /\ turn' = None
      /\ offer' = IF next.payment # None THEN "payment"
                  ELSE IF prepared THEN "estimate" ELSE None
      /\ viewed' = viewed \cup (IF prepared THEN {view.estimate} ELSE {})
                     \cup (IF next.payment = None THEN {} ELSE {PaymentOf(next.payment)})
      /\ awaited' = (s.unresolved \/ s.several)
      /\ UNCHANGED <<stored, memory>>
  BY DEF Answered
<1>2. /\ next \in State /\ next.draft = s.draft /\ next.customer = s.customer
      /\ next.unresolved = s.unresolved /\ next.several = s.several
  BY DEF State
<1>. HIDE DEF next
<1>3. Fit(next)
  BY <1>2 DEF Fit, IsPrepared
<1>4. None \notin {"estimate", "payment"}
  BY AssistantAssumption
<1>5. ASSUME offer' = "estimate"
      PROVE  /\ next.draft # None
             /\ IsPrepared(next) => Estimate(next.customer, next.draft.lines) \in viewed'
  <2>1. prepared
    BY <1>1, <1>4, <1>5
  <2>. QED
    BY <1>1, <1>2, <2>1 DEF IsPrepared
<1>6. ASSUME offer' = "payment" PROVE PaymentOf(next.payment) \in viewed'
  <2>1. next.payment # None
    BY <1>1, <1>4, <1>6
  <2>. QED
    BY <1>1, <2>1
<1>7. ThreadInv'
  BY <1>1, <1>2, <1>3, <1>5, <1>6 DEF ThreadInv
<1>8. PreparedAsViewed'
  BY <1>1 DEF TurnIInv, PreparedAsViewed
<1>9. awaited' \in BOOLEAN
  BY <1>1 DEF State
<1>. QED
  BY <1>1, <1>7, <1>8, <1>9 DEF TurnIInv, TurnInv, AskedStep

LEMMA EndKeeps ==
  ASSUME TurnIInv, NEW status, End(status) PROVE TurnIInv' /\ AskedStep
<1>. DEFINE payment == IF status = "completed" THEN turn.state.payment ELSE None
            u == [turn.state EXCEPT !.payment = payment]
<1>1. /\ turn.state \in State /\ Fit(turn.state) /\ ViewSound(turn)
      /\ awaited => turn.state.unresolved \/ turn.state.several
  BY DEF End, TurnIInv, TurnInv, Turn, Waits
<1>2. Answered(u, turn.view)
  BY DEF End
<1>3. payment \in Customer \cup {None}
  BY <1>1 DEF State
<1>. HIDE DEF payment
<1>4. /\ u \in State /\ u.draft = turn.state.draft /\ u.customer = turn.state.customer
      /\ u.unresolved = turn.state.unresolved /\ u.several = turn.state.several
  BY <1>1, <1>3 DEF State
<1>. HIDE DEF u
<1>5. Fit(u)
  BY <1>1, <1>4 DEF Fit, IsPrepared
<1>. QED
  BY <1>1, <1>2, <1>4, <1>5, AnsweredKeeps DEF ViewSound, IsPrepared

LEMMA EndLimitedKeeps ==
  ASSUME TurnIInv, EndLimited PROVE TurnIInv' /\ AskedStep
<1>. DEFINE u == [turn.state EXCEPT !.payment = None]
            s == Touch(u)
            v == IF s.draft = None \/ s.unclear THEN s ELSE Inspected(s)
<1>1. turn.state \in State /\ (awaited => turn.state.unresolved \/ turn.state.several)
  BY DEF EndLimited, TurnIInv, TurnInv, Turn, Waits
<1>2. Answered(v, None)
  BY DEF EndLimited
<1>3. u \in State /\ SameProducts(turn.state, u)
  BY <1>1 DEF State, SameProducts
<1>. HIDE DEF u
<1>4. s \in State /\ Unready(s) /\ SameProducts(turn.state, s)
  BY <1>3, TouchOp DEF SameProducts
<1>. HIDE DEF s
<1>5. v \in State /\ Fit(v) /\ SameProducts(s, v)
  <2>1. CASE s.draft = None \/ s.unclear
    BY <1>4, <2>1 DEF Fit, IsPrepared, Unready, SameProducts
  <2>2. CASE s.draft # None /\ ~s.unclear
    BY <1>4, <2>2, InspectOp DEF TurnIInv, Fit, IsPrepared, Unready
  <2>. QED
    BY <2>1, <2>2
<1>. HIDE DEF v
<1>6. awaited => v.unresolved \/ v.several
  BY <1>1, <1>4, <1>5 DEF SameProducts
<1>. QED
  BY <1>2, <1>5, <1>6, AnsweredKeeps

LEMMA LoseTurnKeeps ==
  ASSUME TurnIInv, LoseTurn PROVE TurnIInv' /\ AskedStep
<1>1. /\ turn' = None /\ awaited' = (thread.unresolved \/ thread.several)
      /\ UNCHANGED <<thread, offer, viewed, stored, memory>>
  BY DEF LoseTurn
<1>2. awaited' \in BOOLEAN
  BY <1>1 DEF TurnIInv, ThreadInv, State
<1>. QED
  BY <1>1, <1>2 DEF TurnIInv, TurnInv, ThreadInv, PreparedAsViewed, AskedStep

\* Only what was shown is stored.
LEMMA KeepKeeps ==
  ASSUME TurnIInv, NEW what, what \in viewed, AllGiven(what.lines, what.of), Keep(what)
  PROVE  TurnIInv' /\ AskedStep
<1>1. /\ turn = None /\ stored' = stored \cup {what} /\ offer' = None
      /\ UNCHANGED <<thread, turn, viewed, awaited, memory>>
  BY DEF Keep
<1>2. ThreadInv'
  BY <1>1, AssistantAssumption DEF TurnIInv, ThreadInv
<1>3. PreparedAsViewed'
  BY <1>1 DEF TurnIInv, PreparedAsViewed, AllGiven, GivenTo
<1>. QED
  BY <1>1, <1>2, <1>3 DEF TurnIInv, TurnInv, AskedStep, Drafting

LEMMA StoreEstimateKeeps ==
  ASSUME TurnIInv, StoreEstimate PROVE TurnIInv' /\ AskedStep
<1>. DEFINE what == Estimate(thread.customer, Inspected(thread).draft.lines)
<1>1. /\ offer = "estimate" /\ thread.draft.prepared /\ thread.customer # None
      /\ Keep(what)
  BY DEF StoreEstimate
<1>2. /\ thread \in State /\ Fit(thread) /\ thread.draft # None
      /\ IsPrepared(thread) => Estimate(thread.customer, thread.draft.lines) \in viewed
  BY <1>1 DEF TurnIInv, ThreadInv
<1>3. IsPrepared(thread) /\ AllGiven(thread.draft.lines, thread.customer)
  BY <1>1, <1>2 DEF IsPrepared, Fit
<1>4. Inspected(thread).draft.lines = thread.draft.lines
  BY <1>1, <1>2, <1>3, InspectOp DEF TurnIInv
<1>5. what \in viewed /\ AllGiven(what.lines, what.of)
  BY <1>2, <1>3, <1>4 DEF Estimate
<1>. QED
  BY <1>1, <1>5, KeepKeeps

LEMMA StorePaymentKeeps ==
  ASSUME TurnIInv, StorePayment PROVE TurnIInv' /\ AskedStep
<1>. DEFINE what == PaymentOf(thread.payment)
<1>1. offer = "payment" /\ Keep(what)
  BY DEF StorePayment
<1>2. what \in viewed
  BY <1>1 DEF TurnIInv, ThreadInv
<1>3. AllGiven(what.lines, what.of)
  BY DEF PaymentOf, AllGiven
<1>. QED
  BY <1>1, <1>2, <1>3, KeepKeeps

LEMMA LearnKeeps ==
  ASSUME TurnIInv, Learn PROVE TurnIInv' /\ AskedStep
<1>1. memory' = memory + 1 /\ UNCHANGED <<thread, offer, turn, viewed, stored, awaited>>
  BY DEF Learn
<1>. QED
  BY <1>1 DEF TurnIInv, TurnInv, ThreadInv, PreparedAsViewed, AskedStep, Lines

-----------------------------------------------------------------------------
(* The theorems *)

LEMMA InitHolds ==
  ASSUME AssistantInit PROVE TurnIInv
<1>1. NewState \in State /\ NewState.draft = None
  BY DEF NewState, State
<1>. QED
  BY <1>1, AssistantAssumption
  DEF AssistantInit, TalkInit, TurnIInv, TurnInv, ThreadInv, Fit, IsPrepared, PreparedAsViewed

LEMMA TurnStepKeeps ==
  ASSUME TurnIInv, [AssistantNext]_<<vars, talk>> PROVE TurnIInv' /\ AskedStep
<1>1. CASE UNCHANGED talk
  BY <1>1 DEF talk, TurnIInv, TurnInv, ThreadInv, PreparedAsViewed, AskedStep, Lines
<1>2. CASE Talk
  <2>1. CASE \/ \E estimate \in BOOLEAN : Ask(estimate)
             \/ Hand \/ \E choice \in thread.asked : Select(choice)
    BY <2>1, BeginsKeep
  <2>2. CASE CallTool
    BY <2>2, CallToolKeeps
  <2>3. CASE \/ \E status \in {"completed", "clarification", "failed"} : End(status)
             \/ EndLimited \/ LoseTurn
    BY <2>3, EndKeeps, EndLimitedKeeps, LoseTurnKeeps
  <2>4. CASE StoreEstimate \/ StorePayment \/ Learn
    BY <2>4, StoreEstimateKeeps, StorePaymentKeeps, LearnKeeps
  <2>. QED
    BY <1>2, <2>1, <2>2, <2>3, <2>4, Zenon DEF Talk
<1>. QED
  BY <1>1, <1>2 DEF AssistantNext, talk

\* What is stored for confirmation was shown as prepared, and every discount on it
\* is the user's or the customer's own, for every set of customers and products.
THEOREM StoredWasViewed == AssistantSpec => []PreparedAsViewed
<1>1. AssistantInit => TurnIInv
  BY InitHolds
<1>2. TurnIInv /\ [AssistantNext]_<<vars, talk>> => TurnIInv'
  BY TurnStepKeeps
<1>3. TurnIInv => PreparedAsViewed
  BY DEF TurnIInv
<1>. QED
  BY <1>1, <1>2, <1>3, PTL DEF AssistantSpec

\* While the user was asked which product is meant, no product comes into a draft
\* before a search, a rate or a query came down to one or the user has chosen,
\* whichever tools the language model calls and whether its answer arrives.
THEOREM QuestionHolds == AssistantSpec => AskedIsAnswered
<1>1. AssistantInit => TurnIInv
  BY InitHolds
<1>2. TurnIInv /\ [AssistantNext]_<<vars, talk>> => TurnIInv'
  BY TurnStepKeeps
<1>3. TurnIInv /\ [AssistantNext]_<<vars, talk>> => [AskedStep]_<<vars, talk>>
  BY TurnStepKeeps
<1>4. AskedIsAnswered <=> [][AskedStep]_<<vars, talk>>
  BY PTL DEF AskedIsAnswered, AskedStep
<1>. QED
  BY <1>1, <1>2, <1>3, <1>4, PTL DEF AssistantSpec
=============================================================================
