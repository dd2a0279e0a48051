-------------------------------- MODULE Access --------------------------------
(***************************************************************************)
(* Who the application acts for.  A browser's tabs sign in and out, check  *)
(* their session and discover the workspaces (organization and branch, a   *)
(* place here) of their account; the tabs share one session cookie.  The   *)
(* pages send requests for the workspace they were mounted with; machines  *)
(* send requests with the API key or the internal token.  The API names an *)
(* actor and a place for each request and makes the lookups of its route    *)
(* one after the other before it answers or writes; a posting function     *)
(* asks again when it commits.                                             *)
(***************************************************************************)
EXTENDS Routes

CONSTANTS
  Tab, User, Place,
  Home,        \* the place of the primary organization and branch
  Granted,     \* the grants at the start
  Budgets,     \* bounds considered together: on discoveries, on signing in and
               \* out, on changes of grants, owner and session, on requests sent,
               \* and whether these take every route or a sample of them
  Samples,
  None

ASSUME AccessAssumption ==
  /\ Home \in Place /\ None \notin User /\ None \notin Place
  /\ Granted \subseteq User \X Place \X Right
  /\ Budgets \subseteq [asks : Nat, changes : Nat, requests : Nat, signs : Nat,
                        every : BOOLEAN]
  /\ Samples \subseteq Kind

VARIABLES
  auth,      \* authenticatedUserId
  ws,        \* the workspace in session storage
  mounted,   \* the workspace the page shown was mounted with
  found,     \* availableWorkspaces
  asked,     \* workspaceRequest
  sessions,  \* session checks, sign-ins and sign-outs under way
  finds,     \* discoveries under way
  cookie,    \* the user of the browser's session
  grants, owner, cached,  \* cachedDefaultContext: the default actor
  requests,  \* requests under way
  writes,    \* what was written
  account,   \* the account the server found the workspace for
  listed,    \* the account it found availableWorkspaces for
  astray,    \* tabs that may know workspaces of another account: see below
  left       \* what is left of the bounds

client == <<auth, ws, mounted, found, asked, sessions, finds, account, listed, astray>>
rights == <<grants, owner>>
api == <<requests, writes, cached>>
vars == <<client, cookie, rights, api, left>>

Spend(what) == left[what] > 0 /\ left' = [left EXCEPT ![what] = @ - 1]

\* The application is opened.
Opening ==
  /\ cookie \in User \cup {None}
  /\ auth = [t \in Tab |-> None] /\ ws = [t \in Tab |-> None]
  /\ mounted = [t \in Tab |-> None] /\ found = [t \in Tab |-> {}]
  /\ sessions = {[tab |-> t, what |-> "check", user |-> None, served |-> FALSE] : t \in Tab}
  /\ account = [t \in Tab |-> None] /\ listed = account
\* The owner has opened it and works in the primary organization.
AtWork ==
  /\ cookie = owner
  /\ auth = [t \in Tab |-> owner] /\ ws = [t \in Tab |-> Home]
  /\ mounted = [t \in Tab |-> Home] /\ found = [t \in Tab |-> {Home}]
  /\ sessions = {}
  /\ account = [t \in Tab |-> owner] /\ listed = account
Init ==
  /\ left \in Budgets
  /\ grants = Granted /\ cached = None
  /\ owner \in {u \in User : \A x \in Right : <<u, Home, x>> \in Granted}
  /\ IF left.every THEN AtWork ELSE Opening
  /\ asked = [t \in Tab |-> 0] /\ finds = {}
  /\ requests = {} /\ writes = {} /\ astray = {}

\* A permission and a branch grant count for an active member only.
HeldIn(now, u, w, r) == {<<u, w, "member">>, <<u, w, r>>} \subseteq now
Holds(u, w, r) == HeldIn(grants, u, w, r)
Lacking(u, w, needs) == {r \in needs : ~Holds(u, w, r)}
\* What the database may be asked for on a request.
Needs(route) == {"member", "branch"} \cup route.does

-----------------------------------------------------------------------------
(* Sessions *)

SignIn(t, u) ==
  /\ Spend("signs")
  /\ ~\E s \in sessions : s.tab = t /\ s.what = "in"
  /\ ~\E f \in finds : f.tab = t /\ f.form
  /\ sessions' = sessions \cup {[tab |-> t, what |-> "in", user |-> u, served |-> FALSE]}
  /\ UNCHANGED <<auth, ws, mounted, found, asked, finds, account, listed, astray, cookie,
                 rights, api>>
SignOut(t) ==
  /\ auth[t] # None /\ Spend("signs")
  /\ sessions' = sessions \cup {[tab |-> t, what |-> "out", user |-> None, served |-> FALSE]}
  /\ UNCHANGED <<auth, ws, mounted, found, asked, finds, account, listed, astray, cookie,
                 rights, api>>

\* The server sets, reads or clears the cookie.
SessionServed(s) ==
  /\ s \in sessions /\ ~s.served
  /\ cookie' = CASE s.what = "in" -> s.user [] s.what = "out" -> None [] OTHER -> cookie
  /\ sessions' = (sessions \ {s}) \cup
       {[s EXCEPT !.served = TRUE, !.user = IF s.what = "check" THEN cookie ELSE @]}
  /\ UNCHANGED <<auth, ws, mounted, found, asked, finds, account, listed, astray, rights,
                 api, left>>

Connect(t, user, previous, form) ==
  /\ Spend("asks")
  /\ asked' = [asked EXCEPT ![t] = @ + 1]
  /\ finds' = finds \cup {[tab |-> t, no |-> asked'[t], user |-> user, previous |-> previous,
                           form |-> form, served |-> FALSE, places |-> {}, whose |-> None]}
Forget(t) ==
  /\ ws' = [ws EXCEPT ![t] = None]
  /\ account' = [account EXCEPT ![t] = None]
  /\ astray' = astray \ {t}

\* The first session check ends after the user has signed in.
Overtaken(t) == astray' = IF auth[t] # None THEN astray \cup {t} ELSE astray
CheckAnswered(s) ==
  /\ auth' = [auth EXCEPT ![s.tab] = s.user]
  /\ Overtaken(s.tab)
  /\ IF s.user # None THEN Connect(s.tab, s.user, None, FALSE)
     ELSE UNCHANGED <<asked, finds, left>>
  /\ UNCHANGED <<ws, mounted, found, account, listed>>
SignInAnswered(s) ==
  /\ auth' = [auth EXCEPT ![s.tab] = s.user]
  /\ Forget(s.tab) /\ Connect(s.tab, s.user, None, TRUE)
  /\ UNCHANGED <<mounted, found, listed>>
SignOutAnswered(s) ==
  /\ auth' = [auth EXCEPT ![s.tab] = None]
  /\ Forget(s.tab)
  /\ found' = [found EXCEPT ![s.tab] = {}]
  /\ mounted' = [mounted EXCEPT ![s.tab] = None]
  /\ UNCHANGED <<asked, finds, listed, left>>
SessionAnswered(s) ==
  /\ s \in sessions /\ s.served
  /\ sessions' = sessions \ {s}
  /\ \/ s.what = "check" /\ CheckAnswered(s)
     \/ s.what = "in" /\ SignInAnswered(s)
     \/ s.what = "out" /\ SignOutAnswered(s)
  /\ UNCHANGED <<cookie, rights, api>>

\* A request that times out fails in the tab whether or not it was served.
SessionFailed(s) ==
  /\ s \in sessions
  /\ sessions' = sessions \ {s}
  /\ IF s.what = "check"
       THEN auth' = [auth EXCEPT ![s.tab] = None] /\ Overtaken(s.tab)
       ELSE UNCHANGED <<auth, astray>>
  /\ UNCHANGED <<ws, mounted, found, asked, finds, account, listed, cookie, rights, api,
                 left>>

-----------------------------------------------------------------------------
(* Discovery and the choice of a workspace *)

\* "Refresh", and opening the dialog while nothing is known.
Refresh(t) ==
  /\ \/ auth[t] # None /\ found[t] = {}
     \/ ~\E f \in finds : f.tab = t /\ f.no = asked[t]
  /\ Connect(t, auth[t], ws[t], FALSE)
  /\ UNCHANGED <<auth, ws, mounted, found, sessions, account, listed, astray, cookie,
                 rights, api>>

Discovered(u) == {w \in Place : Holds(u, w, "member") /\ Holds(u, w, "branch")}

FindServed(f) ==
  /\ f \in finds /\ ~f.served /\ cookie # None
  /\ finds' = (finds \ {f}) \cup {[f EXCEPT !.served = TRUE, !.places = Discovered(cookie),
                                              !.whose = cookie]}
  /\ UNCHANGED <<auth, ws, mounted, found, asked, sessions, account, listed, astray, cookie,
                 rights, api, left>>

Preferred(f) == IF f.places = {} THEN {None}
                ELSE IF f.previous \in f.places THEN {f.previous} ELSE f.places
\* Mutant: a discovery counts as long as no later one was started.
CurrentNumber(f) == f.no = asked[f.tab]
Current(f) == f.no = asked[f.tab] /\ f.user = auth[f.tab]

FindAnswered(f) ==
  /\ f \in finds /\ f.served
  /\ finds' = finds \ {f}
  /\ IF Current(f)
       THEN \E w \in Preferred(f) :
              /\ ws' = [ws EXCEPT ![f.tab] = w]
              /\ account' = [account EXCEPT ![f.tab] = IF w = None THEN None ELSE f.whose]
              /\ found' = [found EXCEPT ![f.tab] = f.places]
              /\ listed' = [listed EXCEPT ![f.tab] = f.whose]
              /\ mounted' = [mounted EXCEPT ![f.tab] = w]
              /\ astray' = IF f.whose = f.user THEN astray \ {f.tab} ELSE astray \cup {f.tab}
       ELSE UNCHANGED <<ws, account, found, listed, mounted, astray>>
  /\ UNCHANGED <<auth, asked, sessions, cookie, rights, api, left>>

FindFailed(f) ==
  /\ f \in finds
  /\ finds' = finds \ {f}
  /\ IF Current(f)
       THEN /\ Forget(f.tab)
            /\ found' = [found EXCEPT ![f.tab] = {}]
            /\ mounted' = [mounted EXCEPT ![f.tab] = None]
       ELSE UNCHANGED <<ws, account, found, mounted, astray>>
  /\ UNCHANGED <<auth, asked, sessions, listed, cookie, rights, api, left>>

\* The user has signed in and the discovery that replaces the list of the account
\* before has no answer yet.
Connecting(t) == \E f \in finds : f.tab = t /\ f.form /\ Current(f)

\* The workspace dialog is submitted.
Choose(t, w) ==
  /\ w \in found[t] /\ w # ws[t]
  /\ ws' = [ws EXCEPT ![t] = w]
  /\ account' = [account EXCEPT ![t] = listed[t]]
  /\ mounted' = [mounted EXCEPT ![t] = w]
  /\ astray' = IF Connecting(t) THEN astray \cup {t} ELSE astray
  /\ UNCHANGED <<auth, found, asked, sessions, finds, listed, cookie, rights, api, left>>

\* Navigation mounts the page with the workspace stored.
Navigate(t) ==
  /\ mounted[t] # ws[t]
  /\ mounted' = [mounted EXCEPT ![t] = ws[t]]
  /\ UNCHANGED <<auth, ws, found, asked, sessions, finds, account, listed, astray, cookie,
                 rights, api, left>>

-----------------------------------------------------------------------------
(* Requests *)

Send(by, who, where, kind) ==
  /\ Spend("requests")
  /\ requests' = requests \cup
       {[no |-> left.requests, by |-> by, who |-> who, where |-> where, kind |-> kind,
         stage |-> "sent", looked |-> 0, lacked |-> {}]}
  /\ UNCHANGED <<client, cookie, rights, writes, cached>>

\* What the requests of a behavior may be.
Sendable == IF left.requests = 0 THEN {} ELSE IF left.every THEN Kind ELSE Samples
PageSends(t, kind) ==
  mounted[t] # None /\ "browser" \in kind.by /\ Send("browser", cookie, mounted[t], kind)
\* The headers name an actor and a place, or leave one or both out.
MachineSends(by, u, w, kind) == by \in kind.by \ {"browser"} /\ Send(by, u, w, kind)

To(r, next) == requests' = (requests \ {r}) \cup {next}
Refuse(r) == requests' = requests \ {r} /\ UNCHANGED writes

\* The API key fills in what the headers leave out; a browser's actor is its
\* session's, a service token must name both.
Named(r, who, where) == who # None /\ where # None

Identify(r) ==
  LET default == IF cached = None THEN owner ELSE cached
      lacks == r.who = None \/ r.where = None
      who == IF r.by = "key" /\ r.who = None THEN default ELSE r.who
      where == IF r.by = "key" /\ r.where = None THEN Home ELSE r.where
  IN
  /\ r \in requests /\ r.stage = "sent"
  /\ cached' = IF r.by = "key" /\ lacks THEN default ELSE cached
  /\ IF Named(r, who, where)
       THEN /\ To(r, [r EXCEPT !.who = who, !.where = where, !.stage = "identified",
                               !.lacked = Lacking(who, where, Needs(r.kind))])
            /\ UNCHANGED writes
       ELSE Refuse(r)
  /\ UNCHANGED <<client, cookie, rights, left>>

Lookup(r) ==
  /\ r \in requests /\ r.stage = "identified" /\ r.looked < Len(r.kind.asks)
  /\ IF Holds(r.who, r.where, r.kind.asks[r.looked + 1])
       THEN To(r, [r EXCEPT !.looked = @ + 1])
       ELSE requests' = requests \ {r}
  /\ UNCHANGED <<client, cookie, rights, left, cached, writes>>

\* A transaction that asks again writes for an actor who has all it asks for.
Rechecked(r) == Lacking(r.who, r.where, r.kind.again) = {}

Write(r) ==
  /\ r \in requests /\ r.stage = "identified" /\ r.looked = Len(r.kind.asks)
  /\ IF Rechecked(r)
       THEN /\ requests' = requests \ {r}
            /\ writes' = writes \cup
                 {[no |-> r.no, who |-> r.who, where |-> r.where, kind |-> r.kind,
                   lacked |-> r.lacked, lacks |-> Lacking(r.who, r.where, r.kind.again)]}
       ELSE Refuse(r)
  /\ UNCHANGED <<client, cookie, rights, left, cached>>

-----------------------------------------------------------------------------
(* Administration, and time *)

\* What a request lacked since it was identified shrinks as rights are granted.
Seen(now) ==
  requests' = {[r EXCEPT !.lacked = {x \in @ : ~HeldIn(now, r.who, r.where, x)}]
               : r \in requests}
\* The rights that can matter: discovery's, and those of the requests under way.
Watched == {"member", "branch"} \cup UNION {r.kind.does : r \in requests}

ChangeRight(u, w, x) ==
  /\ Spend("changes")
  /\ grants' = IF Holds(u, w, x) THEN grants \ {<<u, w, x>>} ELSE grants \cup {<<u, w, x>>}
  /\ Seen(grants')
  /\ UNCHANGED <<client, cookie, owner, writes, cached>>
ChangeOwner(u) ==
  /\ u # owner /\ Spend("changes")
  /\ owner' = u
  /\ UNCHANGED <<client, cookie, grants, api>>
\* Another tab of the browser signs in or out, or the session's hour is over.
CookieChanges(user) ==
  /\ cookie # user /\ Spend("changes")
  /\ cookie' = user
  /\ UNCHANGED <<client, grants, owner, api>>
\* DEFAULT_CONTEXT_CACHE_MS are over.
CacheExpires ==
  /\ cached # None /\ cached' = None
  /\ UNCHANGED <<client, cookie, rights, requests, writes, left>>

Next ==
  \/ \E t \in Tab :
       \/ \E u \in User : SignIn(t, u)
       \/ SignOut(t) \/ Refresh(t) \/ Navigate(t)
       \/ \E w \in Place : Choose(t, w)
       \/ \E k \in Sendable : PageSends(t, k)
  \/ \E s \in sessions : SessionServed(s) \/ SessionAnswered(s) \/ SessionFailed(s)
  \/ \E f \in finds : FindServed(f) \/ FindAnswered(f) \/ FindFailed(f)
  \/ \E by \in {"key", "token"}, u \in User \cup {None}, w \in Place \cup {None},
        k \in Sendable :
       MachineSends(by, u, w, k)
  \/ \E r \in requests : Identify(r) \/ Lookup(r) \/ Write(r)
  \/ \E u \in User, w \in Place, x \in Watched : ChangeRight(u, w, x)
  \/ \E u \in User : ChangeOwner(u)
  \/ \E user \in User \cup {None} : CookieChanges(user)
  \/ CacheExpires

Spec == Init /\ [][Next]_vars

-----------------------------------------------------------------------------
(* Properties *)

\* A tab works in no workspace that the server found for another account than the
\* one it shows as signed in: what a discovery finds is dropped when the user has
\* signed in or out meanwhile, and signing in or out forgets the workspace.  The
\* application does not keep this in three cases (astray), until the next discovery
\* of the account itself is answered or the user signs in or out: the first session
\* check is answered after a sign-in, and replaces the account only; a discovery is
\* served while the browser's session is another account's, because of another tab
\* or a sign-in or sign-out that is not answered; and the dialog is submitted after
\* a sign-in while it still lists the workspaces of the account before.
WorkspaceOfAccount ==
  \A t \in Tab \ astray : ws[t] # None => account[t] = auth[t]

\* Nothing is written or answered for an actor who, from the moment the request
\* was identified on, was no member, had no access to the branch or lacked a
\* permission that covers what the route does, although the route looks its rights
\* up one by one and they change meanwhile; and where the transaction asks again,
\* nothing is written for an actor who lacks what it asks for when it is written.
WriteWasGranted == \A w \in writes : w.lacked = {} /\ w.lacks = {}
=============================================================================
