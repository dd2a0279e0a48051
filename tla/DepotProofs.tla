----------------------------- MODULE DepotProofs -----------------------------
(***************************************************************************)
(* Rate lists, estimates and the assistant's write tools, for any lists,   *)
(* products, drafts and other people.                                      *)
(*                                                                         *)
(* Versions: the numbers of a list's versions have a greatest, so that one *)
(* that replaces the active version is newer than all; a version is never  *)
(* changed but in its status, and none that was archived comes back.       *)
(* Pages: so a price that was read stays a price of its list, and an       *)
(* answer is put only on the line it was asked for.                        *)
(* Books: what a draft is bound to stays, the prices it was approved at    *)
(* were not archived by then, and an estimate has an invoice if and only   *)
(* if it is converted.                                                     *)
(* Saves: what is asked of one edition of the form is one request, and     *)
(* what was refused stays refused, so an answer is of what the form shows. *)
(* Goods: sums count things, so what changes a part of one changes it by   *)
(* as much; open memos of a line reserve what is not delivered yet, and    *)
(* what was delivered counts as come back, so a line's memos amount to no  *)
(* more than it sold.                                                      *)
(***************************************************************************)
EXTENDS Depot, FiniteSetTheorems, WellFoundedInduction, TLAPS

-----------------------------------------------------------------------------
(* Numbers *)

\* A set of numbers that is bounded has a greatest member.
LEMMA MaxOfBounded ==
  ASSUME NEW S, NEW top \in Nat, S \subseteq Nat, S # {}, \A n \in S : n <= top
  PROVE  Max(S) \in S /\ \A n \in S : Max(S) >= n
<1>. DEFINE Bounds == {b \in Nat : \A n \in S : n <= b}
            less == OpToRel(<, Nat)
<1>1. IsWellFoundedOn(less, Nat)
  BY NatLessThanWellFounded
<1>2. Bounds \subseteq Nat /\ Bounds # {}
  OBVIOUS
<1>3. PICK b \in Bounds : \A y \in Bounds : ~(<<y, b>> \in less)
  <2>. HIDE DEF Bounds, less
  <2>. QED BY <1>1, <1>2, WFMin
<1>4. \A y \in Bounds : ~(y < b)
  BY <1>3 DEF OpToRel
<1>5. b \in S
  <2>1. SUFFICES ASSUME b \notin S PROVE FALSE
    OBVIOUS
  <2>2. \A n \in S : n < b
    BY <2>1
  <2>3. PICK n : n \in S
    OBVIOUS
  <2>. n \in Nat /\ n < b /\ b \in Nat
    BY <2>2, <2>3
  <2>4. b - 1 \in Bounds /\ b - 1 < b
    BY <2>2
  <2>. QED
    BY <2>4, <1>4
<1>6. \E x \in S : \A y \in S : x >= y
  BY <1>5
<1>. QED
  BY <1>6 DEF Max

Sequence(s) == s \in Seq(Range(s))

\* A sequence of members of a set is a sequence of its own members.
LEMMA RangeSequence == ASSUME NEW S, NEW s \in Seq(S) PROVE Sequence(s)
<1>1. Len(s) \in Nat /\ DOMAIN s = 1 .. Len(s) /\ s = [i \in 1 .. Len(s) |-> s[i]]
  OBVIOUS
<1>2. \A i \in DOMAIN s : s[i] \in Range(s)
  BY DEF Range
<1>3. s \in [1 .. Len(s) -> Range(s)]
  BY <1>1, <1>2
<1>. QED
  BY <1>1, <1>3 DEF Sequence

\* What Append does to a sequence.
LEMMA Appending ==
  ASSUME NEW s, Sequence(s), NEW e
  PROVE  /\ Sequence(Append(s, e))
         /\ Len(s) \in Nat /\ Len(Append(s, e)) = Len(s) + 1
         /\ DOMAIN s = 1 .. Len(s)
         /\ DOMAIN Append(s, e) = DOMAIN s \cup {Len(s) + 1}
         /\ \A i \in DOMAIN s : Append(s, e)[i] = s[i]
         /\ Append(s, e)[Len(s) + 1] = e
<1>. DEFINE S == Range(s) \cup {e}
            new == Append(s, e)
<1>1. s \in Seq(S)
  BY DEF Sequence
<1>2. new \in Seq(S)
  BY <1>1
<1>3. /\ Len(s) \in Nat /\ Len(new) = Len(s) + 1
      /\ DOMAIN s = 1 .. Len(s)
      /\ DOMAIN new = 1 .. Len(s) + 1
      /\ \A i \in DOMAIN s : new[i] = s[i]
      /\ new[Len(s) + 1] = e
  BY <1>1
<1>4. \A i \in DOMAIN new : new[i] \in Range(new)
  BY DEF Range
<1>. HIDE DEF new, S
<1>5. new \in [1 .. Len(new) -> S]
  BY <1>2
<1>6. new \in [1 .. Len(new) -> Range(new)]
  BY <1>3, <1>4, <1>5
<1>7. new \in Seq(Range(new))
  BY <1>6, <1>3
<1>. QED
  BY <1>3, <1>7 DEF Sequence, new

\* A function with a sequence's indices is a sequence as long.
LEMMA Updating ==
  ASSUME NEW s, Sequence(s), NEW t, t = [i \in DOMAIN s |-> t[i]]
  PROVE  Sequence(t) /\ Len(t) = Len(s) /\ DOMAIN t = DOMAIN s
<1>1. Len(s) \in Nat /\ DOMAIN s = 1 .. Len(s)
  BY DEF Sequence
<1>2. \A i \in DOMAIN t : t[i] \in Range(t)
  BY DEF Range
<1>3. DOMAIN t = 1 .. Len(s)
  BY <1>1
<1>4. t \in [1 .. Len(s) -> Range(t)]
  BY <1>1, <1>2, <1>3
<1>5. t \in Seq(Range(t)) /\ Len(t) = Len(s)
  BY <1>4, <1>1
<1>. QED
  BY <1>5, <1>3, <1>1 DEF Sequence

-----------------------------------------------------------------------------
(* Versions *)

Fields == {"list", "number", "status", "items", "from"}
VersionsTyped(V) ==
  /\ Sequence(V)
  /\ \A v \in DOMAIN V : DOMAIN V[v] = Fields /\ V[v].number \in Nat
Current(V) ==
  /\ \A v, w \in DOMAIN V :
       /\ V[v].list = V[w].list
       /\ V[v].status = "ACTIVE" /\ V[w].status = "ACTIVE"
       => v = w
  /\ \A w \in DOMAIN V : V[w].status = "ARCHIVED" =>
       \E v \in DOMAIN V : /\ V[v].list = V[w].list /\ V[v].status = "ACTIVE"
                           /\ V[w].number < V[v].number
Bounded(V) == \E top \in Nat : \A v \in DOMAIN V : V[v].number <= top
VersionsInv(V) == VersionsTyped(V) /\ Current(V)

\* A version is never changed but in its status, and not brought back.
Stays(V, W) ==
  \A v \in DOMAIN V :
    /\ v \in DOMAIN W
    /\ W[v].list = V[v].list /\ W[v].items = V[v].items /\ W[v].from = V[v].from
    /\ W[v].number = V[v].number
    /\ V[v].status = "ARCHIVED" => W[v].status = "ARCHIVED"

\* The numbers of a sequence of versions have a bound: otherwise there would be
\* a shortest part of it that has none.
LEMMA NumbersBounded == ASSUME NEW V, VersionsTyped(V) PROVE Bounded(V)
<1>. DEFINE Below(n, top) == \A v \in DOMAIN V : v <= n => V[v].number <= top
            Unbounded == {n \in Nat : ~\E top \in Nat : Below(n, top)}
            less == OpToRel(<, Nat)
<1>1. /\ Len(V) \in Nat /\ DOMAIN V = 1 .. Len(V)
      /\ \A v \in DOMAIN V : V[v].number \in Nat
  BY Appending DEF VersionsTyped
<1>2. SUFFICES Unbounded = {}
  <2>1. PICK top \in Nat : Below(Len(V), top)
    BY <1>1, <1>2
  <2>2. \A v \in DOMAIN V : V[v].number <= top
    BY <1>1, <2>1
  <2>. QED
    BY <2>2 DEF Bounded
<1>3. SUFFICES ASSUME Unbounded # {} PROVE FALSE
  OBVIOUS
<1>4. IsWellFoundedOn(less, Nat)
  BY NatLessThanWellFounded
<1>5. Unbounded \subseteq Nat
  OBVIOUS
<1>6. PICK n \in Unbounded : \A m \in Unbounded : ~(<<m, n>> \in less)
  <2>. HIDE DEF Unbounded, less
  <2>. QED BY <1>3, <1>4, <1>5, WFMin
<1>7. \A m \in Unbounded : ~(m < n)
  BY <1>5, <1>6 DEF OpToRel
<1>8. n # 0
  <2>1. Below(0, 0)
    BY <1>1
  <2>. QED
    BY <1>6, <2>1
<1>9. n \in Nat /\ n - 1 \in Nat /\ n - 1 < n
  <2>1. n \in Nat
    BY <1>5, <1>6, Zenon
  <2>. QED
    BY <1>8, <2>1
<1>10. PICK top \in Nat : Below(n - 1, top)
  BY <1>7, <1>9
<1>11. CASE n \in DOMAIN V
  <2>1. V[n].number \in Nat
    BY <1>1, <1>11
  <2>2. ASSUME NEW v \in DOMAIN V, v <= n PROVE V[v].number <= top + V[n].number
    <3>1. v \in Nat /\ V[v].number \in Nat
      BY <1>1
    <3>2. v = n \/ v <= n - 1
      BY <1>9, <2>2, <3>1
    <3>. QED
      BY <1>10, <2>1, <3>1, <3>2
  <2>3. top + V[n].number \in Nat
    BY <2>1
  <2>. QED
    BY <1>6, <2>2, <2>3
<1>12. CASE n \notin DOMAIN V
  <2>1. Below(n, top)
    BY <1>1, <1>5, <1>10, <1>12
  <2>. QED
    BY <1>6, <2>1
<1>. QED
  BY <1>11, <1>12

\* Archiving a list's active version changes only its status.
LEMMA ArchivedVersions ==
  ASSUME VersionsInv(versions), NEW list
  PROVE  LET W == Archived(list) IN
         /\ VersionsTyped(W) /\ Stays(versions, W)
         /\ DOMAIN W = DOMAIN versions /\ Len(W) = Len(versions)
         /\ \A v \in DOMAIN W :
              W[v].status =
                IF W[v].list = list /\ versions[v].status = "ACTIVE" THEN "ARCHIVED"
                ELSE versions[v].status
<1>. DEFINE W == Archived(list)
<1>1. DOMAIN W = DOMAIN versions /\ W = [i \in DOMAIN versions |-> W[i]]
  BY DEF Archived
<1>2. Sequence(W) /\ Len(W) = Len(versions)
  BY <1>1, Updating DEF VersionsInv, VersionsTyped
<1>3. ASSUME NEW v \in DOMAIN versions
      PROVE  /\ DOMAIN W[v] = Fields
             /\ W[v].list = versions[v].list /\ W[v].items = versions[v].items
             /\ W[v].from = versions[v].from /\ W[v].number = versions[v].number
             /\ W[v].status =
                  IF W[v].list = list /\ versions[v].status = "ACTIVE" THEN "ARCHIVED"
                  ELSE versions[v].status
  <2>1. DOMAIN versions[v] = Fields
    BY DEF VersionsInv, VersionsTyped
  <2>2. v \in ActiveOf(list) <=> versions[v].list = list /\ versions[v].status = "ACTIVE"
    BY DEF ActiveOf, VersionsOf
  <2>3. W[v] = IF v \in ActiveOf(list) THEN [versions[v] EXCEPT !.status = "ARCHIVED"]
               ELSE versions[v]
    BY DEF Archived
  <2>. HIDE DEF W
  <2>. QED
    BY <2>1, <2>2, <2>3 DEF Fields
<1>. HIDE DEF W
<1>4. VersionsTyped(W)
  BY <1>1, <1>2, <1>3 DEF VersionsTyped, VersionsInv
<1>5. Stays(versions, W)
  BY <1>1, <1>3 DEF Stays
<1>. QED
  BY <1>1, <1>2, <1>3, <1>4, <1>5 DEF W

-----------------------------------------------------------------------------
(* What a step may do to the versions *)

\* What a step may do to the versions.
Drafts == \E c \in calls : /\ c.what = "draft"
                           /\ Draft(c.list, c.number, c.items, c.from)
Publishes == \E c \in calls : /\ c.what = "publish"
                              /\ MayPublish(c.version) /\ Publish(c.version)
Replaces == \E list, items, from : Replace(list, items, from)
VersionsMove == UNCHANGED versions \/ Drafts \/ Publishes \/ Replaces

\* The assistant reaches the versions by a price change only.
LEMMA AssistVersions == ASSUME Assist PROVE VersionsMove
<1>1. CASE Prepare
  BY <1>1 DEF Prepare, VersionsMove
<1>2. CASE \E product \in Product : Receive(product)
  BY <1>2 DEF Receive, VersionsMove
<1>3. ASSUME NEW t \in DOMAIN tasks, Approve(t) \/ Recheck(t) \/ Verify(t)
      PROVE  VersionsMove
  BY <1>3 DEF Approve, Recheck, Verify, VersionsMove
<1>4. ASSUME NEW t \in DOMAIN tasks, CommitPrice(t) PROVE VersionsMove
  BY <1>4, Zenon DEF CommitPrice, CommitOrRefuse, VersionsMove, Replaces
<1>5. ASSUME NEW t \in DOMAIN tasks,
             \/ CommitEstimate(t) \/ CommitInvoice(t) \/ CommitConversion(t)
             \/ CommitReturn(t) \/ CommitMemo(t)
      PROVE  VersionsMove
  BY <1>5, Zenon DEF CommitEstimate, CommitInvoice, CommitConversion, CommitReturn,
     CommitMemo, CommitOrRefuse, VersionsMove
<1>6. ASSUME NEW t \in DOMAIN tasks,
             \/ CommitTransfer(t) \/ CommitDelivery(t) \/ CommitDispatch(t)
             \/ CommitRecord(t)
      PROVE  VersionsMove
  BY <1>6, Zenon DEF CommitTransfer, CommitDelivery, CommitDispatch,
     CommitRecord, CommitOrRefuse, VersionsMove
<1>. QED
  BY <1>1, <1>2, <1>3, <1>4, <1>5, <1>6, Zenon DEF Assist, Execute

\* No step changes the versions but a draft, a publication and a replacement.
LEMMA VersionsStep == ASSUME [DepotNext]_depotVars PROVE VersionsMove
<1>1. CASE UNCHANGED depotVars
  BY <1>1, Zenon DEF depotVars, vars, VersionsMove
<1>2. CASE Assist
  BY <1>2, AssistVersions
<1>3. CASE UseRegister
  BY <1>3, Zenon DEF UseRegister, OpenDetail, CloseDetail, OpenVersionEditor,
     CloseVersionEditor, SubmitVersion, PressPublish, VersionsMove
<1>4. CASE UseForm \/ Convert \/ Flush \/ MarkReady
  BY <1>4, Zenon DEF UseForm, Convert, Flush, MarkReady, rateVars, VersionsMove
<1>5. CASE Elsewhere
  BY <1>5, Zenon DEF Elsewhere, Import, Reprice, VersionsMove, Replaces
<1>6. ASSUME NEW c \in calls, Serve(c) PROVE VersionsMove
  <2>1. CASE ServeRegister(c)
    BY <2>1, Zenon DEF ServeRegister, ServeDetail, ServeDraft, ServePublish,
       VersionsMove, Drafts, Publishes
  <2>. QED
    BY <1>6, <2>1, Zenon DEF Serve, rateVars, VersionsMove
<1>7. ASSUME NEW c \in calls, Lose(c) \/ Deliver(c) PROVE VersionsMove
  BY <1>7, Zenon DEF Lose, Deliver, DeliverRegister, DeliverToForm, DeliverToSession,
     rateVars, VersionsMove
<1>. QED
  BY <1>1, <1>2, <1>3, <1>4, <1>5, <1>6, <1>7, Zenon DEF DepotNext, Next, Others

\* The next number is above every number of the list.
LEMMA NumberAfterAll ==
  ASSUME VersionsInv(versions), NEW list
  PROVE  /\ NumberAfter(list) \in Nat
         /\ \A v \in DOMAIN versions :
              versions[v].list = list => versions[v].number < NumberAfter(list)
<1>. DEFINE S == NumbersOf(list) \cup {0}
<1>1. PICK top \in Nat : \A v \in DOMAIN versions : versions[v].number <= top
  BY NumbersBounded DEF VersionsInv, Bounded
<1>2. S \subseteq Nat /\ S # {} /\ \A n \in S : n <= top
  BY <1>1 DEF VersionsInv, VersionsTyped, NumbersOf, VersionsOf
<1>3. \A v \in DOMAIN versions : versions[v].list = list => versions[v].number \in S
  BY DEF NumbersOf, VersionsOf
<1>4. Max(S) \in S /\ \A n \in S : Max(S) >= n
  <2>. HIDE DEF S
  <2>. QED BY <1>2, MaxOfBounded
<1>5. NumberAfter(list) = Max(S) + 1
  BY DEF NumberAfter
<1>. DEFINE m == Max(S)
<1>. HIDE DEF S, m
<1>6. m \in Nat
  BY <1>2, <1>4 DEF m
<1>7. ASSUME NEW v \in DOMAIN versions, versions[v].list = list
      PROVE  versions[v].number < m + 1
  <2>1. versions[v].number \in S /\ versions[v].number \in Nat
    BY <1>2, <1>3, <1>7
  <2>2. m >= versions[v].number
    BY <1>4, <2>1 DEF m
  <2>. QED
    BY <1>6, <2>1, <2>2
<1>. QED
  BY <1>5, <1>6, <1>7 DEF m

\* V with a new version is W.
Adds(V, W, new) ==
  /\ VersionsTyped(W) /\ Stays(V, W)
  /\ DOMAIN W = DOMAIN V \cup {Len(V) + 1} /\ Len(V) + 1 \notin DOMAIN V
  /\ \A v \in DOMAIN V : W[v] = V[v]
  /\ W[Len(V) + 1] = new

\* Appending a version changes none of those before it.
LEMMA AddedVersion ==
  ASSUME NEW V, VersionsTyped(V),
         NEW new, DOMAIN new = Fields, new.number \in Nat
  PROVE  Adds(V, Append(V, new), new)
<1>. DEFINE W == Append(V, new)
<1>1. /\ Sequence(W) /\ DOMAIN W = DOMAIN V \cup {Len(V) + 1}
      /\ Len(V) + 1 \notin DOMAIN V
      /\ \A v \in DOMAIN V : W[v] = V[v]
      /\ W[Len(V) + 1] = new
  BY Appending DEF VersionsTyped
<1>. HIDE DEF W
<1>2. VersionsTyped(W)
  BY <1>1 DEF VersionsTyped
<1>3. Stays(V, W)
  BY <1>1 DEF Stays
<1>. QED
  BY <1>1, <1>2, <1>3 DEF Adds, W

\* A saved draft keeps the versions in order.
LEMMA DraftInv ==
  ASSUME VersionsInv(versions), NEW list, NEW number \in Nat, NEW items, NEW from,
         Draft(list, number, items, from)
  PROVE  VersionsInv(versions') /\ Stays(versions, versions')
<1>. DEFINE new == Version(list, number, "DRAFT", items, from)
<1>1. versions' = Append(versions, new) /\ VersionsTyped(versions)
  BY DEF Draft, VersionsInv
<1>2. DOMAIN new = Fields /\ new.number \in Nat /\ new.status = "DRAFT"
  BY DEF Version, Fields
<1>. HIDE DEF new
<1>3. Adds(versions, versions', new)
  BY <1>1, <1>2, AddedVersion
<1>4. Current(versions')
  BY <1>2, <1>3 DEF VersionsInv, Current, Adds
<1>. QED
  BY <1>3, <1>4 DEF VersionsInv, Adds

\* Stays is transitive.
LEMMA StaysOn ==
  ASSUME NEW U, NEW V, NEW W, Stays(U, V), Stays(V, W)
  PROVE  Stays(U, W)
BY DEF Stays

\* An import or a price change publishes a version newer than all of its list.
LEMMA ReplaceInv ==
  ASSUME VersionsInv(versions), NEW list, NEW items, NEW from,
         Replace(list, items, from)
  PROVE  VersionsInv(versions') /\ Stays(versions, versions')
<1>. DEFINE V == Archived(list)
            number == NumberAfter(list)
            new == Version(list, number, "ACTIVE", items, from)
<1>1. versions' = Append(V, new)
  BY DEF Replace
<1>2. number \in Nat /\ \A v \in DOMAIN versions :
        versions[v].list = list => versions[v].number < number
  BY NumberAfterAll
<1>3. /\ VersionsTyped(V) /\ Stays(versions, V)
      /\ DOMAIN V = DOMAIN versions
      /\ \A v \in DOMAIN V :
           V[v].status = IF V[v].list = list /\ versions[v].status = "ACTIVE"
                         THEN "ARCHIVED" ELSE versions[v].status
  BY ArchivedVersions
<1>4. /\ new.status = "ACTIVE" /\ new.list = list /\ new.number = number
      /\ DOMAIN new = Fields /\ new.number \in Nat
  BY <1>2 DEF Version, Fields
<1>. HIDE DEF V, number, new
<1>5. Adds(V, versions', new)
  BY <1>1, <1>3, <1>4, AddedVersion
<1>. USE DEF Adds
<1>6. Current(versions')
  <2>1. ASSUME NEW v \in DOMAIN versions', NEW w \in DOMAIN versions',
               versions'[v].list = versions'[w].list,
               versions'[v].status = "ACTIVE", versions'[w].status = "ACTIVE"
        PROVE  v = w
    BY <1>3, <1>4, <1>5, <2>1 DEF VersionsInv, Current, Stays
  <2>2. ASSUME NEW w \in DOMAIN versions', versions'[w].status = "ARCHIVED"
        PROVE  \E v \in DOMAIN versions' :
                 /\ versions'[v].list = versions'[w].list
                 /\ versions'[v].status = "ACTIVE"
                 /\ versions'[w].number < versions'[v].number
    <3>1. w \in DOMAIN versions /\ versions'[w] = V[w]
      BY <1>3, <1>4, <1>5, <2>2
    <3>2. CASE versions[w].list = list
      BY <1>2, <1>3, <1>4, <1>5, <3>1, <3>2 DEF Stays
    <3>3. CASE versions[w].list # list
      <4>1. versions[w].status = "ARCHIVED"
        BY <1>3, <2>2, <3>1, <3>3 DEF Stays
      <4>2. PICK v \in DOMAIN versions :
              /\ versions[v].list = versions[w].list /\ versions[v].status = "ACTIVE"
              /\ versions[w].number < versions[v].number
        BY <3>1, <4>1 DEF VersionsInv, Current
      <4>3. versions'[v] = V[v] /\ V[v].status = "ACTIVE"
        BY <1>3, <1>5, <3>3, <4>2 DEF Stays
      <4>. QED
        BY <1>3, <1>5, <3>1, <4>2, <4>3 DEF Stays
    <3>. QED
      BY <3>2, <3>3
  <2>. QED
    BY <2>1, <2>2 DEF Current
<1>7. Stays(versions, versions')
  BY <1>3, <1>5, StaysOn
<1>. QED
  BY <1>5, <1>6, <1>7 DEF VersionsInv

\* Only a draft that is newer than the active version is published.
LEMMA PublishInv ==
  ASSUME VersionsInv(versions), NEW x \in DOMAIN versions, MayPublish(x), Publish(x)
  PROVE  VersionsInv(versions') /\ Stays(versions, versions')
<1>. DEFINE list == versions[x].list
            V == Archived(list)
<1>1. versions' = [V EXCEPT ![x].status = "ACTIVE"]
  BY DEF Publish
<1>2. /\ versions[x].status = "DRAFT"
      /\ \A v \in DOMAIN versions :
           versions[v].list = list /\ versions[v].status = "ACTIVE"
             => versions[v].number < versions[x].number
  BY DEF MayPublish, ActiveOf, VersionsOf, VersionsInv, VersionsTyped
<1>3. /\ VersionsTyped(V) /\ Stays(versions, V)
      /\ DOMAIN V = DOMAIN versions
      /\ \A v \in DOMAIN V :
           V[v].status = IF V[v].list = list /\ versions[v].status = "ACTIVE"
                         THEN "ARCHIVED" ELSE versions[v].status
  BY ArchivedVersions
<1>. HIDE DEF V
<1>4. /\ versions' = [i \in DOMAIN V |-> versions'[i]]
      /\ \A v \in DOMAIN V : v # x => versions'[v] = V[v]
      /\ versions'[x] = [V[x] EXCEPT !.status = "ACTIVE"]
  BY <1>1, <1>3
<1>5. /\ DOMAIN versions'[x] = Fields /\ versions'[x].status = "ACTIVE"
      /\ versions'[x].list = V[x].list /\ versions'[x].items = V[x].items
      /\ versions'[x].from = V[x].from /\ versions'[x].number = V[x].number
  BY <1>3, <1>4 DEF VersionsTyped, Fields
<1>6. DOMAIN versions' = DOMAIN V /\ VersionsTyped(versions')
  BY <1>3, <1>4, <1>5, Updating DEF VersionsTyped
<1>7. Stays(versions, versions')
  <2>1. ASSUME NEW v \in DOMAIN versions
        PROVE  /\ v \in DOMAIN versions'
               /\ versions'[v].list = V[v].list /\ versions'[v].items = V[v].items
               /\ versions'[v].from = V[v].from /\ versions'[v].number = V[v].number
               /\ versions[v].status = "ARCHIVED" => versions'[v].status = V[v].status
    BY <1>2, <1>3, <1>4, <1>5, <1>6
  <2>. QED
    BY <1>3, <2>1 DEF Stays
<1>8. \A v \in DOMAIN versions : v # x =>
        versions'[v].status = IF versions[v].list = list /\ versions[v].status = "ACTIVE"
                              THEN "ARCHIVED" ELSE versions[v].status
  BY <1>3, <1>4 DEF Stays
<1>9. Current(versions')
  <2>1. ASSUME NEW v \in DOMAIN versions', NEW w \in DOMAIN versions',
               versions'[v].list = versions'[w].list,
               versions'[v].status = "ACTIVE", versions'[w].status = "ACTIVE"
        PROVE  v = w
    BY <1>3, <1>5, <1>6, <1>7, <1>8, <2>1 DEF VersionsInv, Current, Stays
  <2>2. ASSUME NEW w \in DOMAIN versions', versions'[w].status = "ARCHIVED"
        PROVE  \E v \in DOMAIN versions' :
                 /\ versions'[v].list = versions'[w].list
                 /\ versions'[v].status = "ACTIVE"
                 /\ versions'[w].number < versions'[v].number
    <3>1. w \in DOMAIN versions /\ w # x
      BY <1>3, <1>5, <1>6, <2>2
    <3>2. CASE versions[w].status = "ACTIVE"
      BY <1>2, <1>5, <1>6, <1>7, <1>8, <2>2, <3>1, <3>2 DEF Stays
    <3>3. CASE versions[w].status # "ACTIVE"
      <4>1. versions[w].status = "ARCHIVED"
        BY <1>8, <2>2, <3>1, <3>3
      <4>2. PICK v \in DOMAIN versions :
              /\ versions[v].list = versions[w].list /\ versions[v].status = "ACTIVE"
              /\ versions[w].number < versions[v].number
        BY <3>1, <4>1 DEF VersionsInv, Current
      <4>3. CASE versions[v].list = list
        <5>1. /\ versions[w].number \in Nat /\ versions[v].number \in Nat
              /\ versions[x].number \in Nat
          BY <3>1 DEF VersionsInv, VersionsTyped
        <5>2. versions[w].number < versions[x].number
          BY <1>2, <4>2, <4>3, <5>1
        <5>3. /\ versions'[x].list = versions'[w].list
              /\ versions'[w].number < versions'[x].number
          BY <1>7, <3>1, <4>2, <4>3, <5>2 DEF Stays
        <5>. QED
          BY <1>3, <1>5, <1>6, <5>3
      <4>4. CASE versions[v].list # list
        BY <1>6, <1>7, <1>8, <3>1, <4>2, <4>4 DEF Stays
      <4>. QED
        BY <4>3, <4>4
    <3>. QED
      BY <3>2, <3>3
  <2>. QED
    BY <2>1, <2>2 DEF Current
<1>. QED
  BY <1>6, <1>7, <1>9 DEF VersionsInv

Core == {"id", "stage", "answer", "waiting"}

-----------------------------------------------------------------------------
(* What the pages hold: prices of the lists *)

Own(key) == \A t : key # <<"assistant", t>>
HasPrice(list, product, quantity, rate) ==
  \E v \in VersionsOf(list) : PriceIn(v, product, quantity) = rate

LineFields == {"obj", "product", "quantity", "rate", "list", "odd"}
LineOK(line) ==
  /\ DOMAIN line = LineFields /\ line.quantity \in Nat \ {0}
  /\ line.list # None /\ ~line.odd
       => HasPrice(line.list, line.product, line.quantity, line.rate)
ReviewOK(r) == r.rate > 0 => HasPrice(r.list, r.product, r.quantity, r.rate)
DraftFields == {"line", "list", "customer", "number"}
StateFields == {"key", "saved", "busy", "dialog", "review", "edition", "edited",
                "stray"}
FormOK(f) ==
  /\ DOMAIN f = DraftFields \cup StateFields
  /\ LineOK(f.line)
  /\ f.dialog = "review" => ReviewOK(f.review)
  /\ f.key # None => Own(f.key)
StoredOK(s) == s # None => DOMAIN s = DraftFields /\ LineOK(s.line)
Sellable(lines) ==
  DOMAIN lines # {} /\ \A i \in DOMAIN lines : lines[i].quantity \in Nat \ {0}
ContentOK(content) ==
  /\ DOMAIN content = {"number", "customer", "list", "lines"}
  /\ Sellable(content.lines)
RequestOK(r) ==
  /\ DOMAIN r = {"key", "content", "print", "edition"}
  /\ r.print = None /\ Own(r.key) /\ ContentOK(r.content)

AnswerOK(c, a) ==
  /\ c.what = "detail" => a \subseteq DOMAIN versions
  /\ c.what \in {"rate", "preview"} /\ a > 0
       => HasPrice(c.list, c.product, c.quantity, a)
CallOK(c) ==
  /\ Core \cup {"what"} \subseteq DOMAIN c
  /\ c.what = "draft" => "number" \in DOMAIN c /\ c.number \in Nat
  /\ c.what = "publish" => "version" \in DOMAIN c /\ c.version \in DOMAIN versions
  /\ c.what \in {"detail", "rate", "preview"} => "list" \in DOMAIN c
  /\ c.what \in {"rate", "preview"} => {"product", "quantity"} \subseteq DOMAIN c
  /\ c.what = "customer" => "content" \in DOMAIN c /\ ContentOK(c.content)
  /\ c.what = "create" => "request" \in DOMAIN c /\ RequestOK(c.request)
  /\ c.what = "confirm" => "key" \in DOMAIN c /\ Own(c.key)
  /\ c.stage = "served" => AnswerOK(c, c.answer)

RegisterOK(r) == "drafts" \in DOMAIN r /\ r.drafts \subseteq DOMAIN versions
SessionOK(s) == s # None => "key" \in DOMAIN s /\ Own(s.key)

FormInv == /\ FormOK(form) /\ StoredOK(stored)
           /\ \A r \in queue : RequestOK(r)
PagesInv == /\ VersionsInv(versions) /\ RegisterOK(register) /\ FormInv
            /\ SessionOK(session) /\ \A c \in calls : CallOK(c)

\* A price that was read stays a price of its list, archived or not.
LEMMA PriceStays ==
  ASSUME Stays(versions, versions')
  PROVE  /\ DOMAIN versions \subseteq DOMAIN versions'
         /\ \A list, product, quantity, rate :
              HasPrice(list, product, quantity, rate)
                => HasPrice(list, product, quantity, rate)'
<1>1. \A v \in DOMAIN versions : \A product, quantity :
        PriceIn(v, product, quantity)' = PriceIn(v, product, quantity)
  BY DEF PriceIn, Stays
<1>2. \A v \in DOMAIN versions : v \in DOMAIN versions' /\ versions'[v].list = versions[v].list
  BY DEF Stays
<1>3. \A list : VersionsOf(list) \subseteq VersionsOf(list)'
  BY <1>2 DEF VersionsOf
<1>. QED
  BY <1>1, <1>2, <1>3 DEF HasPrice, VersionsOf

\* So what the pages hold stays true while versions are added and archived.
LEMMA KeptOK ==
  ASSUME Stays(versions, versions')
  PROVE  /\ \A f : FormOK(f) => FormOK(f)'
         /\ \A s : StoredOK(s) => StoredOK(s)'
         /\ \A c : CallOK(c) => CallOK(c)'
         /\ \A r : RegisterOK(r) => RegisterOK(r)'
<1>1. /\ DOMAIN versions \subseteq DOMAIN versions'
      /\ \A list, product, quantity, rate :
           HasPrice(list, product, quantity, rate)
             => HasPrice(list, product, quantity, rate)'
  BY PriceStays
<1>2. \A line : LineOK(line) => LineOK(line)'
  BY <1>1 DEF LineOK
<1>3. \A r : ReviewOK(r) => ReviewOK(r)'
  BY <1>1 DEF ReviewOK
<1>4. \A c, a : AnswerOK(c, a) => AnswerOK(c, a)'
  BY <1>1 DEF AnswerOK
<1>5. \A f : FormOK(f) => FormOK(f)'
  BY <1>2, <1>3 DEF FormOK
<1>6. \A s : StoredOK(s) => StoredOK(s)'
  BY <1>2 DEF StoredOK
<1>7. \A c : CallOK(c) => CallOK(c)'
  BY <1>1, <1>4 DEF CallOK
<1>8. \A r : RegisterOK(r) => RegisterOK(r)'
  BY <1>1 DEF RegisterOK
<1>. QED
  BY <1>5, <1>6, <1>7, <1>8

\* What keeps the form on an edit keeps its line.
LEMMA InvalidateOK ==
  ASSUME NEW f, FormOK(f), Invalidate(f)
  PROVE  FormOK(form') /\ StoredOK(stored')
<1>1. /\ DOMAIN form' = DOMAIN f
      /\ form'.line = f.line /\ form'.review = f.review /\ form'.dialog = f.dialog
      /\ form'.key = None
  BY DEF Invalidate, FormOK, DraftFields, StateFields
<1>2. DOMAIN stored' = DraftFields /\ stored'.line = f.line
  BY DEF Invalidate, Snapshot, EmptyDraft, DraftFields
<1>. QED
  BY <1>1, <1>2 DEF FormOK, StoredOK

-----------------------------------------------------------------------------
(* The form *)

\* The form after a step, at the prices before it.
FormNext == /\ FormOK(form') /\ StoredOK(stored')
            /\ \A r \in queue' : RequestOK(r)

\* A form may get any line that is in order.
LEMMA LineChanged ==
  ASSUME NEW f, FormOK(f), NEW line, LineOK(line)
  PROVE  FormOK([f EXCEPT !.line = line])
BY DEF FormOK, DraftFields, StateFields

\* An edit and the question it asks keep the form.
LEMMA EditOK ==
  ASSUME FormInv, NEW f, FormOK(f), EditAndAsk(f) \/ Edit(f), UNCHANGED queue
  PROVE  FormNext
<1>1. Invalidate(f)
  BY DEF EditAndAsk, Edit
<1>. QED
  BY <1>1, InvalidateOK DEF FormInv, FormNext

\* Each edit keeps the form: a rate that changes hands drops its list.
LEMMA EditFormNext == ASSUME FormInv, EditForm PROVE FormNext
<1>. DEFINE line == form.line
<1>1. /\ DOMAIN form = DraftFields \cup StateFields /\ FormOK(form)
      /\ DOMAIN line = LineFields /\ LineOK(line) /\ UNCHANGED queue
  BY DEF FormInv, FormOK, LineOK, EditForm
<1>2. ASSUME NEW product \in Product, ChooseProduct(product) PROVE FormNext
  <2>. DEFINE new == [line EXCEPT !.obj = IF @ = 0 THEN left.steps ELSE @,
                                  !.product = product, !.rate = SalePrice[product],
                                  !.list = None]
              f == [form EXCEPT !.line = new]
  <2>1. LineOK(new)
    BY <1>1 DEF LineOK, LineFields
  <2>2. EditAndAsk(f)
    BY <1>2 DEF ChooseProduct
  <2>3. FormOK(f)
    BY <1>1, <2>1, LineChanged
  <2>. HIDE DEF f
  <2>. QED
    BY <1>1, <2>2, <2>3, EditOK
<1>3. ASSUME NEW quantity \in Quantity, EditQuantity(quantity) PROVE FormNext
  <2>. DEFINE f == [form EXCEPT !.line.quantity = quantity, !.line.odd = TRUE]
  <2>1. EditAndAsk(f)
    BY <1>3 DEF EditQuantity
  <2>2. FormOK(f)
    <3>1. DOMAIN f = DOMAIN form /\ \A x \in DOMAIN f \ {"line"} : f[x] = form[x]
      BY <1>1
    <3>2. /\ DOMAIN f.line = LineFields /\ f.line.quantity = quantity
          /\ f.line.odd = TRUE
      BY <1>1 DEF DraftFields, LineFields
    <3>. HIDE DEF f
    <3>3. LineOK(f.line)
      BY <3>2, RateListsAssumption DEF LineOK
    <3>. QED
      BY <1>1, <3>1, <3>3 DEF FormOK, DraftFields, StateFields
  <2>. HIDE DEF f
  <2>. QED
    BY <1>1, <2>1, <2>2, EditOK
<1>4. ASSUME NEW rate \in Prices, EditRate(rate) PROVE FormNext
  <2>. DEFINE new == [line EXCEPT !.rate = rate, !.list = None]
              f == [form EXCEPT !.line = new]
  <2>1. LineOK(new)
    BY <1>1 DEF LineOK, LineFields
  <2>2. Edit(f)
    BY <1>4 DEF EditRate
  <2>3. FormOK(f)
    BY <1>1, <2>1, LineChanged
  <2>. HIDE DEF f
  <2>. QED
    BY <1>1, <2>2, <2>3, EditOK
<1>5. ASSUME RemoveLine PROVE FormNext
  <2>. DEFINE f == [form EXCEPT !.line = BlankLine]
  <2>1. LineOK(BlankLine)
    BY DEF LineOK, LineFields, BlankLine
  <2>2. Edit(f)
    BY <1>5 DEF RemoveLine
  <2>3. FormOK(f)
    BY <1>1, <2>1, LineChanged
  <2>. HIDE DEF f
  <2>. QED
    BY <1>1, <2>2, <2>3, EditOK
<1>6. ASSUME NEW customer, EditCustomer(customer) PROVE FormNext
  <2>. DEFINE f == [form EXCEPT !.customer = customer]
  <2>1. FormOK(f)
    BY <1>1 DEF FormOK, DraftFields, StateFields
  <2>2. Edit(f)
    BY <1>6 DEF EditCustomer
  <2>. HIDE DEF f
  <2>. QED
    BY <1>1, <2>1, <2>2, EditOK
<1>7. ASSUME NEW number, EditNumber(number) PROVE FormNext
  <2>. DEFINE f == [form EXCEPT !.number = number]
  <2>1. FormOK(f)
    BY <1>1 DEF FormOK, DraftFields, StateFields
  <2>2. Edit(f)
    BY <1>7 DEF EditNumber
  <2>. HIDE DEF f
  <2>. QED
    BY <1>1, <2>1, <2>2, EditOK
<1>. QED
  BY <1>2, <1>3, <1>4, <1>5, <1>6, <1>7, Zenon DEF EditForm

\* What the form submits has its line.
LEMMA ContentsOK ==
  ASSUME NEW f, FormOK(f)
  PROVE  ContentOK(Content(f))
<1>. DEFINE line == [product |-> f.line.product, quantity |-> f.line.quantity,
                     rate |-> f.line.rate]
<1>1. line.quantity \in Nat \ {0}
  BY DEF FormOK, LineOK
<1>2. Sellable(<<line>>)
  BY <1>1 DEF Sellable
<1>. QED
  BY <1>2 DEF Content, ContentOK

\* The requests the form makes.
LEMMA RequestsOK ==
  ASSUME NEW f, FormOK(f), NEW content, ContentOK(content), NEW n
  PROVE  RequestOK(Request(f, content, n))
<1>1. Own(KeyOf(f))
  BY DEF KeyOf, FormOK, Own
<1>2. ContentOK(content) /\ Request(f, content, n).print = None
  BY DEF Request
<1>. QED
  BY <1>1, <1>2 DEF RequestOK, Request

\* Keeping the key of a try changes the form in its key only.
LEMMA KeepKeyOK ==
  ASSUME FormInv, NEW f, FormOK(f), KeepKey(f)
  PROVE  FormNext
<1>1. Own(KeyOf(f))
  BY DEF KeyOf, FormOK, Own
<1>2. /\ DOMAIN form' = DOMAIN f
      /\ \A x \in DOMAIN f \ {"key"} : form'[x] = f[x]
      /\ form'.key = KeyOf(f)
  BY DEF KeepKey, FormOK, DraftFields, StateFields
<1>3. FormOK(form')
  BY <1>1, <1>2 DEF FormOK, DraftFields, StateFields
<1>. QED
  BY <1>3 DEF KeepKey, FormNext, FormInv

\* A queued request has what the form had.
LEMMA QueueEstimateOK ==
  ASSUME FormInv, NEW f, FormOK(f), NEW content, ContentOK(content), NEW n,
         QueueEstimate(f, content, n)
  PROVE  FormNext
<1>1. Own(KeyOf(f)) /\ RequestOK(Request(f, content, n))
  BY RequestsOK DEF KeyOf, FormOK, Own
<1>2. /\ DOMAIN form' = DOMAIN f
      /\ \A x \in DOMAIN f \ {"key", "busy"} : form'[x] = f[x]
      /\ form'.key = KeyOf(f)
  BY DEF QueueEstimate, FormOK, DraftFields, StateFields
<1>3. FormOK(form')
  BY <1>1, <1>2 DEF FormOK, DraftFields, StateFields
<1>4. StoredOK(stored')
  BY DEF QueueEstimate, Snapshot, EmptyDraft, DraftFields, StoredOK, FormOK
<1>5. \A r \in queue' : RequestOK(r)
  BY <1>1 DEF QueueEstimate, FormInv
<1>. QED
  BY <1>3, <1>4, <1>5 DEF FormNext

\* The dialogs put only reviewed prices on the line they were asked for.
LEMMA DialogsFormNext == ASSUME FormInv, UseDialogs PROVE FormNext
<1>1. DOMAIN form = DraftFields \cup StateFields /\ FormOK(form) /\ UNCHANGED queue
  BY DEF FormInv, FormOK, UseDialogs
<1>2. ASSUME NEW dialog \in {"none", "lists"}, Show(dialog) PROVE FormNext
  <2>1. FormOK(form')
    BY <1>1, <1>2 DEF Show, FormOK, DraftFields, StateFields
  <2>. QED
    BY <1>1, <1>2, <2>1 DEF Show, FormInv, FormNext
<1>3. ASSUME NEW list, PreviewRates(list) PROVE FormNext
  <2>. DEFINE f == [form EXCEPT !.list = list, !.dialog = "none"]
  <2>1. FormOK(f)
    BY <1>1 DEF FormOK, DraftFields, StateFields
  <2>2. CASE Invalidate(f)
    <3>. HIDE DEF f
    <3>. QED
      BY <1>1, <2>1, <2>2, InvalidateOK DEF FormInv, FormNext
  <2>3. CASE UNCHANGED <<form, stored>>
    BY <1>1, <2>3 DEF FormInv, FormNext
  <2>. QED
    BY <1>3, <2>2, <2>3 DEF PreviewRates
<1>4. ASSUME ApplyReviewed PROVE FormNext
  <2>. DEFINE review == form.review
              line == [form.line EXCEPT !.rate = review.rate, !.list = review.list,
                         !.odd = form.line.quantity # review.quantity]
              f == [form EXCEPT !.line = line, !.list = review.list, !.review = None,
                                !.dialog = "none"]
  <2>1. Invalidate(f)
    BY <1>4 DEF ApplyReviewed
  <2>2. HasPrice(review.list, review.product, review.quantity, review.rate)
    BY <1>1, <1>4 DEF ApplyReviewed, FormOK, ReviewOK
  <2>3. LineOK(line)
    BY <1>1, <1>4, <2>2 DEF ApplyReviewed, FormOK, LineOK, LineFields
  <2>. HIDE DEF line
  <2>4. FormOK(f)
    BY <1>1, <2>3 DEF FormOK, ReviewOK, DraftFields, StateFields
  <2>. HIDE DEF f
  <2>. QED
    BY <1>1, <2>1, <2>4, InvalidateOK DEF FormInv, FormNext
<1>. QED
  BY <1>2, <1>3, <1>4, Zenon DEF UseDialogs, OpenRateLists, CloseDialog, BackToRateLists

\* Saving changes nothing of the line.
LEMMA SaveFormNext == ASSUME FormInv, Save PROVE FormNext
<1>. DEFINE f == [form EXCEPT !.busy = TRUE, !.edited = FALSE]
<1>1. FormOK(form) /\ FormOK(f) /\ ContentOK(Content(form))
  BY ContentsOK DEF FormInv, FormOK, DraftFields, StateFields
<1>2. CASE form' = f /\ UNCHANGED <<stored, queue>>
  BY <1>1, <1>2 DEF FormInv, FormNext
<1>. HIDE DEF f
<1>3. CASE KeepKey(f)
  BY <1>1, <1>3, KeepKeyOK
<1>4. CASE QueueEstimate(f, Content(form), form.edition)
  BY <1>1, <1>4, QueueEstimateOK
<1>. QED
  BY <1>2, <1>3, <1>4 DEF Save, f

\* A draft that is opened is a form.
LEMMA OpenedOK ==
  ASSUME NEW draft, DOMAIN draft = DraftFields, LineOK(draft.line), NEW n
  PROVE  FormOK(Opened(draft, n))
<1>. DEFINE f == Opened(draft, n)
<1>1. /\ DOMAIN f = DraftFields \cup StateFields
      /\ f.line = draft.line /\ f.review = None /\ f.dialog = "none" /\ f.key = None
  BY DEF Opened, ++, DraftFields, StateFields
<1>. HIDE DEF f
<1>2. FormOK(f)
  BY <1>1 DEF FormOK, ReviewOK
<1>. QED
  BY <1>2 DEF f

\* A reload opens the draft that was stored.
LEMMA ReloadFormNext == ASSUME FormInv, Reload PROVE FormNext
<1>. DEFINE draft == IF stored = None THEN EmptyDraft ELSE stored
            line == draft.line
            new == IF line.list = None /\ draft.list # None /\ ~Blank(line)
                   THEN [line EXCEPT !.list = draft.list, !.odd = TRUE] ELSE line
            opened == [draft EXCEPT !.line = new]
<1>1. DOMAIN EmptyDraft = DraftFields /\ LineOK(EmptyDraft.line)
  BY DEF EmptyDraft, DraftFields, LineOK, BlankLine, LineFields
<1>2. DOMAIN draft = DraftFields /\ LineOK(line)
  BY <1>1 DEF FormInv, StoredOK
<1>. HIDE DEF draft
<1>3. LineOK(new)
  BY <1>2 DEF LineOK, LineFields
<1>. HIDE DEF new
<1>4. DOMAIN opened = DraftFields /\ opened.line = new
  BY <1>2 DEF DraftFields
<1>5. form' = Opened(opened, form.edition + 1) /\ UNCHANGED <<stored, queue>>
  BY DEF Reload, draft, new
<1>. HIDE DEF opened
<1>. QED
  BY <1>3, <1>4, <1>5, OpenedOK DEF FormInv, FormNext

\* What the user does with the form keeps it.
LEMMA UseFormNext == ASSUME FormInv, UseForm PROVE FormNext
BY EditFormNext, DialogsFormNext, SaveFormNext, ReloadFormNext, Zenon DEF UseForm

\* An answer is put on the line it was asked for, or it is dropped.
LEMMA DeliverFormNext ==
  ASSUME FormInv, NEW c \in calls, CallOK(c), DeliverToForm(c)
  PROVE  FormNext
<1>1. DOMAIN form = DraftFields \cup StateFields /\ FormOK(form)
  BY DEF FormInv, FormOK
<1>2. ASSUME GetRate(c) PROVE FormNext
  <2>1. CASE UNCHANGED <<form, stored>>
    BY <1>1, <1>2, <2>1 DEF GetRate, FormInv, FormNext
  <2>2. CASE Invalidate(form)
    BY <1>1, <1>2, <2>2, InvalidateOK DEF GetRate, FormInv, FormNext
  <2>3. CASE c.stage = "served" /\ c.answer > 0 /\ SameLine(c)
    <3>. DEFINE line == [form.line EXCEPT !.rate = c.answer, !.list = c.list, !.odd = FALSE]
                f == [form EXCEPT !.line = line]
    <3>1. Invalidate(f) /\ UNCHANGED queue
      BY <1>2, <2>3 DEF GetRate
    <3>2. HasPrice(c.list, c.product, c.quantity, c.answer)
      BY <1>2, <2>3 DEF GetRate, CallOK, AnswerOK
    <3>3. LineOK(line)
      BY <1>1, <2>3, <3>2 DEF SameLine, FormOK, LineOK, LineFields
    <3>. HIDE DEF line
    <3>4. FormOK(f)
      BY <1>1, <3>3, LineChanged
    <3>. HIDE DEF f
    <3>. QED
      BY <3>1, <3>4, InvalidateOK DEF FormInv, FormNext
  <2>. QED
    BY <1>2, <2>1, <2>2, <2>3 DEF GetRate
<1>3. ASSUME GetPreview(c) PROVE FormNext
  <2>1. CASE c.stage # "served"
    BY <1>1, <1>3, <2>1 DEF GetPreview, FormInv, FormNext
  <2>2. CASE c.stage = "served"
    <3>. DEFINE review == [obj |-> c.obj, product |-> c.product, list |-> c.list,
                           quantity |-> c.quantity, rate |-> c.answer]
    <3>1. /\ form' = [form EXCEPT !.dialog = "review", !.review = review]
          /\ UNCHANGED <<stored, queue>>
      BY <1>3, <2>2 DEF GetPreview
    <3>2. ReviewOK(review)
      BY <1>3, <2>2 DEF GetPreview, CallOK, AnswerOK, ReviewOK
    <3>. HIDE DEF review
    <3>3. FormOK(form')
      BY <1>1, <3>1, <3>2 DEF FormOK, DraftFields, StateFields
    <3>. QED
      BY <3>1, <3>3 DEF FormInv, FormNext
  <2>. QED
    BY <2>1, <2>2
<1>4. ASSUME GetCustomer(c) PROVE FormNext
  <2>. DEFINE f == [form EXCEPT !.customer = c.answer]
              content == [c.content EXCEPT !.customer = c.answer]
              idle == [form EXCEPT !.busy = FALSE]
  <2>1. FormOK(f) /\ FormOK(idle)
    BY <1>1 DEF FormOK, DraftFields, StateFields
  <2>2. ContentOK(content)
    BY <1>4 DEF GetCustomer, CallOK, ContentOK
  <2>. HIDE DEF f, content
  <2>3. CASE KeepKey(f)
    BY <2>1, <2>3, KeepKeyOK
  <2>4. CASE QueueEstimate(f, content, c.edition)
    BY <2>1, <2>2, <2>4, QueueEstimateOK
  <2>5. CASE form' = idle /\ UNCHANGED <<stored, queue>>
    BY <2>1, <2>5 DEF FormInv, FormNext
  <2>. QED
    BY <1>4, <2>3, <2>4, <2>5 DEF GetCustomer, f, content
<1>5. ASSUME GetCreated(c) PROVE FormNext
  <2>1. DOMAIN form' = DOMAIN form /\ \A x \in {"line", "review", "dialog", "key"} :
          form'[x] = form[x]
    BY <1>1, <1>5 DEF GetCreated, DraftFields, StateFields
  <2>2. FormOK(form')
    BY <1>1, <2>1 DEF FormOK
  <2>. QED
    BY <1>5, <2>2 DEF GetCreated, FormInv, FormNext, StoredOK
<1>. QED
  BY <1>2, <1>3, <1>4, <1>5, Zenon DEF DeliverToForm

-----------------------------------------------------------------------------
(* The requests *)

CallsNext == \A d \in calls' : CallOK(d)
Moving == {"stage", "answer", "waiting", "status", "got"}

\* d is the request c at another stage, perhaps answered.
Turns(c, d) ==
  /\ DOMAIN d = DOMAIN c
  /\ \A x \in DOMAIN c \ Moving : d[x] = c[x]
  /\ d.stage = "served" => \/ c.stage = "served" /\ d.answer = c.answer
                           \/ AnswerOK(c, d.answer)

\* A call that moves on keeps what it asks.
LEMMA TurnsOK ==
  ASSUME NEW c, CallOK(c), NEW d, Turns(c, d)
  PROVE  CallOK(d)
<1>1. \A x \in {"what", "list", "number", "version", "product", "quantity", "content",
               "request", "key"} : x \in DOMAIN c => x \in DOMAIN d /\ d[x] = c[x]
  BY DEF Turns, Moving
<1>2. d.what = c.what
  BY <1>1 DEF CallOK
<1>3. \A a : AnswerOK(c, a) => AnswerOK(d, a)
  BY <1>1, <1>2 DEF CallOK, AnswerOK
<1>4. d.stage = "served" => AnswerOK(d, d.answer)
  BY <1>3 DEF Turns, CallOK
<1>5. Core \cup {"what"} \subseteq DOMAIN d
  BY DEF Turns, CallOK
<1>. QED
  BY <1>1, <1>2, <1>4, <1>5 DEF CallOK

\* The ways in which a call moves on.
LEMMA StagesOK ==
  ASSUME NEW c, CallOK(c)
  PROVE  /\ \A stage : stage # "served" => CallOK([c EXCEPT !.stage = stage])
         /\ \A a : AnswerOK(c, a) =>
              CallOK([c EXCEPT !.stage = "served", !.answer = a])
         /\ CallOK([c EXCEPT !.waiting = FALSE])
         /\ \A status : CallOK([c EXCEPT !.stage = "loaded", !.status = status])
         /\ \A got : c.stage # "served" => CallOK([c EXCEPT !.got = got])
<1>1. {"what", "stage", "answer", "waiting"} \subseteq DOMAIN c
  BY DEF CallOK, Core
<1>2. ASSUME NEW stage, stage # "served" PROVE CallOK([c EXCEPT !.stage = stage])
  <2>. DEFINE d == [c EXCEPT !.stage = stage]
  <2>1. Turns(c, d)
    BY <1>1, <1>2 DEF Turns, Moving
  <2>. HIDE DEF d
  <2>2. CallOK(d)
    BY <2>1, TurnsOK
  <2>. QED
    BY <2>2 DEF d
<1>3. ASSUME NEW a, AnswerOK(c, a)
      PROVE  CallOK([c EXCEPT !.stage = "served", !.answer = a])
  <2>. DEFINE d == [c EXCEPT !.stage = "served", !.answer = a]
  <2>1. Turns(c, d)
    BY <1>1, <1>3 DEF Turns, Moving
  <2>. HIDE DEF d
  <2>2. CallOK(d)
    BY <2>1, TurnsOK
  <2>. QED
    BY <2>2 DEF d
<1>4. CallOK([c EXCEPT !.waiting = FALSE])
  <2>. DEFINE d == [c EXCEPT !.waiting = FALSE]
  <2>1. Turns(c, d)
    BY <1>1 DEF Turns, Moving
  <2>. HIDE DEF d
  <2>2. CallOK(d)
    BY <2>1, TurnsOK
  <2>. QED
    BY <2>2 DEF d
<1>5. ASSUME NEW status PROVE CallOK([c EXCEPT !.stage = "loaded", !.status = status])
  <2>. DEFINE d == [c EXCEPT !.stage = "loaded", !.status = status]
  <2>1. Turns(c, d)
    BY <1>1 DEF Turns, Moving
  <2>. HIDE DEF d
  <2>2. CallOK(d)
    BY <2>1, TurnsOK
  <2>. QED
    BY <2>2 DEF d
<1>6. ASSUME NEW got, c.stage # "served" PROVE CallOK([c EXCEPT !.got = got])
  <2>. DEFINE d == [c EXCEPT !.got = got]
  <2>1. Turns(c, d)
    BY <1>1, <1>6 DEF Turns, Moving
  <2>. HIDE DEF d
  <2>2. CallOK(d)
    BY <2>1, TurnsOK
  <2>. QED
    BY <2>2 DEF d
<1>. QED
  BY <1>2, <1>3, <1>4, <1>5, <1>6

\* What is asked, before it is sent.
BodyOK(r) ==
  /\ "what" \in DOMAIN r
  /\ r.what = "draft" => "number" \in DOMAIN r /\ r.number \in Nat
  /\ r.what = "publish" => "version" \in DOMAIN r /\ r.version \in DOMAIN versions
  /\ r.what \in {"detail", "rate", "preview"} => "list" \in DOMAIN r
  /\ r.what \in {"rate", "preview"} => {"product", "quantity"} \subseteq DOMAIN r
  /\ r.what = "customer" => "content" \in DOMAIN r /\ ContentOK(r.content)
  /\ r.what = "create" => "request" \in DOMAIN r /\ RequestOK(r.request)
  /\ r.what = "confirm" => "key" \in DOMAIN r /\ Own(r.key)

\* A call that is sent asks what its body asks.
LEMMA SentOK ==
  ASSUME NEW id, NEW r, BodyOK(r)
  PROVE  CallOK(Sent(id, r))
<1>. DEFINE d == Sent(id, r)
<1>1. /\ DOMAIN d = Core \cup DOMAIN r
      /\ \A x \in DOMAIN r \ Core : d[x] = r[x]
      /\ d.stage = "sent"
  BY DEF Sent, ++, Core
<1>. HIDE DEF d
<1>2. \A x \in {"what", "list", "number", "version", "product", "quantity", "content",
               "request", "key"} : x \in DOMAIN r => x \in DOMAIN d /\ d[x] = r[x]
  BY <1>1 DEF Core
<1>3. d.what = r.what /\ Core \cup {"what"} \subseteq DOMAIN d
  BY <1>1, <1>2 DEF BodyOK
<1>4. CallOK(d)
  BY <1>1, <1>2, <1>3 DEF BodyOK, CallOK
<1>. QED
  BY <1>4 DEF d

\* The bodies that the pages send.
LEMMA BodiesOK ==
  /\ \A list, after : BodyOK(Detail(list, after))
  /\ \A list, items, from : \A number \in Nat :
       BodyOK([what |-> "draft", list |-> list, number |-> number, items |-> items,
               from |-> from])
  /\ \A v \in DOMAIN versions : BodyOK([what |-> "publish", version |-> v])
  /\ \A what \in {"rate", "preview"} : \A f, list : BodyOK(Ask(what, f, list))
  /\ \A n, content : ContentOK(content) =>
       BodyOK([what |-> "customer", edition |-> n, content |-> content])
  /\ \A f, content, n : FormOK(f) /\ ContentOK(content) =>
       BodyOK(Creation(f, content, n))
  /\ \A list : BodyOK([what |-> "review", target |-> list, status |-> None,
                       got |-> <<>>])
  /\ \A list, key, print, number : Own(key) =>
       BodyOK([what |-> "confirm", target |-> list, status |-> None, got |-> <<>>,
               key |-> key, print |-> print, number |-> number])
<1>1. \A list, after : BodyOK(Detail(list, after))
  BY DEF BodyOK, Detail
<1>2. \A list, items, from : \A number \in Nat :
       BodyOK([what |-> "draft", list |-> list, number |-> number, items |-> items,
               from |-> from])
  BY DEF BodyOK
<1>3. \A v \in DOMAIN versions : BodyOK([what |-> "publish", version |-> v])
  BY DEF BodyOK
<1>4. \A what \in {"rate", "preview"} : \A f, list : BodyOK(Ask(what, f, list))
  BY DEF BodyOK, Ask
<1>5. \A n, content : ContentOK(content) =>
       BodyOK([what |-> "customer", edition |-> n, content |-> content])
  BY DEF BodyOK
<1>6. \A f, content, n : FormOK(f) /\ ContentOK(content) =>
       BodyOK(Creation(f, content, n))
  BY RequestsOK DEF BodyOK, Creation
<1>7. \A list : BodyOK([what |-> "review", target |-> list, status |-> None,
                       got |-> <<>>])
  BY DEF BodyOK
<1>8. \A list, key, print, number : Own(key) =>
       BodyOK([what |-> "confirm", target |-> list, status |-> None, got |-> <<>>,
               key |-> key, print |-> print, number |-> number])
  BY DEF BodyOK
<1>. QED
  BY <1>1, <1>2, <1>3, <1>4, <1>5, <1>6, <1>7, <1>8

CallsOK == \A c \in calls : CallOK(c)

\* Sending a call keeps the calls.
LEMMA CallNext ==
  ASSUME CallsOK, NEW r, BodyOK(r), Call(r)
  PROVE  CallsNext
BY SentOK DEF CallsOK, CallsNext, Call

\* A call that moves on keeps the calls.
LEMMA BecomeNext ==
  ASSUME CallsOK, NEW c, NEW d, CallOK(d), Become(c, d)
  PROVE  CallsNext
BY DEF CallsOK, CallsNext, Become

\* An answer that tells a price of the list keeps the calls.
LEMMA ReplyNext ==
  ASSUME CallsOK, NEW c \in calls, NEW a, AnswerOK(c, a), Reply(c, a)
  PROVE  CallsNext
<1>1. CallOK([c EXCEPT !.stage = "served", !.answer = a])
  BY StagesOK DEF CallsOK
<1>. QED
  BY <1>1, BecomeNext DEF Reply, CallsOK, CallsNext

\* A refusal keeps the calls.
LEMMA RefuseNext ==
  ASSUME CallsOK, NEW c \in calls, Refuse(c)
  PROVE  CallsNext
<1>1. CallOK([c EXCEPT !.stage = "refused"])
  BY StagesOK DEF CallsOK
<1>. QED
  BY <1>1, BecomeNext DEF Refuse, CallsOK, CallsNext

\* The form asks and submits only what it shows.
LEMMA UseFormCalls == ASSUME CallsOK, FormInv, UseForm PROVE CallsNext
<1>1. FormOK(form) /\ ContentOK(Content(form))
  BY ContentsOK DEF FormInv
<1>2. CASE UNCHANGED calls
  BY <1>2 DEF CallsOK, CallsNext
<1>3. ASSUME NEW what \in {"rate", "preview"}, NEW f, NEW list, Call(Ask(what, f, list))
      PROVE  CallsNext
  BY <1>3, BodiesOK, CallNext
<1>4. ASSUME NEW f, EditAndAsk(f) \/ Edit(f) PROVE CallsNext
  BY <1>2, <1>3, <1>4 DEF EditAndAsk, Edit
<1>5. CASE EditForm
  BY <1>4, <1>5, Zenon DEF EditForm, ChooseProduct, EditQuantity, EditRate, RemoveLine,
     EditCustomer, EditNumber
<1>6. CASE UseDialogs
  BY <1>2, <1>3, <1>6 DEF UseDialogs, OpenRateLists, CloseDialog, BackToRateLists,
     PreviewRates, ApplyReviewed, Show
<1>7. CASE Save
  <2>. DEFINE f == [form EXCEPT !.busy = TRUE, !.edited = FALSE]
  <2>1. FormOK(f)
    BY <1>1 DEF FormOK, DraftFields, StateFields
  <2>. HIDE DEF f
  <2>2. CASE Call(Creation(f, Content(form), form.edition))
    BY <1>1, <2>1, <2>2, BodiesOK, CallNext
  <2>3. CASE Call([what |-> "customer", edition |-> form.edition,
                   content |-> Content(form)])
    BY <1>1, <2>3, BodiesOK, CallNext
  <2>. QED
    BY <1>2, <1>7, <2>2, <2>3 DEF Save, f
<1>8. CASE Reload
  BY <1>8, StagesOK DEF Reload, CallsOK, CallsNext
<1>. QED
  BY <1>5, <1>6, <1>7, <1>8, Zenon DEF UseForm

\* The rate lists' page asks for versions that there are.
LEMMA UseRegisterCalls ==
  ASSUME CallsOK, VersionsInv(versions), RegisterOK(register), UseRegister
  PROVE  CallsNext
<1>1. CASE UNCHANGED calls
  BY <1>1 DEF CallsOK, CallsNext
<1>2. ASSUME NEW list, OpenDetail(list) PROVE CallsNext
  BY <1>2, BodiesOK, CallNext DEF OpenDetail
<1>3. ASSUME SubmitVersion PROVE CallsNext
  <2>1. Len(versions) \in Nat
    BY Appending DEF VersionsInv, VersionsTyped
  <2>2. PICK number \in 1 .. Len(versions) + 1, items \in Tables, from \in left.dates :
          Call([what |-> "draft", list |-> register.selected, number |-> number,
                items |-> items, from |-> from])
    BY <1>3 DEF SubmitVersion
  <2>3. number \in Nat
    BY <2>1
  <2>. QED
    BY <2>2, <2>3, BodiesOK, CallNext
<1>4. ASSUME NEW v \in register.drafts, PressPublish(v) PROVE CallsNext
  BY <1>4, BodiesOK, CallNext DEF PressPublish, RegisterOK
<1>. QED
  BY <1>1, <1>2, <1>3, <1>4, Zenon DEF UseRegister, CloseDetail, OpenVersionEditor,
     CloseVersionEditor

\* The conversion page sends the key of its own review.
LEMMA ConvertCalls == ASSUME CallsOK, SessionOK(session), Convert PROVE CallsNext
<1>1. ASSUME NEW target, Review(target) PROVE CallsNext
  BY <1>1, BodiesOK, CallNext DEF Review
<1>2. ASSUME NEW number, Confirm(number) PROVE CallsNext
  <2>1. Own(session.key)
    BY <1>2 DEF Confirm, SessionOK
  <2>. QED
    BY <1>2, <2>1, BodiesOK, CallNext DEF Confirm
<1>. QED
  BY <1>1, <1>2, Zenon DEF Convert

\* A call that is lost keeps the calls.
LEMMA LoseCalls == ASSUME CallsOK, NEW c \in calls, Lose(c) PROVE CallsNext
<1>1. CallOK([c EXCEPT !.stage = "lost"]) /\ CallOK([c EXCEPT !.waiting = FALSE])
  BY StagesOK DEF CallsOK
<1>. QED
  BY <1>1 DEF Lose, Become, CallsOK, CallsNext

\* The version that prices a line is active on its list.
LEMMA ResolvedPrice ==
  ASSUME VersionsInv(versions), NEW list, NEW product, NEW quantity,
         Resolve(list, product, quantity) # {}
  PROVE  LET v == Max(Resolve(list, product, quantity)) IN
         v \in ActiveOf(list)
<1>. DEFINE found == Resolve(list, product, quantity)
<1>1. found \subseteq ActiveOf(list) /\ ActiveOf(list) \subseteq DOMAIN versions
  BY DEF Resolve, ActiveOf, VersionsOf
<1>2. Len(versions) \in Nat /\ DOMAIN versions = 1 .. Len(versions)
  BY Appending DEF VersionsInv, VersionsTyped
<1>3. found \subseteq Nat /\ \A v \in found : v <= Len(versions)
  BY <1>1, <1>2
<1>. HIDE DEF found
<1>4. found # {}
  BY DEF found
<1>5. Max(found) \in found
  BY <1>2, <1>3, <1>4, MaxOfBounded
<1>. QED
  BY <1>1, <1>5 DEF found

\* What is answered are prices of the list, of the version that is active then.
LEMMA ServeCalls ==
  ASSUME CallsOK, VersionsInv(versions), NEW c \in calls, Serve(c)
  PROVE  CallsNext
<1>. USE DEF AnswerOK
<1>1. CASE ServeRegister(c)
  <2>1. CASE ServeDetail(c)
    <3>1. AnswerOK(c, {v \in VersionsOf(c.list) : versions[v].status = "DRAFT"})
      BY <2>1 DEF ServeDetail, VersionsOf
    <3>. QED
      BY <2>1, <3>1, ReplyNext DEF ServeDetail
  <2>2. CASE ServeDraft(c)
    <3>1. AnswerOK(c, None)
      BY <2>2 DEF ServeDraft
    <3>. QED
      BY <2>2, <3>1, ReplyNext, RefuseNext DEF ServeDraft
  <2>3. CASE ServePublish(c)
    <3>1. AnswerOK(c, None)
      BY <2>3 DEF ServePublish
    <3>. QED
      BY <2>3, <3>1, ReplyNext, RefuseNext DEF ServePublish
  <2>. QED
    BY <1>1, <2>1, <2>2, <2>3 DEF ServeRegister
<1>2. CASE ServeRate(c)
  <2>. DEFINE found == Resolve(c.list, c.product, c.quantity)
              a == IF found = {} THEN 0 ELSE PriceIn(Max(found), c.product, c.quantity)
  <2>1. CASE Refuse(c)
    BY <2>1, RefuseNext
  <2>2. CASE Reply(c, a)
    <3>1. AnswerOK(c, a)
      BY <1>2, ResolvedPrice DEF ServeRate, HasPrice, ActiveOf
    <3>. HIDE DEF a
    <3>. QED
      BY <2>2, <3>1, ReplyNext
  <2>. QED
    BY <1>2, <2>1, <2>2 DEF ServeRate
<1>3. ASSUME NEW a, Reply(c, a), c.what \in {"customer", "create", "review", "confirm"}
      PROVE  CallsNext
  BY <1>3, ReplyNext
<1>4. CASE ServeCustomer(c)
  BY <1>3, <1>4 DEF ServeCustomer
<1>5. CASE ServeCreate(c)
  BY <1>3, <1>5, RefuseNext DEF ServeCreate
<1>6. CASE ServeConversion(c)
  <2>1. CASE LoadSource(c)
    <3>1. CallOK([c EXCEPT !.stage = "loaded", !.status = estimates[1].status])
      BY StagesOK DEF CallsOK
    <3>. QED
      BY <1>3, <1>6, <2>1, <3>1, BecomeNext, RefuseNext DEF LoadSource, ServeConversion
  <2>2. CASE AnswerReview(c)
    BY <1>3, <2>2 DEF AnswerReview
  <2>3. CASE Commit(c)
    BY <1>3, <2>3, RefuseNext DEF Commit
  <2>4. ASSUME NEW i, ResolveLine(c, i) PROVE CallsNext
    BY <2>4, StagesOK, BecomeNext DEF ResolveLine, CallsOK
  <2>. QED
    BY <1>6, <2>1, <2>2, <2>3, <2>4 DEF ServeConversion
<1>. QED
  BY <1>1, <1>2, <1>4, <1>5, <1>6 DEF Serve

\* What an answer makes the page send next.
LEMMA DeliverCalls ==
  ASSUME CallsOK, FormInv, NEW c \in calls, Deliver(c)
  PROVE  CallsNext
<1>1. CASE calls' = calls \ {c}
  BY <1>1 DEF CallsOK, CallsNext
<1>2. ASSUME Follow(c) PROVE CallsNext
  <2>1. CallOK(Sent(c.id, Detail(register.selected, c.what)))
    BY BodiesOK, SentOK
  <2>. QED
    BY <1>2, <2>1, BecomeNext DEF Follow
<1>3. CASE DeliverRegister(c)
  BY <1>1, <1>2, <1>3 DEF DeliverRegister, GetDetail, GetDraft, GetPublished
<1>4. CASE GetCustomer(c)
  <2>. DEFINE f == [form EXCEPT !.customer = c.answer]
              content == [c.content EXCEPT !.customer = c.answer]
              new == Sent(c.id, Creation(f, content, c.edition))
  <2>1. FormOK(f)
    BY DEF FormInv, FormOK, DraftFields, StateFields
  <2>2. ContentOK(content)
    BY <1>4 DEF GetCustomer, CallsOK, CallOK, ContentOK
  <2>. HIDE DEF f, content
  <2>3. CallOK(new)
    BY <2>1, <2>2, BodiesOK, SentOK
  <2>. HIDE DEF new
  <2>. QED
    BY <1>1, <1>4, <2>3, BecomeNext DEF GetCustomer, f, content, new
<1>5. CASE DeliverToForm(c)
  BY <1>1, <1>4, <1>5 DEF DeliverToForm, GetRate, GetPreview, GetCreated
<1>6. CASE DeliverToSession(c)
  BY <1>1, <1>6 DEF DeliverToSession
<1>. QED
  BY <1>3, <1>5, <1>6 DEF Deliver

-----------------------------------------------------------------------------
(* The pages in every step *)

\* The steps of the pages, the API and other people, and of the assistant.
LEMMA VersionsNext ==
  ASSUME VersionsInv(versions), CallsOK, [DepotNext]_depotVars
  PROVE  VersionsInv(versions') /\ Stays(versions, versions')
<1>1. CASE UNCHANGED versions
  BY <1>1 DEF Stays
<1>2. CASE Drafts
  BY <1>2, DraftInv DEF Drafts, CallsOK, CallOK
<1>3. CASE Publishes
  BY <1>3, PublishInv DEF Publishes, CallsOK, CallOK
<1>4. CASE Replaces
  BY <1>4, ReplaceInv DEF Replaces
<1>. QED
  BY <1>1, <1>2, <1>3, <1>4, VersionsStep DEF VersionsMove

\* The pages after a step, at the prices before it.
PagesNext == /\ RegisterOK(register') /\ FormNext /\ SessionOK(session') /\ CallsNext

\* What is left alone stays true while versions are added and archived.
LEMMA UnmovedPages ==
  ASSUME PagesInv
  PROVE  /\ CallsOK
         /\ UNCHANGED register => RegisterOK(register')
         /\ UNCHANGED page => FormNext
         /\ UNCHANGED session => SessionOK(session')
         /\ UNCHANGED calls => CallsNext
BY DEF PagesInv, FormInv, FormNext, page, CallsOK, CallsNext

\* The rate lists' page knows drafts that there are.
LEMMA RegisterNext ==
  ASSUME PagesInv
  PROVE  /\ UseRegister => RegisterOK(register')
         /\ \A c \in calls : DeliverRegister(c) => RegisterOK(register')
<1>1. RegisterOK(register)
  BY DEF PagesInv
<1>2. ASSUME UseRegister PROVE RegisterOK(register')
  BY <1>1, <1>2 DEF UseRegister, OpenDetail, CloseDetail, OpenVersionEditor,
     CloseVersionEditor, SubmitVersion, PressPublish, RegisterOK
<1>3. ASSUME NEW c \in calls, DeliverRegister(c) PROVE RegisterOK(register')
  <2>1. CASE GetDetail(c)
    <3>1. c.stage = "served" => c.answer \subseteq DOMAIN versions
      BY <2>1 DEF GetDetail, PagesInv, CallOK, AnswerOK
    <3>. QED
      BY <1>1, <2>1, <3>1 DEF GetDetail, RegisterOK
  <2>2. CASE GetDraft(c)
    BY <1>1, <2>2 DEF GetDraft, RegisterOK
  <2>3. CASE GetPublished(c)
    BY <1>1, <2>3 DEF GetPublished, RegisterOK
  <2>. QED
    BY <1>3, <2>1, <2>2, <2>3 DEF DeliverRegister
<1>. QED
  BY <1>2, <1>3

\* A conversion's key is never one of the assistant's.
LEMMA SessionNext ==
  ASSUME PagesInv
  PROVE  /\ Convert => SessionOK(session')
         /\ \A c \in calls : DeliverToSession(c) => SessionOK(session')
<1>1. SessionOK(session)
  BY DEF PagesInv
<1>2. ASSUME Convert PROVE SessionOK(session')
  BY <1>1, <1>2 DEF Convert, Review, Confirm, SessionOK
<1>3. ASSUME NEW c \in calls, DeliverToSession(c) PROVE SessionOK(session')
  <2>1. \A n : Own(<<"conversion", n>>)
    BY DEF Own
  <2>. QED
    BY <1>1, <1>3, <2>1 DEF DeliverToSession, GetReview, GetConfirmed, SessionOK
<1>. QED
  BY <1>2, <1>3

\* Every step keeps each part of the pages, one by one.
LEMMA PagesStep == ASSUME PagesInv, [DepotNext]_depotVars PROVE PagesNext
<1>. USE UnmovedPages
<1>1. VersionsInv(versions) /\ RegisterOK(register) /\ FormInv /\ SessionOK(session)
  BY DEF PagesInv
<1>2. CASE UNCHANGED depotVars
  BY <1>2 DEF depotVars, vars, page, PagesNext
<1>3. CASE Assist
  BY <1>3 DEF Assist, PagesNext
<1>4. CASE UseRegister /\ UNCHANGED <<page, session>>
  BY <1>1, <1>4, RegisterNext, UseRegisterCalls DEF PagesNext
<1>5. CASE UseForm
  BY <1>1, <1>5, UseFormNext, UseFormCalls DEF UseForm, rateVars, PagesNext
<1>6. CASE Convert
  BY <1>1, <1>6, SessionNext, ConvertCalls DEF Convert, rateVars, PagesNext
<1>7. CASE Others
  BY <1>7 DEF Others, Elsewhere, MarkReady, rateVars, PagesNext
<1>8. CASE Flush
  <2>1. FormNext
    BY <1>1, <1>8 DEF Flush, FormInv, FormNext
  <2>. QED
    BY <1>8, <2>1 DEF Flush, PagesNext
<1>9. ASSUME NEW c \in calls, Serve(c) PROVE PagesNext
  <2>1. UNCHANGED <<register, page, session>>
    BY <1>9, Zenon DEF Serve, ServeRegister, rateVars
  <2>. QED
    BY <1>1, <1>9, <2>1, ServeCalls DEF PagesNext
<1>10. ASSUME NEW c \in calls, Lose(c) PROVE PagesNext
  BY <1>10, LoseCalls DEF Lose, rateVars, PagesNext
<1>11. ASSUME NEW c \in calls, Deliver(c) PROVE PagesNext
  <2>1. CallsNext
    BY <1>1, <1>11, DeliverCalls
  <2>2. CASE DeliverRegister(c) /\ UNCHANGED <<estimates, people, page, session>>
    BY <2>1, <2>2, RegisterNext DEF PagesNext
  <2>3. CASE DeliverToForm(c)
    <3>1. FormNext
      BY <1>1, <2>3, DeliverFormNext DEF PagesInv
    <3>. QED
      BY <2>1, <2>3, <3>1 DEF DeliverToForm, rateVars, PagesNext
  <2>4. CASE DeliverToSession(c)
    BY <2>1, <2>4, SessionNext DEF DeliverToSession, rateVars, PagesNext
  <2>. QED
    BY <1>11, <2>2, <2>3, <2>4 DEF Deliver
<1>. QED
  BY <1>2, <1>3, <1>4, <1>5, <1>6, <1>7, <1>8, <1>9, <1>10, <1>11
     DEF DepotNext, Next

\* Every step keeps the versions and the pages.
LEMMA PagesKept == ASSUME PagesInv, [DepotNext]_depotVars PROVE PagesInv'
<1>1. PagesNext
  BY PagesStep
<1>2. VersionsInv(versions') /\ Stays(versions, versions')
  BY VersionsNext DEF PagesInv, CallsOK
<1>3. /\ \A f : FormOK(f) => FormOK(f)'
      /\ \A s : StoredOK(s) => StoredOK(s)'
      /\ \A c : CallOK(c) => CallOK(c)'
      /\ \A r : RegisterOK(r) => RegisterOK(r)'
  BY <1>2, KeptOK
<1>4. FormOK(form)' /\ StoredOK(stored)' /\ RegisterOK(register)'
  BY <1>1, <1>3 DEF PagesNext, FormNext
<1>5. FormInv'
  BY <1>1, <1>4 DEF PagesNext, FormNext, FormInv
<1>6. \A c \in calls' : CallOK(c)'
  BY <1>1, <1>3 DEF PagesNext, CallsNext
<1>. QED
  BY <1>1, <1>2, <1>4, <1>5, <1>6 DEF PagesInv, PagesNext

\* They begin in order.
LEMMA PagesBegin == ASSUME DepotInit PROVE PagesInv
<1>1. PICK budget \in Budgets : versions = budget.versions /\ left = budget
  BY DEF DepotInit, Init
<1>2. VersionsTyped(versions)
  <2>. DEFINE S == [list : List, number : Nat, from : {"before", "today", "later"},
                    status : {"DRAFT", "ACTIVE", "ARCHIVED"},
                    items : [Product \X Quantity -> Nat]]
  <2>1. versions \in Seq(S)
    BY <1>1, BudgetsAssumption
  <2>2. \A r \in S : DOMAIN r = Fields /\ r.number \in Nat
    BY DEF Fields
  <2>. HIDE DEF S
  <2>3. Sequence(versions)
    BY <2>1, RangeSequence
  <2>. QED
    BY <2>1, <2>2, <2>3 DEF VersionsTyped
<1>3. Current(versions)
  BY <1>1, BudgetsAssumption DEF Current
<1>4. FormOK(form)
  <2>. DEFINE draft == [EmptyDraft EXCEPT !.customer = left.customer]
  <2>1. DOMAIN draft = DraftFields /\ LineOK(draft.line)
    BY DEF EmptyDraft, DraftFields, LineOK, BlankLine, LineFields
  <2>2. form = Opened(draft, 0)
    BY DEF DepotInit, Init
  <2>. HIDE DEF draft
  <2>. QED
    BY <2>1, <2>2, OpenedOK
<1>5. RegisterOK(register)
  BY DEF DepotInit, Init, InitRegister, RegisterOK
<1>. QED
  BY <1>2, <1>3, <1>4, <1>5
     DEF DepotInit, Init, PagesInv, VersionsInv, FormInv, StoredOK, SessionOK

\* A list has one active version at most, newer than all that were replaced,
\* whoever publishes, imports and reprices at once.
THEOREM ActiveNewest == DepotSpec => []ActiveIsNewest
<1>1. ASSUME PagesInv PROVE ActiveIsNewest
  BY <1>1 DEF PagesInv, VersionsInv, Current, ActiveIsNewest
<1>. QED
  BY <1>1, PagesBegin, PagesKept, PTL DEF DepotSpec

\* A rate that names a list is a price of that list for the line's product and
\* quantity, in whatever order the answers come while the line is edited.
THEOREM RatesOfLists == DepotSpec => []RatesAreTheLists
<1>1. ASSUME PagesInv PROVE RatesAreTheLists
  BY <1>1 DEF PagesInv, FormInv, FormOK, LineOK, HasPrice, RatesAreTheLists
<1>. QED
  BY <1>1, PagesBegin, PagesKept, PTL DEF DepotSpec

-----------------------------------------------------------------------------
(* The books *)

EstimateFields == {"status", "key", "content", "print", "edition"}
SaleFields == {"estimate", "lines", "task", "returned"}
OrderFields == {"estimate", "status", "version", "sale", "items"}
TaskFields == {"tool", "stage", "data", "gone", "result"}
Over == {"committed", "done", "doubtful"}

EstimateOK(e) == DOMAIN e = EstimateFields /\ Sellable(e.content.lines)
EstimatesInv == /\ Sequence(estimates) /\ 1 \in DOMAIN estimates
                /\ \A e \in DOMAIN estimates : EstimateOK(estimates[e])
SalesInv == /\ Sequence(sales)
            /\ \A s \in DOMAIN sales : DOMAIN sales[s] = SaleFields

\* What a draft is bound to exists.
TaskOK(task) ==
  /\ DOMAIN task = TaskFields
  /\ task.tool \in {"estimate", "transfer"}
       => "quantity" \in DOMAIN task.data /\ task.data.quantity \in Quantity
  /\ task.tool \in {"convert", "dispatch"} => task.data.estimate \in DOMAIN estimates
  /\ task.tool = "record" => /\ task.data.order \in DOMAIN orders
                             /\ task.data.final \in BOOLEAN
  /\ task.gone \subseteq Archive
  /\ task.stage = "checked" /\ task.tool \in {"estimate", "invoice"}
       => task.data.price.version \notin task.gone
TasksInv == /\ Sequence(tasks)
            /\ \A t \in DOMAIN tasks : TaskOK(tasks[t])

\* The keys of the assistant's estimates are those of drafts that are over.
KeysInv == \A e \in DOMAIN estimates : \A t :
  estimates[e].key = <<"assistant", t>> => t \in DOMAIN tasks /\ tasks[t].stage \in Over

\* The invoices of estimates and the converted ones are the same.
Billed ==
  /\ \A s \in DOMAIN sales : sales[s].estimate # 0 =>
       /\ sales[s].estimate \in DOMAIN estimates
       /\ estimates[sales[s].estimate].status = "CONVERTED"
  /\ \A s, u \in DOMAIN sales :
       sales[s].estimate # 0 /\ sales[s].estimate = sales[u].estimate => s = u
  /\ \A e \in DOMAIN estimates : estimates[e].status = "CONVERTED" =>
       \E s \in DOMAIN sales : sales[s].estimate = e

OrderOK(order) ==
  /\ DOMAIN order = OrderFields
  /\ order.estimate \in DOMAIN estimates
  /\ order.status = "DELIVERED" <=> AllAre(order.items, "delivered")
  /\ order.status = "DELIVERED" <=> order.sale # 0
  /\ order.sale # 0 => /\ order.sale \in DOMAIN sales
                       /\ sales[order.sale].estimate = order.estimate
OrdersInv == /\ Sequence(orders)
             /\ \A o \in DOMAIN orders : OrderOK(orders[o])

BooksInv == EstimatesInv /\ SalesInv /\ TasksInv /\ KeysInv /\ Billed /\ OrdersInv

\* A step adds no invoice of an estimate and converts none.
Quiet ==
  /\ DOMAIN sales \subseteq DOMAIN sales'
  /\ \A s \in DOMAIN sales : sales'[s].estimate = sales[s].estimate
  /\ \A s \in DOMAIN sales' \ DOMAIN sales : sales'[s].estimate = 0
  /\ DOMAIN estimates \subseteq DOMAIN estimates'
  /\ \A e \in DOMAIN estimates :
       estimates'[e].status = "CONVERTED" <=> estimates[e].status = "CONVERTED"
  /\ \A e \in DOMAIN estimates' \ DOMAIN estimates : estimates'[e].status # "CONVERTED"
\* It invoices one that is ready.
Bills(e) ==
  /\ e \in DOMAIN estimates /\ e # 0 /\ estimates[e].status = "READY"
  /\ DOMAIN sales' = DOMAIN sales \cup {Len(sales) + 1} /\ Len(sales) + 1 \notin DOMAIN sales
  /\ \A s \in DOMAIN sales : sales'[s].estimate = sales[s].estimate
  /\ sales'[Len(sales) + 1].estimate = e
  /\ DOMAIN estimates' = DOMAIN estimates
  /\ estimates'[e].status = "CONVERTED"
  /\ \A x \in DOMAIN estimates : x # e => estimates'[x].status = estimates[x].status

\* A quiet step keeps the estimates' invoices.
LEMMA BilledKept == ASSUME Billed, Quiet PROVE Billed'
BY DEF Billed, Quiet

\* So does one that invoices an estimate that had none.
LEMMA BilledOnce == ASSUME Billed, NEW e, Bills(e) PROVE Billed'
<1>1. \A s \in DOMAIN sales : sales[s].estimate # e
  BY DEF Billed, Bills
<1>. QED
  BY <1>1 DEF Billed, Bills

\* An estimate has one invoice if it is converted, and none otherwise.
LEMMA BilledCounts ==
  ASSUME Billed, NEW e \in DOMAIN estimates, e # 0
  PROVE  Cardinality({s \in DOMAIN sales : sales[s].estimate = e}) =
           IF estimates[e].status = "CONVERTED" THEN 1 ELSE 0
<1>1. CASE estimates[e].status = "CONVERTED"
  <2>1. PICK s \in DOMAIN sales : sales[s].estimate = e
    BY <1>1 DEF Billed
  <2>2. {u \in DOMAIN sales : sales[u].estimate = e} = {s}
    BY <2>1 DEF Billed
  <2>. QED
    BY <1>1, <2>2, FS_Singleton
<1>2. CASE estimates[e].status # "CONVERTED"
  <2>1. {u \in DOMAIN sales : sales[u].estimate = e} = {}
    BY <1>2 DEF Billed
  <2>. QED
    BY <1>2, <2>1, FS_EmptySet
<1>. QED
  BY <1>1, <1>2

-----------------------------------------------------------------------------
(* The estimates *)

Keys == {"key", "content", "print", "edition"}
\* What a request tells, and an estimate of the request that created it.
Told(r) == [x \in Keys |-> r[x]]
\* The requests to save the form.
Asked == queue \cup {c.request : c \in {d \in calls : d.what = "create"}}
\* The estimate of r is added, or an estimate is given a status.
Added(r) ==
  /\ Found(r) = {} /\ MayCreate(r)
  /\ DOMAIN estimates' = DOMAIN estimates \cup {Len(estimates) + 1}
  /\ Len(estimates) + 1 \notin DOMAIN estimates
  /\ Len(estimates') = Len(estimates) + 1
  /\ \A e \in DOMAIN estimates : estimates'[e] = estimates[e]
  /\ LET new == estimates'[Len(estimates) + 1] IN
     /\ new.status = "DRAFT" /\ new.key = r.key /\ new.content = r.content
     /\ new.print = r.print /\ new.edition = r.edition
Marks(e, status) ==
  /\ DOMAIN estimates' = DOMAIN estimates
  /\ \A x \in DOMAIN estimates : Told(estimates'[x]) = Told(estimates[x])
  /\ \A x \in DOMAIN estimates : estimates'[x].key = estimates[x].key
  /\ \A x \in DOMAIN estimates : x # e => estimates'[x] = estimates[x]
  /\ e \in DOMAIN estimates => estimates'[e].status = status

\* Creating an estimate adds one that has the request, or finds the one it
\* added.
LEMMA EstimateCreated ==
  ASSUME EstimatesInv, NEW r, DOMAIN r = Keys, Sellable(r.content.lines), Create(r)
  PROVE  EstimatesInv' /\ (UNCHANGED estimates \/ Added(r))
<1>1. CASE UNCHANGED estimates
  BY <1>1 DEF EstimatesInv, EstimateOK
<1>2. CASE Found(r) = {}
  <2>. DEFINE new == [status |-> "DRAFT"] ++ r
  <2>1. /\ DOMAIN new = EstimateFields
        /\ new.status = "DRAFT" /\ new.key = r.key /\ new.content = r.content
        /\ new.print = r.print /\ new.edition = r.edition
    BY DEF ++, Keys, EstimateFields
  <2>2. estimates' = Append(estimates, new)
    BY <1>2 DEF Create
  <2>. HIDE DEF new
  <2>3. /\ Sequence(estimates') /\ Len(estimates') = Len(estimates) + 1
        /\ DOMAIN estimates' = DOMAIN estimates \cup {Len(estimates) + 1}
        /\ DOMAIN estimates = 1 .. Len(estimates) /\ Len(estimates) \in Nat
        /\ \A e \in DOMAIN estimates : estimates'[e] = estimates[e]
        /\ estimates'[Len(estimates) + 1] = new
    BY <2>2, Appending DEF EstimatesInv
  <2>4. EstimatesInv'
    BY <2>1, <2>3 DEF EstimatesInv, EstimateOK
  <2>5. MayCreate(r)
    BY <1>2 DEF Create
  <2>6. Len(estimates) + 1 \notin DOMAIN estimates
    BY <2>3
  <2>. QED
    BY <1>2, <2>1, <2>3, <2>4, <2>5, <2>6 DEF Added
<1>. QED
  BY <1>1, <1>2 DEF Create

\* A change of status leaves the rest of an estimate alone.
LEMMA EstimateMarked ==
  ASSUME EstimatesInv, NEW e, NEW status,
         estimates' = [estimates EXCEPT ![e].status = status]
  PROVE  EstimatesInv' /\ Marks(e, status)
<1>1. estimates' = [x \in DOMAIN estimates |-> estimates'[x]]
  OBVIOUS
<1>2. Sequence(estimates') /\ DOMAIN estimates' = DOMAIN estimates
  BY <1>1, Updating DEF EstimatesInv
<1>3. \A x \in DOMAIN estimates : x # e => estimates'[x] = estimates[x]
  OBVIOUS
<1>4. e \in DOMAIN estimates =>
        /\ DOMAIN estimates'[e] = EstimateFields
        /\ estimates'[e].status = status /\ estimates'[e].key = estimates[e].key
        /\ estimates'[e].content = estimates[e].content
        /\ estimates'[e].print = estimates[e].print
        /\ estimates'[e].edition = estimates[e].edition
  BY DEF EstimatesInv, EstimateOK, EstimateFields
<1>5. \A x \in DOMAIN estimates : Told(estimates'[x]) = Told(estimates[x])
  BY <1>3, <1>4 DEF Told, Keys
<1>. QED
  BY <1>2, <1>3, <1>4, <1>5 DEF EstimatesInv, EstimateOK, Marks

\* What everyone but the assistant may do to the estimates.
Readies(e) == /\ estimates[e].status # "CONVERTED"
              /\ estimates' = [estimates EXCEPT ![e].status = "READY"]
Converts(c) == /\ c.what = "confirm" /\ AsReviewed(c)
               /\ Found(Conversion(c)) # {} \/ StillHolds(c)
               /\ Create(Conversion(c))
PagesEstimates ==
  \/ UNCHANGED estimates
  \/ \E r \in Asked : RequestOK(r) /\ Acceptable(r) /\ Create(r)
  \/ \E c \in calls : Converts(c)
  \/ Readies(1)

\* What the pages do to the estimates: create, convert or mark ready.
LEMMA EstimatesOfPages ==
  ASSUME PagesInv, Next \/ UNCHANGED vars
  PROVE  PagesEstimates
<1>1. CASE UNCHANGED vars \/ UNCHANGED <<estimates, people, page, session>> \/ UseForm \/ Convert
  BY <1>1, Zenon DEF vars, UseForm, Convert, PagesEstimates
<1>2. CASE Flush
  BY <1>2 DEF Flush, PagesEstimates, PagesInv, FormInv, Asked
<1>3. CASE MarkReady
  BY <1>3 DEF MarkReady, PagesEstimates, Readies
<1>4. ASSUME NEW c \in calls, Lose(c) \/ Deliver(c) PROVE PagesEstimates
  BY <1>4, Zenon DEF Lose, Deliver, DeliverToForm, DeliverToSession, PagesEstimates
<1>5. ASSUME NEW c \in calls, Serve(c) PROVE PagesEstimates
  <2>1. CASE UNCHANGED estimates
    BY <2>1 DEF PagesEstimates
  <2>2. CASE ServeCreate(c)
    BY <2>2 DEF ServeCreate, PagesEstimates, PagesInv, CallOK, Asked
  <2>3. CASE ServeConversion(c)
    <3>1. CASE Commit(c)
      BY <2>1, <3>1 DEF Commit, Converts, PagesEstimates
    <3>. QED
      BY <2>1, <2>3, <3>1 DEF ServeConversion, LoadSource, AnswerReview, ResolveLine
  <2>. QED
    BY <1>5, <2>1, <2>2, <2>3, Zenon DEF Serve, ServeRate, ServeCustomer
<1>. QED
  BY <1>1, <1>2, <1>3, <1>4, <1>5, Zenon DEF Next, Others

\* The requests that create estimates.
LEMMA Shapes ==
  /\ \A r : RequestOK(r) =>
       /\ DOMAIN r = Keys /\ Sellable(r.content.lines)
       /\ r.print = None /\ Own(r.key)
  /\ \A c : /\ DOMAIN Conversion(c) = Keys
            /\ Sellable(Conversion(c).content.lines)
            /\ Conversion(c).print = c.print /\ Conversion(c).key = c.key
  /\ \A t, data : data.quantity \in Quantity =>
       /\ DOMAIN Quotation(t, data) = Keys
       /\ Sellable(Quotation(t, data).content.lines)
       /\ Quotation(t, data).print = None
       /\ Quotation(t, data).key = <<"assistant", t>>
       /\ Quotation(t, data).content.lines[1].rate = data.price.rate
  /\ Sellable(Source)
<1>1. ASSUME NEW r, RequestOK(r)
      PROVE  /\ DOMAIN r = Keys /\ Sellable(r.content.lines)
             /\ r.print = None /\ Own(r.key)
  BY <1>1 DEF RequestOK, ContentOK, Keys
<1>2. /\ DOMAIN Source # {}
      /\ \A i \in DOMAIN Source : Source[i].quantity \in Nat \ {0}
  <2>. DEFINE S == [product : Product, quantity : Quantity, list : List]
  <2>1. Source \in Seq(S) /\ Source # <<>>
    BY EstimatesAssumption
  <2>2. \A r \in S : r.quantity \in Nat \ {0}
    BY RateListsAssumption
  <2>. HIDE DEF S
  <2>3. Len(Source) \in Nat /\ Len(Source) # 0 /\ DOMAIN Source = 1 .. Len(Source)
    BY <2>1
  <2>4. 1 \in DOMAIN Source
    BY <2>3
  <2>5. \A i \in DOMAIN Source : Source[i] \in S
    BY <2>1
  <2>. QED
    BY <2>2, <2>4, <2>5
<1>3. Sellable(Source)
  BY <1>2 DEF Sellable
<1>4. ASSUME NEW c
      PROVE  /\ DOMAIN Conversion(c) = Keys
             /\ Sellable(Conversion(c).content.lines)
             /\ Conversion(c).print = c.print /\ Conversion(c).key = c.key
  <2>. DEFINE lines == [i \in DOMAIN Source |->
        [product |-> Source[i].product, quantity |-> Source[i].quantity,
         rate |-> PriceIn(c.got[i], Source[i].product, Source[i].quantity)]]
  <2>1. Sellable(lines)
    BY <1>2 DEF Sellable
  <2>2. Conversion(c).content.lines = lines
    BY DEF Conversion
  <2>3. /\ DOMAIN Conversion(c) = Keys
        /\ Conversion(c).print = c.print /\ Conversion(c).key = c.key
    BY DEF Conversion, Keys
  <2>. QED
    BY <2>1, <2>2, <2>3
<1>5. ASSUME NEW t, NEW data, data.quantity \in Quantity
      PROVE  /\ DOMAIN Quotation(t, data) = Keys
             /\ Sellable(Quotation(t, data).content.lines)
             /\ Quotation(t, data).print = None
             /\ Quotation(t, data).key = <<"assistant", t>>
             /\ Quotation(t, data).content.lines[1].rate = data.price.rate
  <2>. DEFINE line == Line(data.product, data.quantity, data.price.rate)
              lines == <<line>>
  <2>1. line.quantity \in Nat \ {0} /\ line.rate = data.price.rate
    BY <1>5, RateListsAssumption DEF Line
  <2>2. Quotation(t, data).content.lines = lines
    BY DEF Quotation
  <2>. HIDE DEF line
  <2>3. Sellable(lines) /\ lines[1].rate = data.price.rate
    BY <2>1 DEF Sellable
  <2>4. /\ DOMAIN Quotation(t, data) = Keys /\ Quotation(t, data).print = None
        /\ Quotation(t, data).key = <<"assistant", t>>
    BY DEF Quotation, Keys
  <2>. QED
    BY <2>2, <2>4, <2>3
<1>. QED
  BY <1>1, <1>3, <1>4, <1>5

\* A new estimate is no invoice.
LEMMA CreatedQuietly ==
  ASSUME EstimatesInv, UNCHANGED sales,
         NEW r, DOMAIN r = Keys, Sellable(r.content.lines), Create(r)
  PROVE  /\ EstimatesInv' /\ Quiet
         /\ \A e \in DOMAIN estimates : estimates'[e] = estimates[e]
         /\ \A e \in DOMAIN estimates' \ DOMAIN estimates :
              /\ estimates'[e].key = r.key /\ estimates'[e].print = r.print
              /\ estimates'[e].content = r.content /\ Found(r) = {}
<1>1. EstimatesInv' /\ (UNCHANGED estimates \/ Added(r))
  BY EstimateCreated
<1>. QED
  BY <1>1 DEF Added, Quiet

\* Nor is one that becomes ready.
LEMMA MarkedQuietly ==
  ASSUME EstimatesInv, UNCHANGED sales, NEW e, Readies(e)
  PROVE  /\ EstimatesInv' /\ Quiet
         /\ DOMAIN estimates' = DOMAIN estimates
         /\ \A x \in DOMAIN estimates : estimates'[x].key = estimates[x].key
<1>1. EstimatesInv' /\ Marks(e, "READY") /\ estimates[e].status # "CONVERTED"
  BY EstimateMarked DEF Readies
<1>2. ASSUME NEW x \in DOMAIN estimates
      PROVE  estimates'[x].status = "CONVERTED" <=> estimates[x].status = "CONVERTED"
  BY <1>1 DEF Marks
<1>. QED
  BY <1>1, <1>2 DEF Marks, Quiet

\* An estimate a page adds is of a request, which has no print, or of a
\* conversion that was confirmed.
AsConverted(new) == \E c \in calls :
  /\ AsReviewed(c) /\ StillHolds(c) /\ new.print = c.print
  /\ new.content = Conversion(c).content

\* The pages' steps invoice nothing, and their estimates have no key of a
\* draft.
LEMMA PagesBooks ==
  ASSUME PagesInv, EstimatesInv, UNCHANGED sales, PagesEstimates
  PROVE  /\ EstimatesInv' /\ Quiet
         /\ \A e \in DOMAIN estimates : estimates'[e].key = estimates[e].key
         /\ \A e \in DOMAIN estimates' \ DOMAIN estimates :
              /\ Own(estimates'[e].key)
              /\ estimates'[e].print = None \/ AsConverted(estimates'[e])
<1>1. CASE UNCHANGED estimates
  BY <1>1 DEF Quiet, EstimatesInv, EstimateOK
<1>2. ASSUME NEW r, RequestOK(r), Create(r)
      PROVE  /\ EstimatesInv' /\ Quiet
             /\ \A e \in DOMAIN estimates : estimates'[e].key = estimates[e].key
             /\ \A e \in DOMAIN estimates' \ DOMAIN estimates :
                  Own(estimates'[e].key) /\ estimates'[e].print = None
  BY <1>2, Shapes, CreatedQuietly
<1>3. ASSUME NEW c \in calls, Converts(c)
      PROVE  /\ EstimatesInv' /\ Quiet
             /\ \A e \in DOMAIN estimates : estimates'[e].key = estimates[e].key
             /\ \A e \in DOMAIN estimates' \ DOMAIN estimates :
                  Own(estimates'[e].key) /\ AsConverted(estimates'[e])
  <2>1. Own(c.key) /\ AsReviewed(c) /\ (Found(Conversion(c)) # {} \/ StillHolds(c))
    BY <1>3 DEF Converts, PagesInv, CallOK
  <2>. QED
    BY <1>3, <2>1, Shapes, CreatedQuietly DEF Converts, AsConverted
<1>4. CASE Readies(1)
  BY <1>4, MarkedQuietly
<1>. QED
  BY <1>1, <1>2, <1>3, <1>4 DEF PagesEstimates

-----------------------------------------------------------------------------
(* The drafts *)

\* Nothing a draft or an order is bound to goes away.
Wider ==
  /\ DOMAIN estimates \subseteq DOMAIN estimates'
  /\ DOMAIN orders \subseteq DOMAIN orders'
  /\ Archive \subseteq Archive'
  /\ \A s \in DOMAIN sales : s \in DOMAIN sales' /\ sales'[s].estimate = sales[s].estimate

\* The draft t gets to a stage; gone is what was archived when it was approved.
Becomes(t, stage, gone) ==
  /\ Sequence(tasks') /\ DOMAIN tasks' = DOMAIN tasks
  /\ \A u \in DOMAIN tasks : u # t => tasks'[u] = tasks[u]
  /\ DOMAIN tasks'[t] = TaskFields
  /\ tasks'[t].tool = tasks[t].tool /\ tasks'[t].data = tasks[t].data
  /\ tasks'[t].stage = stage /\ tasks'[t].gone = gone
MayBecome(task, stage, gone) ==
  /\ task.stage \in Over => stage \in Over
  /\ gone \subseteq Archive
  /\ stage = "checked" /\ task.tool \in {"estimate", "invoice"}
       => task.data.price.version \notin gone
Advances(t) == \E stage, gone : Becomes(t, stage, gone) /\ MayBecome(tasks[t], stage, gone)
Offers == \E task : TaskOK(task) /\ tasks' = Append(tasks, task)
TasksMove == UNCHANGED tasks \/ Offers \/ \E t \in DOMAIN tasks : Advances(t)

\* What the assistant's steps do to the draft they are about.
LEMMA TaskSet ==
  ASSUME TasksInv, NEW t \in DOMAIN tasks
  PROVE  /\ \A stage : Move(t, stage) => Becomes(t, stage, tasks[t].gone)
         /\ \A result : Commit1(t, result) =>
              Becomes(t, "committed", tasks[t].gone) /\ tasks'[t].result = result
         /\ Approve(t) => Becomes(t, "approved", Archive)
<1>1. DOMAIN tasks[t] = TaskFields
  BY DEF TasksInv, TaskOK
<1>2. \A new : tasks' = [tasks EXCEPT ![t] = new] =>
        /\ Sequence(tasks') /\ DOMAIN tasks' = DOMAIN tasks
        /\ \A u \in DOMAIN tasks : u # t => tasks'[u] = tasks[u]
        /\ tasks'[t] = new
  <2>. SUFFICES ASSUME NEW new, tasks' = [tasks EXCEPT ![t] = new]
                PROVE  /\ Sequence(tasks') /\ DOMAIN tasks' = DOMAIN tasks
                       /\ \A u \in DOMAIN tasks : u # t => tasks'[u] = tasks[u]
                       /\ tasks'[t] = new
    OBVIOUS
  <2>1. tasks' = [u \in DOMAIN tasks |-> tasks'[u]]
    OBVIOUS
  <2>2. Sequence(tasks') /\ DOMAIN tasks' = DOMAIN tasks
    BY <2>1, Updating DEF TasksInv
  <2>. QED
    BY <2>2
<1>3. ASSUME NEW stage, Move(t, stage) PROVE Becomes(t, stage, tasks[t].gone)
  <2>. DEFINE new == [tasks[t] EXCEPT !.stage = stage]
  <2>1. tasks' = [tasks EXCEPT ![t] = new]
    BY <1>3 DEF Move
  <2>2. /\ DOMAIN new = TaskFields /\ new.tool = tasks[t].tool /\ new.data = tasks[t].data
        /\ new.stage = stage /\ new.gone = tasks[t].gone
    BY <1>1 DEF TaskFields
  <2>. HIDE DEF new
  <2>. QED
    BY <1>2, <2>1, <2>2 DEF Becomes
<1>4. ASSUME NEW result, Commit1(t, result)
      PROVE  Becomes(t, "committed", tasks[t].gone) /\ tasks'[t].result = result
  <2>. DEFINE new == [tasks[t] EXCEPT !.stage = "committed", !.result = result]
  <2>1. tasks' = [tasks EXCEPT ![t] = new]
    BY <1>4 DEF Commit1
  <2>2. /\ DOMAIN new = TaskFields /\ new.tool = tasks[t].tool /\ new.data = tasks[t].data
        /\ new.stage = "committed" /\ new.gone = tasks[t].gone /\ new.result = result
    BY <1>1 DEF TaskFields
  <2>. HIDE DEF new
  <2>. QED
    BY <1>2, <2>1, <2>2 DEF Becomes
<1>5. ASSUME Approve(t) PROVE Becomes(t, "approved", Archive)
  <2>. DEFINE new == [tasks[t] EXCEPT !.stage = "approved", !.gone = Archive]
  <2>1. tasks' = [tasks EXCEPT ![t] = new]
    BY <1>5 DEF Approve
  <2>2. /\ DOMAIN new = TaskFields /\ new.tool = tasks[t].tool /\ new.data = tasks[t].data
        /\ new.stage = "approved" /\ new.gone = Archive
    BY <1>1 DEF TaskFields
  <2>. HIDE DEF new
  <2>. QED
    BY <1>2, <2>1, <2>2 DEF Becomes
<1>. QED
  BY <1>3, <1>4, <1>5

\* A draft that moves on as its rules let it keeps the drafts, and none that is
\* over comes back.
LEMMA TasksKept ==
  ASSUME TasksInv, TasksMove, Wider
  PROVE  /\ TasksInv'
         /\ \A t \in DOMAIN tasks : t \in DOMAIN tasks' /\
              (tasks[t].stage \in Over => tasks'[t].stage \in Over)
<1>1. \A task : TaskOK(task) => TaskOK(task)'
  BY DEF TaskOK, Wider
<1>2. CASE UNCHANGED tasks
  BY <1>1, <1>2 DEF TasksInv
<1>3. CASE Offers
  <2>1. PICK task : TaskOK(task) /\ tasks' = Append(tasks, task)
    BY <1>3 DEF Offers
  <2>2. /\ Sequence(tasks') /\ DOMAIN tasks' = DOMAIN tasks \cup {Len(tasks) + 1}
        /\ \A t \in DOMAIN tasks : tasks'[t] = tasks[t]
        /\ tasks'[Len(tasks) + 1] = task
    BY <2>1, Appending DEF TasksInv
  <2>. QED
    BY <1>1, <2>1, <2>2 DEF TasksInv
<1>4. ASSUME NEW t \in DOMAIN tasks, NEW stage, NEW gone, Becomes(t, stage, gone),
             MayBecome(tasks[t], stage, gone)
      PROVE  /\ TasksInv'
             /\ \A u \in DOMAIN tasks : u \in DOMAIN tasks' /\
                  (tasks[u].stage \in Over => tasks'[u].stage \in Over)
  <2>1. TaskOK(tasks[t])
    BY DEF TasksInv
  <2>2. TaskOK(tasks'[t])
    BY <1>4, <2>1 DEF Becomes, MayBecome, TaskOK
  <2>3. \A u \in DOMAIN tasks' : TaskOK(tasks'[u])
    BY <1>4, <2>2 DEF TasksInv, Becomes
  <2>4. TasksInv'
    BY <1>1, <1>4, <2>3 DEF TasksInv, Becomes
  <2>. QED
    BY <1>4, <2>4 DEF Becomes, MayBecome
<1>. QED
  BY <1>2, <1>3, <1>4 DEF TasksMove, Advances

\* An estimate with a draft's key is of a draft that is over.
LEMMA KeysKept ==
  ASSUME KeysInv, TasksInv, TasksMove, Wider,
         \A e \in DOMAIN estimates : estimates'[e].key = estimates[e].key,
         \A e \in DOMAIN estimates' \ DOMAIN estimates :
           \/ Own(estimates'[e].key)
           \/ \E t \in DOMAIN tasks' : /\ estimates'[e].key = <<"assistant", t>>
                                       /\ tasks'[t].stage \in Over
  PROVE  KeysInv'
<1>1. \A t \in DOMAIN tasks : t \in DOMAIN tasks' /\
        (tasks[t].stage \in Over => tasks'[t].stage \in Over)
  BY TasksKept
<1>. QED
  BY <1>1 DEF KeysInv, Own

-----------------------------------------------------------------------------
(* The steps of the assistant *)

OrdersMove ==
  \/ UNCHANGED orders
  \/ \E order : OrderOK(order)' /\ orders' = Append(orders, order)
  \/ \E o, order : OrderOK(order)' /\ orders' = [orders EXCEPT ![o] = order]
KeysMove ==
  /\ \A e \in DOMAIN estimates : estimates'[e].key = estimates[e].key
  /\ \A e \in DOMAIN estimates' \ DOMAIN estimates :
       \/ Own(estimates'[e].key)
       \/ \E t \in DOMAIN tasks' : /\ estimates'[e].key = <<"assistant", t>>
                                   /\ tasks'[t].stage \in Over
BooksNext == /\ EstimatesInv' /\ SalesInv' /\ TasksMove /\ KeysMove /\ OrdersMove
             /\ Quiet \/ \E e : Bills(e)

\* The orders stay as delivered as their items while estimates and sales are
\* added.
LEMMA OrdersKept == ASSUME OrdersInv, OrdersMove, Wider PROVE OrdersInv'
<1>1. \A order : OrderOK(order) => OrderOK(order)'
  BY DEF OrderOK, Wider
<1>2. CASE UNCHANGED orders
  BY <1>1, <1>2 DEF OrdersInv
<1>3. ASSUME NEW order, OrderOK(order)', orders' = Append(orders, order) PROVE OrdersInv'
  BY <1>1, <1>3, Appending DEF OrdersInv
<1>4. ASSUME NEW o, NEW order, OrderOK(order)', orders' = [orders EXCEPT ![o] = order]
      PROVE  OrdersInv'
  <2>1. orders' = [x \in DOMAIN orders |-> orders'[x]]
    BY <1>4
  <2>2. Sequence(orders') /\ DOMAIN orders' = DOMAIN orders
    BY <2>1, Updating DEF OrdersInv
  <2>3. \A x \in DOMAIN orders : orders'[x] = IF x = o THEN order ELSE orders[x]
    BY <1>4
  <2>. QED
    BY <1>1, <1>4, <2>2, <2>3 DEF OrdersInv
<1>. QED
  BY <1>2, <1>3, <1>4 DEF OrdersMove

\* What a step may do to each part keeps the books.
LEMMA BooksKept ==
  ASSUME BooksInv, BooksNext, Stays(versions, versions')
  PROVE  BooksInv'
<1>1. Archive \subseteq Archive'
  BY DEF Archive, Stays
<1>2. DOMAIN orders \subseteq DOMAIN orders'
  <2>1. \A o, order : orders' = [orders EXCEPT ![o] = order] => DOMAIN orders' = DOMAIN orders
    OBVIOUS
  <2>. QED
    BY <2>1, Appending DEF BooksNext, OrdersMove, BooksInv, OrdersInv
<1>3. Wider
  BY <1>1, <1>2 DEF Wider, BooksNext, Quiet, Bills
<1>4. TasksInv' /\ KeysInv' /\ OrdersInv'
  BY <1>3, TasksKept, KeysKept, OrdersKept DEF BooksInv, BooksNext, KeysMove
<1>5. Billed'
  BY BilledKept, BilledOnce DEF BooksInv, BooksNext
<1>. QED
  BY <1>4, <1>5 DEF BooksInv, BooksNext

\* A step that leaves estimates, sales and orders alone keeps them.
LEMMA UnmovedBooks ==
  ASSUME BooksInv, UNCHANGED <<estimates, sales, orders>>, TasksMove
  PROVE  BooksNext
<1>1. EstimatesInv' /\ SalesInv' /\ Quiet
  BY DEF BooksInv, EstimatesInv, EstimateOK, SalesInv, Quiet
<1>2. OrdersMove /\ KeysMove
  BY DEF OrdersMove, KeysMove
<1>. QED
  BY <1>1, <1>2 DEF BooksNext

\* Preparing a draft writes nothing but the draft.
LEMMA PrepareBooks == ASSUME BooksInv, Prepare PROVE BooksNext
<1>. SUFFICES Offers
  BY UnmovedBooks DEF Prepare, TasksMove, books
<1>. USE DEF TaskOK, TaskFields
<1>1. ASSUME NEW tool, NEW data, Offer(tool, data),
             TaskOK([tool |-> tool, stage |-> "shown", data |-> data, gone |-> {},
                     result |-> 0])
      PROVE  Offers
  BY <1>1 DEF Offer, Offers
<1>2. ASSUME NEW data, NEW tool \in {"invoice", "price", "return", "memo", "deliver"},
             Offer(tool, data)
      PROVE  Offers
  BY <1>1, <1>2
<1>3. CASE PrepareEstimate
  <2>1. PICK product, quantity, v :
          /\ quantity \in Quantity
          /\ Offer("estimate", [product |-> product, quantity |-> quantity,
                                price |-> Price(v, product, quantity)])
    BY <1>3 DEF PrepareEstimate
  <2>. QED
    BY <1>1, <2>1
<1>4. CASE PrepareTransfer
  <2>1. PICK m, quantity, v :
          /\ quantity \in Quantity
          /\ Offer("transfer", [memo |-> m, quantity |-> quantity,
                                memoVersion |-> memos[m].version,
                                price |-> Price(v, ProductOf(m), quantity)])
    BY <1>4 DEF PrepareTransfer
  <2>. QED
    BY <1>1, <2>1
<1>5. CASE PrepareConversion
  BY <1>1, <1>5 DEF PrepareConversion
<1>6. CASE PrepareDispatch
  BY <1>1, <1>6 DEF PrepareDispatch
<1>7. CASE PrepareRecord
  <2>1. PICK o, event, lines, final, source :
          /\ o \in DOMAIN orders /\ final \in BOOLEAN
          /\ Offer("record", [order |-> o, event |-> event, lines |-> lines, final |-> final,
                              orderVersion |-> orders[o].version, source |-> source])
    BY <1>7 DEF PrepareRecord
  <2>. QED
    BY <1>1, <2>1
<1>8. CASE PrepareInvoice \/ PreparePrice
  BY <1>2, <1>8 DEF PrepareInvoice, PreparePrice
<1>9. CASE PrepareReturn \/ PrepareMemo
  BY <1>2, <1>9 DEF PrepareReturn, PrepareMemo
<1>10. CASE PrepareDelivery
  BY <1>2, <1>10 DEF PrepareDelivery
<1>. QED
  BY <1>3, <1>4, <1>5, <1>6, <1>7, <1>8, <1>9, <1>10 DEF Prepare

\* Committing a draft is a move that its rules allow.
LEMMA CommittedMove ==
  ASSUME TasksInv, NEW t \in DOMAIN tasks, NEW result, Commit1(t, result)
  PROVE  /\ TasksMove /\ Becomes(t, "committed", tasks[t].gone)
         /\ tasks'[t].result = result
<1>1. Becomes(t, "committed", tasks[t].gone) /\ tasks'[t].result = result
  BY TaskSet
<1>2. MayBecome(tasks[t], "committed", tasks[t].gone)
  BY DEF MayBecome, Over, TasksInv, TaskOK
<1>. QED
  BY <1>1, <1>2 DEF Advances, TasksMove

\* The assistant's steps that change nothing but the draft.
LEMMA MovedBooks ==
  ASSUME BooksInv, NEW t \in DOMAIN tasks, UNCHANGED <<estimates, sales, orders>>,
         NEW stage, Move(t, stage), stage # "checked", tasks[t].stage \in Over => stage \in Over
  PROVE  BooksNext
<1>1. Becomes(t, stage, tasks[t].gone)
  BY TaskSet DEF BooksInv
<1>2. MayBecome(tasks[t], stage, tasks[t].gone)
  BY DEF MayBecome, BooksInv, TasksInv, TaskOK
<1>. QED
  BY <1>1, <1>2, UnmovedBooks DEF Advances, TasksMove

\* A refusal writes nothing but the draft.
LEMMA RefusedBooks ==
  ASSUME BooksInv, NEW t \in DOMAIN tasks, NEW tool, Ready(t, tool), Move(t, "refused"),
         UNCHANGED <<books, versions, estimates>>
  PROVE  BooksNext
BY MovedBooks DEF Ready, Over, books

\* An approval writes nothing but the draft and remembers what was archived by
\* then.
LEMMA ApproveBooks ==
  ASSUME BooksInv, NEW t \in DOMAIN tasks, Approve(t)
  PROVE  BooksNext
<1>1. Becomes(t, "approved", Archive) /\ MayBecome(tasks[t], "approved", Archive)
  BY TaskSet DEF BooksInv, Approve, MayBecome, Over
<1>. QED
  BY <1>1, UnmovedBooks DEF Advances, TasksMove, Approve, books

\* A price is quoted from an active version.
LEMMA QuotedActive ==
  ASSUME NEW product, NEW quantity, NEW v \in Quoted(product, quantity)
  PROVE  v \in DOMAIN versions /\ versions[v].status = "ACTIVE"
BY DEF Quoted

\* A draft is ready to execute when the price it showed is the one quoted now:
\* it was not archived when it was approved.
LEMMA RecheckBooks ==
  ASSUME BooksInv, NEW t \in DOMAIN tasks, Recheck(t)
  PROVE  BooksNext
<1>. DEFINE task == tasks[t]
            stage == IF Holds(task.tool, task.data) THEN "checked" ELSE "refused"
<1>1. Becomes(t, stage, task.gone)
  BY TaskSet DEF BooksInv, Recheck
<1>2. task.gone \subseteq Archive
  BY DEF BooksInv, TasksInv, TaskOK
<1>3. ASSUME Holds(task.tool, task.data), task.tool \in {"estimate", "invoice"}
      PROVE  task.data.price.version \notin task.gone
  <2>. DEFINE data == task.data
  <2>1. PICK v \in Quoted(data.product, data.quantity) :
          Price(v, data.product, data.quantity) = data.price
    BY <1>3 DEF Holds
  <2>2. data.price.version = v
    BY <2>1 DEF Price
  <2>3. versions[v].status = "ACTIVE"
    BY <2>1, QuotedActive
  <2>. QED
    BY <1>2, <2>2, <2>3 DEF Archive
<1>4. MayBecome(task, stage, task.gone)
  BY <1>2, <1>3 DEF MayBecome, Recheck, Over
<1>. QED
  BY <1>1, <1>4, UnmovedBooks DEF Advances, TasksMove, Recheck, books

\* Verifying writes nothing but the draft.
LEMMA VerifyBooks ==
  ASSUME BooksInv, NEW t \in DOMAIN tasks, Verify(t)
  PROVE  BooksNext
<1>1. PICK stage \in {"done", "doubtful"} : Move(t, stage)
  BY DEF Verify
<1>. QED
  BY <1>1, MovedBooks DEF Verify, Over, books

\* An invoice of e, or of no estimate when it is 0.
LEMMA Posted ==
  ASSUME EstimatesInv, SalesInv, NEW e, NEW lines, NEW task, Post(e, lines, task),
         e # 0 => e \in DOMAIN estimates /\ estimates[e].status = "READY"
  PROVE  /\ EstimatesInv' /\ SalesInv'
         /\ IF e = 0 THEN Quiet ELSE Bills(e)
         /\ \A x \in DOMAIN estimates : estimates'[x].key = estimates[x].key
         /\ DOMAIN estimates' = DOMAIN estimates
         /\ Len(sales') \in DOMAIN sales' /\ Len(sales') # 0
         /\ sales'[Len(sales')] = Invoice(e, lines, task)
<1>. DEFINE new == Invoice(e, lines, task)
<1>1. DOMAIN new = SaleFields /\ new.estimate = e
  BY DEF Invoice, SaleFields
<1>2. sales' = Append(sales, new)
  BY DEF Post
<1>. HIDE DEF new
<1>3. /\ Sequence(sales') /\ Len(sales) \in Nat /\ Len(sales') = Len(sales) + 1
      /\ DOMAIN sales = 1 .. Len(sales)
      /\ DOMAIN sales' = DOMAIN sales \cup {Len(sales) + 1}
      /\ \A i \in DOMAIN sales : sales'[i] = sales[i]
      /\ sales'[Len(sales) + 1] = new
  BY <1>2, Appending DEF SalesInv
<1>4. SalesInv'
  BY <1>1, <1>3 DEF SalesInv
<1>5. CASE e = 0
  <2>1. UNCHANGED estimates
    BY <1>5 DEF Post
  <2>. QED
    BY <1>1, <1>3, <1>4, <1>5, <2>1 DEF EstimatesInv, EstimateOK, Quiet, new
<1>6. CASE e # 0
  <2>1. EstimatesInv' /\ Marks(e, "CONVERTED")
    BY <1>6, EstimateMarked DEF Post
  <2>2. Len(sales) + 1 \notin DOMAIN sales
    BY <1>3
  <2>3. Bills(e)
    BY <1>1, <1>3, <1>6, <2>1, <2>2 DEF Bills, Marks
  <2>. QED
    BY <1>3, <1>4, <1>6, <2>1, <2>3 DEF Marks, new
<1>. QED
  BY <1>5, <1>6

\* The step that commits an estimate or the quote of a transfer.
LEMMA QuotedBooks ==
  ASSUME BooksInv, NEW t \in DOMAIN tasks, NEW data, data.quantity \in Quantity,
         Create(Quotation(t, data)), NEW result, Commit1(t, result),
         UNCHANGED <<sales, orders>>
  PROVE  BooksNext
<1>. DEFINE r == Quotation(t, data)
<1>1. DOMAIN r = Keys /\ Sellable(r.content.lines) /\ r.key = <<"assistant", t>>
  BY Shapes
<1>. HIDE DEF r
<1>2. /\ EstimatesInv' /\ Quiet
      /\ \A e \in DOMAIN estimates : estimates'[e] = estimates[e]
      /\ \A e \in DOMAIN estimates' \ DOMAIN estimates : estimates'[e].key = r.key
  BY <1>1, CreatedQuietly DEF r, BooksInv
<1>3. TasksMove /\ t \in DOMAIN tasks' /\ tasks'[t].stage \in Over
  BY CommittedMove DEF BooksInv, Becomes, Over
<1>4. KeysMove
  BY <1>1, <1>2, <1>3 DEF KeysMove
<1>5. SalesInv' /\ OrdersMove
  BY DEF BooksInv, SalesInv, OrdersMove
<1>. QED
  BY <1>2, <1>3, <1>4, <1>5 DEF BooksNext

\* An estimate is created with its draft's key.
LEMMA EstimateBooks ==
  ASSUME BooksInv, NEW t \in DOMAIN tasks, CommitEstimate(t)
  PROVE  BooksNext
<1>1. tasks[t].data.quantity \in Quantity
  BY DEF BooksInv, TasksInv, TaskOK, CommitEstimate, Ready
<1>. QED
  BY <1>1, QuotedBooks DEF CommitEstimate, books

\* So is the quotation of a transfer.
LEMMA TransferBooks ==
  ASSUME BooksInv, NEW t \in DOMAIN tasks, CommitTransfer(t)
  PROVE  BooksNext
<1>. DEFINE data == tasks[t].data
            full == [product |-> ProductOf(data.memo)] ++ data
<1>1. data.quantity \in Quantity /\ "quantity" \in DOMAIN data
  BY DEF BooksInv, TasksInv, TaskOK, CommitTransfer, Ready
<1>2. full.quantity \in Quantity
  BY <1>1 DEF ++
<1>3. CASE Move(t, "refused") /\ UNCHANGED <<books, versions, estimates>>
  BY <1>3, RefusedBooks DEF CommitTransfer
<1>4. CASE /\ Create(Quotation(t, full)) /\ Commit1(t, Len(transfers'))
           /\ UNCHANGED <<stock, sales, orders, versions>>
  <2>. HIDE DEF full
  <2>. QED
    BY <1>2, <1>4, QuotedBooks
<1>. QED
  BY <1>3, <1>4 DEF CommitTransfer, CommitOrRefuse

\* A draft that posts a sale of an estimate that is ready keeps the books.
LEMMA PostedBooks ==
  ASSUME BooksInv, NEW t \in DOMAIN tasks, NEW e, NEW lines, Post(e, lines, t),
         e # 0 => e \in DOMAIN estimates /\ estimates[e].status = "READY",
         NEW result, Commit1(t, result), OrdersMove
  PROVE  BooksNext
<1>1. /\ EstimatesInv' /\ SalesInv' /\ (Quiet \/ Bills(e)) /\ KeysMove
  BY Posted DEF BooksInv, KeysMove
<1>. QED
  BY <1>1, CommittedMove DEF BooksInv, BooksNext

\* Sales and conversions.
LEMMA InvoiceBooks ==
  ASSUME BooksInv, NEW t \in DOMAIN tasks, CommitInvoice(t) \/ CommitConversion(t)
  PROVE  BooksNext
<1>1. CASE CommitInvoice(t)
  <2>. DEFINE lines == <<Line(tasks[t].data.product, tasks[t].data.quantity,
                              tasks[t].data.price.rate)>>
  <2>1. CASE Move(t, "refused") /\ UNCHANGED <<books, versions, estimates>>
    BY <1>1, <2>1, RefusedBooks DEF CommitInvoice
  <2>2. CASE /\ Post(0, lines, t) /\ Commit1(t, Len(sales'))
             /\ UNCHANGED <<memos, transfers, orders, versions>>
    <3>. HIDE DEF lines
    <3>. QED
      BY <2>2, PostedBooks DEF OrdersMove
  <2>. QED
    BY <1>1, <2>1, <2>2 DEF CommitInvoice, CommitOrRefuse
<1>2. CASE CommitConversion(t)
  <2>. DEFINE e == tasks[t].data.estimate
              lines == LinesOf(e)
  <2>1. CASE Move(t, "refused") /\ UNCHANGED <<books, versions, estimates>>
    BY <1>2, <2>1, RefusedBooks DEF CommitConversion
  <2>2. CASE /\ MayPost(e, lines) /\ Post(e, lines, t) /\ Commit1(t, Len(sales'))
             /\ UNCHANGED <<memos, transfers, orders, versions>>
    <3>1. e \in DOMAIN estimates
      BY <1>2 DEF CommitConversion, Ready, BooksInv, TasksInv, TaskOK
    <3>2. e # 0 => estimates[e].status = "READY"
      BY <2>2 DEF MayPost
    <3>. HIDE DEF e, lines
    <3>. QED
      BY <2>2, <3>1, <3>2, PostedBooks DEF OrdersMove
  <2>. QED
    BY <1>2, <2>1, <2>2 DEF CommitConversion, CommitOrRefuse
<1>. QED
  BY <1>1, <1>2

\* Prices and memos.
LEMMA OtherBooks ==
  ASSUME BooksInv, NEW t \in DOMAIN tasks, CommitPrice(t) \/ CommitMemo(t)
  PROVE  BooksNext
<1>1. CASE \E tool : Ready(t, tool) /\ Move(t, "refused") /\ UNCHANGED <<books, versions, estimates>>
  BY <1>1, RefusedBooks
<1>2. CASE \E result : Commit1(t, result) /\ UNCHANGED <<estimates, sales, orders>>
  BY <1>2, CommittedMove, UnmovedBooks DEF BooksInv
<1>. QED
  BY <1>1, <1>2, Zenon DEF CommitPrice, CommitMemo, CommitOrRefuse, books

\* What was returned of an invoice changes nothing else of it.
Returned(s, i, n) == [sales EXCEPT ![s].returned[i] = n]

\* A return changes only what was returned of a line.
LEMMA ReturnedSales ==
  ASSUME SalesInv, NEW s, NEW i, NEW n
  PROVE  LET new == Returned(s, i, n) IN
         /\ Sequence(new) /\ DOMAIN new = DOMAIN sales
         /\ \A u \in DOMAIN new :
              DOMAIN new[u] = SaleFields /\ new[u].estimate = sales[u].estimate
<1>. DEFINE new == Returned(s, i, n)
<1>. USE DEF Returned
<1>1. new = [u \in DOMAIN sales |-> new[u]]
  OBVIOUS
<1>2. Sequence(new) /\ DOMAIN new = DOMAIN sales
  <2>. HIDE DEF new
  <2>. QED
    BY <1>1, Updating DEF SalesInv
<1>3. ASSUME NEW u \in DOMAIN sales
      PROVE  DOMAIN new[u] = SaleFields /\ new[u].estimate = sales[u].estimate
  <2>1. DOMAIN sales[u] = SaleFields
    BY DEF SalesInv
  <2>2. CASE u = s
    BY <2>1, <2>2 DEF SaleFields
  <2>3. CASE u # s
    BY <2>1, <2>3
  <2>. QED
    BY <2>2, <2>3
<1>. QED
  BY <1>2, <1>3

\* Returns.
LEMMA ReturnBooks ==
  ASSUME BooksInv, NEW t \in DOMAIN tasks, CommitReturn(t)
  PROVE  BooksNext
<1>1. CASE Move(t, "refused") /\ UNCHANGED <<books, versions, estimates>>
  BY <1>1, RefusedBooks DEF CommitReturn
<1>2. ASSUME NEW s, NEW i, NEW n, sales' = [sales EXCEPT ![s].returned[i] = n],
             Commit1(t, s), UNCHANGED <<memos, transfers, orders, versions, estimates>>
      PROVE  BooksNext
  <2>1. /\ Sequence(sales') /\ DOMAIN sales' = DOMAIN sales
        /\ \A u \in DOMAIN sales' :
             DOMAIN sales'[u] = SaleFields /\ sales'[u].estimate = sales[u].estimate
    <3>. DEFINE new == Returned(s, i, n)
    <3>1. /\ Sequence(new) /\ DOMAIN new = DOMAIN sales
          /\ \A u \in DOMAIN new :
               DOMAIN new[u] = SaleFields /\ new[u].estimate = sales[u].estimate
      BY ReturnedSales DEF BooksInv
    <3>2. sales' = new
      BY <1>2 DEF Returned
    <3>. HIDE DEF new
    <3>. QED
      BY <3>1, <3>2
  <2>2. EstimatesInv' /\ KeysMove /\ OrdersMove
    BY <1>2 DEF BooksInv, EstimatesInv, EstimateOK, KeysMove, OrdersMove
  <2>3. SalesInv' /\ Quiet
    BY <1>2, <2>1 DEF SalesInv, Quiet
  <2>. QED
    BY <1>2, <2>2, <2>3, CommittedMove DEF BooksInv, BooksNext
<1>. QED
  BY <1>1, <1>2 DEF CommitReturn, CommitOrRefuse

\* A delivery is billed to the other site, without an estimate.
LEMMA DeliveredSales ==
  ASSUME SalesInv, NEW s, NEW i, NEW n, NEW lines, NEW task,
         sales' = Append(Returned(s, i, n), Invoice(0, lines, task)), UNCHANGED estimates
  PROVE  /\ SalesInv' /\ Quiet
         /\ sales'[Len(sales')] = Invoice(0, lines, task)
<1>. DEFINE old == Returned(s, i, n)
            new == Invoice(0, lines, task)
<1>1. /\ Sequence(old) /\ DOMAIN old = DOMAIN sales
      /\ \A u \in DOMAIN old :
           DOMAIN old[u] = SaleFields /\ old[u].estimate = sales[u].estimate
  BY ReturnedSales
<1>2. DOMAIN new = SaleFields /\ new.estimate = 0
  BY DEF Invoice, SaleFields
<1>. HIDE DEF old, new
<1>3. sales' = Append(old, new)
  BY DEF old, new
<1>4. /\ Sequence(sales') /\ Len(sales') = Len(old) + 1
      /\ DOMAIN sales' = DOMAIN old \cup {Len(old) + 1}
      /\ \A u \in DOMAIN old : sales'[u] = old[u]
      /\ sales'[Len(old) + 1] = new
  <2>1. /\ Sequence(Append(old, new)) /\ Len(Append(old, new)) = Len(old) + 1
        /\ DOMAIN Append(old, new) = DOMAIN old \cup {Len(old) + 1}
        /\ \A u \in DOMAIN old : Append(old, new)[u] = old[u]
        /\ Append(old, new)[Len(old) + 1] = new
    BY <1>1, Appending
  <2>. QED
    BY <1>3, <2>1
<1>5. SalesInv' /\ Quiet
  BY <1>1, <1>2, <1>4 DEF SalesInv, Quiet
<1>. QED
  BY <1>4, <1>5 DEF new

\* Deliveries of a challan: a return and a sale of no estimate.
LEMMA DeliveryBooks ==
  ASSUME BooksInv, NEW t \in DOMAIN tasks, CommitDelivery(t)
  PROVE  BooksNext
<1>1. CASE Move(t, "refused") /\ UNCHANGED <<books, versions, estimates>>
  BY <1>1, RefusedBooks DEF CommitDelivery
<1>2. ASSUME NEW s, NEW i, NEW n, NEW lines, NEW result,
             sales' = Append([sales EXCEPT ![s].returned[i] = n], Invoice(0, lines, t)),
             Commit1(t, result), UNCHANGED <<stock, orders, versions, estimates>>
      PROVE  BooksNext
  <2>1. SalesInv' /\ Quiet
    BY <1>2, DeliveredSales DEF BooksInv, Returned
  <2>2. EstimatesInv' /\ KeysMove /\ OrdersMove
    BY <1>2 DEF BooksInv, EstimatesInv, EstimateOK, KeysMove, OrdersMove
  <2>. QED
    BY <1>2, <2>1, <2>2, CommittedMove DEF BooksInv, BooksNext
<1>. DEFINE data == tasks[t].data
            id == data.transfer
            m == transfers[id].memo
            memo == memos[m]
            quantity == transfers[id].quantity
            lines == <<Line(ProductOf(m), quantity, data.price.rate)>>
<1>3. CASE /\ sales' = Append([sales EXCEPT ![memo.sale].returned[memo.line] = @ + quantity],
                              Invoice(0, lines, t))
           /\ Commit1(t, id) /\ UNCHANGED <<stock, orders, versions, estimates>>
  <2>. HIDE DEF id, memo, quantity, lines
  <2>. QED
    BY <1>2, <1>3
<1>. QED
  BY <1>1, <1>3 DEF CommitDelivery, CommitOrRefuse

\* Dispatching part of an order.
LEMMA DispatchBooks ==
  ASSUME BooksInv, NEW t \in DOMAIN tasks, CommitDispatch(t)
  PROVE  BooksNext
<1>. DEFINE e == tasks[t].data.estimate
            lines == LinesOf(e)
            items == [i \in DOMAIN lines |->
                        [quantity |-> lines[i].quantity, dispatched |-> 0, delivered |-> 0]]
            order == [estimate |-> e, status |-> "PICKING", version |-> 1, sale |-> 0,
                      items |-> items]
<1>1. CASE Move(t, "refused") /\ UNCHANGED <<books, versions, estimates>>
  BY <1>1, RefusedBooks DEF CommitDispatch
<1>2. CASE /\ estimates[e].status # "CONVERTED"
           /\ orders' = Append(orders, order)
           /\ estimates' = [estimates EXCEPT ![e].status = "READY"]
           /\ Commit1(t, Len(orders'))
           /\ UNCHANGED <<stock, sales, memos, transfers, versions>>
  <2>1. e \in DOMAIN estimates /\ Sellable(lines)
    BY DEF CommitDispatch, Ready, BooksInv, TasksInv, TaskOK, EstimatesInv, EstimateOK,
       LinesOf
  <2>2. ~AllAre(items, "delivered")
    BY <2>1 DEF AllAre, Sellable
  <2>. HIDE DEF items
  <2>3. /\ DOMAIN order = OrderFields /\ order.estimate = e /\ order.status = "PICKING"
        /\ order.sale = 0 /\ order.items = items
    BY DEF OrderFields
  <2>. HIDE DEF order, e, items
  <2>4. PICK new : new = order
    OBVIOUS
  <2>5. /\ EstimatesInv' /\ Quiet /\ DOMAIN estimates' = DOMAIN estimates
        /\ \A x \in DOMAIN estimates : estimates'[x].key = estimates[x].key
    BY <1>2, MarkedQuietly DEF BooksInv, Readies
  <2>6. OrderOK(new)'
    BY <2>1, <2>2, <2>3, <2>5, <2>4 DEF OrderOK
  <2>7. OrdersMove /\ KeysMove /\ SalesInv'
    BY <1>2, <2>5, <2>6, <2>4 DEF OrdersMove, KeysMove, BooksInv, SalesInv
  <2>. QED
    BY <1>2, <2>5, <2>7, CommittedMove DEF BooksInv, BooksNext
<1>. QED
  BY <1>1, <1>2 DEF CommitDispatch, CommitOrRefuse

\* Putting an order that is in order keeps the others.
LEMMA OrderUpdated ==
  ASSUME NEW o, NEW order, OrderOK(order)', orders' = [orders EXCEPT ![o] = order]
  PROVE  OrdersMove
BY Zenon DEF OrdersMove

\* What is recorded of an order: all of it is delivered exactly when it gets
\* its invoice.
LEMMA RecordedOrder ==
  ASSUME BooksInv, NEW o \in DOMAIN orders, NEW items, NEW final \in BOOLEAN, NEW sale,
         AllAre(items, "delivered") <=> final,
         final => /\ sale \in DOMAIN sales' /\ sale # 0
                  /\ sales'[sale].estimate = orders[o].estimate,
         ~final => sale = 0,
         DOMAIN estimates \subseteq DOMAIN estimates',
         orders' = [orders EXCEPT ![o].items = items, ![o].version = @ + 1,
                      ![o].sale = sale,
                      ![o].status = IF final THEN "DELIVERED"
                                    ELSE IF AllAre(items, "dispatched") THEN "DISPATCHED"
                                    ELSE "PARTIAL"]
  PROVE  OrdersMove
<1>. DEFINE order == [orders[o] EXCEPT !.items = items, !.version = @ + 1, !.sale = sale,
                      !.status = IF final THEN "DELIVERED"
                                 ELSE IF AllAre(items, "dispatched") THEN "DISPATCHED"
                                 ELSE "PARTIAL"]
<1>1. DOMAIN orders[o] = OrderFields /\ orders[o].estimate \in DOMAIN estimates
  BY DEF BooksInv, OrdersInv, OrderOK
<1>2. orders' = [orders EXCEPT ![o] = order]
  OBVIOUS
<1>3. /\ DOMAIN order = OrderFields /\ order.estimate = orders[o].estimate
      /\ order.items = items /\ order.sale = sale
      /\ order.status = "DELIVERED" <=> final
  BY <1>1 DEF OrderFields
<1>. HIDE DEF order
<1>4. PICK new : new = order
  OBVIOUS
<1>5. OrderOK(new)'
  BY <1>1, <1>3, <1>4 DEF OrderOK
<1>6. orders' = [orders EXCEPT ![o] = new]
  BY <1>2, <1>4
<1>. QED
  BY <1>5, <1>6, OrderUpdated

\* Recording a delivery invoices the order's estimate when all was delivered.
LEMMA RecordBooks ==
  ASSUME BooksInv, NEW t \in DOMAIN tasks, CommitRecord(t)
  PROVE  BooksNext
<1>. DEFINE data == tasks[t].data
            o == data.order
            e == orders[o].estimate
            lines == LinesOf(e)
            items == After(orders[o].items, data.event, data.lines)
            sale == IF data.final THEN Len(sales') ELSE 0
<1>1. CASE Move(t, "refused") /\ UNCHANGED <<books, versions, estimates>>
  BY <1>1, RefusedBooks DEF CommitRecord
<1>2. CASE /\ Fits(data, items) /\ (data.final => MayPost(e, lines))
           /\ IF data.final THEN Post(e, lines, t) ELSE UNCHANGED <<sales, stock, estimates>>
           /\ orders' = [orders EXCEPT ![o].items = items, ![o].version = @ + 1,
                ![o].sale = sale,
                ![o].status = IF data.final THEN "DELIVERED"
                              ELSE IF AllAre(items, "dispatched") THEN "DISPATCHED"
                              ELSE "PARTIAL"]
           /\ Commit1(t, o)
  <2>1. o \in DOMAIN orders /\ data.final \in BOOLEAN
    BY DEF CommitRecord, Ready, BooksInv, TasksInv, TaskOK
  <2>2. e \in DOMAIN estimates /\ e # 0
    BY <2>1, Appending DEF BooksInv, OrdersInv, OrderOK, EstimatesInv
  <2>3. AllAre(items, "delivered") <=> data.final
    BY <1>2 DEF Fits
  <2>. DEFINE final == data.final
  <2>. HIDE DEF o, e, lines, items, data
  <2>4. CASE final
    <3>1. Post(e, lines, t) /\ sale = Len(sales') /\ estimates[e].status = "READY"
      BY <1>2, <2>2, <2>4 DEF MayPost
    <3>2. /\ Len(sales') \in DOMAIN sales' /\ Len(sales') # 0
          /\ sales'[Len(sales')].estimate = e
          /\ DOMAIN estimates' = DOMAIN estimates
      <4>1. /\ DOMAIN estimates' = DOMAIN estimates
            /\ Len(sales') \in DOMAIN sales' /\ Len(sales') # 0
            /\ sales'[Len(sales')] = Invoice(e, lines, t)
        BY <2>2, <3>1, Posted DEF BooksInv
      <4>. QED
        BY <4>1 DEF Invoice
    <3>. HIDE DEF sale
    <3>3. OrdersMove
      BY <1>2, <2>1, <2>3, <2>4, <3>1, <3>2, RecordedOrder DEF e
    <3>. QED
      BY <1>2, <2>2, <3>1, <3>3, PostedBooks
  <2>5. CASE ~final
    <3>1. UNCHANGED <<sales, stock, estimates>> /\ sale = 0
      BY <1>2, <2>5
    <3>. HIDE DEF sale
    <3>2. OrdersMove
      BY <1>2, <2>1, <2>3, <2>5, <3>1, RecordedOrder
    <3>3. EstimatesInv' /\ SalesInv' /\ Quiet /\ KeysMove
      BY <3>1 DEF BooksInv, EstimatesInv, EstimateOK, SalesInv, Quiet, KeysMove
    <3>. QED
      BY <1>2, <3>2, <3>3, CommittedMove DEF BooksInv, BooksNext
  <2>. QED
    BY <2>1, <2>4, <2>5
<1>. QED
  BY <1>1, <1>2 DEF CommitRecord, CommitOrRefuse

-----------------------------------------------------------------------------
(* The books in every step *)

\* Every step of the assistant keeps the books.
LEMMA AssistBooks == ASSUME BooksInv, Assist PROVE BooksNext
<1>1. CASE Prepare
  BY <1>1, PrepareBooks
<1>2. ASSUME NEW product, Receive(product) PROVE BooksNext
  BY <1>2, UnmovedBooks DEF Receive, TasksMove
<1>3. ASSUME NEW t \in DOMAIN tasks, Approve(t) \/ Recheck(t) \/ Verify(t)
      PROVE  BooksNext
  BY <1>3, ApproveBooks, RecheckBooks, VerifyBooks
<1>4. ASSUME NEW t \in DOMAIN tasks,
             \/ CommitEstimate(t) \/ CommitInvoice(t) \/ CommitConversion(t)
             \/ CommitPrice(t) \/ CommitReturn(t) \/ CommitMemo(t)
      PROVE  BooksNext
  BY <1>4, EstimateBooks, InvoiceBooks, OtherBooks, ReturnBooks
<1>5. ASSUME NEW t \in DOMAIN tasks,
             \/ CommitTransfer(t) \/ CommitDelivery(t) \/ CommitDispatch(t)
             \/ CommitRecord(t)
      PROVE  BooksNext
  BY <1>5, TransferBooks, DeliveryBooks, DispatchBooks, RecordBooks
<1>. QED
  BY <1>1, <1>2, <1>3, <1>4, <1>5, Zenon DEF Assist, Execute

\* Everyone but the assistant.
OthersStep == (Next \/ UNCHANGED vars) /\ UNCHANGED <<books, tasks>>

\* The steps are the assistant's and the others.
LEMMA StepKinds == ASSUME [DepotNext]_depotVars PROVE Assist \/ OthersStep
BY Zenon DEF DepotNext, depotVars, OthersStep

\* The others keep them too.
LEMMA OthersBooks == ASSUME PagesInv, BooksInv, OthersStep PROVE BooksNext
<1>1. UNCHANGED <<sales, orders, tasks>> /\ PagesEstimates
  BY EstimatesOfPages DEF OthersStep, books
<1>2. /\ EstimatesInv' /\ Quiet
      /\ \A e \in DOMAIN estimates : estimates'[e].key = estimates[e].key
      /\ \A e \in DOMAIN estimates' \ DOMAIN estimates : Own(estimates'[e].key)
  BY <1>1, PagesBooks DEF BooksInv
<1>3. TasksMove /\ OrdersMove /\ SalesInv'
  BY <1>1 DEF TasksMove, OrdersMove, BooksInv, SalesInv
<1>. QED
  BY <1>2, <1>3 DEF BooksNext, KeysMove

DepotInv == PagesInv /\ BooksInv

\* Every step keeps pages and books.
LEMMA DepotKept == ASSUME DepotInv, [DepotNext]_depotVars PROVE DepotInv'
<1>1. PagesInv' /\ Stays(versions, versions')
  BY PagesKept, VersionsNext DEF DepotInv, PagesInv, CallsOK
<1>2. BooksNext
  BY StepKinds, AssistBooks, OthersBooks DEF DepotInv
<1>. QED
  BY <1>1, <1>2, BooksKept DEF DepotInv

\* They begin in order.
LEMMA DepotBegin == ASSUME DepotInit PROVE DepotInv
<1>1. PagesInv
  BY PagesBegin
<1>2. PICK budget \in Budgets : sales = budget.sales
  BY DEF DepotInit, Init
<1>3. SalesInv /\ \A s \in DOMAIN sales : sales[s].estimate = 0
  <2>. DEFINE S == [estimate : {0}, task : {0}, returned : Seq(Nat),
                    lines : Seq([product : Product, quantity : Quantity, rate : Nat])]
  <2>1. sales \in Seq(S)
    BY <1>2, DepotAssumption
  <2>2. \A r \in S : DOMAIN r = SaleFields /\ r.estimate = 0
    BY DEF SaleFields
  <2>. HIDE DEF S
  <2>3. Sequence(sales)
    BY <2>1, RangeSequence
  <2>. QED
    BY <2>1, <2>2, <2>3 DEF SalesInv
<1>4. /\ EstimatesInv /\ Own(estimates[1].key)
      /\ \A e \in DOMAIN estimates : e = 1 /\ estimates[e].status # "CONVERTED"
  <2>. DEFINE content == [number |-> 0, customer |-> 1, list |-> None, lines |-> Source]
              first == [key |-> <<"source">>, print |-> None, edition |-> None,
                        status |-> "DRAFT", content |-> content]
  <2>1. estimates = <<first>>
    BY DEF DepotInit, Init
  <2>2. first.status = "DRAFT" /\ first.key = <<"source">> /\ EstimateOK(first)
    BY Shapes DEF EstimateOK, EstimateFields
  <2>. HIDE DEF first
  <2>3. estimates \in Seq({first}) /\ DOMAIN estimates = {1} /\ estimates[1] = first
    BY <2>1
  <2>4. Sequence(estimates)
    BY <2>3, RangeSequence
  <2>5. Own(<<"source">>)
    BY DEF Own
  <2>. QED
    BY <2>2, <2>3, <2>4, <2>5 DEF EstimatesInv
<1>5. /\ tasks = <<>> /\ orders = <<>> /\ Sequence(<<>>) /\ DOMAIN tasks = {}
      /\ DOMAIN orders = {}
  <2>1. <<>> \in Seq({}) /\ DOMAIN <<>> = {}
    OBVIOUS
  <2>2. Sequence(<<>>)
    BY <2>1, RangeSequence, Zenon
  <2>3. tasks = <<>> /\ orders = <<>>
    BY DEF DepotInit
  <2>. QED
    BY <2>1, <2>2, <2>3
<1>6. TasksInv /\ OrdersInv
  BY <1>5 DEF TasksInv, OrdersInv
<1>7. KeysInv /\ Billed
  BY <1>3, <1>4 DEF KeysInv, Own, Billed
<1>. QED
  BY <1>1, <1>3, <1>4, <1>6, <1>7 DEF DepotInv, BooksInv

\* A dispatch is invoiced once and when all of it was delivered; an estimate
\* has one invoice if it is converted, by whichever draft, and none before.
THEOREM BilledOnceForAll == DepotSpec => []DispatchedIsBilledOnce
<1>1. ASSUME DepotInv PROVE DispatchedIsBilledOnce
  <2>1. BooksInv
    BY <1>1 DEF DepotInv
  <2>2. \A o \in DOMAIN orders : OrderOK(orders[o])
    BY <2>1 DEF BooksInv, OrdersInv
  <2>3. ASSUME NEW e \in DOMAIN estimates
        PROVE  Cardinality({s \in DOMAIN sales : sales[s].estimate = e}) =
                 IF estimates[e].status = "CONVERTED" THEN 1 ELSE 0
    <3>1. e # 0
      BY <2>1, Appending DEF BooksInv, EstimatesInv
    <3>. QED
      BY <2>1, <3>1, BilledCounts DEF BooksInv
  <2>. QED
    BY <2>2, <2>3 DEF OrderOK, DispatchedIsBilledOnce
<1>. QED
  BY <1>1, DepotBegin, DepotKept, PTL DEF DepotSpec

\* The assistant creates estimates of quotations, and gives others a status.
LEMMA AssistEstimates ==
  ASSUME BooksInv, Assist
  PROVE  \/ UNCHANGED estimates
         \/ \E t, data : data.quantity \in Quantity /\ Create(Quotation(t, data))
         \/ \E e, status : estimates' = [estimates EXCEPT ![e].status = status]
<1>1. CASE Prepare \/ \E product \in Product : Receive(product)
  BY <1>1 DEF Prepare, Receive
<1>2. ASSUME NEW t \in DOMAIN tasks, Approve(t) \/ Recheck(t) \/ Verify(t)
      PROVE  UNCHANGED estimates
  BY <1>2 DEF Approve, Recheck, Verify
<1>3. ASSUME NEW t \in DOMAIN tasks, CommitEstimate(t)
      PROVE  tasks[t].data.quantity \in Quantity /\ Create(Quotation(t, tasks[t].data))
  BY <1>3 DEF BooksInv, TasksInv, TaskOK, CommitEstimate, Ready
<1>4. ASSUME NEW t \in DOMAIN tasks, CommitTransfer(t)
      PROVE  \/ UNCHANGED estimates
             \/ \E data : data.quantity \in Quantity /\ Create(Quotation(t, data))
  <2>. DEFINE data == tasks[t].data
              full == [product |-> ProductOf(data.memo)] ++ data
  <2>1. data.quantity \in Quantity /\ "quantity" \in DOMAIN data
    BY <1>4 DEF BooksInv, TasksInv, TaskOK, CommitTransfer, Ready
  <2>2. full.quantity \in Quantity
    BY <2>1 DEF ++
  <2>3. UNCHANGED estimates \/ Create(Quotation(t, full))
    BY <1>4 DEF CommitTransfer, CommitOrRefuse
  <2>. HIDE DEF full
  <2>. QED
    BY <2>2, <2>3
<1>5. ASSUME NEW t \in DOMAIN tasks, \/ CommitInvoice(t) \/ CommitConversion(t)
             \/ CommitPrice(t) \/ CommitReturn(t) \/ CommitMemo(t) \/ CommitDelivery(t)
             \/ CommitDispatch(t) \/ CommitRecord(t)
      PROVE  \/ UNCHANGED estimates
             \/ \E e, status : estimates' = [estimates EXCEPT ![e].status = status]
  BY <1>5, Zenon DEF CommitInvoice, CommitConversion, CommitPrice, CommitReturn, CommitMemo,
     CommitDelivery, CommitDispatch, CommitRecord, CommitOrRefuse, Post
<1>. QED
  BY <1>1, <1>2, <1>3, <1>4, <1>5, Zenon DEF Assist, Execute

\* The assistant's own estimates have no print.
LEMMA AssistQuotes ==
  ASSUME BooksInv, Assist, NEW e \in DOMAIN estimates' \ DOMAIN estimates
  PROVE  estimates'[e].print = None
<1>1. ASSUME NEW t, NEW data, data.quantity \in Quantity, Create(Quotation(t, data))
      PROVE  estimates'[e].print = None
  <2>. DEFINE r == Quotation(t, data)
  <2>1. DOMAIN r = Keys /\ Sellable(r.content.lines) /\ r.print = None
    BY <1>1, Shapes
  <2>. HIDE DEF r
  <2>2. UNCHANGED estimates \/ Added(r)
    BY <1>1, <2>1, EstimateCreated DEF BooksInv, r
  <2>. QED
    BY <2>1, <2>2 DEF Added
<1>2. ASSUME NEW x, NEW status, estimates' = [estimates EXCEPT ![x].status = status]
      PROVE  FALSE
  BY <1>2
<1>. QED
  BY <1>1, <1>2, AssistEstimates

\* A conversion has the prices that were confirmed, each from the version
\* active when it is made, and the source that was reviewed, whatever is
\* published, repriced or resent in between.
THEOREM ConvertedReviewed == DepotSpec => ConvertedAsReviewed
<1>. DEFINE Step == \A e \in DOMAIN estimates' \ DOMAIN estimates :
       LET new == estimates'[e] IN
       new.print # None =>
         /\ new.print.status = estimates[1].status
         /\ \A i \in DOMAIN Source :
              LET v == new.print.got[i] IN
              /\ v \in ActiveOf(ListOf(i, new.print.target))
              /\ new.content.lines[i].rate =
                   PriceIn(v, Source[i].product, Source[i].quantity)
<1>1. ASSUME DepotInv, [DepotNext]_depotVars PROVE [Step]_vars
  <2>1. CASE OthersStep
    <3>1. \A e \in DOMAIN estimates' \ DOMAIN estimates :
            estimates'[e].print = None \/ AsConverted(estimates'[e])
      BY <1>1, <2>1, EstimatesOfPages, PagesBooks DEF OthersStep, DepotInv, BooksInv, books
    <3>2. ASSUME NEW new, AsConverted(new)
          PROVE  /\ new.print.status = estimates[1].status
                 /\ \A i \in DOMAIN Source :
                      LET v == new.print.got[i] IN
                      /\ v \in ActiveOf(ListOf(i, new.print.target))
                      /\ new.content.lines[i].rate =
                           PriceIn(v, Source[i].product, Source[i].quantity)
      BY <3>2 DEF AsConverted, AsReviewed, StillHolds, Preview, Conversion
    <3>. QED
      BY <3>1, <3>2
  <2>2. CASE Assist
    <3>1. \A e \in DOMAIN estimates' \ DOMAIN estimates : estimates'[e].print = None
      BY <1>1, <2>2, AssistQuotes DEF DepotInv
    <3>. QED
      BY <3>1
  <2>. QED
    BY <1>1, <2>1, <2>2, StepKinds
<1>. QED
  BY <1>1, DepotBegin, DepotKept, PTL DEF DepotSpec, ConvertedAsReviewed

\* The draft t is committed by this step.
Commits(t) == tasks[t].stage # "committed" /\ tasks'[t].stage = "committed"
Charges(t) ==
  LET task == tasks[t] IN
  /\ task.data.price.version \notin task.gone
  /\ IF task.tool = "estimate"
     THEN estimates'[tasks'[t].result].content.lines[1].rate = task.data.price.rate
     ELSE sales'[Len(sales')].lines[1].rate = task.data.price.rate
  /\ task.tool = "deliver" => versions[task.data.price.version].status = "ACTIVE"

\* A step commits one draft at most.
LEMMA OneCommits ==
  ASSUME TasksInv, NEW t \in DOMAIN tasks, Commits(t), NEW u \in DOMAIN tasks
  PROVE  /\ \A stage : Move(u, stage) => stage = "committed"
         /\ ~Approve(u)
         /\ \A result : Commit1(u, result) => u = t
<1>1. \A stage, gone : Becomes(u, stage, gone) => u = t /\ stage = "committed"
  BY DEF Becomes, Commits
<1>. QED
  BY <1>1, TaskSet

\* An estimate has the price its draft showed.
LEMMA EstimateCharges ==
  ASSUME BooksInv, NEW t \in DOMAIN tasks, Commits(t), CommitEstimate(t)
  PROVE  Charges(t)
<1>. DEFINE task == tasks[t]
            r == Quotation(t, task.data)
<1>1. /\ task.data.quantity \in Quantity /\ task.data.price.version \notin task.gone
      /\ task.tool = "estimate" /\ task.stage = "checked"
  BY DEF CommitEstimate, Ready, BooksInv, TasksInv, TaskOK
<1>2. /\ DOMAIN r = Keys /\ Sellable(r.content.lines) /\ r.key = <<"assistant", t>>
      /\ r.content.lines[1].rate = task.data.price.rate
  BY <1>1, Shapes
<1>3. Create(r) /\ tasks'[t].result = Len(estimates')
  BY CommittedMove DEF CommitEstimate, BooksInv
<1>. HIDE DEF r
<1>4. Found(r) = {}
  <2>1. ASSUME NEW e \in DOMAIN estimates, estimates[e].key = r.key PROVE FALSE
    BY <1>1, <1>2, <2>1 DEF BooksInv, KeysInv, Over
  <2>. QED
    BY <2>1 DEF Found
<1>5. Added(r)
  <2>1. UNCHANGED estimates \/ Added(r)
    BY <1>2, <1>3, EstimateCreated DEF BooksInv
  <2>2. estimates' # estimates
    <3>1. estimates' = Append(estimates, [status |-> "DRAFT"] ++ r)
      BY <1>3, <1>4 DEF Create
    <3>. QED
      BY <3>1, Appending DEF BooksInv, EstimatesInv
  <2>. QED
    BY <2>1, <2>2
<1>6. estimates'[tasks'[t].result].content = r.content
  BY <1>3, <1>5 DEF Added
<1>. QED
  BY <1>1, <1>2, <1>6 DEF Charges

\* So has a sale.
LEMMA InvoiceCharges ==
  ASSUME BooksInv, NEW t \in DOMAIN tasks, Commits(t), CommitInvoice(t)
  PROVE  Charges(t)
<1>. DEFINE task == tasks[t]
            data == task.data
            lines == <<Line(data.product, data.quantity, data.price.rate)>>
<1>1. data.price.version \notin task.gone /\ task.tool = "invoice"
  BY DEF CommitInvoice, Ready, BooksInv, TasksInv, TaskOK
<1>2. lines[1].rate = data.price.rate
  BY DEF Line
<1>3. Post(0, lines, t)
  BY OneCommits DEF CommitInvoice, CommitOrRefuse, BooksInv
<1>. HIDE DEF lines
<1>4. sales'[Len(sales')] = Invoice(0, lines, t)
  BY <1>3, Posted DEF BooksInv
<1>. QED
  BY <1>1, <1>2, <1>4 DEF Charges, Invoice

\* And a delivery, whose price is quoted again when it is made.
LEMMA DeliveryCharges ==
  ASSUME BooksInv, NEW t \in DOMAIN tasks, Commits(t), CommitDelivery(t)
  PROVE  Charges(t)
<1>. DEFINE task == tasks[t]
            data == task.data
            id == data.transfer
            m == transfers[id].memo
            memo == memos[m]
            quantity == transfers[id].quantity
            lines == <<Line(ProductOf(m), quantity, data.price.rate)>>
<1>1. task.tool = "deliver"
  BY DEF CommitDelivery, Ready
<1>2. lines[1].rate = data.price.rate
  BY DEF Line
<1>3. /\ versions[data.price.version].status = "ACTIVE" /\ UNCHANGED estimates
      /\ sales' = Append([sales EXCEPT ![memo.sale].returned[memo.line] = @ + quantity],
                         Invoice(0, lines, t))
  BY OneCommits DEF CommitDelivery, CommitOrRefuse, BooksInv
<1>4. task.gone \subseteq Archive
  BY DEF BooksInv, TasksInv, TaskOK
<1>. HIDE DEF lines, id, memo, quantity
<1>5. sales'[Len(sales')] = Invoice(0, lines, t)
  BY <1>3, DeliveredSales DEF BooksInv, Returned
<1>6. data.price.version \notin task.gone
  BY <1>3, <1>4 DEF Archive
<1>. QED
  BY <1>1, <1>2, <1>3, <1>5, <1>6 DEF Charges, Invoice

\* So every step that charges a draft's price charges the one approved.
LEMMA AssistCharges ==
  ASSUME BooksInv, Assist, NEW t \in DOMAIN tasks, Commits(t),
         tasks[t].tool \in {"estimate", "invoice", "deliver"}
  PROVE  Charges(t)
<1>1. CASE Prepare
  <2>1. \E task : tasks' = Append(tasks, task)
    <3>1. \A tool, data : Offer(tool, data) => \E task : tasks' = Append(tasks, task)
      BY DEF Offer
    <3>2. PrepareEstimate \/ PrepareInvoice \/ PreparePrice \/ PrepareConversion
            => \E task : tasks' = Append(tasks, task)
      BY <3>1, Zenon DEF PrepareEstimate, PrepareInvoice, PreparePrice, PrepareConversion
    <3>3. PrepareReturn \/ PrepareMemo \/ PrepareTransfer
            => \E task : tasks' = Append(tasks, task)
      BY <3>1, Zenon DEF PrepareReturn, PrepareMemo, PrepareTransfer
    <3>4. PrepareDelivery \/ PrepareDispatch \/ PrepareRecord
            => \E task : tasks' = Append(tasks, task)
      BY <3>1, Zenon DEF PrepareDelivery, PrepareDispatch, PrepareRecord
    <3>. QED
      BY <1>1, <3>2, <3>3, <3>4 DEF Prepare
  <2>2. tasks'[t] = tasks[t]
    BY <2>1, Appending DEF BooksInv, TasksInv
  <2>. QED
    BY <2>2 DEF Commits
<1>2. CASE \E product \in Product : Receive(product)
  BY <1>2 DEF Receive, Commits
<1>3. ASSUME NEW u \in DOMAIN tasks, Approve(u) \/ Recheck(u) \/ Verify(u) PROVE FALSE
  <2>1. \E stage \in {"checked", "refused", "done", "doubtful"} : Approve(u) \/ Move(u, stage)
    BY <1>3 DEF Recheck, Verify
  <2>. QED
    BY <2>1, OneCommits DEF BooksInv
<1>4. ASSUME NEW u \in DOMAIN tasks,
             \/ CommitConversion(u) \/ CommitPrice(u) \/ CommitReturn(u) \/ CommitMemo(u)
             \/ CommitTransfer(u) \/ CommitDispatch(u) \/ CommitRecord(u)
      PROVE  FALSE
  <2>1. \E tool, result : /\ Ready(u, tool)
                          /\ tool \notin {"estimate", "invoice", "deliver"}
                          /\ Move(u, "refused") \/ Commit1(u, result)
    BY <1>4 DEF CommitConversion, CommitPrice, CommitReturn, CommitMemo, CommitTransfer,
       CommitDispatch, CommitRecord, CommitOrRefuse
  <2>2. u = t
    BY <2>1, OneCommits DEF BooksInv
  <2>. QED
    BY <2>1, <2>2 DEF Ready
<1>5. ASSUME NEW u \in DOMAIN tasks, CommitEstimate(u) \/ CommitInvoice(u) \/ CommitDelivery(u)
      PROVE  Charges(t)
  <2>1. \E result : Move(u, "refused") \/ Commit1(u, result)
    BY <1>5, Zenon DEF CommitEstimate, CommitInvoice, CommitDelivery, CommitOrRefuse
  <2>2. u = t
    BY <2>1, OneCommits DEF BooksInv
  <2>. QED
    BY <1>5, <2>2, EstimateCharges, InvoiceCharges, DeliveryCharges
<1>. QED
  BY <1>1, <1>2, <1>3, <1>4, <1>5, Zenon DEF Assist, Execute

\* What is charged is what the draft showed, of a version that was not archived
\* when it was approved; for a delivery, of one that is active when it is made.
THEOREM ChargedApproved == DepotSpec => ChargedAsApproved
<1>. DEFINE Step == \A t \in DOMAIN tasks :
       LET task == tasks[t] IN
       /\ task.tool \in {"estimate", "invoice", "deliver"}
       /\ task.stage # "committed" /\ tasks'[t].stage = "committed"
       => /\ task.data.price.version \notin task.gone
          /\ IF task.tool = "estimate"
             THEN estimates'[tasks'[t].result].content.lines[1].rate = task.data.price.rate
             ELSE sales'[Len(sales')].lines[1].rate = task.data.price.rate
          /\ task.tool = "deliver"
               => versions[task.data.price.version].status = "ACTIVE"
<1>1. ASSUME DepotInv, [DepotNext]_depotVars PROVE [Step]_depotVars
  <2>1. CASE OthersStep
    BY <2>1 DEF OthersStep
  <2>2. CASE Assist
    BY <1>1, <2>2, AssistCharges DEF DepotInv, Commits, Charges
  <2>. QED
    BY <1>1, <2>1, <2>2, StepKinds
<1>. QED
  BY <1>1, DepotBegin, DepotKept, PTL DEF DepotSpec, ChargedAsApproved

-----------------------------------------------------------------------------
(* Saving the form: what was asked and what was answered *)

\* What was asked to be saved, or was.
Requests ==
  {Told(r) : r \in Asked \cup
     {estimates[e] : e \in {x \in DOMAIN estimates : estimates[x].edition # None}}}
\* An attempt to save that the form waits for.
Attempt(c) == c.what \in {"customer", "create"} /\ c.waiting
EditionOf(c) == IF c.what = "customer" THEN c.edition ELSE c.request.edition

\* A request of the form as it is has its content and its key.
RequestFits(r) ==
  /\ r.edition \in Nat /\ r.edition <= form.edition
  /\ r.content.customer # 0
  /\ r.edition = form.edition
       => r.content = Content(form) /\ r.key = KeyOf(form) /\ r.print = None
RequestsInv ==
  /\ \A r \in Requests : RequestFits(r)
  /\ \A r, s \in Requests : r.edition = s.edition => r = s
  /\ \A e \in DOMAIN estimates : estimates[e].edition # None =>
       LET content == estimates[e].content IN
       content.list # None => Available(content.list, content.customer)
\* What an attempt was answered, whether the form waits for it or not.
Settled(c) ==
  /\ c.what = "customer" =>
       /\ "edition" \in DOMAIN c /\ c.edition \in Nat /\ c.edition <= form.edition
       /\ c.stage = "served" => c.answer # 0
  /\ c.what = "create" =>
       /\ c.stage = "served" => /\ c.answer \in DOMAIN estimates
                                /\ estimates[c.answer].content = c.request.content
       /\ c.stage = "refused" => ~Acceptable(c.request)
Waits(c) == Attempt(c) =>
  /\ form.busy
  /\ ~form.edited => EditionOf(c) = form.edition
  /\ c.what = "customer" =>
       /\ c.edition = form.edition => c.content = Content(form)
       /\ \A r \in Requests : r.edition < c.edition
       /\ form.saved = 0 \/ form.stray
OneAttempt == \A c, d \in calls : Attempt(c) /\ Attempt(d) => c = d
AttemptsInv == (\A c \in calls : Settled(c) /\ Waits(c)) /\ OneAttempt
ShownInv == form.saved # 0 /\ ~form.stray =>
  /\ form.saved \in DOMAIN estimates /\ form.customer # 0
  /\ estimates[form.saved].content = Content(form)
SavedInv == /\ form.edition \in Nat /\ people \in Nat
            /\ RequestsInv /\ AttemptsInv /\ ShownInv

\* Estimates stay what they were created of; a new one is of a request of the
\* form that the API accepts, or of none.
Grows ==
  /\ \A e \in DOMAIN estimates :
       e \in DOMAIN estimates' /\ Told(estimates'[e]) = Told(estimates[e])
  /\ \A e \in DOMAIN estimates' \ DOMAIN estimates : \E r :
       /\ Told(estimates'[e]) = Told(r) /\ MayCreate(r)
       /\ r.edition = None \/ (r \in Asked /\ Acceptable(r))

\* An estimate tells what its request told.
LEMMA ToldFields ==
  ASSUME NEW r
  PROVE  /\ Told(r).key = r.key /\ Told(r).content = r.content
         /\ Told(r).print = r.print /\ Told(r).edition = r.edition
BY DEF Told, Keys

\* Creating an estimate keeps those there are.
LEMMA CreateGrows ==
  ASSUME EstimatesInv, NEW r, DOMAIN r = Keys, Sellable(r.content.lines), Create(r),
         r.edition = None \/ (r \in Asked /\ Acceptable(r))
  PROVE  Grows
<1>1. CASE UNCHANGED estimates
  BY <1>1 DEF Grows
<1>2. CASE Added(r)
  <2>1. Told(estimates'[Len(estimates) + 1]) = Told(r)
    BY <1>2 DEF Added, Told, Keys
  <2>. QED
    BY <1>2, <2>1 DEF Added, Grows
<1>. QED
  BY <1>1, <1>2, EstimateCreated

\* So does every step: the assistant's estimates are of no edition of the form.
LEMMA AllGrow == ASSUME DepotInv, [DepotNext]_depotVars PROVE Grows
<1>1. EstimatesInv
  BY DEF DepotInv, BooksInv
<1>2. CASE UNCHANGED estimates
  BY <1>2 DEF Grows
<1>3. ASSUME NEW e, NEW status, estimates' = [estimates EXCEPT ![e].status = status]
      PROVE  Grows
  BY <1>1, <1>3, EstimateMarked DEF Marks, Grows
<1>4. CASE Assist
  <2>1. ASSUME NEW t, NEW data, data.quantity \in Quantity, Create(Quotation(t, data))
        PROVE  Grows
    <3>. DEFINE r == Quotation(t, data)
    <3>1. DOMAIN r = Keys /\ Sellable(r.content.lines) /\ r.edition = None
      BY <2>1, Shapes DEF Quotation
    <3>2. Create(r)
      BY <2>1
    <3>. HIDE DEF r
    <3>. QED
      BY <1>1, <3>1, <3>2, CreateGrows
  <2>. QED
    BY <1>2, <1>3, <1>4, <2>1, AssistEstimates DEF DepotInv
<1>5. CASE OthersStep
  <2>1. ASSUME NEW r \in Asked, RequestOK(r), Acceptable(r), Create(r) PROVE Grows
    BY <1>1, <2>1, Shapes, CreateGrows
  <2>2. ASSUME NEW c \in calls, Create(Conversion(c)) PROVE Grows
    <3>. DEFINE r == Conversion(c)
    <3>1. DOMAIN r = Keys /\ Sellable(r.content.lines) /\ r.edition = None
      BY Shapes DEF Conversion
    <3>2. Create(r)
      BY <2>2
    <3>. HIDE DEF r
    <3>. QED
      BY <1>1, <3>1, <3>2, CreateGrows
  <2>3. PagesEstimates
    BY <1>5, EstimatesOfPages DEF OthersStep, DepotInv
  <2>. QED
    BY <1>2, <1>3, <2>1, <2>2, <2>3 DEF PagesEstimates, Converts, Readies
<1>. QED
  BY <1>4, <1>5, StepKinds

\* What the API refuses stays refused: the number or the key that stands in its
\* way belongs to an estimate that stays, and none is created later that would
\* answer it.
LEMMA BlockedStays ==
  ASSUME Grows, NEW r, ~Acceptable(r)
  PROVE  ~Acceptable(r)'
<1>. DEFINE content == r.content
<1>1. CASE content.list # None /\ ~Available(content.list, content.customer)
  BY <1>1 DEF Acceptable, Available
<1>2. CASE Found(r) = {} /\ ~MayCreate(r)
  <2>1. PICK x \in DOMAIN estimates :
          estimates[x].key = r.key \/ estimates[x].content.number = r.content.number
    BY <1>2 DEF MayCreate
  <2>2. \A e \in DOMAIN estimates : /\ e \in DOMAIN estimates'
                                    /\ estimates'[e].key = estimates[e].key
                                    /\ estimates'[e].content = estimates[e].content
                                    /\ estimates'[e].print = estimates[e].print
    BY ToldFields DEF Grows
  <2>3. ~MayCreate(r)'
    BY <2>1, <2>2 DEF MayCreate
  <2>4. ASSUME NEW e \in DOMAIN estimates' \ DOMAIN estimates,
               estimates'[e].key = r.key, estimates'[e].content = r.content
        PROVE  FALSE
    <3>1. PICK q : Told(estimates'[e]) = Told(q) /\ MayCreate(q)
      BY DEF Grows
    <3>2. q.key = r.key /\ q.content = r.content
      BY <2>4, <3>1, ToldFields
    <3>. QED
      BY <1>2, <3>1, <3>2 DEF MayCreate
  <2>5. Found(r)' = {}
    BY <1>2, <2>2, <2>4 DEF Found
  <2>. QED
    BY <2>3, <2>5 DEF Acceptable
<1>. QED
  BY <1>1, <1>2 DEF Acceptable

\* A step that asks for nothing but N keeps the requests in order.
LEMMA RequestsCarried ==
  ASSUME SavedInv, Grows, NEW N,
         \A r \in Asked' : Told(r) \in Requests \cup N,
         \A r \in Requests \cup N : RequestFits(r)',
         \A r, s \in N : r = s,
         \A r \in N : \A s \in Requests : r.edition = s.edition => r = s
  PROVE  RequestsInv' /\ Requests' \subseteq Requests \cup N
<1>1. ASSUME NEW e \in DOMAIN estimates', estimates'[e].edition # None
      PROVE  /\ Told(estimates'[e]) \in Requests \cup N
             /\ LET content == estimates'[e].content IN
                content.list # None => Available(content.list, content.customer)
  <2>1. CASE e \in DOMAIN estimates
    <3>1. Told(estimates'[e]) = Told(estimates[e])
      BY <2>1 DEF Grows
    <3>2. estimates[e].edition # None /\ estimates'[e].content = estimates[e].content
      BY <1>1, <3>1, ToldFields
    <3>. QED
      BY <2>1, <3>1, <3>2 DEF Requests, SavedInv, RequestsInv
  <2>2. CASE e \notin DOMAIN estimates
    <3>1. PICK r : /\ Told(estimates'[e]) = Told(r)
                   /\ r.edition = None \/ (r \in Asked /\ Acceptable(r))
      BY <2>2 DEF Grows
    <3>2. r.edition # None /\ estimates'[e].content = r.content
      BY <1>1, <3>1, ToldFields
    <3>3. Told(r) \in Requests
      BY <3>1, <3>2 DEF Requests
    <3>. QED
      BY <3>1, <3>2, <3>3 DEF Acceptable
  <2>. QED
    BY <2>1, <2>2
<1>2. Requests' \subseteq Requests \cup N
  BY <1>1 DEF Requests
<1>3. \A r, s \in Requests \cup N : r.edition = s.edition => r = s
  BY DEF SavedInv, RequestsInv
<1>4. \A r \in Requests' : RequestFits(r)'
  BY <1>2
<1>5. \A e \in DOMAIN estimates' : estimates'[e].edition # None =>
        LET content == estimates'[e].content IN
        content.list # None => Available(content.list, content.customer)
  BY <1>1
<1>6. \A list, customer : Available(list, customer)' <=> Available(list, customer)
  BY DEF Available
<1>. QED
  BY <1>2, <1>3, <1>4, <1>5, <1>6 DEF RequestsInv

\* What an edit does to the form, and what leaves it as it is.
Invalidated == /\ form'.edition = form.edition + 1 /\ form'.saved = 0
               /\ form'.busy = form.busy /\ form'.edited = form.busy
Looked == /\ form'.edition = form.edition /\ Content(form)' = Content(form)
          /\ KeyOf(form)' = KeyOf(form)
          /\ form'.saved = form.saved /\ form'.stray = form.stray
          /\ form'.busy = form.busy /\ form'.edited = form.edited
\* The attempt c goes on as d.
Turned(c, d) ==
  \/ d = c
  \/ /\ d.what = c.what /\ (d.waiting => c.waiting)
     /\ c.what = "customer" =>
          /\ "edition" \in DOMAIN d /\ d.edition = c.edition /\ d.content = c.content
          /\ d.stage = "served" => d.answer # 0
     /\ c.what = "create" =>
          /\ d.request = c.request
          /\ d.stage = "served" => /\ d.answer \in DOMAIN estimates'
                                   /\ estimates'[d.answer].content = c.request.content
          /\ d.stage = "refused" => ~Acceptable(c.request)
Moved == /\ OneAttempt'
         /\ \A d \in calls' : d.what \in {"customer", "create"} =>
              \E c \in calls : Turned(c, d)

\* A request that fits the form fits it after it was edited or looked at.
LEMMA FitsOn ==
  ASSUME NEW r, RequestFits(r), form.edition \in Nat, Invalidated \/ Looked
  PROVE  RequestFits(r)' /\ form'.edition \in Nat /\ form'.edition >= form.edition
BY DEF RequestFits, Invalidated, Looked

\* An estimate keeps its content.
LEMMA ContentGrows ==
  ASSUME Grows, NEW e \in DOMAIN estimates
  PROVE  e \in DOMAIN estimates' /\ estimates'[e].content = estimates[e].content
BY ToldFields DEF Grows

\* An attempt that goes on was answered what its estimate is.
LEMMA SettledOn ==
  ASSUME SavedInv, Grows, form'.edition \in Nat, form'.edition >= form.edition,
         NEW c \in calls, NEW d, Turned(c, d)
  PROVE  Settled(d)'
<1>1. Settled(c) /\ form.edition \in Nat
  BY DEF SavedInv, AttemptsInv
<1>2. d.what = c.what
  BY DEF Turned
<1>3. CASE c.what = "customer"
  <2>1. "edition" \in DOMAIN d /\ d.edition = c.edition /\ (d.stage = "served" => d.answer # 0)
    BY <1>1, <1>3 DEF Turned, Settled
  <2>2. c.edition \in Nat /\ c.edition <= form.edition
    BY <1>1, <1>3 DEF Settled
  <2>. QED
    BY <1>1, <1>2, <1>3, <2>1, <2>2 DEF Settled
<1>4. CASE c.what = "create"
  <2>1. d.request = c.request
    BY <1>4 DEF Turned
  <2>2. d.stage = "served" => /\ d.answer \in DOMAIN estimates'
                              /\ estimates'[d.answer].content = c.request.content
    BY <1>1, <1>4, ContentGrows DEF Turned, Settled
  <2>3. d.stage = "refused" => ~Acceptable(c.request)
    BY <1>1, <1>4 DEF Turned, Settled
  <2>4. d.stage = "refused" => ~Acceptable(d.request)'
    <3>. DEFINE r == c.request
    <3>1. ~Acceptable(r) => ~Acceptable(r)'
      BY BlockedStays
    <3>. QED
      BY <2>1, <2>3, <3>1
  <2>. QED
    BY <1>2, <1>4, <2>1, <2>2, <2>4 DEF Settled
<1>. QED
  BY <1>2, <1>3, <1>4 DEF Settled

\* Edits, looks and answers of the API keep what was asked and what is shown.
LEMMA SavedKept ==
  ASSUME SavedInv, Grows, Invalidated \/ Looked, Moved, queue' \subseteq queue,
         people' \in Nat
  PROVE  SavedInv'
<1>1. form.edition \in Nat /\ form'.edition \in Nat /\ form'.edition >= form.edition
  BY DEF SavedInv, Invalidated, Looked
<1>2. \A r \in Requests : RequestFits(r)'
  BY <1>1, FitsOn DEF SavedInv, RequestsInv
<1>3. Asked' \subseteq Asked
  <2>1. \A d \in calls' : d.what = "create" =>
          \E c \in calls : c.what = "create" /\ d.request = c.request
    BY DEF Moved, Turned
  <2>. QED
    BY <2>1 DEF Asked
<1>4. RequestsInv' /\ Requests' \subseteq Requests
  <2>1. \A r \in Asked' : Told(r) \in Requests \cup {}
    BY <1>3 DEF Requests
  <2>2. RequestsInv' /\ Requests' \subseteq Requests \cup {}
    BY <1>2, <2>1, RequestsCarried
  <2>. QED
    BY <2>2
<1>5. ASSUME NEW d \in calls' PROVE Settled(d)' /\ Waits(d)'
  <2>1. CASE d.what \notin {"customer", "create"}
    BY <2>1 DEF Settled, Waits, Attempt
  <2>2. CASE d.what \in {"customer", "create"}
    <3>1. PICK c \in calls : Turned(c, d)
      BY <2>2 DEF Moved
    <3>2. Settled(d)'
      BY <1>1, <3>1, SettledOn
    <3>3. ASSUME d.waiting
          PROVE  /\ form'.busy
                 /\ ~form'.edited => EditionOf(d) = form'.edition
                 /\ d.what = "customer" =>
                      /\ d.edition = form'.edition => d.content = Content(form)'
                      /\ \A r \in Requests' : r.edition < d.edition
                      /\ form'.saved = 0 \/ form'.stray
      <4>1. Attempt(c) /\ d.what = c.what /\ EditionOf(d) = EditionOf(c)
        BY <2>2, <3>1, <3>3 DEF Turned, Attempt, EditionOf
      <4>2. /\ form.busy
            /\ ~form.edited => EditionOf(c) = form.edition
            /\ c.what = "customer" =>
                 /\ c.edition = form.edition => c.content = Content(form)
                 /\ \A r \in Requests : r.edition < c.edition
                 /\ form.saved = 0 \/ form.stray
        BY <4>1 DEF SavedInv, AttemptsInv, Waits
      <4>3. c.what = "customer" => /\ d.edition = c.edition /\ d.content = c.content
                                   /\ c.edition \in Nat /\ c.edition <= form.edition
        BY <3>1 DEF Turned, SavedInv, AttemptsInv, Settled
      <4>4. CASE Invalidated
        BY <1>1, <1>4, <4>1, <4>2, <4>3, <4>4 DEF Invalidated
      <4>5. CASE Looked
        BY <1>1, <1>4, <4>1, <4>2, <4>3, <4>5 DEF Looked
      <4>. QED
        BY <4>4, <4>5
    <3>4. Attempt(d)' <=> Attempt(d)
      BY DEF Attempt
    <3>5. EditionOf(d)' = EditionOf(d)
      BY DEF EditionOf
    <3>. QED
      BY <3>2, <3>3, <3>4, <3>5 DEF Waits, Attempt
  <2>. QED
    BY <2>1, <2>2
<1>6. ShownInv'
  <2>1. CASE Invalidated
    BY <2>1 DEF Invalidated, ShownInv
  <2>2. CASE Looked
    <3>1. form'.customer = form.customer
      BY <2>2 DEF Looked, Content
    <3>. QED
      BY <2>2, <3>1, ContentGrows DEF Looked, ShownInv, SavedInv
  <2>. QED
    BY <2>1, <2>2
<1>. QED
  BY <1>1, <1>4, <1>5, <1>6 DEF SavedInv, AttemptsInv, Moved

-----------------------------------------------------------------------------
(* The attempts in the steps of the API *)

Idle == \A d \in calls' : d.what \in {"customer", "create"} => d \in calls

\* Without an attempt among them, calls may come and go.
LEMMA IdleMoved == ASSUME SavedInv, Idle PROVE Moved
BY DEF SavedInv, AttemptsInv, OneAttempt, Attempt, Idle, Moved, Turned

\* A question is no attempt.
LEMMA CallIdle ==
  ASSUME NEW r, BodyOK(r), r.what \notin {"customer", "create"}, Call(r)
  PROVE  Idle
<1>1. Sent(left.steps, r).what = r.what
  BY DEF BodyOK, Sent, ++
<1>. QED
  BY <1>1 DEF Call, Idle

\* An attempt that goes on stays the only one.
LEMMA OneTurn ==
  ASSUME SavedInv, NEW c \in calls, NEW d, Turned(c, d),
         calls' \subseteq (calls \ {c}) \cup {d}
  PROVE  Moved
<1>1. Attempt(d) => Attempt(c)
  BY DEF Turned, Attempt
<1>2. OneAttempt'
  BY <1>1 DEF SavedInv, AttemptsInv, OneAttempt, Attempt
<1>. QED
  BY <1>2 DEF Moved, Turned

\* So it does when its page stops waiting for it while it goes on.
LEMMA TwoTurns ==
  ASSUME SavedInv, NEW c \in calls, NEW d, Turned(c, d), NEW e, Turned(c, e), ~e.waiting,
         calls' \subseteq (calls \ {c}) \cup {d, e}
  PROVE  Moved
<1>1. (Attempt(d) => Attempt(c)) /\ ~Attempt(e)
  BY DEF Turned, Attempt
<1>2. OneAttempt'
  BY <1>1 DEF SavedInv, AttemptsInv, OneAttempt, Attempt
<1>. QED
  BY <1>2 DEF Moved, Turned

\* How a call goes on: refused, answered, given up, or with its lines read.
LEMMA TurnsOf ==
  ASSUME NEW c \in calls, CallOK(c), Settled(c)
  PROVE  /\ \A stage :
              /\ stage # "served"
              /\ c.what = "create" /\ stage = "refused" => ~Acceptable(c.request)
              => Turned(c, [c EXCEPT !.stage = stage])
         /\ \A a :
              /\ c.what = "customer" => a # 0
              /\ c.what = "create" => /\ a \in DOMAIN estimates'
                                      /\ estimates'[a].content = c.request.content
              => Turned(c, [c EXCEPT !.stage = "served", !.answer = a])
         /\ UNCHANGED estimates => Turned(c, [c EXCEPT !.waiting = FALSE])
         /\ c.what \notin {"customer", "create"} =>
              /\ \A status : Turned(c, [c EXCEPT !.stage = "loaded", !.status = status])
              /\ \A got : Turned(c, [c EXCEPT !.got = got])
<1>1. /\ {"what", "stage", "answer", "waiting"} \subseteq DOMAIN c
      /\ c.what = "customer" => {"content", "edition"} \subseteq DOMAIN c
      /\ c.what = "create" => "request" \in DOMAIN c
  BY DEF CallOK, Core, Settled
<1>2. ASSUME NEW stage, stage # "served",
             c.what = "create" /\ stage = "refused" => ~Acceptable(c.request)
      PROVE  Turned(c, [c EXCEPT !.stage = stage])
  BY <1>1, <1>2 DEF Turned
<1>3. ASSUME NEW a, c.what = "customer" => a # 0,
             c.what = "create" => /\ a \in DOMAIN estimates'
                                  /\ estimates'[a].content = c.request.content
      PROVE  Turned(c, [c EXCEPT !.stage = "served", !.answer = a])
  BY <1>1, <1>3 DEF Turned
<1>4. ASSUME UNCHANGED estimates PROVE Turned(c, [c EXCEPT !.waiting = FALSE])
  BY <1>1, <1>4 DEF Turned, Settled
<1>5. ASSUME c.what \notin {"customer", "create"}
      PROVE  /\ \A status : Turned(c, [c EXCEPT !.stage = "loaded", !.status = status])
             /\ \A got : Turned(c, [c EXCEPT !.got = got])
  BY <1>1, <1>5 DEF Turned
<1>. QED
  BY <1>2, <1>3, <1>4, <1>5

\* A reply and a refusal.
LEMMA Answers ==
  ASSUME SavedInv, NEW c \in calls, CallOK(c)
  PROVE  /\ Refuse(c) /\ (c.what = "create" => ~Acceptable(c.request)) => Moved
         /\ \A a : /\ Reply(c, a)
                   /\ c.what = "customer" => a # 0
                   /\ c.what = "create" => /\ a \in DOMAIN estimates'
                                           /\ estimates'[a].content = c.request.content
                   => Moved
<1>1. Settled(c)
  BY DEF SavedInv, AttemptsInv
<1>2. ASSUME calls' = calls \ {c} PROVE Moved
  BY <1>2, IdleMoved DEF Idle
<1>3. ASSUME Refuse(c), c.what = "create" => ~Acceptable(c.request) PROVE Moved
  <2>1. Turned(c, [c EXCEPT !.stage = "refused"])
    BY <1>1, <1>3, TurnsOf
  <2>. QED
    BY <1>2, <1>3, <2>1, OneTurn DEF Refuse, Become
<1>4. ASSUME NEW a, Reply(c, a), c.what = "customer" => a # 0,
             c.what = "create" => /\ a \in DOMAIN estimates'
                                  /\ estimates'[a].content = c.request.content
      PROVE  Moved
  <2>1. Turned(c, [c EXCEPT !.stage = "served", !.answer = a])
    BY <1>1, <1>4, TurnsOf
  <2>. QED
    BY <1>2, <1>4, <2>1, OneTurn DEF Reply, Become
<1>. QED
  BY <1>3, <1>4

\* What is answered to a request is an estimate of its content.
LEMMA CreatedIs ==
  ASSUME EstimatesInv, NEW r, DOMAIN r = Keys, Sellable(r.content.lines), Create(r)
  PROVE  /\ Created(r) \in DOMAIN estimates'
         /\ estimates'[Created(r)].content = r.content
<1>1. CASE Found(r) = {}
  <2>1. estimates' # estimates
    <3>1. estimates' = Append(estimates, [status |-> "DRAFT"] ++ r)
      BY <1>1 DEF Create
    <3>. QED
      BY <3>1, Appending DEF EstimatesInv
  <2>2. Added(r)
    BY <2>1, EstimateCreated
  <2>. QED
    BY <1>1, <2>2 DEF Added, Created
<1>2. CASE Found(r) # {}
  <2>1. Found(r) \subseteq DOMAIN estimates /\ \A e \in Found(r) : estimates[e].content = r.content
    BY DEF Found
  <2>2. DOMAIN estimates = 1 .. Len(estimates) /\ Len(estimates) \in Nat
    BY Appending DEF EstimatesInv
  <2>3. Found(r) \subseteq Nat /\ \A e \in Found(r) : e <= Len(estimates)
    BY <2>1, <2>2
  <2>4. Max(Found(r)) \in Found(r)
    BY <1>2, <2>2, <2>3, MaxOfBounded
  <2>. QED
    BY <1>2, <2>1, <2>4 DEF Create, Created
<1>. QED
  BY <1>1, <1>2

\* The API answers an attempt with its estimate, and refuses it only when it is
\* not acceptable.
LEMMA ServeMoved ==
  ASSUME DepotInv, SavedInv, NEW c \in calls, Serve(c)
  PROVE  Moved /\ people' \in Nat
<1>1. CallOK(c) /\ EstimatesInv /\ Settled(c) /\ people \in Nat
  BY DEF DepotInv, PagesInv, BooksInv, SavedInv, AttemptsInv
<1>2. CASE ServeRegister(c) /\ UNCHANGED <<estimates, people>>
  BY <1>1, <1>2, Answers DEF ServeRegister, ServeDetail, ServeDraft, ServePublish
<1>3. CASE ServeRate(c)
  BY <1>1, <1>3, Answers DEF ServeRate
<1>4. CASE ServeCustomer(c)
  <2>1. people' \in Nat /\ people' # 0
    BY <1>1, <1>4 DEF ServeCustomer
  <2>. QED
    BY <1>1, <1>4, <2>1, Answers DEF ServeCustomer
<1>5. CASE ServeCreate(c)
  <2>. DEFINE r == c.request
  <2>1. DOMAIN r = Keys /\ Sellable(r.content.lines)
    BY <1>1, <1>5, Shapes DEF ServeCreate, CallOK
  <2>2. CASE Refuse(c) /\ ~Acceptable(r)
    BY <1>1, <1>5, <2>2, Answers DEF ServeCreate
  <2>3. CASE Create(r) /\ Reply(c, Created(r))
    <3>1. /\ Created(r) \in DOMAIN estimates'
          /\ estimates'[Created(r)].content = r.content
      BY <1>1, <2>1, <2>3, CreatedIs
    <3>. QED
      BY <1>1, <1>5, <2>3, <3>1, Answers DEF ServeCreate
  <2>. QED
    BY <1>5, <2>2, <2>3 DEF ServeCreate
<1>6. CASE ServeConversion(c)
  <2>1. c.what \notin {"customer", "create"} /\ people' \in Nat
    BY <1>1, <1>6 DEF ServeConversion, LoadSource, AnswerReview, Commit, ResolveLine
  <2>2. \A d : Become(c, d) /\ Turned(c, d) => Moved
    BY OneTurn DEF Become
  <2>3. CASE LoadSource(c)
    <3>1. Turned(c, [c EXCEPT !.stage = "loaded", !.status = estimates[1].status])
      BY <1>1, <2>1, TurnsOf
    <3>. QED
      BY <1>1, <2>1, <2>2, <2>3, <3>1, Answers DEF LoadSource
  <2>4. CASE AnswerReview(c)
    BY <1>1, <2>1, <2>4, Answers DEF AnswerReview
  <2>5. CASE Commit(c)
    BY <1>1, <2>1, <2>5, Answers DEF Commit
  <2>6. ASSUME NEW i, ResolveLine(c, i) PROVE Moved
    <3>1. \A got : Turned(c, [c EXCEPT !.got = got])
      BY <1>1, <2>1, TurnsOf
    <3>. QED
      BY <2>2, <2>6, <3>1 DEF ResolveLine
  <2>. QED
    BY <1>6, <2>1, <2>3, <2>4, <2>5, <2>6 DEF ServeConversion
<1>. QED
  BY <1>2, <1>3, <1>4, <1>5, <1>6 DEF Serve

\* An attempt that is lost is given up, and may still arrive.
LEMMA LoseMoved == ASSUME DepotInv, SavedInv, NEW c \in calls, Lose(c) PROVE Moved
<1>1. CallOK(c) /\ Settled(c)
  BY DEF DepotInv, PagesInv, SavedInv, AttemptsInv
<1>. DEFINE lost == [c EXCEPT !.stage = "lost"]
            late == [c EXCEPT !.waiting = FALSE]
<1>2. Turned(c, lost)
  BY <1>1, TurnsOf
<1>3. Turned(c, late)
  BY <1>1, TurnsOf DEF Lose
<1>4. ~late.waiting
  BY <1>1 DEF CallOK, Core
<1>5. calls' \subseteq (calls \ {c}) \cup {lost, late}
  BY DEF Lose, Become
<1>. HIDE DEF lost, late
<1>. QED
  BY <1>2, <1>3, <1>4, <1>5, TwoTurns

-----------------------------------------------------------------------------
(* The form in edits and dialogs *)

\* invalidateSave begins a new edition, which was not saved.
LEMMA InvalidateEdits ==
  ASSUME FormOK(form), NEW f, DOMAIN f = DOMAIN form, f.edition = form.edition,
         f.busy = form.busy, Invalidate(f)
  PROVE  Invalidated
<1>1. {"key", "saved", "stray", "edition", "edited", "busy"} \subseteq DOMAIN f
  BY DEF FormOK, StateFields
<1>. QED
  BY <1>1 DEF Invalidate, Invalidated

\* Every edit does, whatever it asks for.
LEMMA EditMoves ==
  ASSUME FormOK(form), NEW f, DOMAIN f = DOMAIN form, f.edition = form.edition,
         f.busy = form.busy, EditAndAsk(f) \/ Edit(f)
  PROVE  Invalidated /\ Idle
<1>1. Invalidated
  BY InvalidateEdits DEF EditAndAsk, Edit
<1>2. \A list : Ask("rate", f, list).what = "rate" /\ BodyOK(Ask("rate", f, list))
  BY BodiesOK DEF Ask
<1>3. Idle
  BY <1>2, CallIdle DEF EditAndAsk, Edit, Idle
<1>. QED
  BY <1>1, <1>3

\* So does what the user enters.
LEMMA EditFormMoves == ASSUME FormOK(form), EditForm PROVE Invalidated /\ Idle
<1>1. {"line", "customer", "number", "edition", "busy"} \subseteq DOMAIN form
  BY DEF FormOK, DraftFields, StateFields
<1>2. ASSUME NEW line, EditAndAsk([form EXCEPT !.line = line]) \/ Edit([form EXCEPT !.line = line])
      PROVE  Invalidated /\ Idle
  <2>. DEFINE f == [form EXCEPT !.line = line]
  <2>1. DOMAIN f = DOMAIN form /\ f.edition = form.edition /\ f.busy = form.busy
    BY <1>1
  <2>2. EditAndAsk(f) \/ Edit(f)
    BY <1>2
  <2>. HIDE DEF f
  <2>. QED
    BY <2>1, <2>2, EditMoves
<1>3. ASSUME NEW customer, Edit([form EXCEPT !.customer = customer])
      PROVE  Invalidated /\ Idle
  <2>. DEFINE f == [form EXCEPT !.customer = customer]
  <2>1. DOMAIN f = DOMAIN form /\ f.edition = form.edition /\ f.busy = form.busy
    BY <1>1
  <2>2. Edit(f)
    BY <1>3
  <2>. HIDE DEF f
  <2>. QED
    BY <2>1, <2>2, EditMoves
<1>4. ASSUME NEW number, Edit([form EXCEPT !.number = number])
      PROVE  Invalidated /\ Idle
  <2>. DEFINE f == [form EXCEPT !.number = number]
  <2>1. DOMAIN f = DOMAIN form /\ f.edition = form.edition /\ f.busy = form.busy
    BY <1>1
  <2>2. Edit(f)
    BY <1>4
  <2>. HIDE DEF f
  <2>. QED
    BY <2>1, <2>2, EditMoves
<1>5. ASSUME NEW product, ChooseProduct(product) PROVE Invalidated /\ Idle
  BY <1>2, <1>5 DEF ChooseProduct
<1>6. ASSUME NEW quantity, EditQuantity(quantity) PROVE Invalidated /\ Idle
  <2>1. [form EXCEPT !.line.quantity = quantity, !.line.odd = TRUE] =
          [form EXCEPT !.line = [@ EXCEPT !.quantity = quantity, !.odd = TRUE]]
    BY <1>1
  <2>. QED
    BY <1>2, <1>6, <2>1 DEF EditQuantity
<1>7. ASSUME NEW rate, EditRate(rate) PROVE Invalidated /\ Idle
  BY <1>2, <1>7 DEF EditRate
<1>8. ASSUME RemoveLine PROVE Invalidated /\ Idle
  BY <1>2, <1>8 DEF RemoveLine
<1>. QED
  BY <1>3, <1>4, <1>5, <1>6, <1>7, <1>8, Zenon DEF EditForm, EditCustomer, EditNumber

\* A dialog shows what it shows.
LEMMA ShowLooks ==
  ASSUME FormOK(form)
  PROVE  /\ UNCHANGED form => Looked
         /\ \A dialog : form' = [form EXCEPT !.dialog = dialog] => Looked
         /\ \A review : form' = [form EXCEPT !.dialog = "review", !.review = review] => Looked
BY DEF FormOK, DraftFields, StateFields, Looked, Content, KeyOf

\* A dialog that applies its rates edits the form; the others look at it.
LEMMA DialogsMove ==
  ASSUME FormOK(form), UseDialogs
  PROVE  (Invalidated \/ Looked) /\ Idle
<1>1. {"line", "list", "review", "dialog", "edition", "busy"} \subseteq DOMAIN form
  BY DEF FormOK, DraftFields, StateFields
<1>2. CASE OpenRateLists \/ CloseDialog \/ BackToRateLists
  BY <1>2, ShowLooks DEF OpenRateLists, CloseDialog, BackToRateLists, Show, Idle
<1>3. ASSUME NEW list, PreviewRates(list) PROVE (Invalidated \/ Looked) /\ Idle
  <2>1. CASE Invalidate([form EXCEPT !.list = list, !.dialog = "none"]) /\ UNCHANGED calls
    <3>. DEFINE f == [form EXCEPT !.list = list, !.dialog = "none"]
    <3>1. DOMAIN f = DOMAIN form /\ f.edition = form.edition /\ f.busy = form.busy
      BY <1>1
    <3>2. Invalidate(f)
      BY <2>1
    <3>. HIDE DEF f
    <3>. QED
      BY <2>1, <3>1, <3>2, InvalidateEdits DEF Idle
  <2>2. CASE Call(Ask("preview", form, list)) /\ UNCHANGED form
    <3>1. Ask("preview", form, list).what = "preview" /\ BodyOK(Ask("preview", form, list))
      BY BodiesOK DEF Ask
    <3>. QED
      BY <2>2, <3>1, CallIdle, ShowLooks
  <2>. QED
    BY <1>3, <2>1, <2>2 DEF PreviewRates
<1>4. CASE ApplyReviewed
  <2>. DEFINE review == form.review
              f == [form EXCEPT
                      !.line = [@ EXCEPT !.rate = review.rate, !.list = review.list,
                                         !.odd = form.line.quantity # review.quantity],
                      !.list = review.list, !.review = None, !.dialog = "none"]
  <2>1. DOMAIN f = DOMAIN form /\ f.edition = form.edition /\ f.busy = form.busy
    BY <1>1
  <2>2. Invalidate(f) /\ UNCHANGED calls
    BY <1>4 DEF ApplyReviewed
  <2>. HIDE DEF f
  <2>. QED
    BY <2>1, <2>2, InvalidateEdits DEF Idle
<1>. QED
  BY <1>2, <1>3, <1>4, Zenon DEF UseDialogs

\* An answer that reprices the line is an edit too.
LEMMA RatesMove ==
  ASSUME FormOK(form), NEW c \in calls, GetRate(c) \/ GetPreview(c)
  PROVE  (Invalidated \/ Looked) /\ Idle
<1>1. Idle
  BY DEF GetRate, GetPreview, Idle
<1>2. {"line", "edition", "busy"} \subseteq DOMAIN form
  BY DEF FormOK, DraftFields, StateFields
<1>3. CASE UNCHANGED form
  BY <1>1, <1>3, ShowLooks
<1>4. CASE GetPreview(c)
  BY <1>1, <1>4, ShowLooks DEF GetPreview
<1>5. CASE Invalidate(form)
  BY <1>1, <1>5, InvalidateEdits
<1>6. CASE Invalidate([form EXCEPT !.line =
              [@ EXCEPT !.rate = c.answer, !.list = c.list, !.odd = FALSE]])
  <2>. DEFINE f == [form EXCEPT !.line =
                      [@ EXCEPT !.rate = c.answer, !.list = c.list, !.odd = FALSE]]
  <2>1. DOMAIN f = DOMAIN form /\ f.edition = form.edition /\ f.busy = form.busy
    BY <1>2
  <2>2. Invalidate(f)
    BY <1>6
  <2>. HIDE DEF f
  <2>. QED
    BY <1>1, <2>1, <2>2, InvalidateEdits
<1>. QED
  BY <1>1, <1>3, <1>4, <1>5, <1>6 DEF GetRate

-----------------------------------------------------------------------------
(* What a save asks for *)

\* The form is of the same edition, or of the next.
Same == /\ form'.edition = form.edition /\ Content(form)' = Content(form)
        /\ KeyOf(form)' = KeyOf(form)

\* Nothing is asked that was not asked before.
LEMMA RequestsSame ==
  ASSUME SavedInv, Grows, Same \/ form'.edition = form.edition + 1,
         Asked' \subseteq Asked
  PROVE  RequestsInv' /\ Requests' \subseteq Requests
<1>1. form.edition \in Nat /\ \A r \in Requests : RequestFits(r)
  BY DEF SavedInv, RequestsInv
<1>2. \A r \in Requests : RequestFits(r)'
  BY <1>1 DEF RequestFits, Same
<1>3. \A r \in Asked' : Told(r) \in Requests \cup {}
  BY DEF Requests
<1>4. RequestsInv' /\ Requests' \subseteq Requests \cup {}
  BY <1>2, <1>3, RequestsCarried
<1>. QED
  BY <1>4

\* No call that is left is an attempt.
LEMMA NoAttempts ==
  ASSUME SavedInv, Grows, form'.edition \in Nat, form'.edition >= form.edition,
         \A d \in calls' : ~Attempt(d) /\ \E c \in calls : Turned(c, d)
  PROVE  AttemptsInv'
<1>1. \A d \in calls' : Settled(d)'
  BY SettledOn
<1>2. \A d \in calls' : ~Attempt(d)'
  BY DEF Attempt
<1>. QED
  BY <1>1, <1>2 DEF AttemptsInv, Waits, OneAttempt

\* Only the new one is.
LEMMA OneNew ==
  ASSUME SavedInv, Grows, form'.edition \in Nat, form'.edition >= form.edition,
         NEW new, Settled(new)', Waits(new)',
         \A d \in calls' : d = new \/ (~Attempt(d) /\ d \in calls)
  PROVE  AttemptsInv'
<1>1. \A d \in calls' : d # new => Settled(d)'
  BY SettledOn DEF Turned
<1>2. \A d \in calls' : d # new => ~Attempt(d)'
  BY DEF Attempt
<1>. QED
  BY <1>1, <1>2 DEF AttemptsInv, Waits, OneAttempt

\* A request that is sent or queued.
LEMMA RequestsMore ==
  ASSUME SavedInv, Grows, NEW r, Asked' \subseteq Asked \cup {r},
         \A s \in Requests : RequestFits(s)', RequestFits(Told(r))',
         \A s \in Requests : Told(r).edition = s.edition => Told(r) = s
  PROVE  RequestsInv' /\ Requests' \subseteq Requests \cup {Told(r)}
<1>. DEFINE N == {Told(r)}
<1>1. \A s \in Asked' : Told(s) \in Requests \cup N
  BY DEF Requests
<1>2. /\ \A s \in Requests \cup N : RequestFits(s)'
      /\ \A s, t \in N : s = t
      /\ \A s \in N : \A t \in Requests : s.edition = t.edition => s = t
  OBVIOUS
<1>. HIDE DEF N
<1>3. RequestsInv' /\ Requests' \subseteq Requests \cup N
  BY <1>1, <1>2, RequestsCarried
<1>. QED
  BY <1>3 DEF N

\* What is sent, and what the form keeps of it.
LEMMA CreationIs ==
  ASSUME NEW id, NEW f, NEW content, NEW n
  PROVE  LET d == Sent(id, Creation(f, content, n)) IN
         /\ d.what = "create" /\ d.stage = "sent" /\ d.waiting
         /\ d.request = Request(f, content, n)
BY DEF Sent, ++, Creation

\* What is in a request.
LEMMA RequestIs ==
  ASSUME NEW f, NEW content, NEW n
  PROVE  LET r == Request(f, content, n) IN
         /\ r.content = content /\ r.edition = n /\ r.print = None /\ r.key = KeyOf(f)
BY DEF Request

\* A request is what it tells.
LEMMA ToldSame ==
  ASSUME NEW q, NEW r, q.key = r.key, q.content = r.content, q.print = r.print,
         q.edition = r.edition
  PROVE  Told(q) = Told(r)
BY DEF Told, Keys

\* A request of the form as it is, or of an edition nothing was asked for.
LEMMA RequestMade ==
  ASSUME SavedInv, Grows, NEW r, Asked' \subseteq Asked \cup {r},
         r.print = None, r.content.customer # 0, r.edition \in Nat,
         form'.edition = form.edition, r.edition <= form.edition,
         r.edition = form.edition => r.content = Content(form)' /\ r.key = KeyOf(form)',
         \/ Same /\ r.edition = form.edition
         \/ \A s \in Requests : s.edition < r.edition
  PROVE  RequestsInv'
<1>1. form.edition \in Nat /\ \A s \in Requests : RequestFits(s)
  BY DEF SavedInv, RequestsInv
<1>2. /\ Told(r).key = r.key /\ Told(r).content = r.content
      /\ Told(r).print = r.print /\ Told(r).edition = r.edition
  BY ToldFields
<1>3. ASSUME NEW s \in Requests PROVE RequestFits(s)'
  BY <1>1 DEF RequestFits, Same
<1>4. RequestFits(Told(r))'
  <2>. DEFINE t == Told(r)
  <2>1. t.key = r.key /\ t.content = r.content /\ t.print = r.print /\ t.edition = r.edition
    BY <1>2
  <2>2. PICK u : u = t
    OBVIOUS
  <2>3. t' = t
    BY DEF Told
  <2>. HIDE DEF t
  <2>4. RequestFits(u)'
    BY <1>1, <2>1, <2>2 DEF RequestFits
  <2>. QED
    BY <2>2, <2>3, <2>4 DEF t
<1>5. ASSUME NEW s \in Requests, Told(r).edition = s.edition PROVE Told(r) = s
  <2>1. PICK q : s = Told(q)
    BY DEF Requests
  <2>2. s.edition = r.edition /\ r.edition = form.edition /\ Same
    BY <1>1, <1>2, <1>5 DEF RequestFits
  <2>3. s.content = r.content /\ s.key = r.key /\ s.print = r.print
    BY <1>1, <2>2 DEF RequestFits, Same
  <2>. QED
    BY <2>1, <2>2, <2>3, ToldFields, ToldSame
<1>. QED
  BY <1>3, <1>4, <1>5, RequestsMore

\* Saving: of one edition there is one request, sent, queued or to be sent when
\* its customer was created.
LEMMA SavesNext ==
  ASSUME DepotInv, SavedInv, Save, UNCHANGED <<estimates, people>>
  PROVE  SavedInv'
<1>. DEFINE f == [form EXCEPT !.busy = TRUE, !.edited = FALSE]
            r == Request(f, Content(form), form.edition)
            kept == [f EXCEPT !.key = KeyOf(f)]
            queued == [f EXCEPT !.key = KeyOf(f), !.busy = FALSE]
<1>1. FormOK(form) /\ form.edition \in Nat /\ people \in Nat /\ ~form.busy
  BY DEF DepotInv, PagesInv, FormInv, SavedInv, Save
<1>2. DOMAIN form = DraftFields \cup StateFields
  BY <1>1 DEF FormOK
<1>3. Grows
  BY DEF Grows
<1>4. /\ f.busy /\ ~f.edited /\ f.saved = form.saved /\ f.stray = form.stray
      /\ f.edition = form.edition /\ f.key = form.key /\ DOMAIN f = DOMAIN form
      /\ Content(f) = Content(form) /\ KeyOf(f) = KeyOf(form)
  BY <1>2 DEF DraftFields, StateFields, Content, KeyOf
<1>5. ASSUME NEW d \in calls PROVE ~Attempt(d)
  BY <1>1 DEF SavedInv, AttemptsInv, Waits
<1>6. f.customer = form.customer
  BY <1>2 DEF DraftFields, StateFields
<1>. HIDE DEF f
<1>7. form' \in {f, kept, queued}
  BY DEF Save, f, KeepKey, QueueEstimate
<1>8. /\ Same /\ form'.saved = form.saved /\ form'.stray = form.stray
      /\ form'.customer = form.customer /\ ~form'.edited
  <2>1. ASSUME NEW g \in {f, kept, queued}
        PROVE  /\ g.edition = f.edition /\ g.saved = f.saved /\ g.stray = f.stray
               /\ g.customer = f.customer /\ g.edited = f.edited
               /\ g.number = f.number /\ g.list = f.list /\ g.line = f.line
               /\ g.key \in {f.key, KeyOf(f)}
    BY <1>2, <1>4 DEF DraftFields, StateFields
  <2>. HIDE DEF kept, queued
  <2>2. Content(form)' = Content(f) /\ KeyOf(form)' = KeyOf(f)
    BY <1>7, <2>1 DEF Content, KeyOf
  <2>. QED
    BY <1>4, <1>6, <1>7, <2>1, <2>2 DEF Same
<1>9. form' # queued => form'.busy
  BY <1>2, <1>4, <1>7 DEF DraftFields, StateFields
<1>10. ShownInv' /\ people' \in Nat /\ form'.edition \in Nat
  BY <1>1, <1>8 DEF SavedInv, ShownInv, Same
<1>11. r.content = Content(form) /\ r.edition = form.edition /\ r.print = None
       /\ r.key = KeyOf(form)
  BY <1>4, RequestIs
<1>. HIDE DEF r
<1>12. form.customer # 0 /\ Asked' \subseteq Asked \cup {r} => RequestsInv'
  BY <1>1, <1>3, <1>8, <1>11, RequestMade DEF Same, Content
<1>13. CASE form.customer = 0 /\ form' = f
            /\ Call([what |-> "customer", edition |-> form.edition, content |-> Content(form)])
            /\ UNCHANGED queue
  <2>. DEFINE body == [what |-> "customer", edition |-> form.edition, content |-> Content(form)]
  <2>1. PICK new : new = Sent(left.steps, body)
    OBVIOUS
  <2>2. /\ new.what = "customer" /\ new.edition = form.edition /\ "edition" \in DOMAIN new
        /\ new.content = Content(form) /\ new.stage = "sent"
    BY <2>1 DEF Sent, ++
  <2>3. calls' = calls \cup {new}
    BY <1>13, <2>1 DEF Call
  <2>4. Asked' \subseteq Asked
    BY <1>13, <2>2, <2>3 DEF Asked
  <2>5. RequestsInv' /\ Requests' \subseteq Requests
    BY <1>3, <1>8, <2>4, RequestsSame
  <2>6. Settled(new)'
    BY <1>1, <1>8, <2>2 DEF Settled, Same
  <2>7. ASSUME NEW s \in Requests' PROVE s.edition < new.edition
    <3>1. RequestFits(s)
      BY <2>5 DEF SavedInv, RequestsInv
    <3>. QED
      BY <1>1, <1>13, <2>2, <3>1 DEF RequestFits, Content
  <2>8. form.saved = 0 \/ form.stray
    BY <1>13 DEF SavedInv, ShownInv
  <2>9. form'.busy /\ new.edition = form'.edition /\ new.content = Content(form)'
    BY <1>4, <1>8, <1>13, <2>2 DEF Same
  <2>10. Waits(new)'
    BY <1>8, <2>2, <2>7, <2>8, <2>9 DEF Waits, EditionOf
  <2>11. AttemptsInv'
    BY <1>1, <1>3, <1>5, <1>8, <2>3, <2>6, <2>10, OneNew DEF Same
  <2>. QED
    BY <1>10, <2>5, <2>11 DEF SavedInv
<1>14. CASE form.customer # 0 /\ Call(Creation(f, Content(form), form.edition)) /\ KeepKey(f)
  <2>1. PICK new : new = Sent(left.steps, Creation(f, Content(form), form.edition))
    OBVIOUS
  <2>2. new.what = "create" /\ new.stage = "sent" /\ new.request = r
    BY <2>1, CreationIs DEF r
  <2>3. calls' = calls \cup {new} /\ UNCHANGED queue
    BY <1>14, <2>1 DEF Call, KeepKey
  <2>4. RequestsInv'
    BY <1>12, <1>14, <2>2, <2>3 DEF Asked
  <2>5. Settled(new)'
    BY <2>2 DEF Settled
  <2>6. form'.busy
    BY <1>2, <1>4, <1>14 DEF KeepKey, DraftFields, StateFields
  <2>7. Waits(new)'
    BY <1>8, <1>11, <2>2, <2>6 DEF Waits, EditionOf, Same
  <2>8. AttemptsInv'
    BY <1>1, <1>3, <1>5, <1>8, <2>3, <2>5, <2>7, OneNew DEF Same
  <2>. QED
    BY <1>10, <2>4, <2>8 DEF SavedInv
<1>15. CASE form.customer # 0 /\ QueueEstimate(f, Content(form), form.edition)
            /\ UNCHANGED calls
  <2>1. queue' = queue \cup {r} /\ UNCHANGED calls
    BY <1>15 DEF QueueEstimate, r
  <2>2. RequestsInv'
    BY <1>12, <1>15, <2>1 DEF Asked
  <2>3. AttemptsInv'
    BY <1>1, <1>3, <1>5, <1>8, <2>1, NoAttempts DEF Same, Turned
  <2>. QED
    BY <1>10, <2>2, <2>3 DEF SavedInv
<1>. QED
  BY <1>13, <1>14, <1>15 DEF Save, f, KeepKey

\* A reload opens a new edition and gives up every attempt.
LEMMA ReloadNext ==
  ASSUME DepotInv, SavedInv, Reload, UNCHANGED <<estimates, people>>
  PROVE  SavedInv'
<1>. DEFINE late(c) == [c EXCEPT !.waiting = FALSE]
<1>1. /\ StoredOK(stored) /\ form.edition \in Nat /\ people \in Nat
      /\ \A c \in calls : CallOK(c) /\ Settled(c)
  BY DEF DepotInv, PagesInv, FormInv, SavedInv, AttemptsInv
<1>2. Grows
  BY DEF Grows
<1>3. form'.edition = form.edition + 1 /\ form'.saved = 0
  <2>. DEFINE draft == IF stored = None THEN EmptyDraft ELSE stored
              line == draft.line
              opened == [draft EXCEPT
                !.line = IF line.list = None /\ draft.list # None /\ ~Blank(line)
                         THEN [line EXCEPT !.list = draft.list, !.odd = TRUE]
                         ELSE line]
  <2>1. DOMAIN draft = DraftFields
    BY <1>1 DEF StoredOK, EmptyDraft, DraftFields
  <2>2. DOMAIN opened = DraftFields
    BY <2>1
  <2>3. form' = Opened(opened, form.edition + 1)
    BY DEF Reload
  <2>. HIDE DEF opened
  <2>. QED
    BY <2>2, <2>3 DEF Opened, ++, DraftFields
<1>4. ASSUME NEW c \in calls
      PROVE  /\ late(c).what = c.what /\ ~Attempt(late(c)) /\ Turned(c, late(c))
             /\ c.what = "create" => late(c).request = c.request
  <2>1. Core \cup {"what"} \subseteq DOMAIN c /\ (c.what = "create" => "request" \in DOMAIN c)
    BY <1>1 DEF CallOK
  <2>2. Turned(c, late(c))
    BY <1>1, TurnsOf
  <2>. QED
    BY <2>1, <2>2 DEF Core, Attempt
<1>. HIDE DEF late
<1>5. calls' = {late(c) : c \in calls} /\ UNCHANGED queue
  BY DEF Reload, late
<1>6. Asked' \subseteq Asked
  BY <1>4, <1>5 DEF Asked
<1>7. RequestsInv'
  BY <1>2, <1>3, <1>6, RequestsSame
<1>8. AttemptsInv'
  BY <1>1, <1>2, <1>3, <1>4, <1>5, NoAttempts
<1>. QED
  BY <1>1, <1>3, <1>7, <1>8 DEF SavedInv, ShownInv

\* The estimate that is answered is what the form shows, unless it was edited
\* meanwhile.
LEMMA CreatedNext ==
  ASSUME DepotInv, SavedInv, NEW c \in calls, c.waiting, c.stage # "sent",
         GetCreated(c), UNCHANGED <<estimates, people>>
  PROVE  SavedInv'
<1>1. /\ FormOK(form) /\ form.edition \in Nat /\ people \in Nat
      /\ Attempt(c) /\ Settled(c) /\ Waits(c) /\ c.what = "create"
      /\ calls' = calls \ {c} /\ UNCHANGED queue
  BY DEF DepotInv, PagesInv, FormInv, SavedInv, AttemptsInv, GetCreated, Attempt
<1>2. DOMAIN form = DraftFields \cup StateFields
  BY <1>1 DEF FormOK
<1>3. Grows
  BY DEF Grows
<1>4. ASSUME NEW d \in calls' PROVE ~Attempt(d) /\ d \in calls
  BY <1>1 DEF SavedInv, AttemptsInv, OneAttempt
<1>5. /\ Same /\ form'.customer = form.customer
      /\ \/ c.stage = "served" /\ form'.saved = c.answer /\ form'.stray = form.edited
         \/ form'.saved = form.saved /\ form'.stray = form.stray
  BY <1>2 DEF GetCreated, DraftFields, StateFields, Same, Content, KeyOf
<1>6. Asked' \subseteq Asked
  BY <1>1 DEF Asked
<1>7. RequestsInv'
  BY <1>3, <1>5, <1>6, RequestsSame
<1>8. AttemptsInv'
  BY <1>1, <1>3, <1>4, <1>5, NoAttempts DEF Same, Turned
<1>9. ASSUME c.stage = "served", ~form.edited
      PROVE  /\ c.answer \in DOMAIN estimates /\ form.customer # 0
             /\ estimates[c.answer].content = Content(form)
  <2>. DEFINE t == Told(c.request)
  <2>1. t \in Requests
    BY <1>1 DEF Requests, Asked
  <2>2. t.content = c.request.content /\ t.edition = c.request.edition
    BY ToldFields
  <2>. HIDE DEF t
  <2>3. RequestFits(t)
    BY <2>1 DEF SavedInv, RequestsInv
  <2>4. c.request.edition = form.edition
    BY <1>1, <1>9 DEF Waits, EditionOf
  <2>5. c.request.content = Content(form) /\ Content(form).customer # 0
    BY <2>2, <2>3, <2>4 DEF RequestFits
  <2>. QED
    BY <1>1, <1>9, <2>5 DEF Settled, Content
<1>10. ShownInv'
  BY <1>5, <1>9 DEF SavedInv, ShownInv, Same
<1>. QED
  BY <1>1, <1>5, <1>7, <1>8, <1>10 DEF SavedInv, Same

\* What the form held is saved when its customer was created; nothing of that
\* edition was asked before.
LEMMA CustomerNext ==
  ASSUME DepotInv, SavedInv, NEW c \in calls, c.waiting,
         GetCustomer(c), UNCHANGED <<estimates, people>>
  PROVE  SavedInv'
<1>. DEFINE f == [form EXCEPT !.customer = c.answer]
            content == [c.content EXCEPT !.customer = c.answer]
            r == Request(f, content, c.edition)
            kept == [f EXCEPT !.key = KeyOf(f)]
            queued == [f EXCEPT !.key = KeyOf(f), !.busy = FALSE]
<1>1. /\ FormOK(form) /\ form.edition \in Nat /\ people \in Nat /\ CallOK(c)
      /\ Attempt(c) /\ Settled(c) /\ Waits(c) /\ c.what = "customer"
  BY DEF DepotInv, PagesInv, FormInv, SavedInv, AttemptsInv, GetCustomer, Attempt
<1>2. DOMAIN form = DraftFields \cup StateFields
  BY <1>1 DEF FormOK
<1>3. Grows
  BY DEF Grows
<1>4. ASSUME NEW d \in calls, d # c PROVE ~Attempt(d)
  BY <1>1, <1>4 DEF SavedInv, AttemptsInv, OneAttempt
<1>5. /\ c.edition \in Nat /\ c.edition <= form.edition
      /\ \A s \in Requests : s.edition < c.edition
      /\ form.saved = 0 \/ form.stray
      /\ form.busy /\ (~form.edited => c.edition = form.edition)
      /\ c.edition = form.edition => c.content = Content(form)
  BY <1>1 DEF Settled, Waits, EditionOf
<1>6. ContentOK(c.content)
  BY <1>1 DEF CallOK
<1>7. content.customer = c.answer /\ (c.edition = form.edition => content = Content(f))
  BY <1>2, <1>5, <1>6 DEF ContentOK, Content, DraftFields, StateFields
<1>8. /\ f.edition = form.edition /\ f.saved = form.saved /\ f.stray = form.stray
      /\ f.busy = form.busy /\ f.edited = form.edited /\ DOMAIN f = DOMAIN form
  BY <1>2 DEF DraftFields, StateFields
<1>. HIDE DEF f, content
<1>9. ASSUME NEW g \in {f, kept, queued}
      PROVE  /\ g.edition = f.edition /\ g.saved = f.saved /\ g.stray = f.stray
             /\ g.edited = f.edited /\ g.customer = f.customer
             /\ g.number = f.number /\ g.list = f.list /\ g.line = f.line
             /\ g.key \in {f.key, KeyOf(f)} /\ (g # queued => g.busy = f.busy)
  BY <1>2, <1>8 DEF DraftFields, StateFields
<1>. HIDE DEF kept, queued
<1>10. r.content = content /\ r.edition = c.edition /\ r.print = None /\ r.key = KeyOf(f)
  BY RequestIs
<1>. HIDE DEF r
<1>11. ASSUME c.stage = "served", form' \in {kept, queued}, Asked' \subseteq Asked \cup {r}
       PROVE  /\ RequestsInv' /\ ShownInv' /\ people' \in Nat
              /\ form'.edition = form.edition /\ form'.edited = form.edited
  <2>1. /\ form'.edition = form.edition /\ form'.edited = form.edited
        /\ form'.saved = form.saved /\ form'.stray = form.stray
        /\ Content(form)' = Content(f) /\ KeyOf(form)' = KeyOf(f)
    BY <1>8, <1>9, <1>11 DEF Content, KeyOf
  <2>2. c.answer # 0
    BY <1>1, <1>11 DEF Settled
  <2>3. /\ r.print = None /\ r.content.customer # 0 /\ r.edition \in Nat
        /\ r.edition <= form.edition /\ \A s \in Requests : s.edition < r.edition
        /\ r.edition = form.edition => r.content = Content(form)' /\ r.key = KeyOf(form)'
    BY <1>5, <1>7, <1>10, <2>1, <2>2
  <2>4. RequestsInv'
    BY <1>3, <1>11, <2>1, <2>3, RequestMade
  <2>. QED
    BY <1>1, <1>5, <2>1, <2>4 DEF ShownInv
<1>12. CASE /\ c.stage # "served" /\ form' = [form EXCEPT !.busy = FALSE]
            /\ calls' = calls \ {c} /\ UNCHANGED queue
  <2>1. /\ Same /\ form'.saved = form.saved /\ form'.stray = form.stray
        /\ form'.edition \in Nat /\ form'.edition >= form.edition
    BY <1>1, <1>2, <1>12 DEF DraftFields, StateFields, Same, Content, KeyOf
  <2>2. Asked' \subseteq Asked
    BY <1>12 DEF Asked
  <2>3. RequestsInv'
    BY <1>3, <2>1, <2>2, RequestsSame
  <2>4. AttemptsInv'
    BY <1>3, <1>4, <1>12, <2>1, NoAttempts DEF Turned
  <2>. QED
    BY <1>1, <1>5, <2>1, <2>3, <2>4 DEF SavedInv, ShownInv
<1>13. CASE c.stage = "served" /\ KeepKey(f) /\ Become(c, Sent(c.id, Creation(f, content, c.edition)))
  <2>1. PICK new : new = Sent(c.id, Creation(f, content, c.edition))
    OBVIOUS
  <2>2. /\ new.what = "create" /\ new.stage = "sent" /\ new.request = r
    BY <2>1, CreationIs DEF r
  <2>3. calls' = (calls \ {c}) \cup {new} /\ UNCHANGED queue /\ form' = kept
    BY <1>13, <2>1 DEF Become, KeepKey, kept
  <2>4. Asked' \subseteq Asked \cup {r}
    BY <2>2, <2>3 DEF Asked
  <2>5. /\ RequestsInv' /\ ShownInv' /\ people' \in Nat
        /\ form'.edition = form.edition /\ form'.edited = form.edited
    BY <1>11, <1>13, <2>3, <2>4
  <2>6. Settled(new)'
    BY <2>2 DEF Settled
  <2>7. KeepKey(f) => form'.busy
    BY <1>2, <1>5, <1>8 DEF KeepKey, DraftFields, StateFields
  <2>8. Waits(new)'
    BY <1>5, <1>10, <1>13, <2>2, <2>5, <2>7 DEF Waits, EditionOf
  <2>9. AttemptsInv'
    BY <1>1, <1>3, <1>4, <2>3, <2>5, <2>6, <2>8, OneNew
  <2>. QED
    BY <1>1, <2>5, <2>9 DEF SavedInv
<1>14. CASE /\ c.stage = "served" /\ QueueEstimate(f, content, c.edition)
            /\ calls' = calls \ {c}
  <2>1. queue' = queue \cup {r} /\ form' = queued
    BY <1>14 DEF QueueEstimate, r, queued
  <2>2. Asked' \subseteq Asked \cup {r}
    BY <1>14, <2>1 DEF Asked
  <2>3. /\ RequestsInv' /\ ShownInv' /\ people' \in Nat
        /\ form'.edition = form.edition /\ form'.edited = form.edited
    BY <1>11, <1>14, <2>1, <2>2
  <2>4. AttemptsInv'
    BY <1>1, <1>3, <1>4, <1>14, <2>3, NoAttempts DEF Turned
  <2>. QED
    BY <1>1, <2>3, <2>4 DEF SavedInv
<1>. QED
  BY <1>12, <1>13, <1>14 DEF GetCustomer, f, content

-----------------------------------------------------------------------------
(* Saving in every step *)

\* Steps that leave the form alone.
LEMMA QuietSaved ==
  ASSUME DepotInv, SavedInv, Grows, Idle, UNCHANGED <<people, form>>, queue' \subseteq queue
  PROVE  SavedInv'
<1>1. Looked /\ Moved /\ people' \in Nat
  BY ShowLooks, IdleMoved DEF DepotInv, PagesInv, FormInv, SavedInv
<1>. QED
  BY <1>1, SavedKept

\* The rate lists' page makes no attempt.
LEMMA RegisterIdle ==
  ASSUME VersionsInv(versions), RegisterOK(register), UseRegister
  PROVE  Idle
<1>1. CASE UNCHANGED calls
  BY <1>1 DEF Idle
<1>2. ASSUME NEW list, OpenDetail(list) PROVE Idle
  <2>. DEFINE r == Detail(list, "none")
  <2>1. \A after : Detail(list, after).what = "detail"
    BY DEF Detail
  <2>. QED
    BY <1>2, <2>1, BodiesOK, CallIdle DEF OpenDetail
<1>3. ASSUME SubmitVersion PROVE Idle
  <2>1. Len(versions) \in Nat
    BY Appending DEF VersionsInv, VersionsTyped
  <2>2. PICK number \in 1 .. Len(versions) + 1, items \in Tables, from \in left.dates :
          Call([what |-> "draft", list |-> register.selected, number |-> number,
                items |-> items, from |-> from])
    BY <1>3 DEF SubmitVersion
  <2>3. number \in Nat
    BY <2>1
  <2>. QED
    BY <2>2, <2>3, BodiesOK, CallIdle
<1>4. ASSUME NEW v \in register.drafts, PressPublish(v) PROVE Idle
  BY <1>4, BodiesOK, CallIdle DEF PressPublish, RegisterOK
<1>. QED
  BY <1>1, <1>2, <1>3, <1>4, Zenon DEF UseRegister, CloseDetail, OpenVersionEditor,
     CloseVersionEditor

\* Nor does the conversion.
LEMMA ConvertIdle == ASSUME SessionOK(session), Convert PROVE Idle
<1>1. ASSUME NEW target, Review(target) PROVE Idle
  BY <1>1, BodiesOK, CallIdle DEF Review
<1>2. ASSUME NEW number, Confirm(number) PROVE Idle
  <2>1. Own(session.key)
    BY <1>2 DEF Confirm, SessionOK
  <2>. QED
    BY <1>2, <2>1, BodiesOK, CallIdle DEF Confirm
<1>. QED
  BY <1>1, <1>2, Zenon DEF Convert

\* Nor does what an answer makes the rate lists' page send next.
LEMMA DeliverRegisterIdle == ASSUME NEW c \in calls, DeliverRegister(c) PROVE Idle
<1>1. CASE calls' = calls \ {c}
  BY <1>1 DEF Idle
<1>2. CASE Follow(c)
  <2>1. Sent(c.id, Detail(register.selected, c.what)).what = "detail"
    BY DEF Sent, ++, Detail
  <2>. QED
    BY <1>2, <2>1 DEF Follow, Become, Idle
<1>. QED
  BY <1>1, <1>2 DEF DeliverRegister, GetDetail, GetDraft, GetPublished

\* What the user does with the form.
LEMMA UseFormSaved == ASSUME DepotInv, SavedInv, Grows, UseForm PROVE SavedInv'
<1>1. FormOK(form) /\ people' \in Nat /\ UNCHANGED <<estimates, people>>
  BY DEF DepotInv, PagesInv, FormInv, SavedInv, UseForm
<1>2. CASE EditForm \/ UseDialogs
  <2>1. (Invalidated \/ Looked) /\ Idle /\ UNCHANGED queue
    BY <1>1, <1>2, EditFormMoves, DialogsMove DEF EditForm, UseDialogs
  <2>. QED
    BY <1>1, <2>1, IdleMoved, SavedKept
<1>. QED
  BY <1>1, <1>2, SavesNext, ReloadNext DEF UseForm

\* What an answer does to the form.
LEMMA DeliverSaved ==
  ASSUME DepotInv, SavedInv, Grows, NEW c \in calls, Deliver(c)
  PROVE  SavedInv'
<1>1. FormOK(form) /\ people \in Nat /\ c.waiting /\ c.stage # "sent"
  BY DEF DepotInv, PagesInv, FormInv, SavedInv, Deliver
<1>2. CASE DeliverRegister(c) /\ UNCHANGED <<estimates, people, page, session>>
  BY <1>2, DeliverRegisterIdle, QuietSaved DEF page
<1>3. CASE DeliverToSession(c)
  <2>1. Idle
    BY <1>3 DEF DeliverToSession, Idle
  <2>. QED
    BY <1>3, <2>1, QuietSaved DEF DeliverToSession, page
<1>4. CASE DeliverToForm(c)
  <2>1. CASE GetRate(c) \/ GetPreview(c)
    <3>1. (Invalidated \/ Looked) /\ Idle /\ UNCHANGED <<queue, people>>
      BY <1>1, <1>4, <2>1, RatesMove DEF DeliverToForm, GetRate, GetPreview
    <3>. QED
      BY <1>1, <3>1, IdleMoved, SavedKept
  <2>. QED
    BY <1>1, <1>4, <2>1, CustomerNext, CreatedNext DEF DeliverToForm
<1>. QED
  BY <1>2, <1>3, <1>4 DEF Deliver

\* Every step keeps what was saved.
LEMMA SavedStep == ASSUME DepotInv, SavedInv, [DepotNext]_depotVars PROVE SavedInv'
<1>1. Grows
  BY AllGrow
<1>2. PagesInv
  BY DEF DepotInv
<1>3. ASSUME UNCHANGED <<calls, people, page>> PROVE SavedInv'
  BY <1>1, <1>3, QuietSaved DEF Idle, page
<1>4. CASE UNCHANGED depotVars \/ Assist
  <2>1. UNCHANGED <<calls, people, page>>
    BY <1>4 DEF depotVars, vars, page, Assist
  <2>. QED
    BY <1>3, <2>1
<1>5. CASE UseRegister /\ UNCHANGED <<estimates, people, page, session>>
  BY <1>1, <1>2, <1>5, RegisterIdle, QuietSaved DEF page, PagesInv
<1>6. CASE UseForm
  BY <1>1, <1>6, UseFormSaved
<1>7. CASE Convert
  BY <1>1, <1>2, <1>7, ConvertIdle, QuietSaved DEF Convert, page, PagesInv
<1>8. CASE Others
  <2>1. UNCHANGED <<calls, people, page>>
    BY <1>8 DEF Others, Elsewhere, MarkReady
  <2>. QED
    BY <1>3, <2>1
<1>9. CASE Flush
  <2>1. Idle /\ UNCHANGED <<people, form>> /\ queue' \subseteq queue
    BY <1>9 DEF Flush, Idle
  <2>. QED
    BY <1>1, <2>1, QuietSaved
<1>10. ASSUME NEW c \in calls, Serve(c) \/ Lose(c) PROVE SavedInv'
  <2>1. Moved /\ people' \in Nat
    BY <1>10, ServeMoved, LoseMoved DEF Lose, SavedInv
  <2>2. UNCHANGED page
    BY <1>10, Zenon DEF Serve, Lose
  <2>3. Looked
    BY <1>2, <2>2, ShowLooks DEF page, PagesInv, FormInv
  <2>. QED
    BY <1>1, <2>1, <2>2, <2>3, SavedKept DEF page
<1>11. ASSUME NEW c \in calls, Deliver(c) PROVE SavedInv'
  BY <1>1, <1>11, DeliverSaved
<1>. QED
  BY <1>4, <1>5, <1>6, <1>7, <1>8, <1>9, <1>10, <1>11, Zenon DEF DepotNext, Next

\* Nothing was asked at first.
LEMMA SavedBegin == ASSUME DepotInit PROVE SavedInv
<1>1. /\ calls = {} /\ queue = {} /\ people \in Nat
  BY EstimatesAssumption DEF DepotInit, Init
<1>2. form.edition = 0 /\ form.saved = 0
  <2>1. PICK draft : form = Opened(draft, 0) /\ DOMAIN draft = DraftFields
    <3>1. form = Opened([EmptyDraft EXCEPT !.customer = left.customer], 0)
      BY DEF DepotInit, Init
    <3>2. DOMAIN [EmptyDraft EXCEPT !.customer = left.customer] = DraftFields
      BY DEF EmptyDraft, DraftFields
    <3>. QED
      BY <3>1, <3>2
  <2>. QED
    BY <2>1 DEF Opened, ++, DraftFields
<1>3. \A e \in DOMAIN estimates : estimates[e].edition = None
  <2>. DEFINE content == [number |-> 0, customer |-> 1, list |-> None, lines |-> Source]
              first == [key |-> <<"source">>, print |-> None, edition |-> None,
                        status |-> "DRAFT", content |-> content]
  <2>1. estimates = <<first>> /\ first.edition = None
    BY DEF DepotInit, Init
  <2>. HIDE DEF first
  <2>. QED
    BY <2>1
<1>4. Requests = {}
  BY <1>1, <1>3 DEF Requests, Asked
<1>. QED
  BY <1>1, <1>2, <1>3, <1>4 DEF SavedInv, RequestsInv, AttemptsInv, OneAttempt, ShownInv

\* A form that says it is saved shows what was saved, unless it was edited
\* while it was saved; and no save is refused when the form as it is was saved
\* before, by an attempt whose answer was lost or from the queue.
THEOREM SavedOnceForAll == DepotSpec => []SavedOnce
<1>1. ASSUME SavedInv PROVE SavedOnce
  <2>1. form.saved # 0 /\ ~form.stray => estimates[form.saved].content = Content(form)
    BY <1>1 DEF SavedInv, ShownInv
  <2>2. ASSUME NEW c \in calls, c.what = "create", c.stage = "refused",
               NEW e \in DOMAIN estimates, estimates[e].edition = c.request.edition
        PROVE  FALSE
    <3>. DEFINE q == Told(c.request)
                s == Told(estimates[e])
    <3>1. q \in Requests
      BY <2>2 DEF Requests, Asked
    <3>2. /\ q.key = c.request.key /\ q.content = c.request.content
          /\ q.print = c.request.print /\ q.edition = c.request.edition
          /\ s.key = estimates[e].key /\ s.content = estimates[e].content
          /\ s.print = estimates[e].print /\ s.edition = estimates[e].edition
      BY ToldFields
    <3>3. estimates[e].edition # None => s \in Requests
      BY DEF Requests
    <3>. HIDE DEF q, s
    <3>4. q.edition \in Nat
      BY <1>1, <3>1 DEF SavedInv, RequestsInv, RequestFits
    <3>5. estimates[e].edition # None
      BY <2>2, <3>2, <3>4, RateListsAssumption
    <3>6. q = s
      BY <1>1, <2>2, <3>1, <3>2, <3>3, <3>5 DEF SavedInv, RequestsInv
    <3>7. e \in Found(c.request)
      BY <3>2, <3>6 DEF Found
    <3>8. LET content == c.request.content IN
          content.list # None => Available(content.list, content.customer)
      BY <1>1, <3>2, <3>5, <3>6 DEF SavedInv, RequestsInv
    <3>9. Acceptable(c.request)
      BY <3>7, <3>8 DEF Acceptable
    <3>. QED
      BY <1>1, <2>2, <3>9 DEF SavedInv, AttemptsInv, Settled
  <2>. QED
    BY <2>1, <2>2 DEF SavedOnce
<1>. QED
  BY <1>1, SavedBegin, SavedStep, DepotBegin, DepotKept, PTL DEF DepotSpec

-----------------------------------------------------------------------------
(* Sums *)

\* A sum of natural numbers counts as many things as each of them says.
Things(f, S) == {p \in S \X Nat : p[2] \in 1 .. f[p[1]]}

\* One more of them has its own.
LEMMA ThingsAdd ==
  ASSUME NEW S, IsFiniteSet(S), NEW f, \A x \in S : f[x] \in Nat, NEW x \in S,
         IsFiniteSet(Things(f, S \ {x}))
  PROVE  /\ IsFiniteSet(Things(f, S))
         /\ Cardinality(Things(f, S)) = f[x] + Cardinality(Things(f, S \ {x}))
<1>. DEFINE own == {x} \X (1 .. f[x])
<1>1. f[x] \in Nat
  OBVIOUS
<1>2. IsFiniteSet(1 .. f[x]) /\ Cardinality(1 .. f[x]) = f[x]
  <2>1. PICK n \in Nat : n = f[x]
    BY <1>1
  <2>2. IsFiniteSet(1 .. n) /\ Cardinality(1 .. n) = IF 1 > n THEN 0 ELSE n - 1 + 1
    BY FS_Interval
  <2>. QED
    BY <2>1, <2>2
<1>3. IsFiniteSet(own) /\ Cardinality(own) = f[x]
  <2>1. IsFiniteSet({x}) /\ Cardinality({x}) = 1
    BY FS_Singleton
  <2>2. IsFiniteSet(own) /\ Cardinality(own) = 1 * Cardinality(1 .. f[x])
    BY <1>2, <2>1, FS_Product
  <2>. QED
    BY <1>1, <1>2, <2>2
<1>4. Things(f, S) = Things(f, S \ {x}) \cup own
  BY <1>1 DEF Things
<1>5. Things(f, S \ {x}) \cap own = {}
  BY DEF Things
<1>. HIDE DEF own
<1>6. /\ IsFiniteSet(Things(f, S \ {x}) \cup own)
      /\ Cardinality(Things(f, S \ {x}) \cup own) =
           Cardinality(Things(f, S \ {x})) + Cardinality(own)
             - Cardinality(Things(f, S \ {x}) \cap own)
  BY <1>3, FS_Union
<1>7. Cardinality(Things(f, S \ {x})) \in Nat /\ Cardinality({}) = 0
  BY FS_CardinalityType, FS_EmptySet
<1>8. Cardinality(Things(f, S)) = f[x] + Cardinality(Things(f, S \ {x}))
  <2>1. PICK n \in Nat : n = f[x]
    BY <1>1
  <2>2. Cardinality(Things(f, S \ {x}) \cap own) = 0
    BY <1>5, <1>7
  <2>. QED
    BY <1>3, <1>4, <1>6, <1>7, <2>1, <2>2
<1>9. IsFiniteSet(Things(f, S))
  BY <1>4, <1>6
<1>. QED
  BY <1>8, <1>9

\* What holds of the empty set, and of a set and one more if of the set, holds
\* of all finite sets: with the set of the sets it holds of for a predicate.
LEMMA SetInduction ==
  ASSUME NEW S, IsFiniteSet(S), NEW Good, {} \in Good,
         \A T \in SUBSET S : \A x \in S \ T : T \in Good => T \cup {x} \in Good
  PROVE  S \in Good
<1>. DEFINE Bad == {T \in SUBSET S : T \notin Good}
<1>1. SUFFICES ASSUME Bad # {} PROVE FALSE
  OBVIOUS
<1>2. Bad \subseteq FiniteSubsetsOf(S)
  BY FS_FiniteSubsetsOfFinite
<1>3. PICK T \in Bad : \A U \in Bad : <<U, T>> \notin StrictSubsetOrdering(S)
  BY <1>1, <1>2, FS_StrictSubsetOrderingWellFounded, WFMin
<1>4. PICK x : x \in T
  OBVIOUS
<1>5. T \ {x} \notin Bad
  <2>1. <<T \ {x}, T>> \in StrictSubsetOrdering(S)
    BY <1>4 DEF StrictSubsetOrdering
  <2>. QED
    BY <1>3, <2>1
<1>6. (T \ {x}) \cup {x} = T /\ x \in S \ (T \ {x}) /\ T \ {x} \in SUBSET S
  BY <1>4
<1>. QED
  BY <1>5, <1>6

\* They are finitely many.
LEMMA ThingsFinite ==
  ASSUME NEW S, IsFiniteSet(S), NEW f, \A x \in S : f[x] \in Nat
  PROVE  IsFiniteSet(Things(f, S))
<1>. DEFINE Good == {T \in SUBSET S : IsFiniteSet(Things(f, T))}
<1>1. {} \in Good
  <2>1. Things(f, {}) = {}
    BY DEF Things
  <2>. QED
    BY <2>1, FS_EmptySet
<1>2. ASSUME NEW T \in SUBSET S, NEW x \in S \ T, T \in Good PROVE T \cup {x} \in Good
  <2>1. T = (T \cup {x}) \ {x} /\ T \cup {x} \in SUBSET S /\ x \in T \cup {x}
    OBVIOUS
  <2>2. IsFiniteSet(T \cup {x})
    BY <2>1, FS_Subset
  <2>. QED
    BY <1>2, <2>1, <2>2, ThingsAdd
<1>3. S \in Good
  <2>. HIDE DEF Good
  <2>. QED
    BY <1>1, <1>2, SetInduction
<1>. QED
  BY <1>3

\* The sum that the library's fold works out is their number, which satisfies
\* the equation the fold is defined by, as nothing else does.
LEMMA SumIsFound ==
  ASSUME NEW S, IsFiniteSet(S), NEW f, \A x \in S : f[x] \in Nat
  PROVE  SumFunctionOnSet(f, S) = Cardinality(Things(f, S))
<1>. DEFINE Def(h) == h = [s \in SUBSET S |-> IF s = {} THEN 0
              ELSE f[CHOOSE x \in s : TRUE] + h[s \ {CHOOSE x \in s : TRUE}]]
            count == [s \in SUBSET S |-> Cardinality(Things(f, s))]
<1>1. SumFunctionOnSet(f, S) = (CHOOSE h : Def(h))[S]
  BY DEF SumFunctionOnSet, FoldFunctionOnSet, MapThenFoldSet
<1>2. count[{}] = 0
  <2>1. Things(f, {}) = {}
    BY DEF Things
  <2>. QED
    BY <2>1, FS_EmptySet
<1>3. ASSUME NEW s \in SUBSET S, NEW x \in s
      PROVE  count[s] = f[x] + count[s \ {x}]
  <2>1. IsFiniteSet(s) /\ IsFiniteSet(s \ {x})
    BY FS_Subset
  <2>2. IsFiniteSet(Things(f, s \ {x}))
    BY <2>1, ThingsFinite
  <2>. QED
    BY <2>1, <2>2, ThingsAdd
<1>4. Def(count)
  <2>1. \A s \in SUBSET S : s # {} =>
          count[s] = f[CHOOSE x \in s : TRUE] + count[s \ {CHOOSE x \in s : TRUE}]
    <3>. HIDE DEF count
    <3>. QED
      BY <1>3
  <2>2. count = [s \in SUBSET S |-> count[s]]
    OBVIOUS
  <2>. HIDE DEF count
  <2>. QED
    BY <1>2, <2>1, <2>2
<1>5. PICK h : Def(h) /\ h = CHOOSE g : Def(g)
  <2>. HIDE DEF Def, count
  <2>. QED
    BY <1>4
<1>6. h[S] = count[S]
  <2>. DEFINE Bad == {T \in SUBSET S : h[T] # count[T]}
  <2>. SUFFICES ASSUME Bad # {} PROVE FALSE
    OBVIOUS
  <2>1. Bad \subseteq FiniteSubsetsOf(S)
    BY FS_FiniteSubsetsOfFinite
  <2>2. PICK T \in Bad : \A U \in Bad : <<U, T>> \notin StrictSubsetOrdering(S)
    BY <2>1, FS_StrictSubsetOrderingWellFounded, WFMin
  <2>3. T \in SUBSET S /\ T # {}
    BY <1>2, <1>5
  <2>4. PICK x \in T : h[T] = f[x] + h[T \ {x}]
    <3>1. PICK x : x = CHOOSE y \in T : TRUE
      OBVIOUS
    <3>2. x \in T /\ h[T] = f[x] + h[T \ {x}]
      BY <1>5, <2>3, <3>1
    <3>. QED
      BY <3>2
  <2>5. <<T \ {x}, T>> \in StrictSubsetOrdering(S) /\ T \ {x} \in SUBSET S
    BY <2>3 DEF StrictSubsetOrdering
  <2>6. h[T \ {x}] = count[T \ {x}]
    BY <2>2, <2>5
  <2>7. count[T] = f[x] + count[T \ {x}]
    <3>. HIDE DEF count
    <3>. QED
      BY <1>3, <2>3
  <2>. QED
    BY <2>4, <2>6, <2>7
<1>. QED
  BY <1>1, <1>5, <1>6

\* A sum of natural numbers is one, and that of two parts is that of both.
LEMMA SumParts ==
  ASSUME NEW S, IsFiniteSet(S), NEW F \in [S -> Nat], NEW A \in SUBSET S
  PROVE  /\ SumFunction(F) \in Nat
         /\ SumFunction([y \in A |-> F[y]]) \in Nat
         /\ SumFunction([y \in S \ A |-> F[y]]) \in Nat
         /\ SumFunction(F) = SumFunction([y \in A |-> F[y]])
                               + SumFunction([y \in S \ A |-> F[y]])
<1>. DEFINE B == S \ A
            FA == [y \in A |-> F[y]]
            FB == [y \in B |-> F[y]]
<1>1. IsFiniteSet(A) /\ IsFiniteSet(B)
  BY FS_Subset
<1>2. /\ DOMAIN F = S /\ DOMAIN FA = A /\ DOMAIN FB = B
      /\ FA \in [A -> Nat] /\ FB \in [B -> Nat]
  OBVIOUS
<1>3. /\ Things(F, S) = Things(FA, A) \cup Things(FB, B)
      /\ Things(FA, A) \cap Things(FB, B) = {}
  BY DEF Things
<1>. HIDE DEF FA, FB, B
<1>4. ASSUME NEW T, IsFiniteSet(T), NEW G \in [T -> Nat]
      PROVE  /\ SumFunction(G) = Cardinality(Things(G, T))
             /\ IsFiniteSet(Things(G, T)) /\ Cardinality(Things(G, T)) \in Nat
  BY <1>4, SumIsFound, ThingsFinite, FS_CardinalityType DEF SumFunction
<1>5. /\ SumFunction(F) = Cardinality(Things(F, S))
      /\ SumFunction(FA) = Cardinality(Things(FA, A))
      /\ SumFunction(FB) = Cardinality(Things(FB, B))
      /\ SumFunction(F) \in Nat /\ SumFunction(FA) \in Nat /\ SumFunction(FB) \in Nat
      /\ IsFiniteSet(Things(FA, A)) /\ IsFiniteSet(Things(FB, B))
  BY <1>1, <1>2, <1>4
<1>6. Cardinality(Things(F, S)) =
        Cardinality(Things(FA, A)) + Cardinality(Things(FB, B))
  <2>1. Cardinality(Things(FA, A) \cup Things(FB, B)) =
          Cardinality(Things(FA, A)) + Cardinality(Things(FB, B))
            - Cardinality(Things(FA, A) \cap Things(FB, B))
    BY <1>5, FS_Union
  <2>2. Cardinality(Things(FA, A) \cap Things(FB, B)) = 0
    BY <1>3, FS_EmptySet
  <2>. QED
    BY <1>3, <1>5, <2>1, <2>2
<1>. QED
  BY <1>5, <1>6 DEF FA, FB, B

\* A sum of nothing but 0 is 0.
LEMMA SumZero ==
  ASSUME NEW S, IsFiniteSet(S), NEW F \in [S -> Nat], \A y \in S : F[y] = 0
  PROVE  SumFunction(F) = 0
<1>1. Things(F, S) = {}
  BY DEF Things
<1>. QED
  BY <1>1, SumIsFound, FS_EmptySet DEF SumFunction

\* A sum is of one of its parts and of the others.
LEMMA SumSplit ==
  ASSUME NEW S, IsFiniteSet(S), NEW F \in [S -> Nat], NEW x \in S
  PROVE  /\ SumFunction(F) = SumFunction([y \in S \ {x} |-> F[y]]) + F[x]
         /\ SumFunction([y \in S \ {x} |-> F[y]]) \in Nat
<1>1. /\ SumFunction(F) = Cardinality(Things(F, S))
      /\ IsFiniteSet(S \ {x})
  BY SumIsFound, FS_Subset DEF SumFunction
<1>. DEFINE G == [y \in S \ {x} |-> F[y]]
<1>2. G \in [S \ {x} -> Nat] /\ \A y \in S \ {x} : G[y] = F[y]
  OBVIOUS
<1>3. Things(G, S \ {x}) = Things(F, S \ {x})
  BY DEF Things
<1>. HIDE DEF G
<1>4. /\ SumFunction(G) = Cardinality(Things(G, S \ {x}))
      /\ IsFiniteSet(Things(G, S \ {x})) /\ Cardinality(Things(G, S \ {x})) \in Nat
  BY <1>1, <1>2, SumIsFound, ThingsFinite, FS_CardinalityType DEF SumFunction
<1>5. Cardinality(Things(F, S)) = F[x] + Cardinality(Things(F, S \ {x}))
  BY <1>3, <1>4, ThingsAdd
<1>6. PICK n \in Nat : n = F[x]
  OBVIOUS
<1>. QED
  BY <1>1, <1>3, <1>4, <1>5, <1>6 DEF G

\* G goes on after F with x.
GoesOn(S, F, x, G) ==
  /\ IsFiniteSet(S) /\ F \in [S -> Nat] /\ x \notin S
  /\ G \in [S \cup {x} -> Nat] /\ \A y \in S : G[y] = F[y]

\* A sum over one more adds that one.
LEMMA SumAdd ==
  ASSUME NEW S, NEW F, NEW x, NEW G, GoesOn(S, F, x, G)
  PROVE  SumFunction(G) = SumFunction(F) + G[x]
<1>0. /\ IsFiniteSet(S) /\ F \in [S -> Nat] /\ x \notin S
      /\ G \in [S \cup {x} -> Nat] /\ \A y \in S : G[y] = F[y]
  BY DEF GoesOn
<1>1. IsFiniteSet(S \cup {x}) /\ (S \cup {x}) \ {x} = S /\ x \in S \cup {x}
  BY <1>0, FS_AddElement
<1>2. [y \in S |-> G[y]] = F
  BY <1>0
<1>. QED
  BY <1>0, <1>1, <1>2, SumSplit

\* A sum in which one thing changes, changes by as much.
LEMMA SumChange ==
  ASSUME NEW S, IsFiniteSet(S), NEW F \in [S -> Nat], NEW G \in [S -> Nat],
         NEW x \in S, \A y \in S \ {x} : G[y] = F[y]
  PROVE  SumFunction(G) + F[x] = SumFunction(F) + G[x]
<1>1. [y \in S \ {x} |-> F[y]] = [y \in S \ {x} |-> G[y]]
  OBVIOUS
<1>2. PICK rest \in Nat : rest = SumFunction([y \in S \ {x} |-> F[y]])
  BY SumSplit
<1>3. SumFunction(F) = rest + F[x] /\ SumFunction(G) = rest + G[x]
  BY <1>1, <1>2, SumSplit
<1>4. PICK m \in Nat, n \in Nat : m = F[x] /\ n = G[x]
  OBVIOUS
<1>. QED
  BY <1>2, <1>3, <1>4

\* The sum of sums.
LEMMA SumPlus ==
  ASSUME NEW S, IsFiniteSet(S), NEW F \in [S -> Nat], NEW G \in [S -> Nat],
         NEW H \in [S -> Nat], \A x \in S : H[x] = F[x] + G[x]
  PROVE  SumFunction(H) = SumFunction(F) + SumFunction(G)
<1>. DEFINE On(f, T) == [x \in T |-> f[x]]
            Good == {T \in SUBSET S : SumFunction(On(H, T)) =
                       SumFunction(On(F, T)) + SumFunction(On(G, T))}
<1>1. {} \in Good
  <2>1. \A f : On(f, {}) \in [{} -> Nat]
    OBVIOUS
  <2>2. \A f : SumFunction(On(f, {})) = 0
    <3>. HIDE DEF On
    <3>. QED
      BY <2>1, SumZero, FS_EmptySet
  <2>. HIDE DEF On
  <2>. QED
    BY <2>2
<1>2. ASSUME NEW T \in SUBSET S, NEW x \in S \ T, T \in Good PROVE T \cup {x} \in Good
  <2>1. ASSUME NEW f \in [S -> Nat]
        PROVE  /\ SumFunction(On(f, T \cup {x})) = SumFunction(On(f, T)) + f[x]
               /\ SumFunction(On(f, T)) \in Nat /\ f[x] \in Nat
    <3>1. /\ On(f, T) \in [T -> Nat] /\ On(f, T \cup {x}) \in [T \cup {x} -> Nat]
          /\ \A y \in T : On(f, T \cup {x})[y] = On(f, T)[y]
          /\ On(f, T \cup {x})[x] = f[x]
      OBVIOUS
    <3>2. IsFiniteSet(T) /\ x \notin T
      BY FS_Subset
    <3>. HIDE DEF On
    <3>3. SumFunction(On(f, T)) \in Nat
      BY <3>1, <3>2, SumParts
    <3>4. SumFunction(On(f, T \cup {x})) = SumFunction(On(f, T)) + On(f, T \cup {x})[x]
      <4>1. GoesOn(T, On(f, T), x, On(f, T \cup {x}))
        BY <3>1, <3>2 DEF GoesOn
      <4>. QED
        BY <4>1, SumAdd
    <3>5. f[x] \in Nat
      OBVIOUS
    <3>. QED
      BY <3>1, <3>3, <3>4, <3>5
  <2>2. H[x] = F[x] + G[x]
    OBVIOUS
  <2>. HIDE DEF On
  <2>3. SumFunction(On(H, T)) = SumFunction(On(F, T)) + SumFunction(On(G, T))
    BY <1>2
  <2>4. SumFunction(On(H, T \cup {x})) =
          SumFunction(On(F, T \cup {x})) + SumFunction(On(G, T \cup {x}))
    <3>. PICK f0 \in Nat, g0 \in Nat :
           f0 = SumFunction(On(F, T)) /\ g0 = SumFunction(On(G, T))
      BY <2>1
    <3>. PICK fx \in Nat, gx \in Nat : fx = F[x] /\ gx = G[x]
      BY <2>1
    <3>1. /\ f0 = SumFunction(On(F, T)) /\ g0 = SumFunction(On(G, T))
          /\ fx = F[x] /\ gx = G[x]
      OBVIOUS
    <3>2. /\ SumFunction(On(F, T \cup {x})) = f0 + fx
          /\ SumFunction(On(G, T \cup {x})) = g0 + gx
          /\ SumFunction(On(H, T \cup {x})) = (f0 + g0) + (fx + gx)
      BY <2>1, <2>2, <2>3, <3>1
    <3>. QED
      BY <3>2
  <2>. QED
    BY <2>4
<1>3. S \in Good
  <2>. HIDE DEF Good
  <2>. QED
    BY <1>1, <1>2, SetInduction
<1>4. On(F, S) = F /\ On(G, S) = G /\ On(H, S) = H
  OBVIOUS
<1>. QED
  BY <1>3, <1>4

-----------------------------------------------------------------------------
(* Goods that are moved between sites *)

MemoFields == {"allocated", "status", "version", "sale", "line", "quantity"}
TransferFields == {"memo", "quantity", "status", "quote", "credited", "sale"}

\* The transfers X of a memo, those of them that were delivered, and the memos M
\* of an invoice's line.
OfMemo(X, m) == {t \in DOMAIN X : X[t].memo = m}
Gone(X, m) == {t \in OfMemo(X, m) : X[t].status = "DELIVERED"}
OfLine(M, s, i) == {m \in DOMAIN M : M[m].sale = s /\ M[m].line = i}

Amount(Y, T) == SumFunction([y \in T |-> Y[y].quantity])
\* What was delivered of the memos of a line.
GoneOfLine(M, X, s, i) ==
  SumFunction([m \in OfLine(M, s, i) |-> Amount(X, Gone(X, m))])

\* What was sold covers what the memos are of, and what came back what was
\* delivered to another site.
SaleOK(M, X, s, sale) ==
  \A i \in DOMAIN sale.lines :
    /\ sale.lines[i].quantity \in Nat
    /\ i \in DOMAIN sale.returned /\ sale.returned[i] \in Nat
    /\ sale.returned[i] <= sale.lines[i].quantity
    /\ Amount(M, OfLine(M, s, i)) <= sale.lines[i].quantity
    /\ GoneOfLine(M, X, s, i) <= sale.returned[i]
MemoOK(S, X, m, memo) ==
  /\ DOMAIN memo = MemoFields /\ memo.quantity \in Nat \ {0}
  /\ memo.sale \in DOMAIN S /\ memo.line \in DOMAIN S[memo.sale].lines
  /\ memo.allocated = Amount(X, OfMemo(X, m)) /\ memo.allocated <= memo.quantity
  /\ memo.status \in {"PENDING_PICKUP", "PARTIAL", "TRANSFERRED"}
  /\ memo.status = "TRANSFERRED" <=> Amount(X, Gone(X, m)) = memo.quantity
TransferOK(M, transfer) ==
  /\ DOMAIN transfer = TransferFields /\ transfer.quantity \in Nat \ {0}
  /\ transfer.memo \in DOMAIN M
  /\ transfer.status \in {"PLANNED", "DELIVERED"} /\ transfer.credited \in BOOLEAN
  /\ transfer.status = "DELIVERED" <=> transfer.credited /\ transfer.sale # 0
GoodsOK(S, M, X) ==
  /\ Sequence(M) /\ Sequence(X)
  /\ \A s \in DOMAIN S : SaleOK(M, X, s, S[s])
  /\ \A m \in DOMAIN M : MemoOK(S, X, m, M[m])
  /\ \A t \in DOMAIN X : TransferOK(M, X[t])

\* Rows with amounts.
Rows(Y) == Sequence(Y) /\ \A y \in DOMAIN Y : Y[y].quantity \in Nat \ {0}

\* Memos and transfers are such rows.
LEMMA GoodsRows == ASSUME NEW S, NEW M, NEW X, GoodsOK(S, M, X) PROVE Rows(M) /\ Rows(X)
  BY DEF GoodsOK, Rows, MemoOK, TransferOK

\* The rows are finitely many, and so is each selection of them.
LEMMA RowsFinite ==
  ASSUME NEW Y, Rows(Y), NEW T \in SUBSET DOMAIN Y PROVE IsFiniteSet(T)
<1>1. DOMAIN Y = 1 .. Len(Y) /\ Len(Y) \in Nat
  BY Appending DEF Rows
<1>2. IsFiniteSet(1 .. Len(Y))
  <2>1. PICK n \in Nat : n = Len(Y)
    BY <1>1
  <2>2. IsFiniteSet(1 .. n)
    BY FS_Interval
  <2>. QED
    BY <2>1, <2>2
<1>. QED
  BY <1>1, <1>2, FS_Subset

\* An amount is a number, and one more row adds its own.
LEMMA AmountOf ==
  ASSUME NEW Y, Rows(Y), NEW T \in SUBSET DOMAIN Y
  PROVE  /\ Amount(Y, T) \in Nat
         /\ Amount(Y, {}) = 0
         /\ \A y \in DOMAIN Y \ T : Amount(Y, T \cup {y}) = Amount(Y, T) + Y[y].quantity
<1>. DEFINE F(U) == [y \in U |-> Y[y].quantity]
<1>1. \A U \in SUBSET DOMAIN Y : F(U) \in [U -> Nat]
  BY DEF Rows
<1>2. Amount(Y, T) \in Nat
  <2>1. F(T) \in [T -> Nat] /\ IsFiniteSet(T)
    BY <1>1, RowsFinite
  <2>. HIDE DEF F
  <2>2. SumFunction(F(T)) \in Nat
    BY <2>1, SumParts
  <2>. QED
    BY <2>2 DEF F, Amount
<1>3. Amount(Y, {}) = 0
  <2>1. F({}) \in [{} -> Nat]
    BY <1>1
  <2>. HIDE DEF F
  <2>2. SumFunction(F({})) = 0
    BY <2>1, SumZero, FS_EmptySet
  <2>. QED
    BY <2>2 DEF F, Amount
<1>4. ASSUME NEW y \in DOMAIN Y \ T
      PROVE  Amount(Y, T \cup {y}) = Amount(Y, T) + Y[y].quantity
  <2>1. /\ F(T) \in [T -> Nat] /\ IsFiniteSet(T) /\ y \notin T
        /\ F(T \cup {y}) \in [T \cup {y} -> Nat]
        /\ \A x \in T : F(T \cup {y})[x] = F(T)[x]
    BY <1>1, RowsFinite
  <2>2. F(T \cup {y})[y] = Y[y].quantity
    OBVIOUS
  <2>. HIDE DEF F
  <2>3. SumFunction(F(T \cup {y})) = SumFunction(F(T)) + F(T \cup {y})[y]
    BY <2>1, SumAdd DEF GoesOn
  <2>. QED
    BY <2>2, <2>3 DEF F, Amount
<1>. QED
  BY <1>2, <1>3, <1>4

\* What rows have the same amounts, amount to the same.
LEMMA AmountSame ==
  ASSUME NEW Y, NEW Z, NEW T, \A y \in T : Z[y].quantity = Y[y].quantity
  PROVE  Amount(Z, T) = Amount(Y, T)
<1>1. [y \in T |-> Z[y].quantity] = [y \in T |-> Y[y].quantity]
  OBVIOUS
<1>. QED
  BY <1>1 DEF Amount

\* A part amounts to less than the whole, unless it is the whole.
LEMMA AmountPart ==
  ASSUME NEW Y, Rows(Y), NEW T \in SUBSET DOMAIN Y, NEW A \in SUBSET T
  PROVE  /\ Amount(Y, A) <= Amount(Y, T)
         /\ A # T => Amount(Y, A) < Amount(Y, T)
<1>. DEFINE F == [y \in T |-> Y[y].quantity]
            B == T \ A
            FB == [y \in B |-> Y[y].quantity]
<1>1. /\ F \in [T -> Nat] /\ IsFiniteSet(T) /\ FB \in [B -> Nat] /\ IsFiniteSet(B)
      /\ \A y \in B : FB[y] > 0
  BY RowsFinite DEF Rows
<1>2. [y \in A |-> F[y]] = [y \in A |-> Y[y].quantity] /\ [y \in B |-> F[y]] = FB
  OBVIOUS
<1>. HIDE DEF F, FB
<1>3. /\ SumFunction(F) = Amount(Y, A) + SumFunction(FB)
      /\ Amount(Y, A) \in Nat /\ SumFunction(FB) \in Nat
  <2>1. /\ SumFunction(F) = SumFunction([y \in A |-> F[y]])
                              + SumFunction([y \in T \ A |-> F[y]])
        /\ SumFunction([y \in A |-> F[y]]) \in Nat
        /\ SumFunction([y \in T \ A |-> F[y]]) \in Nat
    BY <1>1, SumParts
  <2>. QED
    BY <1>2, <2>1 DEF Amount
<1>4. B # {} => SumFunction(FB) > 0
  <2>. SUFFICES ASSUME NEW y \in B PROVE SumFunction(FB) > 0
    OBVIOUS
  <2>1. PICK rest \in Nat : rest = SumFunction([z \in B \ {y} |-> FB[z]])
    BY <1>1, SumSplit
  <2>2. SumFunction(FB) = rest + FB[y]
    BY <1>1, <2>1, SumSplit
  <2>. QED
    BY <1>1, <2>1, <2>2
<1>5. SumFunction(F) = Amount(Y, T)
  BY DEF F, Amount
<1>. QED
  BY <1>3, <1>4, <1>5

\* A memo is moved as far as it is allocated, and no further: all of it if and
\* only if all its transfers are delivered.
LEMMA MemoMoved ==
  ASSUME NEW S, NEW M, NEW X, GoodsOK(S, M, X), NEW m \in DOMAIN M
  PROVE  /\ Amount(X, Gone(X, m)) \in Nat /\ M[m].allocated \in Nat
         /\ Amount(X, Gone(X, m)) <= M[m].allocated
         /\ Gone(X, m) # OfMemo(X, m) => Amount(X, Gone(X, m)) < M[m].allocated
<1>1. Rows(X)
  BY GoodsRows
<1>2. Gone(X, m) \in SUBSET OfMemo(X, m) /\ OfMemo(X, m) \in SUBSET DOMAIN X
  BY DEF Gone, OfMemo
<1>3. M[m].allocated = Amount(X, OfMemo(X, m))
  BY DEF GoodsOK, MemoOK
<1>4. Gone(X, m) \in SUBSET DOMAIN X
  BY <1>2
<1>5. /\ Amount(X, Gone(X, m)) <= Amount(X, OfMemo(X, m))
      /\ Gone(X, m) # OfMemo(X, m) => Amount(X, Gone(X, m)) < Amount(X, OfMemo(X, m))
  BY <1>1, <1>2, AmountPart
<1>6. Amount(X, Gone(X, m)) \in Nat /\ Amount(X, OfMemo(X, m)) \in Nat
  BY <1>1, <1>2, <1>4, AmountOf
<1>. QED
  BY <1>3, <1>5, <1>6

\* What memos reserve is what they are of, less what was delivered of them.
LEMMA ReservedRest ==
  ASSUME GoodsOK(sales, memos, transfers), NEW s, NEW i
  PROVE  /\ Reserved(s, i) \in Nat
         /\ GoneOfLine(memos, transfers, s, i) \in Nat
         /\ Amount(memos, OfLine(memos, s, i)) =
              Reserved(s, i) + GoneOfLine(memos, transfers, s, i)
<1>. DEFINE T == OfLine(memos, s, i)
            O == {m \in T : IsOpen(m)}
            gone(m) == Amount(transfers, Gone(transfers, m))
            Q == [m \in T |-> memos[m].quantity]
            G == [m \in T |-> gone(m)]
            R == [m \in T |-> memos[m].quantity - gone(m)]
            RO == [m \in O |-> memos[m].quantity - gone(m)]
            RC == [m \in T \ O |-> memos[m].quantity - gone(m)]
<1>1. Rows(memos) /\ T \in SUBSET DOMAIN memos /\ IsFiniteSet(T) /\ O \in SUBSET T
  <2>1. Rows(memos) /\ T \in SUBSET DOMAIN memos /\ O \in SUBSET T
    BY GoodsRows DEF OfLine
  <2>. QED
    BY <2>1, RowsFinite
<1>2. ASSUME NEW m \in T
      PROVE  /\ gone(m) \in Nat /\ memos[m].quantity \in Nat
             /\ memos[m].quantity - gone(m) \in Nat
             /\ memos[m].quantity = (memos[m].quantity - gone(m)) + gone(m)
             /\ ~IsOpen(m) => memos[m].quantity - gone(m) = 0
  <2>1. m \in DOMAIN memos
    BY <1>1
  <2>2. /\ memos[m].quantity \in Nat /\ memos[m].allocated <= memos[m].quantity
        /\ memos[m].status \in {"PENDING_PICKUP", "PARTIAL", "TRANSFERRED"}
        /\ memos[m].status = "TRANSFERRED" => gone(m) = memos[m].quantity
    BY <2>1 DEF GoodsOK, MemoOK
  <2>3. gone(m) \in Nat /\ memos[m].allocated \in Nat /\ gone(m) <= memos[m].allocated
    BY <2>1, MemoMoved
  <2>. HIDE DEF gone
  <2>. QED
    BY <2>2, <2>3 DEF IsOpen
<1>3. Reserved(s, i) = SumFunction(RO)
  <2>1. {m \in MemosOf(s, i) : IsOpen(m)} = O
    BY DEF MemosOf, OfLine
  <2>2. \A m : Delivered(m) = gone(m)
    BY DEF Delivered, Total, Amount, Gone, TransfersOf, OfMemo
  <2>3. Reserved(s, i) = SumFunction([m \in {m \in MemosOf(s, i) : IsOpen(m)} |->
                                        memos[m].quantity - Delivered(m)])
    BY DEF Reserved, Total
  <2>. HIDE DEF O, gone
  <2>. QED
    BY <2>1, <2>2, <2>3
<1>. HIDE DEF T, O, gone
<1>4. /\ Q \in [T -> Nat] /\ G \in [T -> Nat] /\ R \in [T -> Nat]
      /\ \A m \in T : Q[m] = R[m] + G[m]
      /\ RC \in [T \ O -> Nat] /\ \A m \in T \ O : RC[m] = 0
      /\ [m \in O |-> R[m]] = RO /\ [m \in T \ O |-> R[m]] = RC
  <2>1. \A m \in T \ O : ~IsOpen(m)
    BY DEF O
  <2>. QED
    BY <1>1, <1>2, <2>1
<1>5. Amount(memos, T) = SumFunction(Q) /\ GoneOfLine(memos, transfers, s, i) = SumFunction(G)
  BY DEF Amount, GoneOfLine, gone, T
<1>. HIDE DEF Q, G, R, RO, RC
<1>6. SumFunction(Q) = SumFunction(R) + SumFunction(G)
  BY ONLY <1>1, <1>4, SumPlus
<1>7. /\ SumFunction(R) = SumFunction(RO) + SumFunction(RC)
      /\ SumFunction(RO) \in Nat /\ SumFunction(RC) \in Nat
  <2>1. /\ SumFunction(R) = SumFunction([m \in O |-> R[m]])
                              + SumFunction([m \in T \ O |-> R[m]])
        /\ SumFunction([m \in O |-> R[m]]) \in Nat
        /\ SumFunction([m \in T \ O |-> R[m]]) \in Nat
    <3>1. R \in [T -> Nat] /\ IsFiniteSet(T) /\ O \in SUBSET T
      BY <1>1, <1>4
    <3>. QED
      BY ONLY <3>1, SumParts
  <2>. QED
    BY <1>4, <2>1
<1>8. SumFunction(RC) = 0
  <2>1. IsFiniteSet(T \ O)
    BY <1>1, FS_Subset
  <2>. QED
    BY <1>4, <2>1, SumZero
<1>9. SumFunction(G) \in Nat
  BY <1>1, <1>4, SumParts
<1>. QED
  BY <1>3, <1>5, <1>6, <1>7, <1>8, <1>9 DEF T

\* Invoices stay, with their lines; memos and transfers stay.
Grown(S, M, X, S2, M2, X2) ==
  /\ DOMAIN S \subseteq DOMAIN S2 /\ \A s \in DOMAIN S : S2[s].lines = S[s].lines
  /\ DOMAIN M \subseteq DOMAIN M2 /\ DOMAIN X \subseteq DOMAIN X2

\* An invoice is added, nothing of which came back yet.
Sells(S, S2, n, lines) ==
  /\ DOMAIN S2 = DOMAIN S \cup {n} /\ n \notin DOMAIN S
  /\ \A s \in DOMAIN S : S2[s] = S[s]
  /\ Sellable(lines)
  /\ S2[n].lines = lines /\ S2[n].returned = [i \in DOMAIN lines |-> 0]

\* No memo is of it.
LEMMA SoldGoods ==
  ASSUME NEW S, NEW M, NEW X, NEW S2, GoodsOK(S, M, X), NEW n, NEW lines,
         Sells(S, S2, n, lines)
  PROVE  GoodsOK(S2, M, X) /\ Grown(S, M, X, S2, M, X)
<1>1. Grown(S, M, X, S2, M, X)
  BY DEF Grown, Sells
<1>2. \A m \in DOMAIN M : MemoOK(S2, X, m, M[m])
  BY DEF GoodsOK, MemoOK, Sells
<1>3. SaleOK(M, X, n, S2[n])
  <2>. SUFFICES ASSUME NEW i \in DOMAIN lines
                PROVE  /\ lines[i].quantity \in Nat /\ 0 <= lines[i].quantity
                       /\ Amount(M, OfLine(M, n, i)) = 0
                       /\ GoneOfLine(M, X, n, i) = 0
    BY DEF SaleOK, Sells
  <2>1. OfLine(M, n, i) = {}
    BY DEF OfLine, GoodsOK, MemoOK, Sells
  <2>2. Amount(M, {}) = 0
    BY GoodsRows, AmountOf
  <2>3. GoneOfLine(M, X, n, i) = 0
    <3>1. PICK F : F = [m \in {} |-> Amount(X, Gone(X, m))]
      OBVIOUS
    <3>2. F \in [{} -> Nat] /\ \A y \in {} : F[y] = 0
      BY <3>1
    <3>3. SumFunction(F) = 0
      BY <3>2, SumZero, FS_EmptySet
    <3>. QED
      BY <2>1, <3>1, <3>3 DEF GoneOfLine
  <2>4. lines[i].quantity \in Nat /\ 0 <= lines[i].quantity
    BY DEF Sells, Sellable
  <2>. QED
    BY <2>1, <2>2, <2>3, <2>4
<1>4. \A s \in DOMAIN S2 : SaleOK(M, X, s, S2[s])
  BY <1>3 DEF GoodsOK, Sells
<1>. QED
  BY <1>1, <1>2, <1>4 DEF GoodsOK

\* Of one line of an invoice so much comes back, and no more than there is.
Returns(S, S2, s, i, quantity) ==
  /\ DOMAIN S2 = DOMAIN S /\ s \in DOMAIN S
  /\ \A u \in DOMAIN S : u # s => S2[u] = S[u]
  /\ S2[s].lines = S[s].lines /\ DOMAIN S2[s].returned = DOMAIN S[s].returned
  /\ \A j \in DOMAIN S[s].returned : j # i => S2[s].returned[j] = S[s].returned[j]
  /\ i \in DOMAIN S[s].lines /\ quantity \in Nat
  /\ S2[s].returned[i] = S[s].returned[i] + quantity
  /\ quantity + S[s].returned[i] <= S[s].lines[i].quantity

\* Goods that come back from the customer.
LEMMA ReturnedGoods ==
  ASSUME NEW S, NEW M, NEW X, NEW S2, GoodsOK(S, M, X), NEW s, NEW i, NEW quantity,
         Returns(S, S2, s, i, quantity)
  PROVE  GoodsOK(S2, M, X) /\ Grown(S, M, X, S2, M, X)
<1>1. Grown(S, M, X, S2, M, X)
  BY DEF Grown, Returns
<1>2. \A m \in DOMAIN M : MemoOK(S2, X, m, M[m])
  BY DEF GoodsOK, MemoOK, Returns
<1>3. SaleOK(M, X, s, S2[s])
  <2>. SUFFICES ASSUME NEW j \in DOMAIN S[s].lines
                PROVE  /\ S[s].lines[j].quantity \in Nat
                       /\ j \in DOMAIN S2[s].returned /\ S2[s].returned[j] \in Nat
                       /\ S2[s].returned[j] <= S[s].lines[j].quantity
                       /\ Amount(M, OfLine(M, s, j)) <= S[s].lines[j].quantity
                       /\ GoneOfLine(M, X, s, j) <= S2[s].returned[j]
    BY DEF SaleOK, Returns
  <2>1. /\ S[s].lines[j].quantity \in Nat
        /\ j \in DOMAIN S[s].returned /\ S[s].returned[j] \in Nat
        /\ S[s].returned[j] <= S[s].lines[j].quantity
        /\ Amount(M, OfLine(M, s, j)) <= S[s].lines[j].quantity
        /\ GoneOfLine(M, X, s, j) <= S[s].returned[j]
    BY DEF GoodsOK, SaleOK, Returns
  <2>2. GoneOfLine(M, X, s, j) \in Nat
    <3>. DEFINE T == OfLine(M, s, j)
                F == [m \in T |-> Amount(X, Gone(X, m))]
    <3>1. T \in SUBSET DOMAIN M /\ \A m \in T : Amount(X, Gone(X, m)) \in Nat
      BY MemoMoved DEF OfLine
    <3>2. IsFiniteSet(T)
      BY <3>1, GoodsRows, RowsFinite
    <3>3. F \in [T -> Nat]
      BY <3>1
    <3>. HIDE DEF F, T
    <3>4. SumFunction(F) \in Nat
      BY <3>2, <3>3, SumParts
    <3>. QED
      BY <3>4 DEF GoneOfLine, F, T
  <2>3. CASE j = i
    BY <2>1, <2>2, <2>3 DEF Returns
  <2>4. CASE j # i
    BY <2>1, <2>4 DEF Returns
  <2>. QED
    BY <2>1, <2>3, <2>4 DEF Returns
<1>4. \A u \in DOMAIN S2 : SaleOK(M, X, u, S2[u])
  BY <1>3 DEF GoodsOK, Returns
<1>. QED
  BY <1>1, <1>2, <1>4 DEF GoodsOK

\* A memo of so much of a line, of which others leave so much.
Reserves(S, M, M2, X, memo) ==
  LET s == memo.sale
      i == memo.line IN
  /\ M2 = Append(M, memo)
  /\ DOMAIN memo = MemoFields /\ memo.quantity \in Nat \ {0}
  /\ s \in DOMAIN S /\ i \in DOMAIN S[s].lines
  /\ memo.allocated = 0 /\ memo.status = "PENDING_PICKUP"
  /\ Amount(M, OfLine(M, s, i)) + memo.quantity <= S[s].lines[i].quantity

\* Goods that are left at a site.
LEMMA ReservedGoods ==
  ASSUME NEW S, NEW M, NEW X, NEW M2, GoodsOK(S, M, X), NEW memo,
         Reserves(S, M, M2, X, memo)
  PROVE  GoodsOK(S, M2, X) /\ Grown(S, M, X, S, M2, X)
<1>. DEFINE n == Len(M) + 1
<1>1. /\ Sequence(M2) /\ DOMAIN M2 = DOMAIN M \cup {n} /\ n \notin DOMAIN M
      /\ \A m \in DOMAIN M : M2[m] = M[m]
      /\ M2[n] = memo
  BY Appending DEF GoodsOK, Reserves
<1>2. Rows(M) /\ Rows(X)
  BY GoodsRows
<1>. HIDE DEF n
<1>3. Grown(S, M, X, S, M2, X)
  BY <1>1 DEF Grown
<1>4. OfMemo(X, n) = {} /\ Gone(X, n) = {}
  BY <1>1 DEF OfMemo, Gone, GoodsOK, TransferOK
<1>5. Amount(X, {}) = 0
  BY <1>2, AmountOf
<1>6. MemoOK(S, X, n, memo)
  BY <1>4, <1>5 DEF MemoOK, Reserves
<1>7. \A m \in DOMAIN M2 : MemoOK(S, X, m, M2[m])
  BY <1>1, <1>6 DEF GoodsOK
<1>8. \A t \in DOMAIN X : TransferOK(M2, X[t])
  BY <1>1 DEF GoodsOK, TransferOK
<1>9. ASSUME NEW s \in DOMAIN S, NEW i \in DOMAIN S[s].lines
      PROVE  /\ Amount(M2, OfLine(M2, s, i)) <= S[s].lines[i].quantity
             /\ GoneOfLine(M2, X, s, i) = GoneOfLine(M, X, s, i)
  <2>. DEFINE T == OfLine(M, s, i)
              T2 == OfLine(M2, s, i)
              F == [m \in T |-> Amount(X, Gone(X, m))]
              F2 == [m \in T2 |-> Amount(X, Gone(X, m))]
  <2>1. /\ T \in SUBSET DOMAIN M /\ n \notin T
        /\ T2 = IF s = memo.sale /\ i = memo.line THEN T \cup {n} ELSE T
    BY <1>1 DEF OfLine
  <2>2. Amount(M2, T) = Amount(M, T)
    BY <1>1, <2>1, AmountSame
  <2>3. Amount(M, T) <= S[s].lines[i].quantity
    BY DEF GoodsOK, SaleOK
  <2>4. Rows(M2)
    BY <1>1, <1>2 DEF Rows, Reserves
  <2>5. /\ \A m \in T : Amount(X, Gone(X, m)) \in Nat
        /\ Amount(X, Gone(X, n)) = 0
    BY <1>4, <1>5, <2>1, MemoMoved
  <2>6. IsFiniteSet(T)
    BY <1>2, <2>1, RowsFinite
  <2>. HIDE DEF T, T2
  <2>7. CASE s = memo.sale /\ i = memo.line
    <3>1. T2 = T \cup {n} /\ n \in DOMAIN M2 \ T /\ T \in SUBSET DOMAIN M2
      BY <1>1, <2>1, <2>7
    <3>2. Amount(M2, T2) = Amount(M2, T) + M2[n].quantity
      BY <2>4, <3>1, AmountOf
    <3>3. Amount(M2, T2) <= S[s].lines[i].quantity
      BY <1>1, <2>2, <2>7, <3>2 DEF Reserves, T
    <3>4. /\ F \in [T -> Nat] /\ F2 \in [T \cup {n} -> Nat] /\ F2[n] = 0
          /\ \A m \in T : F2[m] = F[m]
      BY <2>5, <3>1
    <3>. HIDE DEF F, F2
    <3>5. SumFunction(F2) = SumFunction(F) + F2[n]
      BY <2>1, <2>6, <3>4, SumAdd DEF GoesOn
    <3>6. SumFunction(F) \in Nat
      BY <2>6, <3>4, SumParts
    <3>7. SumFunction(F2) = SumFunction(F)
      BY <3>4, <3>5, <3>6
    <3>. QED
      BY <3>3, <3>7 DEF T, T2, F, F2, GoneOfLine
  <2>8. CASE ~(s = memo.sale /\ i = memo.line)
    <3>1. T2 = T
      BY <2>1, <2>8
    <3>. QED
      BY <2>2, <2>3, <3>1 DEF T, T2, GoneOfLine
  <2>. QED
    BY <2>7, <2>8
<1>10. \A s \in DOMAIN S : SaleOK(M2, X, s, S[s])
  BY <1>9 DEF GoodsOK, SaleOK
<1>. QED
  BY <1>1, <1>3, <1>7, <1>8, <1>10 DEF GoodsOK

\* Goods of a memo are allocated to a site.
Allocates(M, M2, X, X2, m, transfer) ==
  /\ X2 = Append(X, transfer)
  /\ DOMAIN transfer = TransferFields /\ transfer.quantity \in Nat \ {0}
  /\ transfer.memo = m /\ m \in DOMAIN M /\ transfer.status = "PLANNED"
  /\ transfer.credited = FALSE
  /\ M[m].allocated + transfer.quantity <= M[m].quantity
  /\ M[m].status # "TRANSFERRED"
  /\ M2 = [M EXCEPT ![m].allocated = @ + transfer.quantity,
                    ![m].status = "PARTIAL", ![m].version = @ + 1]

\* What a change of a memo leaves alone.
SameGoods(M, M2) ==
  /\ Sequence(M2) /\ DOMAIN M2 = DOMAIN M
  /\ \A m \in DOMAIN M : /\ DOMAIN M2[m] = DOMAIN M[m]
                         /\ M2[m].sale = M[m].sale /\ M2[m].line = M[m].line
                         /\ M2[m].quantity = M[m].quantity

\* Lines keep what they have of memos, and of deliveries if no memo moves.
LEMMA SameLines ==
  ASSUME NEW M, NEW M2, SameGoods(M, M2), NEW X, NEW X2, NEW s, NEW i
  PROVE  /\ OfLine(M2, s, i) = OfLine(M, s, i)
         /\ Amount(M2, OfLine(M2, s, i)) = Amount(M, OfLine(M, s, i))
         /\ (\A m \in OfLine(M, s, i) : Amount(X2, Gone(X2, m)) = Amount(X, Gone(X, m)))
              => GoneOfLine(M2, X2, s, i) = GoneOfLine(M, X, s, i)
<1>1. OfLine(M2, s, i) = OfLine(M, s, i)
  BY DEF OfLine, SameGoods
<1>2. Amount(M2, OfLine(M, s, i)) = Amount(M, OfLine(M, s, i))
  <2>1. \A m \in OfLine(M, s, i) : M2[m].quantity = M[m].quantity
    BY DEF OfLine, SameGoods
  <2>. QED
    BY <2>1, AmountSame
<1>3. ASSUME \A m \in OfLine(M, s, i) : Amount(X2, Gone(X2, m)) = Amount(X, Gone(X, m))
      PROVE  GoneOfLine(M2, X2, s, i) = GoneOfLine(M, X, s, i)
  <2>1. [m \in OfLine(M, s, i) |-> Amount(X2, Gone(X2, m))] =
          [m \in OfLine(M, s, i) |-> Amount(X, Gone(X, m))]
    BY <1>3
  <2>. QED
    BY <1>1, <2>1 DEF GoneOfLine
<1>. QED
  BY <1>1, <1>2, <1>3

\* Transfers to other sites.
LEMMA AllocatedGoods ==
  ASSUME NEW S, NEW M, NEW X, NEW M2, NEW X2, GoodsOK(S, M, X), NEW m, NEW transfer,
         Allocates(M, M2, X, X2, m, transfer)
  PROVE  GoodsOK(S, M2, X2) /\ Grown(S, M, X, S, M2, X2)
<1>. DEFINE n == Len(X) + 1
<1>1. /\ Sequence(X2) /\ DOMAIN X2 = DOMAIN X \cup {n} /\ n \notin DOMAIN X
      /\ \A t \in DOMAIN X : X2[t] = X[t]
      /\ X2[n] = transfer
  BY Appending DEF GoodsOK, Allocates
<1>. HIDE DEF n
<1>2. Rows(X) /\ Rows(X2)
  BY <1>1, GoodsRows DEF Rows, Allocates
<1>3. /\ \A p \in DOMAIN M \ {m} : M2[p] = M[p]
      /\ DOMAIN M2[m] = MemoFields
      /\ M2[m].sale = M[m].sale /\ M2[m].line = M[m].line
      /\ M2[m].quantity = M[m].quantity
      /\ M2[m].allocated = M[m].allocated + transfer.quantity
      /\ M2[m].status = "PARTIAL"
  <2>1. m \in DOMAIN M /\ DOMAIN M[m] = MemoFields
    BY DEF Allocates, GoodsOK, MemoOK
  <2>2. M2 = [M EXCEPT ![m].allocated = @ + transfer.quantity,
                       ![m].status = "PARTIAL", ![m].version = @ + 1]
    BY DEF Allocates
  <2>. QED
    BY <2>1, <2>2 DEF MemoFields
<1>4. SameGoods(M, M2)
  <2>1. M2 = [p \in DOMAIN M |-> M2[p]]
    BY DEF Allocates
  <2>2. Sequence(M2) /\ DOMAIN M2 = DOMAIN M
    BY <2>1, Updating DEF GoodsOK
  <2>3. DOMAIN M[m] = MemoFields
    BY DEF Allocates, GoodsOK, MemoOK
  <2>. QED
    BY <1>3, <2>2, <2>3 DEF SameGoods
<1>5. Grown(S, M, X, S, M2, X2)
  BY <1>1, <1>4 DEF Grown, SameGoods
<1>6. ASSUME NEW p \in DOMAIN M
      PROVE  /\ Gone(X2, p) = Gone(X, p)
             /\ Amount(X2, Gone(X2, p)) = Amount(X, Gone(X, p))
             /\ OfMemo(X2, p) = IF p = m THEN OfMemo(X, p) \cup {n} ELSE OfMemo(X, p)
             /\ Amount(X2, OfMemo(X, p)) = Amount(X, OfMemo(X, p))
  <2>1. Gone(X2, p) = Gone(X, p)
    BY <1>1 DEF Gone, OfMemo, Allocates
  <2>2. OfMemo(X2, p) = IF p = m THEN OfMemo(X, p) \cup {n} ELSE OfMemo(X, p)
    BY <1>1 DEF OfMemo, Allocates
  <2>3. /\ \A t \in Gone(X, p) : X2[t].quantity = X[t].quantity
        /\ \A t \in OfMemo(X, p) : X2[t].quantity = X[t].quantity
    BY <1>1 DEF Gone, OfMemo
  <2>. QED
    BY <2>1, <2>2, <2>3, AmountSame
<1>7. Amount(X2, OfMemo(X2, m)) = M[m].allocated + transfer.quantity
  <2>1. m \in DOMAIN M /\ M[m].allocated = Amount(X, OfMemo(X, m))
    BY DEF Allocates, GoodsOK, MemoOK
  <2>2. OfMemo(X, m) \in SUBSET DOMAIN X2 /\ n \in DOMAIN X2 \ OfMemo(X, m)
    BY <1>1 DEF OfMemo
  <2>3. Amount(X2, OfMemo(X, m) \cup {n}) = Amount(X2, OfMemo(X, m)) + X2[n].quantity
    BY <1>2, <2>2, AmountOf
  <2>. QED
    BY <1>1, <1>6, <2>1, <2>3
<1>8. MemoOK(S, X2, m, M2[m])
  <2>1. m \in DOMAIN M /\ MemoOK(S, X, m, M[m])
    BY DEF Allocates, GoodsOK
  <2>2. Amount(X2, Gone(X2, m)) # M[m].quantity
    BY <1>6, <2>1 DEF MemoOK, Allocates
  <2>3. /\ M2[m].allocated = Amount(X2, OfMemo(X2, m))
        /\ M2[m].allocated <= M2[m].quantity
    BY <1>3, <1>7 DEF Allocates
  <2>. QED
    BY <1>3, <2>1, <2>2, <2>3 DEF MemoOK
<1>9. \A p \in DOMAIN M2 : MemoOK(S, X2, p, M2[p])
  <2>. SUFFICES ASSUME NEW p \in DOMAIN M, p # m PROVE MemoOK(S, X2, p, M2[p])
    BY <1>4, <1>8 DEF SameGoods
  <2>1. MemoOK(S, X, p, M[p]) /\ M2[p] = M[p]
    BY <1>3 DEF GoodsOK
  <2>. QED
    BY <1>6, <2>1 DEF MemoOK
<1>10. \A t \in DOMAIN X2 : TransferOK(M2, X2[t])
  <2>1. TransferOK(M, transfer)
    BY DEF TransferOK, Allocates
  <2>. QED
    BY <1>1, <1>4, <2>1 DEF GoodsOK, TransferOK, SameGoods
<1>11. \A s \in DOMAIN S : SaleOK(M2, X2, s, S[s])
  <2>1. ASSUME NEW s, NEW i
        PROVE  /\ Amount(M2, OfLine(M2, s, i)) = Amount(M, OfLine(M, s, i))
               /\ GoneOfLine(M2, X2, s, i) = GoneOfLine(M, X, s, i)
    <3>1. \A p \in OfLine(M, s, i) : Amount(X2, Gone(X2, p)) = Amount(X, Gone(X, p))
      BY <1>6 DEF OfLine
    <3>. QED
      BY <1>4, <3>1, SameLines
  <2>. QED
    BY <2>1 DEF GoodsOK, SaleOK
<1>12. Sequence(M2)
  BY <1>4 DEF SameGoods
<1>. QED
  BY <1>1, <1>5, <1>9, <1>10, <1>11, <1>12 DEF GoodsOK

\* Planned goods of a memo are delivered, which its line counts as come back; the
\* memo is closed when that was the last of it.
Delivers(S, S2, M, M2, X, X2, id) ==
  LET m == X[id].memo IN
  /\ id \in DOMAIN X /\ X[id].status = "PLANNED"
  /\ Sequence(X2) /\ DOMAIN X2 = DOMAIN X /\ \A t \in DOMAIN X \ {id} : X2[t] = X[t]
  /\ DOMAIN X2[id] = TransferFields
  /\ X2[id].memo = m /\ X2[id].quantity = X[id].quantity
  /\ X2[id].status = "DELIVERED" /\ X2[id].credited = TRUE /\ X2[id].sale # 0
  /\ Returns(S, S2, M[m].sale, M[m].line, X[id].quantity)
  /\ SameGoods(M, M2)
  /\ \A p \in DOMAIN M : /\ M2[p].allocated = M[p].allocated
                         /\ p # m => M2[p].status = M[p].status
  /\ M2[m].status = IF M[m].allocated = M[m].quantity /\ Gone(X2, m) = OfMemo(X2, m)
                    THEN "TRANSFERRED" ELSE M[m].status

\* Deliveries to other sites.
LEMMA DeliveredGoods ==
  ASSUME NEW S, NEW M, NEW X, NEW S2, NEW M2, NEW X2, GoodsOK(S, M, X), NEW id,
         Delivers(S, S2, M, M2, X, X2, id)
  PROVE  GoodsOK(S2, M2, X2) /\ Grown(S, M, X, S2, M2, X2)
<1>. DEFINE m == X[id].memo
            quantity == X[id].quantity
<1>1. /\ id \in DOMAIN X /\ X[id].status = "PLANNED"
      /\ DOMAIN X2 = DOMAIN X /\ \A t \in DOMAIN X \ {id} : X2[t] = X[t]
      /\ X2[id].memo = m /\ X2[id].quantity = quantity /\ X2[id].status = "DELIVERED"
  BY DEF Delivers
<1>2. m \in DOMAIN M /\ quantity \in Nat \ {0}
  BY <1>1 DEF GoodsOK, TransferOK
<1>3. Rows(X) /\ Rows(X2) /\ SameGoods(M, M2)
  BY <1>1, <1>2, GoodsRows DEF Rows, Delivers
<1>4. Returns(S, S2, M[m].sale, M[m].line, quantity)
  BY DEF Delivers
<1>5. Grown(S, M, X, S2, M2, X2)
  BY <1>1, <1>3, <1>4 DEF Grown, Returns, SameGoods
<1>6. /\ id \notin Gone(X, m) /\ Gone(X, m) \in SUBSET DOMAIN X
      /\ Gone(X2, m) = Gone(X, m) \cup {id}
      /\ \A p \in DOMAIN M : OfMemo(X2, p) = OfMemo(X, p)
      /\ \A p \in DOMAIN M \ {m} : Gone(X2, p) = Gone(X, p)
  BY <1>1 DEF Gone, OfMemo
<1>. HIDE DEF m, quantity
<1>7. \A T \in SUBSET DOMAIN X : Amount(X2, T) = Amount(X, T)
  <2>1. \A t \in DOMAIN X : X2[t].quantity = X[t].quantity
    BY <1>1 DEF quantity
  <2>. QED
    BY <2>1, AmountSame
<1>8. Amount(X2, Gone(X2, m)) = Amount(X, Gone(X, m)) + quantity
  <2>1. id \in DOMAIN X2 \ Gone(X, m) /\ Gone(X, m) \in SUBSET DOMAIN X2
    BY <1>1, <1>6
  <2>2. Amount(X2, Gone(X, m) \cup {id}) = Amount(X2, Gone(X, m)) + X2[id].quantity
    BY <1>3, <2>1, AmountOf
  <2>. QED
    BY <1>1, <1>6, <1>7, <2>2
<1>9. /\ \A p \in DOMAIN M \ {m} : Amount(X2, Gone(X2, p)) = Amount(X, Gone(X, p))
      /\ \A p \in DOMAIN M : Amount(X2, OfMemo(X2, p)) = Amount(X, OfMemo(X, p))
  <2>1. \A p : Gone(X, p) \in SUBSET DOMAIN X /\ OfMemo(X, p) \in SUBSET DOMAIN X
    BY DEF Gone, OfMemo
  <2>. QED
    BY <1>6, <1>7, <2>1
<1>10. ASSUME NEW p \in DOMAIN M, p # m PROVE MemoOK(S2, X2, p, M2[p])
  <2>1. MemoOK(S, X, p, M[p])
    BY DEF GoodsOK
  <2>2. /\ DOMAIN M2[p] = DOMAIN M[p] /\ M2[p].sale = M[p].sale
        /\ M2[p].line = M[p].line /\ M2[p].quantity = M[p].quantity
    BY <1>3 DEF SameGoods
  <2>3. M2[p].allocated = M[p].allocated /\ M2[p].status = M[p].status
    BY <1>10 DEF Delivers, m
  <2>4. M[p].sale \in DOMAIN S2 /\ S2[M[p].sale].lines = S[M[p].sale].lines
    BY <1>4, <2>1 DEF Returns, MemoOK
  <2>. QED
    BY <1>9, <1>10, <2>1, <2>2, <2>3, <2>4 DEF MemoOK
<1>11. MemoOK(S2, X2, m, M2[m])
  <2>1. MemoOK(S, X, m, M[m])
    BY <1>2 DEF GoodsOK
  <2>2. /\ DOMAIN M2[m] = DOMAIN M[m] /\ M2[m].sale = M[m].sale
        /\ M2[m].line = M[m].line /\ M2[m].quantity = M[m].quantity
    BY <1>2, <1>3 DEF SameGoods
  <2>3. /\ M2[m].allocated = M[m].allocated
        /\ M2[m].status = IF M[m].allocated = M[m].quantity /\ Gone(X2, m) = OfMemo(X2, m)
                          THEN "TRANSFERRED" ELSE M[m].status
    BY <1>2 DEF Delivers, m
  <2>4. M[m].sale \in DOMAIN S2 /\ S2[M[m].sale].lines = S[M[m].sale].lines
    BY <1>4, <2>1 DEF Returns, MemoOK
  <2>5. /\ M[m].allocated = Amount(X2, OfMemo(X2, m)) /\ M[m].allocated \in Nat
        /\ M[m].allocated <= M[m].quantity
        /\ M[m].quantity \in Nat
    BY <1>2, <1>9, <2>1, MemoMoved DEF MemoOK
  <2>6. Gone(X, m) # OfMemo(X, m)
    BY <1>1, <1>6 DEF OfMemo, m
  <2>7. Amount(X, Gone(X, m)) < M[m].allocated /\ Amount(X, Gone(X, m)) \in Nat
    BY <1>2, <2>6, MemoMoved
  <2>8. M[m].status \in {"PENDING_PICKUP", "PARTIAL"}
    BY <2>1, <2>5, <2>7 DEF MemoOK
  <2>9. Gone(X2, m) \in SUBSET OfMemo(X2, m) /\ OfMemo(X2, m) \in SUBSET DOMAIN X2
    BY DEF Gone, OfMemo
  <2>10. /\ Amount(X2, Gone(X2, m)) <= Amount(X2, OfMemo(X2, m))
         /\ Gone(X2, m) # OfMemo(X2, m)
              => Amount(X2, Gone(X2, m)) < Amount(X2, OfMemo(X2, m))
    BY <1>3, <2>9, AmountPart
  <2>11. Amount(X2, Gone(X2, m)) \in Nat
    BY <1>2, <1>8, <2>7
  <2>12. M2[m].status = "TRANSFERRED" <=> Amount(X2, Gone(X2, m)) = M[m].quantity
    BY <2>3, <2>5, <2>8, <2>10, <2>11
  <2>13. M2[m].status \in {"PENDING_PICKUP", "PARTIAL", "TRANSFERRED"}
    BY <2>3, <2>8
  <2>. QED
    BY <2>1, <2>2, <2>3, <2>4, <2>5, <2>12, <2>13 DEF MemoOK
<1>12. \A t \in DOMAIN X2 : TransferOK(M2, X2[t])
  <2>1. TransferOK(M, X2[id])
    BY <1>1, <1>2 DEF TransferOK, Delivers
  <2>. QED
    BY <1>1, <1>3, <2>1 DEF GoodsOK, TransferOK, SameGoods
<1>13. ASSUME NEW s \in DOMAIN S, NEW i \in DOMAIN S[s].lines
       PROVE  GoneOfLine(M2, X2, s, i) =
                GoneOfLine(M, X, s, i)
                  + IF s = M[m].sale /\ i = M[m].line THEN quantity ELSE 0
  <2>. DEFINE T == OfLine(M, s, i)
              F == [p \in T |-> Amount(X, Gone(X, p))]
              F2 == [p \in T |-> Amount(X2, Gone(X2, p))]
  <2>1. T \in SUBSET DOMAIN M /\ (m \in T <=> s = M[m].sale /\ i = M[m].line)
    BY <1>2 DEF OfLine
  <2>2. IsFiniteSet(T)
    BY <2>1, GoodsRows, RowsFinite
  <2>3. \A p \in T : Amount(X, Gone(X, p)) \in Nat
    BY <2>1, MemoMoved
  <2>. HIDE DEF T
  <2>4. \A p \in T : Amount(X2, Gone(X2, p)) \in Nat
    BY <1>2, <1>8, <1>9, <2>1, <2>3
  <2>5. CASE m \in T
    <3>1. /\ F \in [T -> Nat] /\ F2 \in [T -> Nat] /\ \A p \in T \ {m} : F2[p] = F[p]
          /\ F2[m] = F[m] + quantity
      BY <1>8, <1>9, <2>1, <2>3, <2>4, <2>5
    <3>. HIDE DEF F, F2
    <3>2. SumFunction(F2) + F[m] = SumFunction(F) + F2[m]
      <4>1. /\ IsFiniteSet(T) /\ F \in [T -> Nat] /\ F2 \in [T -> Nat] /\ m \in T
            /\ \A p \in T \ {m} : F2[p] = F[p]
        BY <2>2, <2>5, <3>1
      <4>. QED
        BY ONLY <4>1, SumChange
    <3>3. PICK a \in Nat, b \in Nat, c \in Nat :
            a = SumFunction(F) /\ b = SumFunction(F2) /\ c = F[m]
      BY <2>2, <2>5, <3>1, SumParts
    <3>4. SumFunction(F2) = SumFunction(F) + quantity
      BY <1>2, <3>1, <3>2, <3>3
    <3>5. OfLine(M2, s, i) = T
      BY <1>3, SameLines DEF T
    <3>. QED
      BY <2>1, <2>5, <3>4, <3>5 DEF GoneOfLine, F, F2, T
  <2>6. CASE m \notin T
    <3>1. \A p \in OfLine(M, s, i) : Amount(X2, Gone(X2, p)) = Amount(X, Gone(X, p))
      BY <1>9, <2>1, <2>6 DEF T
    <3>2. GoneOfLine(M2, X2, s, i) = GoneOfLine(M, X, s, i)
      BY <1>3, <3>1, SameLines
    <3>3. GoneOfLine(M, X, s, i) \in Nat
      <4>1. F \in [T -> Nat]
        BY <2>3
      <4>. HIDE DEF F
      <4>2. SumFunction(F) \in Nat
        BY <2>2, <4>1, SumParts
      <4>. QED
        BY <4>2 DEF F, T, GoneOfLine
    <3>. QED
      BY <2>1, <2>6, <3>2, <3>3
  <2>. QED
    BY <2>5, <2>6
<1>14. \A s \in DOMAIN S2 : SaleOK(M2, X2, s, S2[s])
  <2>. SUFFICES ASSUME NEW s \in DOMAIN S, NEW i \in DOMAIN S[s].lines
                PROVE  /\ S[s].lines[i].quantity \in Nat
                       /\ i \in DOMAIN S2[s].returned /\ S2[s].returned[i] \in Nat
                       /\ S2[s].returned[i] <= S[s].lines[i].quantity
                       /\ Amount(M2, OfLine(M2, s, i)) <= S[s].lines[i].quantity
                       /\ GoneOfLine(M2, X2, s, i) <= S2[s].returned[i]
    BY <1>4 DEF SaleOK, Returns
  <2>1. /\ S[s].lines[i].quantity \in Nat
        /\ i \in DOMAIN S[s].returned /\ S[s].returned[i] \in Nat
        /\ S[s].returned[i] <= S[s].lines[i].quantity
        /\ Amount(M, OfLine(M, s, i)) <= S[s].lines[i].quantity
        /\ GoneOfLine(M, X, s, i) <= S[s].returned[i]
    BY DEF GoodsOK, SaleOK
  <2>2. Amount(M2, OfLine(M2, s, i)) = Amount(M, OfLine(M, s, i))
    BY <1>3, SameLines
  <2>3. GoneOfLine(M, X, s, i) \in Nat
    <3>. DEFINE T == OfLine(M, s, i)
                F == [p \in T |-> Amount(X, Gone(X, p))]
    <3>1. T \in SUBSET DOMAIN M /\ \A p \in T : Amount(X, Gone(X, p)) \in Nat
      BY MemoMoved DEF OfLine
    <3>2. IsFiniteSet(T) /\ F \in [T -> Nat]
      BY <3>1, GoodsRows, RowsFinite
    <3>. HIDE DEF F, T
    <3>3. SumFunction(F) \in Nat
      BY <3>2, SumParts
    <3>. QED
      BY <3>3 DEF GoneOfLine, F, T
  <2>4. CASE s = M[m].sale /\ i = M[m].line
    <3>1. /\ DOMAIN S2[s].returned = DOMAIN S[s].returned
          /\ S2[s].returned[i] = S[s].returned[i] + quantity
          /\ quantity + S[s].returned[i] <= S[s].lines[i].quantity
      BY <1>4, <2>4 DEF Returns
    <3>2. GoneOfLine(M2, X2, s, i) = GoneOfLine(M, X, s, i) + quantity
      BY <1>13, <2>4
    <3>. QED
      BY <1>2, <2>1, <2>2, <2>3, <3>1, <3>2
  <2>5. CASE ~(s = M[m].sale /\ i = M[m].line)
    <3>1. DOMAIN S2[s].returned = DOMAIN S[s].returned /\ S2[s].returned[i] = S[s].returned[i]
      BY <1>4, <2>1, <2>5 DEF Returns
    <3>2. GoneOfLine(M2, X2, s, i) = GoneOfLine(M, X, s, i) + 0
      BY <1>13, <2>5
    <3>. QED
      BY <2>1, <2>2, <2>3, <3>1, <3>2
  <2>. QED
    BY <2>4, <2>5
<1>15. Sequence(M2) /\ Sequence(X2) /\ DOMAIN M2 = DOMAIN M
  BY <1>3 DEF SameGoods, Delivers
<1>. QED
  BY <1>5, <1>10, <1>11, <1>12, <1>14, <1>15 DEF GoodsOK

\* What a draft about goods is bound to.
GoodsTask(task) ==
  LET data == task.data IN
  /\ task.tool \in {"return", "memo"} =>
       /\ DOMAIN data = {"sale", "line", "quantity"} /\ data.quantity \in Nat \ {0}
       /\ data.sale \in DOMAIN sales /\ data.line \in DOMAIN sales[data.sale].lines
  /\ task.tool = "invoice" => data.quantity \in Nat \ {0}
  /\ task.tool = "transfer" =>
       data.quantity \in Nat \ {0} /\ data.memo \in DOMAIN memos
  /\ task.tool = "deliver" => data.transfer \in DOMAIN transfers
GoodsTasks == \A t \in DOMAIN tasks : GoodsTask(tasks[t])

GoodsInv == GoodsOK(sales, memos, transfers) /\ GoodsTasks

\* Goods and drafts after a step.
GoodsGrown == Grown(sales, memos, transfers, sales', memos', transfers')
GoodsNext == /\ GoodsOK(sales, memos, transfers)' /\ GoodsGrown
             /\ \/ UNCHANGED tasks
                \/ \E task : GoodsTask(task) /\ tasks' = Append(tasks, task)
                \/ \E t \in DOMAIN tasks : \E stage, gone : Becomes(t, stage, gone)

\* What a draft is bound to stays.
LEMMA GoodsKept == ASSUME TasksInv, GoodsInv, GoodsNext PROVE GoodsInv'
<1>1. \A task : GoodsTask(task) => GoodsTask(task)'
  BY DEF GoodsTask, GoodsNext, GoodsGrown, Grown
<1>2. CASE UNCHANGED tasks
  BY <1>1, <1>2 DEF GoodsInv, GoodsTasks, GoodsNext
<1>3. ASSUME NEW task, GoodsTask(task), tasks' = Append(tasks, task) PROVE GoodsInv'
  <2>1. /\ DOMAIN tasks' = DOMAIN tasks \cup {Len(tasks) + 1}
        /\ \A t \in DOMAIN tasks : tasks'[t] = tasks[t]
        /\ tasks'[Len(tasks) + 1] = task
    BY <1>3, Appending DEF TasksInv
  <2>2. \A t \in DOMAIN tasks' : GoodsTask(tasks'[t])
    BY <1>3, <2>1 DEF GoodsInv, GoodsTasks
  <2>. QED
    BY <1>1, <2>2 DEF GoodsInv, GoodsTasks, GoodsNext
<1>4. ASSUME NEW t \in DOMAIN tasks, NEW stage, NEW gone, Becomes(t, stage, gone)
      PROVE  GoodsInv'
  <2>1. GoodsTask(tasks'[t])
    BY <1>4 DEF GoodsInv, GoodsTasks, GoodsTask, Becomes
  <2>2. \A u \in DOMAIN tasks' : GoodsTask(tasks'[u])
    BY <1>4, <2>1 DEF GoodsInv, GoodsTasks, Becomes
  <2>. QED
    BY <1>1, <2>2 DEF GoodsInv, GoodsTasks, GoodsNext
<1>. QED
  BY <1>2, <1>3, <1>4 DEF GoodsNext

\* Steps that move no goods.
LEMMA UnmovedGoods ==
  ASSUME GoodsInv, UNCHANGED <<sales, memos, transfers>>
  PROVE  GoodsOK(sales, memos, transfers)' /\ GoodsGrown
<1>1. sales' = sales /\ memos' = memos /\ transfers' = transfers
  OBVIOUS
<1>2. GoodsOK(sales', memos', transfers')
  BY <1>1 DEF GoodsInv
<1>3. GoodsGrown
  BY <1>1 DEF GoodsGrown, Grown
<1>. QED
  BY <1>2, <1>3

\* Preparing a draft.
LEMMA PrepareGoods == ASSUME GoodsInv, Prepare PROVE GoodsNext
<1>. DEFINE Bound(task) == GoodsTask(task) /\ tasks' = Append(tasks, task)
<1>. SUFFICES \E task : Bound(task)
  BY UnmovedGoods DEF Prepare, GoodsNext, books
<1>1. ASSUME NEW tool, NEW data, Offer(tool, data),
             GoodsTask([tool |-> tool, stage |-> "shown", data |-> data, gone |-> {},
                        result |-> 0])
      PROVE  \E task : Bound(task)
  BY <1>1 DEF Offer
<1>2. ASSUME NEW data, Offer("estimate", data) \/ Offer("price", data)
               \/ Offer("convert", data) \/ Offer("dispatch", data) \/ Offer("record", data)
      PROVE  \E task : Bound(task)
  <2>1. \A tool \in {"estimate", "price", "convert", "dispatch", "record"} :
          GoodsTask([tool |-> tool, stage |-> "shown", data |-> data, gone |-> {},
                     result |-> 0])
    BY DEF GoodsTask
  <2>. HIDE DEF Bound
  <2>. QED
    BY <1>1, <1>2, <2>1
<1>. USE RateListsAssumption DEF GoodsTask
<1>3. CASE PrepareInvoice
  <2>1. PICK product, quantity, price, available :
          /\ quantity \in Quantity
          /\ Offer("invoice", [product |-> product, quantity |-> quantity,
                               price |-> price, available |-> available])
    BY <1>3 DEF PrepareInvoice
  <2>. HIDE DEF Bound
  <2>. QED
    BY <1>1, <2>1
<1>4. CASE PrepareReturn \/ PrepareMemo
  <2>1. PICK s, i, quantity :
          /\ s \in DOMAIN sales /\ i \in DOMAIN sales[s].lines /\ quantity \in Quantity
          /\ \/ Offer("return", [sale |-> s, line |-> i, quantity |-> quantity])
             \/ Offer("memo", [sale |-> s, line |-> i, quantity |-> quantity])
    BY <1>4 DEF PrepareReturn, PrepareMemo
  <2>. HIDE DEF Bound
  <2>. QED
    BY <1>1, <2>1
<1>5. CASE PrepareTransfer
  <2>1. PICK m, quantity, version, price :
          /\ m \in DOMAIN memos /\ quantity \in Quantity
          /\ Offer("transfer", [memo |-> m, quantity |-> quantity, memoVersion |-> version,
                                price |-> price])
    BY <1>5 DEF PrepareTransfer
  <2>. HIDE DEF Bound
  <2>. QED
    BY <1>1, <2>1
<1>6. CASE PrepareDelivery
  <2>1. PICK t, price :
          t \in DOMAIN transfers /\ Offer("deliver", [transfer |-> t, price |-> price])
    BY <1>6 DEF PrepareDelivery
  <2>. HIDE DEF Bound
  <2>. QED
    BY <1>1, <2>1
<1>7. CASE PrepareEstimate \/ PreparePrice
  <2>1. \E data : Offer("estimate", data) \/ Offer("price", data)
    BY <1>7 DEF PrepareEstimate, PreparePrice
  <2>. HIDE DEF Bound
  <2>. QED
    BY <1>2, <2>1
<1>8. CASE PrepareConversion \/ PrepareDispatch
  <2>1. \E data : Offer("convert", data) \/ Offer("dispatch", data)
    BY <1>8 DEF PrepareConversion, PrepareDispatch
  <2>. HIDE DEF Bound
  <2>. QED
    BY <1>2, <2>1
<1>9. CASE PrepareRecord
  <2>1. \E data : Offer("record", data)
    BY <1>9 DEF PrepareRecord
  <2>. HIDE DEF Bound
  <2>. QED
    BY <1>2, <2>1
<1>. HIDE DEF Bound
<1>. QED
  BY <1>3, <1>4, <1>5, <1>6, <1>7, <1>8, <1>9 DEF Prepare

\* Steps of a draft that move no goods.
LEMMA OtherGoods ==
  ASSUME TasksInv, GoodsInv, NEW t \in DOMAIN tasks, UNCHANGED <<sales, memos, transfers>>,
         \/ Approve(t) \/ \E stage : Move(t, stage)
         \/ \E result : Commit1(t, result)
  PROVE  GoodsNext
<1>1. \E stage, gone : Becomes(t, stage, gone)
  BY TaskSet
<1>. QED
  BY <1>1, UnmovedGoods DEF GoodsNext

\* A commit moves its draft.
LEMMA CommittedGoods ==
  ASSUME TasksInv, NEW t \in DOMAIN tasks, NEW result, Commit1(t, result),
         GoodsOK(sales, memos, transfers)', GoodsGrown
  PROVE  GoodsNext
<1>1. Becomes(t, "committed", tasks[t].gone)
  BY TaskSet
<1>. QED
  BY <1>1 DEF GoodsNext

\* A sale adds an invoice.
LEMMA SoldStep ==
  ASSUME BooksInv, GoodsInv, NEW t \in DOMAIN tasks, NEW e, NEW lines, Sellable(lines),
         Post(e, lines, t), UNCHANGED <<memos, transfers>>, NEW result, Commit1(t, result)
  PROVE  GoodsNext
<1>. DEFINE new == Invoice(e, lines, t)
            n == Len(sales) + 1
<1>1. new.lines = lines /\ new.returned = [i \in DOMAIN lines |-> 0]
  BY DEF Invoice
<1>. HIDE DEF new
<1>2. sales' = Append(sales, new)
  BY DEF Post, new
<1>3. /\ DOMAIN sales' = DOMAIN sales \cup {n} /\ n \notin DOMAIN sales
      /\ \A s \in DOMAIN sales : sales'[s] = sales[s]
      /\ sales'[n] = new
  BY <1>2, Appending DEF BooksInv, SalesInv
<1>. HIDE DEF n
<1>4. Sells(sales, sales', n, lines)
  BY <1>1, <1>3 DEF Sells
<1>5. /\ GoodsOK(sales', memos, transfers)
      /\ Grown(sales, memos, transfers, sales', memos, transfers)
  BY <1>4, SoldGoods DEF GoodsInv
<1>6. memos' = memos /\ transfers' = transfers
  OBVIOUS
<1>7. GoodsOK(sales', memos', transfers') /\ GoodsGrown
  BY <1>5, <1>6 DEF GoodsGrown
<1>8. GoodsOK(sales, memos, transfers)'
  BY <1>7
<1>. QED
  BY <1>7, <1>8, CommittedGoods DEF BooksInv

\* Lines of a draft's invoice.
LEMMA LineSellable ==
  ASSUME NEW product, NEW quantity \in Nat \ {0}, NEW rate
  PROVE  Sellable(<<Line(product, quantity, rate)>>)
<1>. DEFINE line == Line(product, quantity, rate)
<1>1. line.quantity = quantity
  BY DEF Line
<1>. HIDE DEF line
<1>2. DOMAIN <<line>> = {1} /\ <<line>>[1] = line
  OBVIOUS
<1>. QED
  BY <1>1, <1>2 DEF Sellable, line

\* Invoices and conversions.
LEMMA InvoiceGoods ==
  ASSUME BooksInv, GoodsInv, NEW t \in DOMAIN tasks, CommitInvoice(t) \/ CommitConversion(t)
  PROVE  GoodsNext
<1>1. CASE Move(t, "refused") /\ UNCHANGED <<books, versions, estimates>>
  BY <1>1, OtherGoods DEF BooksInv, books
<1>2. CASE CommitInvoice(t) /\ ~(Move(t, "refused") /\ UNCHANGED <<books, versions, estimates>>)
  <2>. DEFINE lines == <<Line(tasks[t].data.product, tasks[t].data.quantity,
                              tasks[t].data.price.rate)>>
  <2>1. tasks[t].data.quantity \in Nat \ {0}
    BY <1>2 DEF CommitInvoice, Ready, GoodsInv, GoodsTasks, GoodsTask
  <2>2. Sellable(lines)
    BY <2>1, LineSellable
  <2>3. Post(0, lines, t) /\ UNCHANGED <<memos, transfers>> /\ Commit1(t, Len(sales'))
    BY <1>2 DEF CommitInvoice, CommitOrRefuse
  <2>. HIDE DEF lines
  <2>. QED
    BY <2>2, <2>3, SoldStep
<1>3. CASE CommitConversion(t) /\ ~(Move(t, "refused") /\ UNCHANGED <<books, versions, estimates>>)
  <2>. DEFINE e == tasks[t].data.estimate
              lines == LinesOf(e)
  <2>1. e \in DOMAIN estimates
    BY <1>3 DEF CommitConversion, Ready, BooksInv, TasksInv, TaskOK
  <2>2. Sellable(lines)
    BY <2>1 DEF BooksInv, EstimatesInv, EstimateOK, LinesOf
  <2>3. Post(e, lines, t) /\ UNCHANGED <<memos, transfers>> /\ Commit1(t, Len(sales'))
    BY <1>3 DEF CommitConversion, CommitOrRefuse
  <2>. HIDE DEF e, lines
  <2>. QED
    BY <2>2, <2>3, SoldStep
<1>. QED
  BY <1>1, <1>2, <1>3

\* The deliveries of a dispatch, of which the last is invoiced.
LEMMA RecordGoods ==
  ASSUME BooksInv, GoodsInv, NEW t \in DOMAIN tasks, CommitRecord(t)
  PROVE  GoodsNext
<1>. DEFINE e == orders[tasks[t].data.order].estimate
            lines == LinesOf(e)
<1>1. CASE Move(t, "refused") /\ UNCHANGED <<books, versions, estimates>>
  BY <1>1, OtherGoods DEF BooksInv, books
<1>2. CASE ~(Move(t, "refused") /\ UNCHANGED <<books, versions, estimates>>)
  <2>1. e \in DOMAIN estimates
    BY DEF CommitRecord, Ready, BooksInv, TasksInv, TaskOK, OrdersInv, OrderOK
  <2>2. Sellable(lines)
    BY <2>1 DEF BooksInv, EstimatesInv, EstimateOK, LinesOf
  <2>3. /\ Post(e, lines, t) \/ UNCHANGED sales
        /\ UNCHANGED <<memos, transfers>> /\ \E result : Commit1(t, result)
    BY <1>2 DEF CommitRecord, CommitOrRefuse
  <2>. HIDE DEF e, lines
  <2>4. CASE Post(e, lines, t)
    BY <2>2, <2>3, <2>4, SoldStep
  <2>5. CASE UNCHANGED sales
    BY <2>3, <2>5, OtherGoods DEF BooksInv
  <2>. QED
    BY <2>3, <2>4, <2>5
<1>. QED
  BY <1>1, <1>2

\* A return that is allowed is of no more than there is.
LEMMA LineReturns ==
  ASSUME SalesInv, GoodsOK(sales, memos, transfers), NEW s \in DOMAIN sales,
         NEW i \in DOMAIN sales[s].lines, NEW quantity \in Nat, MayReturn(s, i, quantity)
  PROVE  Returns(sales, Returned(s, i, sales[s].returned[i] + quantity), s, i, quantity)
<1>. DEFINE new == Returned(s, i, sales[s].returned[i] + quantity)
<1>1. DOMAIN sales[s] = SaleFields /\ i \in DOMAIN sales[s].returned
  BY DEF SalesInv, GoodsOK, SaleOK
<1>2. /\ DOMAIN new = DOMAIN sales
      /\ \A u \in DOMAIN sales : u # s => new[u] = sales[u]
      /\ new[s].lines = sales[s].lines
      /\ new[s].returned =
           [sales[s].returned EXCEPT ![i] = sales[s].returned[i] + quantity]
  BY <1>1 DEF Returned, SaleFields
<1>. HIDE DEF new
<1>3. /\ DOMAIN new[s].returned = DOMAIN sales[s].returned
      /\ \A j \in DOMAIN sales[s].returned :
           j # i => new[s].returned[j] = sales[s].returned[j]
      /\ new[s].returned[i] = sales[s].returned[i] + quantity
  BY <1>1, <1>2
<1>4. quantity + sales[s].returned[i] <= sales[s].lines[i].quantity
  BY DEF MayReturn
<1>5. Returns(sales, new, s, i, quantity)
  BY <1>2, <1>3, <1>4 DEF Returns
<1>. QED
  BY <1>5 DEF new

\* Returns.
LEMMA ReturnGoods ==
  ASSUME BooksInv, GoodsInv, NEW t \in DOMAIN tasks, CommitReturn(t)
  PROVE  GoodsNext
<1>. DEFINE data == tasks[t].data
            s == data.sale
            i == data.line
            quantity == data.quantity
<1>1. CASE Move(t, "refused") /\ UNCHANGED <<books, versions, estimates>>
  BY <1>1, OtherGoods DEF BooksInv, books
<1>2. CASE ~(Move(t, "refused") /\ UNCHANGED <<books, versions, estimates>>)
  <2>1. /\ s \in DOMAIN sales /\ i \in DOMAIN sales[s].lines /\ quantity \in Nat
    BY DEF CommitReturn, Ready, GoodsInv, GoodsTasks, GoodsTask
  <2>2. /\ MayReturn(s, i, quantity) /\ Commit1(t, s) /\ UNCHANGED <<memos, transfers>>
        /\ sales' = Returned(s, i, sales[s].returned[i] + quantity)
    BY <1>2 DEF CommitReturn, CommitOrRefuse, Returned
  <2>. HIDE DEF data, s, i, quantity
  <2>3. Returns(sales, sales', s, i, quantity)
    BY <2>1, <2>2, LineReturns DEF BooksInv, GoodsInv
  <2>4. /\ GoodsOK(sales', memos, transfers)
        /\ Grown(sales, memos, transfers, sales', memos, transfers)
    BY <2>3, ReturnedGoods DEF GoodsInv
  <2>5. GoodsOK(sales', memos', transfers') /\ GoodsGrown
    BY <2>2, <2>4 DEF GoodsGrown
  <2>6. GoodsOK(sales, memos, transfers)'
    BY <2>5
  <2>. QED
    BY <2>2, <2>5, <2>6, CommittedGoods DEF BooksInv
<1>. QED
  BY <1>1, <1>2

\* Memos.
LEMMA MemoGoods ==
  ASSUME BooksInv, GoodsInv, NEW t \in DOMAIN tasks, CommitMemo(t)
  PROVE  GoodsNext
<1>. DEFINE data == tasks[t].data
            memo == [allocated |-> 0, status |-> "PENDING_PICKUP", version |-> 1] ++ data
<1>1. CASE Move(t, "refused") /\ UNCHANGED <<books, versions, estimates>>
  BY <1>1, OtherGoods DEF BooksInv, books
<1>2. CASE ~(Move(t, "refused") /\ UNCHANGED <<books, versions, estimates>>)
  <2>1. /\ DOMAIN data = {"sale", "line", "quantity"} /\ data.quantity \in Nat \ {0}
        /\ data.sale \in DOMAIN sales /\ data.line \in DOMAIN sales[data.sale].lines
    BY DEF CommitMemo, Ready, GoodsInv, GoodsTasks, GoodsTask
  <2>2. /\ MayReserve(data.sale, data.line, data.quantity)
        /\ memos' = Append(memos, memo)
        /\ Commit1(t, Len(memos')) /\ UNCHANGED <<sales, transfers>>
    BY <1>2 DEF CommitMemo, CommitOrRefuse
  <2>. HIDE DEF data
  <2>3. /\ DOMAIN memo = MemoFields /\ memo.sale = data.sale /\ memo.line = data.line
        /\ memo.quantity = data.quantity /\ memo.allocated = 0
        /\ memo.status = "PENDING_PICKUP"
    BY <2>1 DEF ++, MemoFields
  <2>. HIDE DEF memo
  <2>4. Amount(memos, OfLine(memos, data.sale, data.line)) + data.quantity
          <= sales[data.sale].lines[data.line].quantity
    <3>1. PICK r \in Nat, g \in Nat :
            /\ r = Reserved(data.sale, data.line)
            /\ g = GoneOfLine(memos, transfers, data.sale, data.line)
            /\ Amount(memos, OfLine(memos, data.sale, data.line)) = r + g
      BY ReservedRest DEF GoodsInv
    <3>2. PICK b \in Nat, q \in Nat :
            /\ b = sales[data.sale].returned[data.line] /\ g <= b
            /\ q = sales[data.sale].lines[data.line].quantity
      BY <2>1, <3>1 DEF GoodsInv, GoodsOK, SaleOK
    <3>3. data.quantity + b + r <= q
      BY <2>2, <3>1, <3>2 DEF MayReserve
    <3>. QED
      BY <2>1, <3>1, <3>2, <3>3
  <2>5. Reserves(sales, memos, memos', transfers, memo)
    BY <2>1, <2>2, <2>3, <2>4 DEF Reserves
  <2>6. /\ GoodsOK(sales, memos', transfers)
        /\ Grown(sales, memos, transfers, sales, memos', transfers)
    BY <2>5, ReservedGoods DEF GoodsInv
  <2>7. GoodsOK(sales', memos', transfers') /\ GoodsGrown
    BY <2>2, <2>6 DEF GoodsGrown
  <2>8. GoodsOK(sales, memos, transfers)'
    BY <2>7
  <2>. QED
    BY <2>2, <2>7, <2>8, CommittedGoods DEF BooksInv
<1>. QED
  BY <1>1, <1>2

\* Transfers.
LEMMA TransferGoods ==
  ASSUME BooksInv, GoodsInv, NEW t \in DOMAIN tasks, CommitTransfer(t)
  PROVE  GoodsNext
<1>. DEFINE data == tasks[t].data
            m == data.memo
            transfer == [memo |-> m, quantity |-> data.quantity, status |-> "PLANNED",
                         quote |-> Len(estimates'), credited |-> FALSE, sale |-> 0]
<1>1. CASE Move(t, "refused") /\ UNCHANGED <<books, versions, estimates>>
  BY <1>1, OtherGoods DEF BooksInv, books
<1>2. CASE ~(Move(t, "refused") /\ UNCHANGED <<books, versions, estimates>>)
  <2>1. data.quantity \in Nat \ {0} /\ m \in DOMAIN memos
    BY DEF CommitTransfer, Ready, GoodsInv, GoodsTasks, GoodsTask
  <2>2. /\ IsOpen(m) /\ memos[m].allocated + data.quantity <= memos[m].quantity
        /\ transfers' = Append(transfers, transfer)
        /\ memos' = [memos EXCEPT ![m].allocated = @ + data.quantity,
                                  ![m].status = "PARTIAL", ![m].version = @ + 1]
        /\ Commit1(t, Len(transfers')) /\ UNCHANGED sales
    BY <1>2 DEF CommitTransfer, CommitOrRefuse
  <2>3. /\ DOMAIN transfer = TransferFields /\ transfer.quantity = data.quantity
        /\ transfer.memo = m /\ transfer.status = "PLANNED" /\ transfer.credited = FALSE
    BY DEF TransferFields
  <2>4. memos[m].status # "TRANSFERRED"
    BY <2>2 DEF IsOpen
  <2>. HIDE DEF transfer, m, data
  <2>5. Allocates(memos, memos', transfers, transfers', m, transfer)
    BY <2>1, <2>2, <2>3, <2>4 DEF Allocates
  <2>6. /\ GoodsOK(sales, memos', transfers')
        /\ Grown(sales, memos, transfers, sales, memos', transfers')
    BY <2>5, AllocatedGoods DEF GoodsInv
  <2>7. GoodsOK(sales', memos', transfers') /\ GoodsGrown
    BY <2>2, <2>6 DEF GoodsGrown
  <2>8. GoodsOK(sales, memos, transfers)'
    BY <2>7
  <2>. QED
    BY <2>2, <2>7, <2>8, CommittedGoods DEF BooksInv
<1>. QED
  BY <1>1, <1>2

\* Deliveries: a return, a transfer that is delivered, and an invoice.
LEMMA DeliveryGoods ==
  ASSUME BooksInv, GoodsInv, NEW t \in DOMAIN tasks, CommitDelivery(t)
  PROVE  GoodsNext
<1>. DEFINE data == tasks[t].data
            id == data.transfer
            m == transfers[id].memo
            memo == memos[m]
            quantity == transfers[id].quantity
            lines == <<Line(ProductOf(m), quantity, data.price.rate)>>
            S == Returned(memo.sale, memo.line,
                          sales[memo.sale].returned[memo.line] + quantity)
            new == Invoice(0, lines, t)
            n == Len(S) + 1
<1>1. CASE Move(t, "refused") /\ UNCHANGED <<books, versions, estimates>>
  BY <1>1, OtherGoods DEF BooksInv, books
<1>2. CASE ~(Move(t, "refused") /\ UNCHANGED <<books, versions, estimates>>)
  <2>1. id \in DOMAIN transfers
    BY DEF CommitDelivery, Ready, GoodsInv, GoodsTasks, GoodsTask
  <2>2. /\ transfers[id].status = "PLANNED" /\ MayReturn(memo.sale, memo.line, quantity)
        /\ sales' = Append(S, new)
        /\ transfers' = [transfers EXCEPT ![id].status = "DELIVERED",
                                          ![id].credited = TRUE, ![id].sale = Len(sales')]
        /\ memos' = IF AllMoved(m, transfers')
                    THEN [memos EXCEPT ![m].status = "TRANSFERRED", ![m].version = @ + 1]
                    ELSE memos
        /\ Commit1(t, id)
    BY <1>2 DEF CommitDelivery, CommitOrRefuse, Returned
  <2>3. new.lines = lines /\ new.returned = [i \in DOMAIN lines |-> 0]
    BY DEF Invoice
  <2>4. quantity \in Nat \ {0} /\ m \in DOMAIN memos /\ DOMAIN transfers[id] = TransferFields
    BY <2>1 DEF GoodsInv, GoodsOK, TransferOK
  <2>5. Sellable(lines)
    BY <2>4, LineSellable
  <2>6. /\ memo.sale \in DOMAIN sales /\ memo.line \in DOMAIN sales[memo.sale].lines
        /\ DOMAIN memo = MemoFields
    BY <2>4 DEF GoodsInv, GoodsOK, MemoOK
  <2>7. Sequence(S)
    BY ReturnedSales DEF BooksInv
  <2>8. Returns(sales, S, memo.sale, memo.line, quantity)
    <3>. HIDE DEF memo, quantity
    <3>. QED
      BY <2>2, <2>4, <2>6, LineReturns DEF BooksInv, GoodsInv
  <2>. HIDE DEF S, new, lines, n
  <2>9. /\ DOMAIN sales' = DOMAIN S \cup {n} /\ n \notin DOMAIN S
        /\ \A s \in DOMAIN S : sales'[s] = S[s]
        /\ sales'[n] = new /\ Len(sales') # 0
    <3>1. /\ Len(S) \in Nat /\ DOMAIN S = 1 .. Len(S)
          /\ Len(Append(S, new)) = Len(S) + 1
          /\ DOMAIN Append(S, new) = DOMAIN S \cup {Len(S) + 1}
          /\ \A s \in DOMAIN S : Append(S, new)[s] = S[s]
          /\ Append(S, new)[Len(S) + 1] = new
      BY <2>7, Appending
    <3>2. sales' = Append(S, new)
      BY <2>2
    <3>3. n \notin DOMAIN S /\ Len(sales') # 0
      BY <3>1, <3>2 DEF n
    <3>. QED
      BY <3>1, <3>2, <3>3 DEF n
  <2>10. Sells(S, sales', n, lines)
    BY <2>3, <2>5, <2>9 DEF Sells
  <2>11. /\ Sequence(transfers') /\ DOMAIN transfers' = DOMAIN transfers
         /\ \A x \in DOMAIN transfers \ {id} : transfers'[x] = transfers[x]
         /\ DOMAIN transfers'[id] = TransferFields
         /\ transfers'[id].memo = m /\ transfers'[id].quantity = quantity
         /\ transfers'[id].status = "DELIVERED" /\ transfers'[id].credited = TRUE
         /\ transfers'[id].sale = Len(sales')
    <3>1. transfers' = [x \in DOMAIN transfers |-> transfers'[x]]
      BY <2>2
    <3>2. Sequence(transfers') /\ DOMAIN transfers' = DOMAIN transfers
      BY <3>1, Updating DEF GoodsInv, GoodsOK
    <3>3. /\ \A x \in DOMAIN transfers \ {id} : transfers'[x] = transfers[x]
          /\ DOMAIN transfers'[id] = TransferFields
          /\ transfers'[id].memo = transfers[id].memo
          /\ transfers'[id].quantity = transfers[id].quantity
          /\ transfers'[id].status = "DELIVERED" /\ transfers'[id].credited = TRUE
          /\ transfers'[id].sale = Len(sales')
      <4>. HIDE DEF id
      <4>. QED
        BY <2>1, <2>2, <2>4 DEF TransferFields
    <3>. QED
      BY <3>2, <3>3
  <2>12. /\ SameGoods(memos, memos')
         /\ \A p \in DOMAIN memos : /\ memos'[p].allocated = memos[p].allocated
                                    /\ p # m => memos'[p].status = memos[p].status
         /\ memos'[m].status = IF AllMoved(m, transfers') THEN "TRANSFERRED"
                               ELSE memos[m].status
    <3>. HIDE DEF m, id
    <3>1. CASE AllMoved(m, transfers')
      <4>1. memos' = [memos EXCEPT ![m].status = "TRANSFERRED", ![m].version = @ + 1]
        BY <2>2, <3>1
      <4>2. memos' = [p \in DOMAIN memos |-> memos'[p]]
        BY <4>1
      <4>3. Sequence(memos') /\ DOMAIN memos' = DOMAIN memos
        BY <4>2, Updating DEF GoodsInv, GoodsOK
      <4>4. /\ \A p \in DOMAIN memos : p # m => memos'[p] = memos[p]
            /\ DOMAIN memos'[m] = MemoFields /\ memos'[m].sale = memos[m].sale
            /\ memos'[m].line = memos[m].line /\ memos'[m].quantity = memos[m].quantity
            /\ memos'[m].allocated = memos[m].allocated
            /\ memos'[m].status = "TRANSFERRED"
        BY <2>4, <2>6, <4>1 DEF MemoFields
      <4>. QED
        BY <2>6, <3>1, <4>3, <4>4 DEF SameGoods
    <3>2. CASE ~AllMoved(m, transfers')
      <4>1. memos' = memos
        BY <2>2, <3>2
      <4>. QED
        BY <3>2, <4>1 DEF SameGoods, GoodsInv, GoodsOK
    <3>. QED
      BY <3>1, <3>2
  <2>13. AllMoved(m, transfers') <=>
           memos[m].allocated = memos[m].quantity /\ Gone(transfers', m) = OfMemo(transfers', m)
    <3>1. \A x \in DOMAIN transfers' : transfers'[x].status \in {"PLANNED", "DELIVERED"}
      BY <2>11 DEF GoodsInv, GoodsOK, TransferOK
    <3>2. OfMemo(transfers', m) = TransfersOf(m)
      BY <2>11 DEF OfMemo, TransfersOf
    <3>3. Gone(transfers', m) = {x \in TransfersOf(m) : transfers'[x].status = "DELIVERED"}
      BY <3>2 DEF Gone
    <3>4. TransfersOf(m) \subseteq DOMAIN transfers'
      BY <2>11 DEF TransfersOf
    <3>. HIDE DEF m, id
    <3>. QED
      BY <3>1, <3>2, <3>3, <3>4 DEF AllMoved
  <2>14. Delivers(sales, S, memos, memos', transfers, transfers', id)
    <3>. HIDE DEF id
    <3>. QED
      BY <2>1, <2>2, <2>8, <2>9, <2>11, <2>12, <2>13 DEF Delivers
  <2>. HIDE DEF id
  <2>15. /\ GoodsOK(S, memos', transfers')
         /\ Grown(sales, memos, transfers, S, memos', transfers')
    BY <2>14, DeliveredGoods DEF GoodsInv
  <2>16. /\ GoodsOK(sales', memos', transfers')
         /\ Grown(S, memos', transfers', sales', memos', transfers')
    BY <2>10, <2>15, SoldGoods
  <2>17. GoodsGrown
    BY <2>15, <2>16 DEF Grown, GoodsGrown
  <2>18. GoodsOK(sales, memos, transfers)'
    BY <2>16
  <2>. QED
    BY <2>2, <2>17, <2>18, CommittedGoods DEF BooksInv
<1>. QED
  BY <1>1, <1>2

\* Every step keeps goods.
LEMMA GoodsStep == ASSUME DepotInv, GoodsInv, [DepotNext]_depotVars PROVE GoodsNext
<1>0. BooksInv /\ TasksInv
  BY DEF DepotInv, BooksInv
<1>1. CASE OthersStep
  <2>1. UNCHANGED <<sales, memos, transfers, tasks>>
    BY <1>1 DEF OthersStep, books
  <2>. QED
    BY <2>1, UnmovedGoods DEF GoodsNext
<1>2. CASE Prepare
  BY <1>2, PrepareGoods
<1>3. ASSUME NEW product, Receive(product) PROVE GoodsNext
  <2>1. UNCHANGED <<sales, memos, transfers, tasks>>
    BY <1>3 DEF Receive
  <2>. QED
    BY <2>1, UnmovedGoods DEF GoodsNext
<1>4. ASSUME NEW t \in DOMAIN tasks, Approve(t) \/ Recheck(t) \/ Verify(t)
      PROVE  GoodsNext
  <2>1. UNCHANGED <<sales, memos, transfers>>
    BY <1>4 DEF Approve, Recheck, Verify, books
  <2>2. Approve(t) \/ \E stage : Move(t, stage)
    BY <1>4 DEF Recheck, Verify
  <2>. QED
    BY <1>0, <2>1, <2>2, OtherGoods
<1>5. ASSUME NEW t \in DOMAIN tasks,
             CommitEstimate(t) \/ CommitPrice(t) \/ CommitDispatch(t)
      PROVE  GoodsNext
  <2>1. UNCHANGED <<sales, memos, transfers>>
    BY <1>5 DEF CommitEstimate, CommitPrice, CommitDispatch, CommitOrRefuse, books
  <2>2. Move(t, "refused") \/ \E result : Commit1(t, result)
    BY <1>5 DEF CommitEstimate, CommitPrice, CommitDispatch, CommitOrRefuse
  <2>. QED
    BY <1>0, <2>1, <2>2, OtherGoods
<1>6. ASSUME NEW t \in DOMAIN tasks,
             \/ CommitInvoice(t) \/ CommitConversion(t) \/ CommitReturn(t)
             \/ CommitMemo(t) \/ CommitTransfer(t) \/ CommitDelivery(t) \/ CommitRecord(t)
      PROVE  GoodsNext
  BY <1>0, <1>6, InvoiceGoods, ReturnGoods, MemoGoods, TransferGoods, DeliveryGoods,
     RecordGoods
<1>7. CASE Assist
  BY <1>2, <1>3, <1>4, <1>5, <1>6, <1>7, Zenon DEF Assist, Execute
<1>. QED
  BY <1>1, <1>7, StepKinds

\* At first nothing is moved.
LEMMA GoodsBegin == ASSUME DepotInit PROVE GoodsInv
<1>1. memos = <<>> /\ transfers = <<>> /\ tasks = <<>>
  BY DEF DepotInit
<1>2. /\ Sequence(<<>>) /\ DOMAIN memos = {} /\ DOMAIN transfers = {}
      /\ DOMAIN tasks = {}
  <2>1. <<>> \in Seq({}) /\ DOMAIN <<>> = {}
    OBVIOUS
  <2>2. Sequence(<<>>)
    BY <2>1, RangeSequence, Zenon
  <2>. QED
    BY <1>1, <2>1, <2>2
<1>3. Sequence(memos) /\ Sequence(transfers)
  BY <1>1, <1>2
<1>4. PICK budget \in Budgets : sales = budget.sales
  BY DEF DepotInit, Init
<1>5. ASSUME NEW s \in DOMAIN sales, NEW i \in DOMAIN sales[s].lines
      PROVE  /\ sales[s].lines[i].quantity \in Nat
             /\ i \in DOMAIN sales[s].returned /\ sales[s].returned[i] \in Nat
             /\ sales[s].returned[i] <= sales[s].lines[i].quantity
  <2>. DEFINE L == [product : Product, quantity : Quantity, rate : Nat]
              S == [estimate : {0}, task : {0}, returned : Seq(Nat), lines : Seq(L)]
  <2>1. sales \in Seq(S)
    BY <1>4, DepotAssumption
  <2>2. sales[s] \in S
    <3>. HIDE DEF S
    <3>. QED
      BY <2>1
  <2>3. sales[s].returned \in Seq(Nat) /\ sales[s].lines \in Seq(L)
    BY <2>2
  <2>4. /\ DOMAIN sales[s].returned = DOMAIN sales[s].lines
        /\ sales[s].returned[i] <= sales[s].lines[i].quantity
    BY <1>4, DepotAssumption
  <2>5. sales[s].returned[i] \in Nat
    BY <2>3, <2>4
  <2>6. sales[s].lines[i] \in L
    <3>. HIDE DEF L
    <3>. QED
      BY <2>3
  <2>7. sales[s].lines[i].quantity \in Nat
    BY <2>6, RateListsAssumption
  <2>. QED
    BY <2>4, <2>5, <2>7
<1>6. ASSUME NEW s, NEW i
      PROVE  /\ Amount(memos, OfLine(memos, s, i)) = 0
             /\ GoneOfLine(memos, transfers, s, i) = 0
  <2>1. OfLine(memos, s, i) = {}
    BY <1>2 DEF OfLine
  <2>2. PICK F, G : /\ F = [m \in {} |-> memos[m].quantity]
                    /\ G = [m \in {} |-> Amount(transfers, Gone(transfers, m))]
    OBVIOUS
  <2>3. F \in [{} -> Nat] /\ G \in [{} -> Nat]
    BY <2>2
  <2>4. SumFunction(F) = 0 /\ SumFunction(G) = 0
    BY <2>3, SumZero, FS_EmptySet
  <2>. QED
    BY <2>1, <2>2, <2>4 DEF Amount, GoneOfLine
<1>7. \A s \in DOMAIN sales : SaleOK(memos, transfers, s, sales[s])
  BY <1>5, <1>6 DEF SaleOK
<1>8. GoodsOK(sales, memos, transfers)
  BY <1>2, <1>3, <1>7 DEF GoodsOK
<1>9. GoodsTasks
  BY <1>2 DEF GoodsTasks
<1>. QED
  BY <1>8, <1>9 DEF GoodsInv

\* What is moved between sites was sold: memos are of no more than their line
\* sold, transfers of no more than their memo, however many drafts reserve,
\* move, deliver and return goods of the same invoice in whatever order.
THEOREM GoodsWereSold == DepotSpec => []MovedWasSold
<1>1. ASSUME GoodsInv PROVE MovedWasSold
  <2>0. GoodsOK(sales, memos, transfers)
    BY <1>1 DEF GoodsInv
  <2>1. /\ \A s, i : Total(MemosOf(s, i), LAMBDA m : memos[m].quantity)
                       = Amount(memos, OfLine(memos, s, i))
        /\ \A m : Total(TransfersOf(m), LAMBDA t : transfers[t].quantity)
                    = Amount(transfers, OfMemo(transfers, m))
        /\ \A m : Delivered(m) = Amount(transfers, Gone(transfers, m))
    BY DEF Total, Amount, MemosOf, OfLine, TransfersOf, OfMemo, Gone, Delivered
  <2>2. \A s \in DOMAIN sales : \A i \in DOMAIN sales[s].lines :
          /\ sales[s].returned[i] <= sales[s].lines[i].quantity
          /\ Amount(memos, OfLine(memos, s, i)) <= sales[s].lines[i].quantity
    BY <2>0 DEF GoodsOK, SaleOK
  <2>3. \A m \in DOMAIN memos :
          /\ memos[m].allocated = Amount(transfers, OfMemo(transfers, m))
          /\ memos[m].allocated <= memos[m].quantity
          /\ memos[m].status = "TRANSFERRED"
               <=> Amount(transfers, Gone(transfers, m)) = memos[m].quantity
    BY <2>0 DEF GoodsOK, MemoOK
  <2>4. \A t \in DOMAIN transfers :
          transfers[t].status = "DELIVERED"
            <=> transfers[t].credited /\ transfers[t].sale # 0
    BY <2>0 DEF GoodsOK, TransferOK
  <2>. QED
    BY <2>1, <2>2, <2>3, <2>4 DEF MovedWasSold
<1>2. ASSUME DepotInv, GoodsInv, [DepotNext]_depotVars PROVE GoodsInv'
  BY <1>2, GoodsStep, GoodsKept DEF DepotInv, BooksInv
<1>. QED
  BY <1>1, <1>2, DepotBegin, DepotKept, GoodsBegin, PTL DEF DepotSpec
==============================================================================
