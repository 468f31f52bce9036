------------------------------ MODULE TuiProofs -------------------------------
(***************************************************************************)
(* Theorems about the dashboard: its list and its preview.                  *)
(***************************************************************************)
EXTENDS TuiList, TuiPreview, FiniteSetTheorems, TLAPS

(***************************************************************************)
(* What the dashboard does to the sessions a user points at, for any       *)
(* sessions, filters and number of fetches under way.                      *)
(***************************************************************************)
IsFetch(f) ==
  /\ f = [current |-> f.current, view |-> f.view, answered |-> f.answered, rows |-> f.rows]
  /\ f.view \in View

\* A removed session is hidden until it is no longer owed to the user, and the answer
\* that is going to be shown was read after every removal.
FetchesClean ==
  \A f \in fetches : IsFetch(f) /\ (f.current /\ f.answered => ToSet(f.rows) \cap gone = {})

GoneHidden ==
  /\ server \in [Session -> ServerLevel]
  /\ \A s \in gone \cap Session : server[s] = "hidden"

ListInv == target = pointed /\ view \in View /\ FetchesClean /\ GoneHidden

-------------------------------------------------------------------------------
\* What a fetch reads is in its view, so that it has no hidden session.
LEMMA AnswersAreClean ==
  ASSUME GoneHidden, NEW v \in View, NEW S \in Query(v), NEW r \in Sorted(S)
  PROVE  ToSet(r) \cap gone = {}
<1>1. \A s \in S : s \in Session /\ server[s] = v
  BY DEF Query
<1>2. v # "hidden"
  BY DEF View
<1>3. ToSet(r) \subseteq S
  BY DEF Sorted, SetToSeqs, ToSet
<1>4. QED
  BY <1>1, <1>2, <1>3 DEF GoneHidden

\* After the list was asked for anew, no answer is there that would be shown.
LEMMA RefreshIsClean ==
  ASSUME FetchesClean, NEW v \in View, Refresh(v)
  PROVE  \A f \in fetches' : IsFetch(f) /\ ~(f.current /\ f.answered)
<1>1. PICK late \in SUBSET {[f EXCEPT !.current = FALSE] : f \in fetches} :
        fetches' = late \cup {[current |-> TRUE, view |-> v, answered |-> FALSE, rows |-> <<>>]}
  BY DEF Refresh
<1>2. ASSUME NEW g \in late
      PROVE  IsFetch(g) /\ ~g.current
  <2>1. PICK f \in fetches : g = [f EXCEPT !.current = FALSE]
    OBVIOUS
  <2>2. IsFetch(f)
    BY DEF FetchesClean
  <2>3. QED
    BY <2>1, <2>2 DEF IsFetch
<1> DEFINE anew == [current |-> TRUE, view |-> v, answered |-> FALSE, rows |-> <<>>]
<1>3. IsFetch(anew) /\ ~anew.answered
  BY DEF IsFetch
<1> HIDE DEF anew
<1>4. fetches' = late \cup {anew}
  BY <1>1 DEF anew
<1>5. QED
  BY <1>2, <1>3, <1>4

\* A key that changes no session.
LEMMA QuietKeyKeeps ==
  ASSUME ListInv, view' \in View, target' = pointed', UNCHANGED <<server, gone>>,
         fetches' = fetches \/ \E v \in View : Refresh(v)
  PROVE  ListInv'
<1>1. CASE fetches' = fetches
  BY <1>1 DEF ListInv, FetchesClean, GoneHidden
<1>2. CASE \E v \in View : Refresh(v)
  <2>1. FetchesClean'
    BY <1>2, RefreshIsClean DEF ListInv, FetchesClean
  <2>2. QED
    BY <2>1 DEF ListInv, GoneHidden
<1>3. QED
  BY <1>1, <1>2

LEMMA KeysKeep ==
  ASSUME ListInv, Keys \/ Timer
  PROVE  ListInv'
<1>1. view \in View /\ target = pointed
  BY DEF ListInv
<1>2. CASE Timer
  BY <1>1, <1>2, QuietKeyKeeps DEF Timer, app
<1>3. CASE Move
  BY <1>1, <1>3, QuietKeyKeeps DEF Move, Quiet
<1>4. ASSUME NEW v \in View, SetView(v)
      PROVE  ListInv'
  BY <1>1, <1>4, QuietKeyKeeps DEF SetView, Quiet
<1>5. CASE Resort
  BY <1>1, <1>5, QuietKeyKeeps DEF Resort, Quiet
<1>6. CASE StartFilter \/ TypeFilter \/ EndFilter \/ ClearFilter
  BY <1>1, <1>6, QuietKeyKeeps DEF StartFilter, TypeFilter, EndFilter, ClearFilter, Quiet
<1>7. CASE ToggleIdle \/ EndIdle
  BY <1>1, <1>7, QuietKeyKeeps DEF ToggleIdle, EndIdle, Quiet
<1>8. CASE Attach
  BY <1>1, <1>8, QuietKeyKeeps DEF Attach, app
<1>9. ASSUME NEW d \in {"confirm", "memo", "message"}, OpenDialog(d)
      PROVE  ListInv'
  BY <1>1, <1>9, QuietKeyKeeps DEF OpenDialog
<1>10. CASE CloseDialog \/ SetMemo \/ SendMessage
  BY <1>1, <1>10, QuietKeyKeeps DEF CloseDialog, SetMemo, SendMessage
<1>11. CASE Resume
  <2>1. UNCHANGED <<gone, target, pointed, view>>
    BY <1>11 DEF Resume, app
  <2>2. \/ UNCHANGED <<server, fetches>>
        \/ /\ server' = [server EXCEPT ![Selected] = "hidden"]
           /\ fetches' = fetches \/ Refresh(view)
    BY <1>11 DEF Resume
  <2>3. GoneHidden'
    BY <2>1, <2>2 DEF ListInv, GoneHidden, ServerLevel
  <2>4. FetchesClean'
    BY <1>1, <2>1, <2>2, RefreshIsClean DEF ListInv, FetchesClean
  <2>5. QED
    BY <1>1, <2>1, <2>3, <2>4 DEF ListInv
<1>12. CASE Confirm
  <2>1. target' = pointed' /\ view' = view
    BY <1>12 DEF Confirm
  <2>2. \/ UNCHANGED <<server, gone, fetches>>
        \/ /\ server' = [server EXCEPT ![target] = "hidden"]
           /\ gone' = gone \cup {target} /\ Refresh(view)
    BY <1>12 DEF Confirm
  <2>3. GoneHidden'
    BY <2>2 DEF ListInv, GoneHidden, ServerLevel
  <2>4. FetchesClean'
    BY <1>1, <2>2, RefreshIsClean DEF ListInv, FetchesClean
  <2>5. QED
    BY <1>1, <2>1, <2>3, <2>4 DEF ListInv
<1>13. QED
  BY <1>2, <1>3, <1>4, <1>5, <1>6, <1>7, <1>8, <1>9, <1>10, <1>11, <1>12 DEF Keys

\* An answer arrives from its worker.
LEMMA AnswerKeeps ==
  ASSUME ListInv, NEW f \in fetches, Answer(f)
  PROVE  ListInv'
<1>1. UNCHANGED <<server, gone, target, pointed, view>>
  BY DEF Answer, app
<1>2. IsFetch(f) /\ GoneHidden /\ FetchesClean
  BY DEF ListInv, FetchesClean
<1>3. FetchesClean'
  <2>1. CASE fetches' = fetches \ {f}
    BY <1>1, <1>2, <2>1 DEF FetchesClean
  <2>2. CASE \E S \in Query(f.view) : \E r \in Sorted(S) :
               fetches' = (fetches \ {f}) \cup
                 {[current |-> f.current, view |-> f.view, answered |-> TRUE, rows |-> r]}
    <3>1. PICK S \in Query(f.view) : \E r \in Sorted(S) :
            fetches' = (fetches \ {f}) \cup
                 {[current |-> f.current, view |-> f.view, answered |-> TRUE, rows |-> r]}
      BY <2>2
    <3>2. PICK r \in Sorted(S) :
            fetches' = (fetches \ {f}) \cup
                 {[current |-> f.current, view |-> f.view, answered |-> TRUE, rows |-> r]}
      BY <3>1
    <3> DEFINE g == [current |-> f.current, view |-> f.view, answered |-> TRUE, rows |-> r]
    <3>3. f.view \in View
      BY <1>2 DEF IsFetch
    <3>4. ToSet(r) \cap gone = {}
      BY <1>2, <3>3, AnswersAreClean
    <3>5. IsFetch(g) /\ g.rows = r
      BY <3>3 DEF IsFetch
    <3> HIDE DEF g
    <3>6. fetches' = (fetches \ {f}) \cup {g}
      BY <3>2 DEF g
    <3>7. QED
      BY <1>1, <1>2, <3>4, <3>5, <3>6 DEF FetchesClean
  <2>3. QED
    BY <2>1, <2>2 DEF Answer
<1>4. QED
  BY <1>1, <1>3 DEF ListInv, GoneHidden

\* The terminal thread takes an answer; the sessions change by other hands.
LEMMA OthersKeep ==
  ASSUME ListInv,
         \/ \E f \in fetches : Handle(f)
         \/ \E s \in Session, l \in ServerLevel : World(s, l)
         \/ UNCHANGED listVars
  PROVE  ListInv'
<1>1. ASSUME NEW f \in fetches, Handle(f)
      PROVE  ListInv'
  BY <1>1 DEF Handle, ListInv, FetchesClean, GoneHidden
<1>2. ASSUME NEW s \in Session, NEW l \in ServerLevel, World(s, l)
      PROVE  ListInv'
  BY <1>2 DEF World, app, ListInv, FetchesClean, GoneHidden
<1>3. CASE UNCHANGED listVars
  BY <1>3 DEF listVars, app, ListInv, FetchesClean, GoneHidden
<1>4. QED
  BY <1>1, <1>2, <1>3

LEMMA ListInvInit ==
  ListInit => ListInv
  BY DEF ListInit, ListInv, FetchesClean, GoneHidden, IsFetch, View

LEMMA ListInvNext ==
  ListInv /\ [ListNext]_listVars => ListInv'
<1> SUFFICES ASSUME ListInv, [ListNext]_listVars PROVE ListInv'
  OBVIOUS
<1>1. CASE Keys \/ Timer
  BY <1>1, KeysKeep
<1>2. ASSUME NEW f \in fetches, Answer(f)
      PROVE  ListInv'
  BY <1>2, AnswerKeeps
<1>3. QED
  BY <1>1, <1>2, OthersKeep DEF ListNext

-------------------------------------------------------------------------------
\* The inductive invariant: a dialog acts on what was pointed at, removed sessions are
\* hidden, and an answer that will be shown has none of them.
THEOREM ListInvariant == ListSpec => []ListInv
BY ListInvInit, ListInvNext, PTL DEF ListSpec

\* `y` removes the session that `d` was pressed on, whatever happened to the list.
THEOREM RemovesWhatWasAlwaysPointedAt == ListSpec => RemovesWhatWasPointedAt
<1> DEFINE Pointed == \A s \in gone' \ gone : s = pointed
<1>1. ASSUME ListInv, ListNext
      PROVE  Pointed
  <2>1. target = pointed
    BY <1>1 DEF ListInv
  <2>2. CASE Confirm
    BY <2>1, <2>2 DEF Confirm
  <2>3. ASSUME ~Confirm
        PROVE  gone' \subseteq gone
    <3>1. CASE Keys
      BY <2>3, <3>1
      DEF Keys, Move, SetView, Resort, StartFilter, TypeFilter, EndFilter, ClearFilter,
          ToggleIdle, EndIdle, Attach, Resume, OpenDialog, CloseDialog, SetMemo,
          SendMessage, Quiet
    <3>2. CASE Timer
      BY <3>2 DEF Timer
    <3>3. ASSUME NEW f \in fetches, Answer(f) \/ Handle(f)
          PROVE  gone' \subseteq gone
      BY <3>3 DEF Answer, Handle
    <3>4. ASSUME NEW s \in Session, NEW l \in ServerLevel, World(s, l)
          PROVE  gone' \subseteq gone
      BY <3>4 DEF World
    <3>5. QED
      BY <1>1, <3>1, <3>2, <3>3, <3>4 DEF ListNext
  <2>4. QED
    BY <2>2, <2>3
<1>2. ASSUME ListInv, [ListNext]_listVars
      PROVE  [Pointed]_listVars
  BY <1>1, <1>2
<1>3. QED
  BY <1>2, ListInvariant, PTL DEF ListSpec, RemovesWhatWasPointedAt

\* No answer puts a removed row back on the screen.
THEOREM RemovedAlwaysStaysOffScreen == ListSpec => RemovedStaysOffScreen
<1> DEFINE Off == \A s \in gone \cap gone' : s \notin OnScreen => s \notin OnScreen'
<1>1. ASSUME ListInv, ListNext
      PROVE  Off
  <2>1. CASE rows' = rows
    BY <2>1 DEF OnScreen
  <2>2. CASE Resort
    <3>1. PICK q \in SetToSeqs(ToSet(rows)) : rows' = q
      BY <2>2 DEF Resort, Show
    <3>2. ToSet(q) \subseteq ToSet(rows)
      BY DEF SetToSeqs, ToSet
    <3>3. QED
      BY <3>1, <3>2 DEF OnScreen
  <2>3. ASSUME NEW f \in fetches, Handle(f)
        PROVE  Off
    <3>1. CASE f.current
      <4>1. rows' = f.rows /\ f.answered
        BY <2>3, <3>1 DEF Handle, Show
      <4>2. ToSet(f.rows) \cap gone = {}
        BY <1>1, <3>1, <4>1 DEF ListInv, FetchesClean
      <4>3. QED
        BY <4>1, <4>2 DEF OnScreen
    <3>2. CASE ~f.current
      BY <2>1, <2>3, <3>2 DEF Handle
    <3>3. QED
      BY <3>1, <3>2
  <2>4. CASE Keys /\ ~Resort
    <3>1. rows' = rows
      BY <2>4
      DEF Keys, Move, SetView, StartFilter, TypeFilter, EndFilter, ClearFilter, Show,
          ToggleIdle, EndIdle, Attach, Resume, OpenDialog, CloseDialog, Confirm, SetMemo,
          SendMessage, app
    <3>2. QED
      BY <2>1, <3>1
  <2>5. CASE Timer
    BY <2>1, <2>5 DEF Timer, app
  <2>6. ASSUME NEW f \in fetches, Answer(f)
        PROVE  Off
    BY <2>1, <2>6 DEF Answer, app
  <2>7. ASSUME NEW s \in Session, NEW l \in ServerLevel, World(s, l)
        PROVE  Off
    BY <2>1, <2>7 DEF World, app
  <2>8. QED
    BY <1>1, <2>2, <2>3, <2>4, <2>5, <2>6, <2>7 DEF ListNext
<1>2. ASSUME ListInv, [ListNext]_listVars
      PROVE  [Off]_listVars
  <2>1. CASE ListNext
    BY <1>1, <1>2, <2>1
  <2>2. QED
    BY <1>2, <2>1
<1>3. QED
  BY <1>2, ListInvariant, PTL DEF ListSpec, RemovedStaysOffScreen

-------------------------------------------------------------------------------
\* The rows of a list: sessions, each once.
IsRows(r) ==
  /\ r \in Seq(Session)
  /\ \A i, j \in DOMAIN r : r[i] = r[j] => i = j

\* A set put into any order is the rows of a list, and has as many rows as members.
LEMMA SortedAreRows ==
  ASSUME NEW S \in SUBSET Session, NEW r \in SetToSeqs(S)
  PROVE  IsRows(r) /\ ToSet(r) = S /\ Len(r) = Cardinality(S)
<1>1. IsFiniteSet(S) /\ Cardinality(S) \in Nat
  BY ListConstants, FS_Subset, FS_CardinalityType
<1> DEFINE D == 1 .. Cardinality(S)
<1>2. r \in [D -> S] /\ \A i, j \in D : i # j => r[i] # r[j]
  BY DEF SetToSeqs
<1>3. IsFiniteSet(D) /\ Cardinality(D) = Cardinality(S)
  BY <1>1, FS_Interval
<1>4. r \in Injection(D, S)
  BY <1>2 DEF Injection, IsInjective
<1>5. r \in Surjection(D, S)
  BY <1>1, <1>3, <1>4, FS_Injection
<1>6. ToSet(r) = S
  BY <1>2, <1>5 DEF ToSet, Surjection
<1>7. r \in Seq(Session) /\ Len(r) = Cardinality(S) /\ DOMAIN r = D
  BY <1>1, <1>2
<1>8. QED
  BY <1>2, <1>6, <1>7 DEF IsRows

-------------------------------------------------------------------------------
\* The matching rows are counted from one on, without gaps: no two have the same
\* rank, and every number up to how many there are is the rank of one.
LEMMA RanksCount ==
  ASSUME NEW r, IsRows(r), NEW f
  PROVE  /\ IsFiniteSet(Filtered(r, f)) /\ Cardinality(Filtered(r, f)) \in Nat
         /\ \A p \in Filtered(r, f) : Rank(r, f, p) \in 1 .. Cardinality(Filtered(r, f))
         /\ \A p, q \in Filtered(r, f) : Rank(r, f, p) = Rank(r, f, q) => p = q
         /\ \A n \in 1 .. Cardinality(Filtered(r, f)) :
              \E p \in Filtered(r, f) : Rank(r, f, p) = n
<1> DEFINE P == Filtered(r, f)
           Below(p) == {q \in P : q <= p}
           N == Cardinality(P)
<1>1. r \in Seq(Session) /\ Len(r) \in Nat /\ DOMAIN r = 1 .. Len(r)
  BY DEF IsRows
<1>2. P \subseteq 1 .. Len(r)
  BY <1>1 DEF Filtered
<1>3. IsFiniteSet(P) /\ N \in Nat
  <2>1. IsFiniteSet(1 .. Len(r))
    BY <1>1, FS_Interval
  <2> HIDE DEF P
  <2>2. IsFiniteSet(P)
    BY <1>2, <2>1, FS_Subset
  <2>3. QED
    BY <2>2, FS_CardinalityType
<1>4. \A p \in P : Rank(r, f, p) = Cardinality(Below(p))
  BY DEF Rank
<1>5. \A p \in P : /\ IsFiniteSet(Below(p)) /\ Cardinality(Below(p)) \in Nat
                   /\ Cardinality(Below(p)) <= N /\ Cardinality(Below(p)) # 0
  <2> SUFFICES ASSUME NEW p \in P
               PROVE  /\ IsFiniteSet(Below(p)) /\ Cardinality(Below(p)) \in Nat
                      /\ Cardinality(Below(p)) <= N /\ Cardinality(Below(p)) # 0
    OBVIOUS
  <2>1. Below(p) \in SUBSET P /\ p \in Below(p)
    BY <1>2
  <2> HIDE DEF P, Below
  <2>2. IsFiniteSet(Below(p)) /\ Cardinality(Below(p)) <= N
    BY <1>3, <2>1, FS_Subset
  <2>3. QED
    BY <2>1, <2>2, FS_CardinalityType, FS_EmptySet
<1>6. ASSUME NEW p \in P, NEW q \in P, p < q
      PROVE  Cardinality(Below(p)) # Cardinality(Below(q))
  <2>1. Below(p) \in SUBSET Below(q) /\ q \in Below(q) /\ q \notin Below(p)
    BY <1>2, <1>6
  <2>2. IsFiniteSet(Below(q))
    BY <1>5
  <2> HIDE DEF P, Below
  <2>3. Cardinality(Below(q)) = Cardinality(Below(p)) => Below(q) = Below(p)
    BY <2>1, <2>2, FS_Subset
  <2>4. QED
    BY <2>1, <2>3
<1>7. \A p, q \in P : Cardinality(Below(p)) = Cardinality(Below(q)) => p = q
  <2> SUFFICES ASSUME NEW p \in P, NEW q \in P, Cardinality(Below(p)) = Cardinality(Below(q))
               PROVE  p = q
    OBVIOUS
  <2>1. p \in Int /\ q \in Int
    BY <1>2
  <2>2. ~(p < q) /\ ~(q < p)
    BY <1>6
  <2>3. QED
    BY <2>1, <2>2
<1> DEFINE g == [p \in P |-> Cardinality(Below(p))]
<1> HIDE DEF P, Below, N
<1>8. \A p \in P : g[p] = Cardinality(Below(p)) /\ g[p] \in 1 .. N
  BY <1>3, <1>5
<1>9. g \in Injection(P, 1 .. N)
  BY <1>7, <1>8 DEF Injection, IsInjective
<1>10. IsFiniteSet(1 .. N) /\ Cardinality(1 .. N) = N
  BY <1>3, FS_Interval
<1>11. g \in Surjection(P, 1 .. N)
  BY <1>3, <1>9, <1>10, FS_Injection DEF N
<1>12. \A n \in 1 .. N : \E p \in P : g[p] = n
  BY <1>11 DEF Surjection
<1>13. /\ IsFiniteSet(P) /\ Cardinality(P) \in Nat
       /\ \A p \in P : Rank(r, f, p) \in 1 .. Cardinality(P)
       /\ \A p, q \in P : Rank(r, f, p) = Rank(r, f, q) => p = q
       /\ \A n \in 1 .. Cardinality(P) : \E p \in P : Rank(r, f, p) = n
  BY <1>3, <1>4, <1>7, <1>8, <1>12 DEF N
<1>14. QED
  BY <1>13 DEF P

\* An index that is in bounds, or the first, is found a row if there is any.
InBounds(r, f, n) == n = 1 \/ n \in 1 .. Cardinality(Filtered(r, f))

LEMMA UnderIsShown ==
  ASSUME NEW r, IsRows(r), NEW f, NEW n
  PROVE  /\ Under(r, f, n) \in (ToSet(r) \cap f) \cup {None}
         /\ InBounds(r, f, n) /\ Filtered(r, f) # {} => Under(r, f, n) # None
<1> DEFINE at == {p \in Filtered(r, f) : Rank(r, f, p) = n}
           p0 == CHOOSE p \in at : TRUE
<1>1. Under(r, f, n) = IF at = {} THEN None ELSE r[p0]
  BY DEF Under
<1>2. at # {} => p0 \in Filtered(r, f)
  OBVIOUS
<1>3. \A p \in Filtered(r, f) : r[p] \in ToSet(r) \cap f /\ r[p] \in Session
  BY DEF IsRows, Filtered, ToSet
<1>4. InBounds(r, f, n) /\ Filtered(r, f) # {} => at # {}
  <2> SUFFICES ASSUME InBounds(r, f, n), Filtered(r, f) # {} PROVE at # {}
    OBVIOUS
  <2>1. Cardinality(Filtered(r, f)) \in Nat /\ Cardinality(Filtered(r, f)) # 0
    BY RanksCount, FS_EmptySet
  <2>2. n \in 1 .. Cardinality(Filtered(r, f))
    BY <2>1 DEF InBounds
  <2>3. QED
    BY <2>2, RanksCount
<1> HIDE DEF at, p0
<1>5. QED
  BY <1>1, <1>2, <1>3, <1>4, ListConstants

LEMMA ClampInBounds ==
  ASSUME NEW r, IsRows(r), NEW f, NEW n \in Nat \ {0}
  PROVE  InBounds(r, f, Clamp(r, f, n))
<1>1. Cardinality(Filtered(r, f)) \in Nat
  BY RanksCount
<1>2. QED
  BY <1>1 DEF InBounds, Clamp

LEMMA RestoredInBounds ==
  ASSUME NEW r, IsRows(r), NEW f, NEW n \in Nat \ {0}, NEW keep
  PROVE  InBounds(r, f, Restored(r, f, n, keep))
<1> DEFINE at == {p \in Filtered(r, f) : r[p] = keep}
           p0 == CHOOSE p \in at : TRUE
<1>1. Restored(r, f, n, keep) = IF at = {} THEN Clamp(r, f, n) ELSE Rank(r, f, p0)
  BY DEF Restored
<1>2. at # {} => p0 \in Filtered(r, f)
  OBVIOUS
<1> HIDE DEF at, p0
<1>3. at # {} => Rank(r, f, p0) \in 1 .. Cardinality(Filtered(r, f))
  BY <1>2, RanksCount
<1>4. QED
  BY <1>1, <1>3, ClampInBounds DEF InBounds

\* restore_selection finds the session it was asked to keep, if that one is shown.
LEMMA RestoredFollows ==
  ASSUME NEW r, IsRows(r), NEW f, NEW n, NEW keep, keep \in ToSet(r) \cap f
  PROVE  Under(r, f, Restored(r, f, n, keep)) = keep
<1> DEFINE kept == {p \in Filtered(r, f) : r[p] = keep}
           p0   == CHOOSE p \in kept : TRUE
           k    == Restored(r, f, n, keep)
           at   == {p \in Filtered(r, f) : Rank(r, f, p) = k}
           p1   == CHOOSE p \in at : TRUE
<1>1. kept # {}
  BY DEF Filtered, ToSet
<1>2. p0 \in Filtered(r, f) /\ r[p0] = keep
  BY <1>1
<1>3. k = Rank(r, f, p0)
  BY <1>1 DEF Restored
<1>4. p0 \in at
  BY <1>2, <1>3
<1>5. p1 \in Filtered(r, f) /\ Rank(r, f, p1) = k
  BY <1>4
<1>6. Under(r, f, k) = r[p1]
  BY <1>4 DEF Under
<1> HIDE DEF kept, p0, k, at, p1
<1>7. p1 = p0
  BY <1>2, <1>3, <1>5, RanksCount
<1>8. QED
  BY <1>2, <1>6, <1>7 DEF k

\* What is on the screen: rows, each once, a selection in bounds and its pane.
ScreenOK ==
  /\ IsRows(rows) /\ filter \in Filters /\ source \in View
  /\ InBounds(rows, filter, selected)
  /\ pane \in Session \cup {None}

\* The dialogs.
DialogOK ==
  /\ view \in View
  /\ {target, pointed} \subseteq Session \cup {None}
  /\ input \in {"normal", "filter", "idle", "confirm", "memo", "message"}

\* The fetches under way: a bounded number, one of which at most is the current one.
FetchesOK ==
  /\ IsFiniteSet(fetches) /\ Cardinality(fetches) <= MaxStale + 1
  /\ \A f \in fetches : f.answered => IsRows(f.rows)
  /\ \A f, g \in fetches : f.current /\ g.current => f = g

ShapeInv == ScreenOK /\ DialogOK /\ FetchesOK

-------------------------------------------------------------------------------
\* Whatever index and filter a handler sets for rows it may show: the pane follows.
LEMMA ShowIsOK ==
  ASSUME NEW r, IsRows(r), NEW v \in View, NEW f \in Filters, NEW n, InBounds(r, f, n),
         Show(r, v, f, n)
  PROVE  ScreenOK'
<1>1. rows' = r /\ source' = v /\ filter' = f /\ selected' = n /\ pane' = Resolved(r, v, f, n)
  BY DEF Show
<1>2. Under(r, f, n) \in Session \cup {None}
  BY UnderIsShown DEF IsRows, ToSet
<1>3. Resolved(r, v, f, n) \in Session \cup {None}
  BY <1>2 DEF Resolved
<1>4. IsRows(rows)' /\ InBounds(rows, filter, selected)'
  BY <1>1 DEF IsRows, InBounds, Filtered
<1>5. QED
  BY <1>1, <1>3, <1>4 DEF ScreenOK

LEMMA InBoundsIsNat ==
  ASSUME NEW r, IsRows(r), NEW f, NEW n, InBounds(r, f, n)
  PROVE  n \in Nat \ {0}
<1>1. Cardinality(Filtered(r, f)) \in Nat
  BY RanksCount
<1>2. QED
  BY <1>1 DEF InBounds

LEMMA RefreshIsOK ==
  ASSUME FetchesOK, FetchesClean, NEW v \in View, Refresh(v)
  PROVE  FetchesOK'
<1> DEFINE Stale == {[f EXCEPT !.current = FALSE] : f \in fetches}
           g == [f \in fetches |-> [f EXCEPT !.current = FALSE]]
           anew == [current |-> TRUE, view |-> v, answered |-> FALSE, rows |-> <<>>]
<1>1. PICK late \in SUBSET Stale : Cardinality(late) <= MaxStale /\ fetches' = late \cup {anew}
  BY DEF Refresh
<1>2. IsFiniteSet(Stale)
  <2>1. g \in Surjection(fetches, Stale)
    BY DEF Surjection
  <2> HIDE DEF g, Stale
  <2>2. QED
    BY <2>1, FS_Surjection DEF FetchesOK
<1>3. ASSUME NEW h \in late
      PROVE  ~h.current /\ (h.answered => IsRows(h.rows))
  <2>1. PICK f \in fetches : h = [f EXCEPT !.current = FALSE]
    OBVIOUS
  <2>2. IsFetch(f) /\ (f.answered => IsRows(f.rows))
    BY DEF FetchesClean, FetchesOK
  <2>3. ~h.current /\ h.answered = f.answered /\ h.rows = f.rows
    BY <2>1, <2>2 DEF IsFetch
  <2>4. QED
    BY <2>2, <2>3
<1>4. anew.current /\ ~anew.answered
  OBVIOUS
<1> HIDE DEF Stale, anew
<1>5. IsFiniteSet(late) /\ Cardinality(late) \in Nat
  BY <1>2, FS_Subset, FS_CardinalityType
<1>6. IsFiniteSet(fetches') /\ Cardinality(fetches') <= Cardinality(late) + 1
  <2>1. /\ IsFiniteSet(late \cup {anew})
        /\ Cardinality(late \cup {anew}) =
             IF anew \in late THEN Cardinality(late) ELSE Cardinality(late) + 1
    BY <1>5, FS_AddElement
  <2>2. QED
    BY <1>1, <1>5, <2>1
<1>7. Cardinality(fetches') \in Nat /\ MaxStale \in Nat
  BY <1>6, FS_CardinalityType, ListConstants
<1>8. Cardinality(fetches') <= MaxStale + 1
  BY <1>1, <1>5, <1>6, <1>7
<1>9. QED
  BY <1>1, <1>3, <1>4, <1>6, <1>8 DEF FetchesOK

LEMMA AnswerIsOK ==
  ASSUME FetchesOK, GoneHidden, NEW f \in fetches, IsFetch(f), Answer(f)
  PROVE  FetchesOK'
<1>1. IsFiniteSet(fetches \ {f}) /\ Cardinality(fetches \ {f}) = Cardinality(fetches) - 1
      /\ Cardinality(fetches) \in Nat /\ MaxStale \in Nat
  BY FS_RemoveElement, FS_CardinalityType, ListConstants DEF FetchesOK
<1>2. CASE fetches' = fetches \ {f}
  BY <1>1, <1>2 DEF FetchesOK
<1>3. CASE \E S \in Query(f.view) : \E r \in Sorted(S) :
             fetches' = (fetches \ {f}) \cup
               {[current |-> f.current, view |-> f.view, answered |-> TRUE, rows |-> r]}
  <2>1. PICK S \in Query(f.view) : \E r \in Sorted(S) :
          fetches' = (fetches \ {f}) \cup
               {[current |-> f.current, view |-> f.view, answered |-> TRUE, rows |-> r]}
    BY <1>3
  <2>2. PICK r \in Sorted(S) :
          fetches' = (fetches \ {f}) \cup
               {[current |-> f.current, view |-> f.view, answered |-> TRUE, rows |-> r]}
    BY <2>1
  <2>3. S \in SUBSET Session
    BY DEF Query
  <2>4. IsRows(r)
    BY <2>3, SortedAreRows DEF Sorted
  <2> DEFINE g == [current |-> f.current, view |-> f.view, answered |-> TRUE, rows |-> r]
  <2>5. g.rows = r /\ g.current = f.current
    OBVIOUS
  <2> HIDE DEF g
  <2>6. fetches' = (fetches \ {f}) \cup {g}
    BY <2>2 DEF g
  <2>7. IsFiniteSet(fetches') /\ Cardinality(fetches') <= Cardinality(fetches)
    BY <1>1, <2>6, FS_AddElement
  <2>8. Cardinality(fetches') \in Nat
    BY <2>7, FS_CardinalityType
  <2>9. Cardinality(fetches') <= MaxStale + 1
    BY <1>1, <2>7, <2>8 DEF FetchesOK
  <2>10. QED
    BY <2>4, <2>5, <2>6, <2>7, <2>9 DEF FetchesOK
<1>4. QED
  BY <1>2, <1>3 DEF Answer

-------------------------------------------------------------------------------
\* The handlers, one by one.
LEMMA ScreenStays ==
  ASSUME ScreenOK, UNCHANGED <<rows, source, filter, selected, pane>>
  PROVE  ScreenOK'
BY DEF ScreenOK, IsRows, InBounds, Filtered

\* Most keys leave the list of fetches alone or ask for a new one.
LEMMA FetchesStay ==
  ASSUME FetchesOK, FetchesClean,
         fetches' = fetches \/ \E v \in View : Refresh(v)
  PROVE  FetchesOK'
<1>1. CASE fetches' = fetches
  BY <1>1 DEF FetchesOK
<1>2. CASE \E v \in View : Refresh(v)
  BY <1>2, RefreshIsOK
<1>3. QED
  BY <1>1, <1>2

LEMMA SelectedIsSession ==
  ASSUME ScreenOK
  PROVE  Selected \in Session \cup {None}
BY UnderIsShown DEF ScreenOK, Selected, IsRows, ToSet

\* Keys that move the cursor or change what is shown.
LEMMA MovesKeepScreen ==
  ASSUME ScreenOK, Move \/ Resort \/ TypeFilter \/ ClearFilter
  PROVE  ScreenOK'
<1>1. IsRows(rows) /\ filter \in Filters /\ source \in View /\ selected \in Nat \ {0}
  BY InBoundsIsNat DEF ScreenOK
<1>2. Session \in Filters
  BY ListConstants
<1>3. CASE Move
  <2>1. PICK n \in {Clamp(rows, filter, selected + 1),
                    IF selected = 1 THEN 1 ELSE selected - 1} : Show(rows, source, filter, n)
    BY <1>3 DEF Move
  <2>2. InBounds(rows, filter, Clamp(rows, filter, selected + 1))
    BY <1>1, ClampInBounds
  <2>3. Cardinality(Filtered(rows, filter)) \in Nat
    BY <1>1, RanksCount
  <2>4. InBounds(rows, filter, IF selected = 1 THEN 1 ELSE selected - 1)
    BY <1>1, <2>3 DEF ScreenOK, InBounds
  <2>5. QED
    BY <1>1, <2>1, <2>2, <2>4, ShowIsOK
<1>4. CASE Resort
  <2>1. PICK q \in SetToSeqs(ToSet(rows)) :
          Show(q, source, filter, Restored(q, filter, selected, Selected))
    BY <1>4 DEF Resort
  <2>2. ToSet(rows) \in SUBSET Session
    BY <1>1 DEF IsRows, ToSet
  <2>3. IsRows(q)
    BY <2>2, SortedAreRows
  <2>4. QED
    BY <1>1, <2>1, <2>3, RestoredInBounds, ShowIsOK
<1>5. CASE TypeFilter
  <2>1. PICK f \in Filters : Show(rows, source, f, 1)
    BY <1>5 DEF TypeFilter
  <2>2. InBounds(rows, f, 1)
    BY DEF InBounds
  <2>3. QED
    BY <1>1, <2>1, <2>2, ShowIsOK
<1>6. CASE ClearFilter
  BY <1>1, <1>2, <1>6, ClampInBounds, ShowIsOK DEF ClearFilter
<1>7. QED
  BY <1>3, <1>4, <1>5, <1>6

LEMMA KeysKeepShape ==
  ASSUME ShapeInv, ListInv, Keys \/ Timer
  PROVE  ShapeInv'
<1>1. ScreenOK /\ DialogOK /\ FetchesOK /\ FetchesClean /\ view \in View
  BY DEF ShapeInv, ListInv
<1>2. ScreenOK'
  <2>1. CASE Move \/ Resort \/ TypeFilter \/ ClearFilter
    BY <1>1, <2>1, MovesKeepScreen
  <2>2. ASSUME NEW v \in View, SetView(v)
        PROVE  ScreenOK'
    <3>1. selected' = 1 /\ UNCHANGED <<rows, source, filter, pane>>
      BY <2>2 DEF SetView
    <3>2. QED
      BY <1>1, <3>1 DEF ScreenOK, IsRows, InBounds
  <2>3. CASE UNCHANGED <<rows, source, filter, selected, pane>>
    BY <1>1, <2>3, ScreenStays
  <2>4. QED
    BY <2>1, <2>2, <2>3
    DEF Keys, Timer, StartFilter, EndFilter, ToggleIdle, EndIdle, Attach, Resume, OpenDialog,
        CloseDialog, Confirm, SetMemo, SendMessage, app
<1>3. FetchesOK'
  <2>1. fetches' = fetches \/ \E v \in View : Refresh(v)
    BY <1>1
    DEF Keys, Timer, Move, SetView, Resort, StartFilter, TypeFilter, EndFilter, ClearFilter,
        ToggleIdle, EndIdle, Attach, Resume, OpenDialog, CloseDialog, Confirm, SetMemo,
        SendMessage
  <2>2. QED
    BY <1>1, <2>1, FetchesStay
<1>4. DialogOK'
  <2>1. Selected \in Session \cup {None}
    BY <1>1, SelectedIsSession
  <2>2. CASE Move \/ Resort \/ StartFilter \/ TypeFilter \/ EndFilter \/ ClearFilter
             \/ ToggleIdle \/ EndIdle
    BY <1>1, <2>2
    DEF Move, Resort, StartFilter, TypeFilter, EndFilter, ClearFilter, ToggleIdle, EndIdle,
        Quiet, DialogOK
  <2>3. ASSUME NEW v \in View, SetView(v)
        PROVE  DialogOK'
    BY <1>1, <2>3 DEF SetView, Quiet, DialogOK
  <2>4. ASSUME NEW d \in {"confirm", "memo", "message"}, OpenDialog(d)
        PROVE  DialogOK'
    BY <1>1, <2>1, <2>4 DEF OpenDialog, DialogOK
  <2>5. CASE Attach \/ Resume \/ Timer
    BY <1>1, <2>5 DEF Attach, Resume, Timer, app, DialogOK
  <2>6. CASE CloseDialog \/ Confirm \/ SetMemo \/ SendMessage
    BY <1>1, <2>6 DEF CloseDialog, Confirm, SetMemo, SendMessage, DialogOK
  <2>7. QED
    BY <2>2, <2>3, <2>4, <2>5, <2>6 DEF Keys
<1>5. QED
  BY <1>2, <1>3, <1>4 DEF ShapeInv

LEMMA HandleKeepsShape ==
  ASSUME ShapeInv, ListInv, NEW f \in fetches, Handle(f)
  PROVE  ShapeInv'
<1>1. ScreenOK /\ DialogOK /\ FetchesOK
  BY DEF ShapeInv
<1>2. f.answered /\ IsRows(f.rows) /\ f.view \in View
  BY DEF Handle, ShapeInv, FetchesOK, ListInv, FetchesClean, IsFetch
<1>3. IsRows(rows) /\ filter \in Filters /\ selected \in Nat \ {0}
  BY <1>1, InBoundsIsNat DEF ScreenOK
<1>4. ScreenOK'
  <2>1. CASE f.current
    BY <1>2, <1>3, <2>1, RestoredInBounds, ShowIsOK DEF Handle
  <2>2. CASE ~f.current
    BY <1>1, <2>2, ScreenStays DEF Handle
  <2>3. QED
    BY <2>1, <2>2
<1>5. FetchesOK'
  <2>1. fetches' = fetches \ {f}
    BY DEF Handle
  <2>2. /\ IsFiniteSet(fetches \ {f}) /\ Cardinality(fetches \ {f}) = Cardinality(fetches) - 1
        /\ Cardinality(fetches) \in Nat /\ MaxStale \in Nat
    BY <1>1, FS_RemoveElement, FS_CardinalityType, ListConstants DEF FetchesOK
  <2>3. QED
    BY <1>1, <2>1, <2>2 DEF FetchesOK
<1>6. DialogOK'
  BY <1>1 DEF Handle, DialogOK
<1>7. QED
  BY <1>4, <1>5, <1>6 DEF ShapeInv

LEMMA ShapeInvInit ==
  ListInit => ShapeInv
<1> SUFFICES ASSUME ListInit PROVE ShapeInv
  OBVIOUS
<1>1. rows = <<>> /\ selected = 1 /\ pane = None /\ filter = Session /\ source = "active"
  BY DEF ListInit
<1>2. ScreenOK
  BY <1>1, ListConstants DEF ScreenOK, IsRows, InBounds, View
<1>3. DialogOK
  BY DEF ListInit, DialogOK, View
<1>4. FetchesOK
  <2> DEFINE q == [current |-> TRUE, view |-> "active", answered |-> FALSE, rows |-> <<>>]
  <2>1. fetches = {q} /\ ~q.answered
    BY DEF ListInit
  <2> HIDE DEF q
  <2>2. IsFiniteSet(fetches) /\ Cardinality(fetches) = 1
    BY <2>1, FS_Singleton
  <2>3. QED
    BY <2>1, <2>2, ListConstants DEF FetchesOK
<1>5. QED
  BY <1>2, <1>3, <1>4 DEF ShapeInv

LEMMA ShapeInvNext ==
  ShapeInv /\ ListInv /\ [ListNext]_listVars => ShapeInv'
<1> SUFFICES ASSUME ShapeInv, ListInv, [ListNext]_listVars PROVE ShapeInv'
  OBVIOUS
<1>1. CASE Keys \/ Timer
  BY <1>1, KeysKeepShape
<1>2. ASSUME NEW f \in fetches, Answer(f)
      PROVE  ShapeInv'
  <2>1. FetchesOK'
    BY <1>2, AnswerIsOK DEF ShapeInv, ListInv, FetchesClean
  <2>2. ScreenOK' /\ DialogOK'
    BY <1>2, ScreenStays DEF Answer, app, ShapeInv, DialogOK
  <2>3. QED
    BY <2>1, <2>2 DEF ShapeInv
<1>3. ASSUME NEW f \in fetches, Handle(f)
      PROVE  ShapeInv'
  BY <1>3, HandleKeepsShape
<1>4. CASE UNCHANGED <<app, fetches, source, pointed>>
  <2>1. ScreenOK' /\ DialogOK'
    BY <1>4, ScreenStays DEF app, ShapeInv, DialogOK
  <2>2. FetchesOK'
    BY <1>4 DEF FetchesOK, ShapeInv
  <2>3. QED
    BY <2>1, <2>2 DEF ShapeInv
<1>5. ASSUME NEW s \in Session, NEW l \in ServerLevel, World(s, l)
      PROVE  UNCHANGED <<app, fetches, source, pointed>>
  BY <1>5 DEF World
<1>6. QED
  BY <1>1, <1>2, <1>3, <1>4, <1>5 DEF ListNext, listVars

THEOREM ListShape == ListSpec => []ShapeInv
<1>1. ListInit => ListInv /\ ShapeInv
  BY ListInvInit, ShapeInvInit
<1>2. ListInv /\ ShapeInv /\ [ListNext]_listVars => (ListInv /\ ShapeInv)'
  BY ListInvNext, ShapeInvNext
<1>3. QED
  BY <1>1, <1>2, PTL DEF ListSpec

\* The shape of the state; and while any row is shown one of them is selected.
THEOREM ListAlwaysTypeOK == ListSpec => []ListTypeOK
<1>1. ListInv /\ ShapeInv => ListTypeOK
  <2> SUFFICES ASSUME ListInv, ShapeInv PROVE ListTypeOK
    OBVIOUS
  <2>1. IsRows(rows) /\ filter \in Filters /\ InBounds(rows, filter, selected)
    BY DEF ShapeInv, ScreenOK
  <2>2. Len(rows) = Cardinality(OnScreen) /\ OnScreen \subseteq Session
    <3>1. DOMAIN rows = 1 .. Len(rows) /\ Len(rows) \in Nat /\ OnScreen \subseteq Session
      BY <2>1 DEF IsRows, OnScreen, ToSet
    <3>2. rows \in Surjection(1 .. Len(rows), OnScreen)
      BY <2>1, <3>1 DEF IsRows, OnScreen, ToSet, Surjection
    <3>3. rows \in Injection(1 .. Len(rows), OnScreen)
      BY <2>1, <3>1, <3>2 DEF IsRows, Injection, Surjection, IsInjective
    <3>4. ExistsBijection(1 .. Len(rows), OnScreen)
      BY <3>2, <3>3 DEF ExistsBijection, Bijection
    <3>5. QED
      BY <3>1, <3>4, FS_CountingElements
  <2>3. Cardinality(Filtered(rows, filter)) = Cardinality(Visible)
    <3> DEFINE P == Filtered(rows, filter)
               g == [p \in P |-> rows[p]]
    <3>1. g \in Surjection(P, Visible)
      BY <2>1 DEF Filtered, Visible, OnScreen, ToSet, Surjection
    <3>2. g \in Injection(P, Visible)
      BY <2>1, <3>1 DEF IsRows, Filtered, Surjection, Injection, IsInjective
    <3> HIDE DEF P, g
    <3>3. ExistsBijection(P, Visible)
      BY <3>1, <3>2 DEF ExistsBijection, Bijection
    <3>4. QED
      BY <2>1, <3>3, RanksCount, FS_Bijection DEF P
  <2>4. Visible # {} => Selected # None
    <3>1. Visible # {} => Filtered(rows, filter) # {}
      BY DEF Visible, OnScreen, ToSet, Filtered
    <3>2. QED
      BY <2>1, <3>1, UnderIsShown DEF Selected
  <2>5. Cardinality({f \in fetches : f.current}) <= 1
    <3> DEFINE C == {f \in fetches : f.current}
    <3>1. CASE C = {}
      BY <3>1, FS_EmptySet
    <3>2. CASE C # {}
      <4>1. PICK c : c \in C
        BY <3>2
      <4>2. C = {c}
        BY <4>1 DEF ShapeInv, FetchesOK
      <4>3. Cardinality(C) = 1
        BY <4>2, FS_Singleton
      <4>4. QED
        BY <4>3
    <3>3. QED
      BY <3>1, <3>2
  <2>6. selected = 1 \/ selected \in 1 .. Cardinality(Visible)
    BY <2>1, <2>3 DEF InBounds
  <2>7. QED
    BY <2>1, <2>2, <2>4, <2>5, <2>6
    DEF ListTypeOK, ListInv, GoneHidden, ShapeInv, ScreenOK, DialogOK, FetchesOK
<1>2. QED
  BY <1>1, ListInvariant, ListShape, PTL

\* The cursor stays on its session while that one is shown.
THEOREM SelectionAlwaysFollows == ListSpec => SelectionFollows
<1> DEFINE Follows == rows' # rows => Selected' = Selected \/ Selected \notin Visible'
<1>1. ASSUME ShapeInv, ListInv, ListNext
      PROVE  Follows
  <2>1. CASE rows' = rows
    BY <2>1
  <2>2. ASSUME NEW r, IsRows(r), rows' = r, filter' = filter,
               selected' = Restored(r, filter, selected, Selected)
        PROVE  Follows
    <3>1. Visible' = ToSet(r) \cap filter
      BY <2>2 DEF Visible, OnScreen
    <3>2. Selected' = Under(r, filter, Restored(r, filter, selected, Selected))
      BY <2>2 DEF Selected
    <3>3. QED
      BY <2>2, <3>1, <3>2, RestoredFollows
  <2>3. CASE Resort
    <3>1. PICK q \in SetToSeqs(ToSet(rows)) :
            Show(q, source, filter, Restored(q, filter, selected, Selected))
      BY <2>3 DEF Resort
    <3>2. ToSet(rows) \in SUBSET Session
      BY <1>1 DEF ShapeInv, ScreenOK, IsRows, ToSet
    <3>3. IsRows(q)
      BY <3>2, SortedAreRows
    <3>4. QED
      BY <2>2, <3>1, <3>3 DEF Show
  <2>4. ASSUME NEW f \in fetches, Handle(f)
        PROVE  Follows
    <3>1. CASE f.current
      <4>1. IsRows(f.rows)
        BY <1>1, <2>4 DEF Handle, ShapeInv, FetchesOK
      <4>2. Show(f.rows, f.view, filter, Restored(f.rows, filter, selected, Selected))
        BY <2>4, <3>1 DEF Handle
      <4>3. QED
        BY <2>2, <4>1, <4>2 DEF Show
    <3>2. CASE ~f.current
      BY <2>1, <2>4, <3>2 DEF Handle
    <3>3. QED
      BY <3>1, <3>2
  <2>5. CASE Keys /\ ~Resort
    <3>1. rows' = rows
      BY <2>5
      DEF Keys, Move, SetView, StartFilter, TypeFilter, EndFilter, ClearFilter, Show,
          ToggleIdle, EndIdle, Attach, Resume, OpenDialog, CloseDialog, Confirm, SetMemo,
          SendMessage, app
    <3>2. QED
      BY <2>1, <3>1
  <2>6. CASE Timer
    BY <2>1, <2>6 DEF Timer, app
  <2>7. ASSUME NEW f \in fetches, Answer(f)
        PROVE  Follows
    BY <2>1, <2>7 DEF Answer, app
  <2>8. ASSUME NEW s \in Session, NEW l \in ServerLevel, World(s, l)
        PROVE  Follows
    BY <2>1, <2>8 DEF World, app
  <2>9. QED
    BY <1>1, <2>3, <2>4, <2>5, <2>6, <2>7, <2>8 DEF ListNext
<1>2. ASSUME ShapeInv, ListInv, [ListNext]_listVars
      PROVE  [Follows]_listVars
  <2>1. CASE ListNext
    BY <1>1, <1>2, <2>1
  <2>2. QED
    BY <1>2, <2>1
<1>3. QED
  BY <1>2, ListInvariant, ListShape, PTL DEF ListSpec, SelectionFollows

-------------------------------------------------------------------------------
(***************************************************************************)
(* The preview shows the selected session, waits only for answers that     *)
(* come, and never goes back to an older one: for any number of logs,      *)
(* panes and fetches, and caches of any size.                              *)
(***************************************************************************)
Contents == [of : Log \cup Pane, details : BOOLEAN, gen : Nat]
Asks     == [gen : Nat \ {0}, of : Log \cup Pane, details : BOOLEAN, done : BOOLEAN,
             content : Contents \cup {Nothing}]

\* Content that was fetched for one of some keys, not later than the last ask.
KeyedBy(cache, keys) ==
  /\ DOMAIN cache \subseteq keys
  /\ \A k \in DOMAIN cache :
       cache[k] \in Contents /\ cache[k].of = k /\ cache[k].gen <= asked

\* An answer is the content that was asked for, or that of a pane that is gone.
Answers(f) ==
  f.done => \/ f.content = Content(f.of, f.details, f.gen)
            \/ f.of \notin Log /\ f.content = Nothing

PreviewType ==
  /\ chosen \in Choice /\ details \in BOOLEAN
  /\ asked \in Nat /\ inFlight \in {0, asked}
  /\ \A f \in asks : f \in Asks /\ f.gen <= asked /\ Answers(f)
  /\ KeyedBy(paneCache, Pane) /\ KeyedBy(logCache, Log)
  /\ shown # Nothing => shown \in Contents /\ shown.gen <= asked
  /\ reader # Nothing => reader \in [of : Log, gen : Nat] /\ reader.gen <= asked

PreviewInv == PreviewType /\ PreviewIsOfSelected /\ InFlightIsOutstanding

-------------------------------------------------------------------------------
\* A log is read only of a session that no pane shows.
LEMMA ChoiceFacts ==
  ASSUME NEW t \in Choice
  PROVE  /\ t.pane \in Pane \cup {Nothing} /\ t.shows \in BOOLEAN
         /\ t.log \in Log \cup {Nothing}
         /\ t.shows => t.pane \in Pane /\ t.log = Nothing
  BY DEF Choice

\* What the caches give for a selection is that selection's.
LEMMA CachedFacts ==
  ASSUME PreviewType, NEW t \in Choice
  PROVE  /\ CachedPane(t) # Nothing =>
              /\ CachedPane(t) \in Contents /\ CachedPane(t).gen <= asked
              /\ t.shows /\ CachedPane(t).of = t.pane
         /\ CachedLog(t) # Nothing =>
              /\ CachedLog(t) \in Contents /\ CachedLog(t).gen <= asked
              /\ CachedLog(t).of = t.log /\ CachedLog(t).details = details
  BY DEF PreviewType, CachedPane, CachedLog, KeyedBy

\* A new entry takes its place in a cache of the same keys.
LEMMA CachedKeyed ==
  ASSUME NEW cache, NEW keys, KeyedBy(cache, keys),
         NEW k \in keys, NEW v \in Contents, v.of = k, v.gen <= asked
  PROVE  KeyedBy(Cached(cache, k, v), keys)
  BY DEF KeyedBy, Cached

\* The selection moves, or resolves to something else.
LEMMA SelectKeeps ==
  ASSUME PreviewInv, NEW t \in Choice, UpdateSelection(t),
         UNCHANGED <<details, asked, asks, paneCache, logCache>>
  PROVE  PreviewInv'
<1> USE DEF PreviewInv
<1>1. /\ t.log \in Log \cup {Nothing} /\ chosen \in Choice
      /\ t.shows => t.pane \in Pane /\ t.log = Nothing
      /\ chosen.shows => chosen.log = Nothing
  BY ChoiceFacts DEF PreviewType
<1>2. inFlight' \in {0, inFlight}
  BY DEF UpdateSelection
<1>3. \/ shown' = CachedPane(t) /\ t.log = Nothing
      \/ shown' = CachedLog(t) /\ t.log # Nothing
      \/ shown' = shown /\ t.log = chosen.log /\ t.log # Nothing
  BY DEF UpdateSelection
<1>4. \/ reader' = Nothing
      \/ reader' = reader /\ t.log = chosen.log
  BY DEF UpdateSelection
<1>5. chosen' = t
  BY DEF UpdateSelection
<1>6. PreviewType'
  <2>1. shown' # Nothing => shown' \in Contents /\ shown'.gen <= asked
    BY <1>3, CachedFacts DEF PreviewType
  <2>2. reader' # Nothing => reader' \in [of : Log, gen : Nat] /\ reader'.gen <= asked
    BY <1>4 DEF PreviewType
  <2>3. QED
    BY <1>2, <1>5, <2>1, <2>2 DEF PreviewType, KeyedBy, Answers
<1>7. PreviewIsOfSelected'
  <2>1. CASE shown' = CachedPane(t) /\ t.log = Nothing
    BY <1>4, <1>5, <2>1, CachedFacts DEF PreviewIsOfSelected
  <2>2. CASE shown' = CachedLog(t) /\ t.log # Nothing
    BY <1>4, <1>5, <2>2, CachedFacts DEF PreviewIsOfSelected
  <2>3. CASE shown' = shown /\ t.log = chosen.log /\ t.log # Nothing
    BY <1>1, <1>4, <1>5, <2>3 DEF PreviewIsOfSelected
  <2>4. QED
    BY <1>3, <2>1, <2>2, <2>3
<1>8. InFlightIsOutstanding'
  BY <1>2 DEF InFlightIsOutstanding
<1>9. QED
  BY <1>6, <1>7, <1>8

\* What is asked for is the newest ask.
LEMMA FetchKeeps ==
  ASSUME PreviewInv, NextFetch
  PROVE  PreviewInv'
<1> USE DEF PreviewInv
<1> DEFINE s == IF chosen.log # Nothing THEN chosen.log ELSE chosen.pane
           f == [gen |-> asked + 1, of |-> s, details |-> details, done |-> FALSE,
                 content |-> Nothing]
<1>1. UNCHANGED <<chosen, details, shown, paneCache, logCache>> /\ asked \in Nat
  BY DEF NextFetch, PreviewType
<1>2. CASE UNCHANGED <<asked, inFlight, asks, reader>>
  BY <1>1, <1>2 DEF PreviewType, PreviewIsOfSelected, InFlightIsOutstanding, KeyedBy, Answers
<1>3. CASE HasPreview(chosen)
  <2>1. /\ asked' = asked + 1 /\ inFlight' = asked' /\ asks' = asks \cup {f}
        /\ reader' \in {Nothing, reader}
    BY <1>3 DEF NextFetch
  <2>2. s \in Log \cup Pane
    BY <1>3, ChoiceFacts DEF PreviewType, HasPreview
  <2>3. f \in Asks /\ f.gen = asked' /\ Answers(f)
    BY <1>1, <2>1, <2>2 DEF Asks, Answers, PreviewType
  <2> HIDE DEF f, s
  <2>4. /\ \A g \in asks' : g \in Asks /\ g.gen <= asked' /\ Answers(g)
        /\ \A g \in asks : g.gen <= asked
    <3>1. \A g \in asks : g \in Asks /\ g.gen <= asked /\ Answers(g) /\ g.gen \in Nat
      BY DEF PreviewType, Asks
    <3>2. \A g \in asks : g.gen <= asked'
      BY <1>1, <2>1, <3>1
    <3>3. f.gen <= asked'
      BY <1>1, <2>1, <2>3
    <3>4. QED
      BY <2>1, <2>3, <3>1, <3>2, <3>3
  <2>5. KeyedBy(paneCache, Pane)' /\ KeyedBy(logCache, Log)'
    BY <1>1, <2>1 DEF PreviewType, KeyedBy, Contents
  <2>6. PreviewType'
    BY <1>1, <2>1, <2>4, <2>5 DEF PreviewType, Contents
  <2>7. PreviewIsOfSelected'
    BY <1>1, <2>1 DEF PreviewIsOfSelected
  <2>8. InFlightIsOutstanding'
    BY <2>1, <2>3 DEF InFlightIsOutstanding
  <2>9. QED
    BY <2>6, <2>7, <2>8
<1>4. QED
  BY <1>2, <1>3 DEF NextFetch

\* A worker's answer takes the place of its ask.
LEMMA WorkKeeps ==
  ASSUME PreviewInv, NEW f \in asks, Work(f)
  PROVE  PreviewInv'
<1> USE DEF PreviewInv
<1>1. PICK c \in {Content(f.of, f.details, f.gen)} \cup
                  (IF f.of \in Pane THEN {Nothing} ELSE {}) :
        asks' = (asks \ {f}) \cup {[f EXCEPT !.done = TRUE, !.content = c]}
  BY DEF Work
<1> DEFINE g == [f EXCEPT !.done = TRUE, !.content = c]
<1>2. UNCHANGED <<chosen, details, shown, reader, inFlight, asked, paneCache, logCache>>
  BY DEF Work
<1>3. f \in Asks /\ f.gen <= asked
  BY DEF PreviewType
<1>4. c \in Contents \cup {Nothing}
  BY <1>3 DEF Asks, Content, Contents
<1>5. g \in Asks /\ g.gen = f.gen /\ g.of = f.of /\ g.details = f.details /\ g.content = c
  BY <1>3, <1>4 DEF Asks
<1>6. Answers(g)
  BY <1>1, <1>5, PreviewConstants DEF Answers
<1> HIDE DEF g
<1>7. asks' = (asks \ {f}) \cup {g}
  BY <1>1 DEF g
<1>8. PreviewType'
  BY <1>2, <1>3, <1>5, <1>6, <1>7 DEF PreviewType, KeyedBy, Answers
<1>9. PreviewIsOfSelected'
  BY <1>2 DEF PreviewIsOfSelected
<1>10. InFlightIsOutstanding'
  BY <1>2, <1>5, <1>7 DEF InFlightIsOutstanding
<1>11. QED
  BY <1>8, <1>9, <1>10

\* The answer that is waited for is the one that is taken off.
LEMMA TakenOff ==
  ASSUME PreviewInv, NEW f \in asks, asks' = asks \ {f},
         inFlight' = IF inFlight = f.gen THEN 0 ELSE inFlight
  PROVE  InFlightIsOutstanding'
  BY DEF PreviewInv, InFlightIsOutstanding

\* A log's answer goes to its cache, and to the screen if it is waited for.
LEMMA HandleLogKeeps ==
  ASSUME PreviewInv, NEW f \in asks, HandleLog(f)
  PROVE  PreviewInv'
<1> USE DEF PreviewInv
<1>1. /\ f.of \in Log /\ f.done /\ f \in Asks /\ f.gen <= asked /\ Answers(f)
      /\ UNCHANGED <<chosen, details, asked, paneCache>>
      /\ asks' = asks \ {f}
      /\ inFlight' = IF inFlight = f.gen THEN 0 ELSE inFlight
  BY DEF HandleLog, PreviewType
<1>2. /\ f.content = Content(f.of, f.details, f.gen) /\ f.content \in Contents
      /\ f.content.of = f.of /\ f.content.details = f.details /\ f.content.gen = f.gen
  BY <1>1 DEF Answers, Asks, Content, Contents
<1>3. KeyedBy(logCache, Log)'
  <2>1. KeyedBy(Cached(logCache, f.of, f.content), Log)
    BY <1>1, <1>2, CachedKeyed DEF PreviewType
  <2>2. logCache' \in {logCache, Cached(logCache, f.of, f.content)}
    BY DEF HandleLog
  <2>3. QED
    BY <1>1, <2>1, <2>2 DEF PreviewType, KeyedBy
<1>4. \/ reader' = reader
      \/ /\ chosen.log = f.of
         /\ reader' = ReaderOf(f)
  BY DEF HandleLog
<1>5. \/ shown' = shown
      \/ /\ chosen.log = f.of /\ f.details = details
         /\ shown' = f.content
  BY DEF HandleLog
<1>6. ReaderOf(f) \in [of : Log, gen : Nat] /\ ReaderOf(f).of = f.of /\ ReaderOf(f).gen <= asked
  BY <1>1 DEF ReaderOf, Asks
<1>7. PreviewType'
  BY <1>1, <1>2, <1>3, <1>4, <1>5, <1>6 DEF PreviewType, KeyedBy, Answers
<1>8. PreviewIsOfSelected'
  BY <1>1, <1>2, <1>4, <1>5, <1>6 DEF PreviewIsOfSelected
<1>9. QED
  BY <1>1, <1>7, <1>8, TakenOff

\* A pane's answer likewise, if it is waited for.
LEMMA HandlePaneKeeps ==
  ASSUME PreviewInv, NEW f \in asks, HandlePane(f)
  PROVE  PreviewInv'
<1> USE DEF PreviewInv
<1>1. /\ f.of \in Pane /\ f.done /\ f \in Asks /\ f.gen <= asked /\ Answers(f)
      /\ UNCHANGED <<chosen, details, reader, asked, logCache>>
      /\ asks' = asks \ {f}
      /\ inFlight' = IF inFlight = f.gen THEN 0 ELSE inFlight
  BY DEF HandlePane, PreviewType
<1>2. CASE UNCHANGED <<paneCache, shown>>
  <2>1. PreviewType'
    BY <1>1, <1>2 DEF PreviewType, KeyedBy, Answers
  <2>2. PreviewIsOfSelected'
    BY <1>1, <1>2 DEF PreviewIsOfSelected
  <2>3. QED
    BY <1>1, <2>1, <2>2, TakenOff
<1>3. CASE /\ f.content # Nothing
           /\ paneCache' = Cached(paneCache, f.of, f.content)
           /\ shown' = IF chosen.shows /\ chosen.pane = f.of THEN f.content ELSE shown
  <2>1. f.content \in Contents /\ f.content.of = f.of /\ f.content.gen = f.gen
    BY <1>1, <1>3 DEF Answers, Asks, Content, Contents
  <2>2. KeyedBy(paneCache, Pane)'
    <3>1. KeyedBy(Cached(paneCache, f.of, f.content), Pane)
      BY <1>1, <2>1, CachedKeyed DEF PreviewType
    <3>2. QED
      BY <1>1, <1>3, <3>1 DEF KeyedBy
  <2>3. PreviewType'
    BY <1>1, <1>3, <2>1, <2>2 DEF PreviewType, KeyedBy, Answers
  <2>4. PreviewIsOfSelected'
    BY <1>1, <1>3, <2>1 DEF PreviewIsOfSelected
  <2>5. QED
    BY <1>1, <2>3, <2>4, TakenOff
<1>4. QED
  BY <1>2, <1>3 DEF HandlePane

\* The other style is rendered from what the selected log's reader has.
LEMMA ToggleKeeps ==
  ASSUME PreviewInv, ToggleDetails
  PROVE  PreviewInv'
<1> USE DEF PreviewInv
<1>1. /\ details' = ~details /\ logCache' = <<>>
      /\ UNCHANGED <<chosen, reader, inFlight, asked, asks, paneCache>>
  BY DEF ToggleDetails
<1>2. KeyedBy(logCache, Log)'
  BY <1>1 DEF KeyedBy
<1>3. CASE chosen.log # Nothing /\ reader # Nothing
  <2>1. shown' = Content(reader.of, details', reader.gen)
    BY <1>1, <1>3 DEF ToggleDetails
  <2>2. /\ reader.of = chosen.log /\ reader.of \in Log /\ reader.gen \in Nat
        /\ reader.gen <= asked /\ details' \in BOOLEAN
    BY <1>1, <1>3 DEF PreviewIsOfSelected, PreviewType
  <2>3. /\ shown' \in Contents /\ shown'.of = chosen.log
        /\ shown'.details = details' /\ shown'.gen = reader.gen
    BY <2>1, <2>2 DEF Content, Contents
  <2>4. PreviewType'
    BY <1>1, <1>2, <2>2, <2>3 DEF PreviewType, KeyedBy, Answers
  <2>5. PreviewIsOfSelected'
    BY <1>1, <2>2, <2>3 DEF PreviewIsOfSelected
  <2>6. QED
    BY <1>1, <2>4, <2>5 DEF InFlightIsOutstanding
<1>4. CASE chosen.log # Nothing /\ reader = Nothing
  <2>1. shown' = Nothing
    BY <1>4 DEF ToggleDetails
  <2>2. PreviewType'
    BY <1>1, <1>2, <2>1 DEF PreviewType, KeyedBy, Answers
  <2>3. QED
    BY <1>1, <1>4, <2>1, <2>2 DEF PreviewIsOfSelected, InFlightIsOutstanding
<1>5. CASE chosen.log = Nothing
  <2>1. shown' = shown
    BY <1>5 DEF ToggleDetails
  <2>2. PreviewType'
    BY <1>1, <1>2, <2>1 DEF PreviewType, KeyedBy, Answers
  <2>3. shown # Nothing => shown.of # chosen.log
    BY <1>5, PreviewConstants DEF PreviewType, Contents
  <2>4. PreviewIsOfSelected'
    BY <1>1, <2>1, <2>3 DEF PreviewIsOfSelected
  <2>5. QED
    BY <1>1, <2>2, <2>4 DEF InFlightIsOutstanding
<1>6. QED
  BY <1>3, <1>4, <1>5

LEMMA PreviewInvInit ==
  PreviewInit => PreviewInv
<1> SUFFICES ASSUME PreviewInit PROVE PreviewInv
  OBVIOUS
<1>1. chosen \in Choice
  BY DEF PreviewInit, Choice
<1>2. KeyedBy(paneCache, Pane) /\ KeyedBy(logCache, Log)
  BY DEF PreviewInit, KeyedBy
<1>3. PreviewType
  BY <1>1, <1>2 DEF PreviewInit, PreviewType
<1>4. PreviewIsOfSelected /\ InFlightIsOutstanding
  BY DEF PreviewInit, PreviewIsOfSelected, InFlightIsOutstanding
<1>5. QED
  BY <1>3, <1>4 DEF PreviewInv

LEMMA PreviewInvNext ==
  PreviewInv /\ [PreviewNext]_previewVars => PreviewInv'
<1> SUFFICES ASSUME PreviewInv, [PreviewNext]_previewVars PROVE PreviewInv'
  OBVIOUS
<1>1. ASSUME NEW t \in Choice, Select(t) \/ ApplyRefresh(t)
      PROVE  PreviewInv'
  BY <1>1, SelectKeeps DEF Select, ApplyRefresh
<1>2. CASE NextFetch
  BY <1>2, FetchKeeps
<1>3. CASE ToggleDetails
  BY <1>3, ToggleKeeps
<1>4. ASSUME NEW f \in asks, Work(f) \/ HandleLog(f) \/ HandlePane(f)
      PROVE  PreviewInv'
  BY <1>4, WorkKeeps, HandleLogKeeps, HandlePaneKeeps
<1>5. CASE UNCHANGED previewVars
  BY <1>5 DEF PreviewInv, PreviewType, PreviewIsOfSelected, InFlightIsOutstanding,
              KeyedBy, Answers, CachedPane, CachedLog, previewVars
<1>6. QED
  BY <1>1, <1>2, <1>3, <1>4, <1>5 DEF PreviewNext

-------------------------------------------------------------------------------
\* The inductive invariant: caches, screen and reader have what their keys say, and
\* nothing is newer than the last ask.
THEOREM PreviewInvariant == PreviewSpec => []PreviewInv
BY PreviewInvInit, PreviewInvNext, PTL DEF PreviewSpec

\* What is shown is the selected session's, in the selected style, for any number of
\* answers in any order.
THEOREM PreviewIsAlwaysOfSelected == PreviewSpec => []PreviewIsOfSelected
<1>1. PreviewInv => PreviewIsOfSelected
  BY DEF PreviewInv
<1>2. QED
  BY <1>1, PreviewInvariant, PTL

\* The preview never waits for an answer that does not come.
THEOREM InFlightIsAlwaysOutstanding == PreviewSpec => []InFlightIsOutstanding
<1>1. PreviewInv => InFlightIsOutstanding
  BY DEF PreviewInv
<1>2. QED
  BY <1>1, PreviewInvariant, PTL

\* A selected log's content neither disappears nor goes back to an older answer.
THEOREM LogPreviewIsAlwaysSteady == PreviewSpec => LogPreviewIsSteady
<1> DEFINE Kept == chosen.log # Nothing /\ chosen'.log = chosen.log /\ details' = details
                   /\ shown # Nothing
           Steady == shown' # Nothing /\ shown'.gen >= shown.gen
<1>1. ASSUME PreviewInv, PreviewNext, Kept
      PROVE  Steady
  <2>1. /\ shown \in Contents /\ shown.gen <= asked /\ shown.gen \in Nat
        /\ asked \in Nat /\ inFlight \in {0, asked} /\ chosen \in Choice
    BY <1>1 DEF PreviewInv, PreviewType, Contents
  <2>2. CASE shown' = shown
    BY <1>1, <2>1, <2>2
  <2>3. ASSUME NEW t \in Choice, Select(t) \/ ApplyRefresh(t)
        PROVE  shown' = shown
    BY <1>1, <2>3 DEF Select, ApplyRefresh, UpdateSelection
  <2>4. ASSUME NEW f \in asks, HandleLog(f), shown' # shown
        PROVE  Steady
    <3>1. shown' = f.content /\ inFlight = f.gen /\ f.of \in Log /\ f.done
      BY <2>4 DEF HandleLog
    <3>2. f \in Asks /\ f.content = Content(f.of, f.details, f.gen)
      BY <1>1, <3>1 DEF PreviewInv, PreviewType, Answers
    <3>3. f.content \in Contents /\ f.content.gen = f.gen /\ f.gen # 0 /\ f.gen \in Nat
      BY <3>2 DEF Asks, Content, Contents
    <3>4. QED
      BY <2>1, <3>1, <3>3, PreviewConstants DEF Contents
  <2>5. ASSUME NEW f \in asks, HandlePane(f)
        PROVE  shown' = shown
    BY <1>1, <2>1, <2>5, ChoiceFacts DEF HandlePane
  <2>6. CASE NextFetch
    BY <2>2, <2>6 DEF NextFetch
  <2>7. ASSUME NEW f \in asks, Work(f)
        PROVE  shown' = shown
    BY <2>7 DEF Work
  <2>8. ~ToggleDetails
    BY <1>1 DEF ToggleDetails, PreviewInv, PreviewType
  <2>9. QED
    BY <1>1, <2>2, <2>3, <2>4, <2>5, <2>6, <2>7, <2>8 DEF PreviewNext
<1>2. ASSUME PreviewInv, [PreviewNext]_previewVars
      PROVE  [Kept => Steady]_previewVars
  BY <1>1, <1>2
<1>3. QED
  BY <1>2, PreviewInvariant, PTL DEF PreviewSpec, LogPreviewIsSteady
===============================================================================
